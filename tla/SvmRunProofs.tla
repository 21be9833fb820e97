---------------------------- MODULE SvmRunProofs ----------------------------
(***************************************************************************)
(* The safety properties of SvmRun, for any number of signals, NMI         *)
(* requests and system calls, and whatever the runtime blocks.             *)
(***************************************************************************)
EXTENDS SvmRun, TLAPS

(* The types of the fields of svm, its VMCB and the guest.                 *)
RecordsOK ==
  /\ svm \in [nmi_request : BOOLEAN, nmi_pending : BOOLEAN,
              bounce_pending : BOOLEAN, event_inj : Events, vintr : BOOLEAN,
              nmi_mask : BOOLEAN]
  /\ guest \in [rflags_if : BOOLEAN, shadow : BOOLEAN, inflight : Events,
                in_nmi : BOOLEAN]

(* An event is in delivery only in the guest, where event_inj is empty.    *)
SlotInv ==
  /\ guest.inflight # "none" => pc = "guest"
  /\ pc = "guest" => svm.event_inj = "none"

(* What was tested when event_inj was filled still holds: the guest has    *)
(* not run since, or an interrupted delivery has put the event back.       *)
LegalInv ==
  /\ svm.event_inj # "none" => ~guest.shadow
  /\ svm.event_inj = "bounce" => guest.rflags_if
  /\ guest.inflight # "none" => ~guest.shadow
  /\ guest.inflight = "bounce" => guest.rflags_if

(* From the injection on, a bounce is not pending and in event_inj at once. *)
OnceInv ==
  /\ pc \in {"ready", "armed"} /\ svm.event_inj = "bounce" => ~svm.bounce_pending
  /\ guest.inflight = "bounce" => ~svm.bounce_pending

(* HF_NMI_MASK covers an NMI from its injection to its IRET, and one that  *)
(* is to be injected finds the guest outside its handler.                  *)
MaskInv ==
  /\ guest.in_nmi \/ "nmi" \in {svm.event_inj, guest.inflight} => svm.nmi_mask
  /\ "nmi" \in {svm.event_inj, guest.inflight} => ~guest.in_nmi
  /\ pc = "dispatch" /\ reason = "IRET" => svm.event_inj = "none" /\ ~guest.in_nmi

EventInv == RecordsOK /\ SlotInv /\ LegalInv /\ OnceInv /\ MaskInv /\ NoSpuriousEvent

(* What svm_launch returns, and what ends its loop.                        *)
Codes == {"0", "EINVAL", "fault", "EINTR"}
Causes == {"none", "shutdown", "signal", "nmi", "seccomp", "NPF", "HLT", "MSR",
           "SHUTDOWN", "ERR", "UNHANDLED"}

(* The status explains the end of the loop from the moment it is decided.  *)
ResultInv ==
  /\ out \in [status : Statuses, conf_status : Statuses, r : Codes, why : Causes]
  /\ pc = "leave" /\ out.why \in DOMAIN Explained => out.status = Explained[out.why]
  /\ ExitIsExplained

RunInv == EventInv /\ ResultInv /\ GuestNeverSeesRestart

(* What the table Explained holds.                                         *)
LEMMA ExplainedFacts ==
  /\ DOMAIN Explained = {"signal", "HLT", "SHUTDOWN", "ERR", "UNHANDLED"}
  /\ Explained["signal"] = "INTR" /\ Explained["HLT"] = "HLT"
  /\ Explained["SHUTDOWN"] = "FAIL_ENTRY" /\ Explained["ERR"] = "FAIL_ENTRY"
  /\ Explained["UNHANDLED"] = "UNHANDLED_VMEXIT"
  BY Zenon DEF Explained

(* A loop that ends for a cause with its status is explained.              *)
LEMMA LeaveStep ==
  ASSUME ResultInv, NEW cause \in Causes, NEW st \in Statuses, LeaveFor(cause, st),
         cause \in DOMAIN Explained => st = Explained[cause]
  PROVE  ResultInv'
<1>1. /\ out' \in [status : Statuses, conf_status : Statuses, r : Codes, why : Causes]
      /\ out'.why = cause /\ out'.status = st /\ pc' = "leave"
  BY Zenon DEF ResultInv, LeaveFor
<1> QED
  BY Zenon, <1>1 DEF ResultInv, ExitIsExplained, Explained

(* So is one that goes on, or ends because of a shutdown.                  *)
LEMMA ContinueStep ==
  ASSUME ResultInv, Continue
  PROVE  ResultInv'
<1>1. CASE shutdown
  <2>1. LeaveFor("shutdown", out.status)
    BY Zenon, <1>1 DEF Continue
  <2>2. out.status \in Statuses /\ "shutdown" \in Causes /\ "shutdown" \notin DOMAIN Explained
    BY Zenon, ExplainedFacts DEF ResultInv, Causes
  <2> QED
    BY Zenon, <2>1, <2>2, LeaveStep
<1>2. CASE ~shutdown
  BY Zenon, <1>2 DEF Continue, ResultInv, ExitIsExplained, Explained
<1> QED
  BY Zenon, <1>1, <1>2

(* Steps that touch neither an event nor the guest keep all of it.         *)
LEMMA QuietStep ==
  ASSUME EventInv, UNCHANGED <<svm, guest, owed>>,
         pc' = pc \/ (pc # "guest" /\ pc' # "guest"),
         pc' \in {"ready", "armed"} => pc \in {"ready", "armed"},
         pc' = "dispatch" /\ reason' = "IRET" => pc = "dispatch" /\ reason = "IRET"
  PROVE  EventInv'
<1>1. RecordsOK'
  BY Zenon DEF EventInv, RecordsOK
<1>2. SlotInv'
  BY Zenon DEF EventInv, SlotInv
<1>3. LegalInv'
  BY Zenon DEF EventInv, LegalInv
<1>4. OnceInv'
  BY Zenon DEF EventInv, OnceInv
<1>5. MaskInv'
  BY Zenon DEF EventInv, MaskInv
<1>6. NoSpuriousEvent'
  BY Zenon DEF EventInv, NoSpuriousEvent
<1> QED
  BY Zenon, <1>1, <1>2, <1>3, <1>4, <1>5, <1>6 DEF EventInv

(* One step keeps the events legal, unmasked, unique and asked for.         *)
LEMMA EventStep ==
  ASSUME EventInv, [Next]_vars
  PROVE  EventInv'
<1>1. ASSUME NEW s \in Signals, SendSignal(s) PROVE EventInv'
  BY Zenon, <1>1, QuietStep DEF SendSignal
<1>2. ASSUME NEW s \in Signals, TakeSignal(s) PROVE EventInv'
  BY Zenon, <1>2, QuietStep DEF TakeSignal
<1>3. CASE InjectNmi
  <2>1. RecordsOK'
    BY Zenon, <1>3 DEF InjectNmi, EventInv, RecordsOK, Events
  <2>2. /\ UNCHANGED <<pc, reason>> /\ svm'.nmi_request
        /\ svm'.nmi_pending = svm.nmi_pending
        /\ svm'.bounce_pending = svm.bounce_pending /\ svm'.event_inj = svm.event_inj
        /\ svm'.nmi_mask = svm.nmi_mask /\ guest' = guest /\ owed' = owed \cup {"nmi"}
    BY <1>3 DEF InjectNmi, EventInv, RecordsOK
  <2>3. SlotInv'
    BY Zenon, <2>2 DEF EventInv, SlotInv
  <2>4. LegalInv'
    BY Zenon, <2>2 DEF EventInv, SlotInv, LegalInv
  <2>5. OnceInv'
    BY Zenon, <2>2 DEF EventInv, SlotInv, OnceInv
  <2>6. MaskInv'
    BY Zenon, <2>2 DEF EventInv, SlotInv, MaskInv
  <2>7. NoSpuriousEvent'
    BY Zenon, <2>2 DEF EventInv, SlotInv, OnceInv, NoSpuriousEvent
  <2> QED
    BY Zenon, <2>1, <2>3, <2>4, <2>5, <2>6, <2>7 DEF EventInv
<1>4. CASE Shutdown
  BY Zenon, <1>4, QuietStep DEF Shutdown
<1>5. CASE Run
  BY Zenon, <1>5, QuietStep DEF Run
<1>6. CASE Prepare
  <2>1. /\ pc = "prepare" /\ pc' \in {"leave", "prepared"} /\ UNCHANGED <<guest, reason>>
        /\ \/ UNCHANGED <<svm, owed>>
           \/ /\ svm' = svm_signal_handler
              /\ owed' = IF TakesBounce THEN owed \cup {"bounce"} ELSE owed
    BY Zenon, <1>6 DEF Prepare, LeaveFor
  <2>2. CASE UNCHANGED <<svm, owed>>
    BY Zenon, <2>1, <2>2, QuietStep
  <2>3. CASE svm' = svm_signal_handler /\ owed' = IF TakesBounce THEN owed \cup {"bounce"} ELSE owed
    <3>1. TakesBounce \in BOOLEAN
      BY Zenon DEF TakesBounce
    <3>2. /\ svm' \in [nmi_request : BOOLEAN, nmi_pending : BOOLEAN, bounce_pending : BOOLEAN,
                   event_inj : Events, vintr : BOOLEAN, nmi_mask : BOOLEAN]
          /\ svm'.event_inj = svm.event_inj /\ svm'.nmi_mask = svm.nmi_mask
          /\ svm'.nmi_request = svm.nmi_request /\ svm'.nmi_pending = svm.nmi_pending
          /\ svm'.bounce_pending = (svm.bounce_pending \/ TakesBounce)
      BY <2>3, <3>1 DEF svm_signal_handler, EventInv, RecordsOK
    <3>3. RecordsOK'
      BY Zenon, <2>1, <2>3, <3>2 DEF EventInv, RecordsOK
    <3>4. SlotInv'
      BY Zenon, <2>1, <2>3, <3>2 DEF EventInv, RecordsOK, SlotInv
    <3>5. LegalInv'
      BY Zenon, <2>1, <2>3, <3>2 DEF EventInv, RecordsOK, SlotInv, LegalInv
    <3>6. OnceInv'
      BY Zenon, <2>1, <2>3, <3>2 DEF EventInv, RecordsOK, SlotInv, OnceInv
    <3>7. MaskInv'
      BY Zenon, <2>1, <2>3, <3>2 DEF EventInv, RecordsOK, SlotInv, MaskInv
    <3>8. NoSpuriousEvent'
      BY Zenon, <2>1, <2>3, <3>2 DEF EventInv, RecordsOK, SlotInv, OnceInv, NoSpuriousEvent
    <3> QED
      BY Zenon, <3>3, <3>4, <3>5, <3>6, <3>7, <3>8 DEF EventInv
  <2> QED
    BY Zenon, <2>1, <2>2, <2>3
<1>7. CASE ProcessRequests
  <2>1. RecordsOK'
    BY Zenon, <1>7 DEF ProcessRequests, EventInv, RecordsOK, Events
  <2>2. /\ pc = "prepared" /\ pc' = "loaded" /\ ~svm'.nmi_request
        /\ svm'.nmi_pending = (svm.nmi_pending \/ svm.nmi_request)
        /\ svm'.bounce_pending = svm.bounce_pending /\ svm'.event_inj = svm.event_inj
        /\ svm'.nmi_mask = svm.nmi_mask /\ guest' = guest /\ UNCHANGED owed
    BY <1>7 DEF ProcessRequests, EventInv, RecordsOK
  <2>3. SlotInv'
    BY Zenon, <2>2 DEF EventInv, SlotInv
  <2>4. LegalInv'
    BY Zenon, <2>2 DEF EventInv, SlotInv, LegalInv
  <2>5. OnceInv'
    BY Zenon, <2>2 DEF EventInv, SlotInv, OnceInv
  <2>6. MaskInv'
    BY Zenon, <2>2 DEF EventInv, SlotInv, MaskInv
  <2>7. NoSpuriousEvent'
    BY Zenon, <2>2 DEF EventInv, SlotInv, OnceInv, NoSpuriousEvent
  <2> QED
    BY Zenon, <2>1, <2>3, <2>4, <2>5, <2>6, <2>7 DEF EventInv
<1>8. CASE InjectEvents
  <2> DEFINE b == IF svm.bounce_pending THEN svm_inject_bounce(svm) ELSE svm
  <2>1. /\ pc = "loaded" /\ pc' \in {"leave", "ready"} /\ UNCHANGED <<guest, reason, owed>>
        /\ svm' = b \/ (svm.nmi_pending /\ ~guest.shadow /\ svm' = svm_inject_nmi(b))
    BY Zenon, <1>8 DEF InjectEvents, svm_nmi_allowed
  <2>2. /\ b \in [nmi_request : BOOLEAN, nmi_pending : BOOLEAN, bounce_pending : BOOLEAN,
                     event_inj : Events, vintr : BOOLEAN, nmi_mask : BOOLEAN]
        /\ b.nmi_request = svm.nmi_request /\ b.nmi_pending = svm.nmi_pending
        /\ b.nmi_mask = svm.nmi_mask
        /\ \/ /\ b.event_inj = svm.event_inj /\ b.bounce_pending = svm.bounce_pending
              /\ svm.bounce_pending => svm.event_inj # "bounce"
           \/ /\ svm.bounce_pending /\ ~b.bounce_pending /\ b.event_inj = "bounce"
              /\ guest.rflags_if /\ ~guest.shadow
    BY Zenon
    DEF svm_inject_bounce, svm_interrupt_allowed, EventInv, RecordsOK, LegalInv, Events
  <2> HIDE DEF b
  <2>3. CASE svm' = b
    <3>1. RecordsOK'
      BY Zenon, <2>1, <2>2, <2>3 DEF EventInv, RecordsOK
    <3>2. SlotInv'
      BY Zenon, <2>1, <2>2, <2>3 DEF EventInv, RecordsOK, SlotInv
    <3>3. LegalInv'
      BY Zenon, <2>1, <2>2, <2>3 DEF EventInv, RecordsOK, SlotInv, LegalInv
    <3>4. OnceInv'
      BY Zenon, <2>1, <2>2, <2>3 DEF EventInv, RecordsOK, SlotInv, OnceInv
    <3>5. MaskInv'
      BY Zenon, <2>1, <2>2, <2>3 DEF EventInv, RecordsOK, SlotInv, MaskInv
    <3>6. NoSpuriousEvent'
      BY Zenon, <2>1, <2>2, <2>3 DEF EventInv, RecordsOK, SlotInv, OnceInv, NoSpuriousEvent
    <3> QED
      BY Zenon, <3>1, <3>2, <3>3, <3>4, <3>5, <3>6 DEF EventInv
  <2>4. CASE svm.nmi_pending /\ ~guest.shadow /\ svm' = svm_inject_nmi(b)
    <3>1. CASE b.nmi_mask
      BY Zenon, <2>3, <2>4, <3>1 DEF svm_inject_nmi
    <3>2. CASE ~b.nmi_mask
      <4>1. /\ svm' \in [nmi_request : BOOLEAN, nmi_pending : BOOLEAN, bounce_pending : BOOLEAN,
                     event_inj : Events, vintr : BOOLEAN, nmi_mask : BOOLEAN]
            /\ svm'.nmi_request = svm.nmi_request /\ ~svm'.nmi_pending /\ svm'.nmi_mask
            /\ svm'.event_inj = "nmi" /\ svm'.bounce_pending = b.bounce_pending
        BY Zenon, <2>2, <2>4, <3>2 DEF svm_inject_nmi, Events
      <4>2. RecordsOK'
        BY Zenon, <2>1, <2>2, <2>4, <3>2, <4>1 DEF EventInv, RecordsOK
      <4>3. SlotInv'
        BY Zenon, <2>1, <2>2, <2>4, <3>2, <4>1 DEF EventInv, RecordsOK, SlotInv
      <4>4. LegalInv'
        BY Zenon, <2>1, <2>2, <2>4, <3>2, <4>1 DEF EventInv, RecordsOK, SlotInv, LegalInv
      <4>5. OnceInv'
        BY Zenon, <2>1, <2>2, <2>4, <3>2, <4>1 DEF EventInv, RecordsOK, SlotInv, OnceInv
      <4>6. MaskInv'
        BY Zenon, <2>1, <2>2, <2>4, <3>2, <4>1 DEF EventInv, RecordsOK, SlotInv, MaskInv
      <4>7. NoSpuriousEvent'
        BY Zenon, <2>1, <2>2, <2>4, <3>2, <4>1
        DEF EventInv, RecordsOK, SlotInv, OnceInv, NoSpuriousEvent
      <4> QED
        BY Zenon, <4>2, <4>3, <4>4, <4>5, <4>6, <4>7 DEF EventInv
    <3> QED
      BY Zenon, <3>1, <3>2
  <2> QED
    BY Zenon, <2>1, <2>3, <2>4
<1>9. CASE ArmEntry
  BY Zenon, <1>9, QuietStep DEF ArmEntry
<1>10. CASE AbortEntry
  BY Zenon, <1>10, QuietStep DEF AbortEntry
<1>11. CASE EntryFails
  BY Zenon, <1>11, QuietStep DEF EntryFails
<1>12. CASE Leave
  BY Zenon, <1>12, QuietStep DEF Leave
<1>13. ASSUME NEW nr \in {"futex", "nr"}, NEW raw \in Results, Vmmcall(nr, raw) PROVE EventInv'
  BY Zenon, <1>13, QuietStep DEF Vmmcall, Dispatched, Continue, LeaveFor
<1>14. CASE VmmcallRefused
  BY Zenon, <1>14, QuietStep DEF VmmcallRefused, Dispatched, LeaveFor
<1>15. CASE ViolationFails
  BY Zenon, <1>15, QuietStep DEF ViolationFails, Dispatched
<1>16. CASE IretExit
  <2>1. RecordsOK'
    BY Zenon, <1>16
    DEF IretExit, iret_interception, Dispatched, Continue, LeaveFor, EventInv, RecordsOK, Events
  <2>2. /\ pc = "dispatch" /\ reason = "IRET" /\ pc' \in {"leave", "prepare"}
        /\ ~svm'.nmi_mask /\ svm'.nmi_request = svm.nmi_request
        /\ svm'.nmi_pending = svm.nmi_pending
        /\ svm'.bounce_pending = svm.bounce_pending /\ svm'.event_inj = svm.event_inj
        /\ guest' = guest /\ UNCHANGED owed
    BY <1>16
    DEF IretExit, iret_interception, Dispatched, Continue, LeaveFor, EventInv, RecordsOK
  <2>3. SlotInv'
    BY Zenon, <2>2 DEF EventInv, SlotInv
  <2>4. LegalInv'
    BY Zenon, <2>2 DEF EventInv, SlotInv, LegalInv
  <2>5. OnceInv'
    BY Zenon, <2>2 DEF EventInv, SlotInv, OnceInv
  <2>6. MaskInv'
    BY Zenon, <2>2 DEF EventInv, SlotInv, MaskInv
  <2>7. NoSpuriousEvent'
    BY Zenon, <2>2 DEF EventInv, SlotInv, OnceInv, NoSpuriousEvent
  <2> QED
    BY Zenon, <2>1, <2>3, <2>4, <2>5, <2>6, <2>7 DEF EventInv
<1>17. CASE VintrExit
  <2>1. RecordsOK'
    BY Zenon, <1>17
    DEF VintrExit, Dispatched, Continue, LeaveFor, EventInv, RecordsOK, Events
  <2>2. /\ pc = "dispatch" /\ pc' \in {"leave", "prepare"}
        /\ svm'.nmi_request = svm.nmi_request /\ svm'.nmi_pending = svm.nmi_pending
        /\ svm'.bounce_pending = svm.bounce_pending /\ svm'.event_inj = svm.event_inj
        /\ svm'.nmi_mask = svm.nmi_mask /\ guest' = guest /\ UNCHANGED owed
    BY <1>17 DEF VintrExit, Dispatched, Continue, LeaveFor, EventInv, RecordsOK
  <2>3. SlotInv'
    BY Zenon, <2>2 DEF EventInv, SlotInv
  <2>4. LegalInv'
    BY Zenon, <2>2 DEF EventInv, SlotInv, LegalInv
  <2>5. OnceInv'
    BY Zenon, <2>2 DEF EventInv, SlotInv, OnceInv
  <2>6. MaskInv'
    BY Zenon, <2>2 DEF EventInv, SlotInv, MaskInv
  <2>7. NoSpuriousEvent'
    BY Zenon, <2>2 DEF EventInv, SlotInv, OnceInv, NoSpuriousEvent
  <2> QED
    BY Zenon, <2>1, <2>3, <2>4, <2>5, <2>6, <2>7 DEF EventInv
<1>18. ASSUME NEW e \in DOMAIN FinalStatus, FinalExit(e) PROVE EventInv'
  <2>1. RecordsOK'
    BY Zenon, <1>18 DEF FinalExit, Dispatched, LeaveFor, EventInv, RecordsOK, Events
  <2>2. /\ pc = "dispatch" /\ pc' = "leave" /\ svm' = svm
        /\ (guest'.shadow => guest.shadow) /\ guest'.rflags_if = guest.rflags_if
        /\ guest'.inflight = guest.inflight /\ guest'.in_nmi = guest.in_nmi
        /\ UNCHANGED owed
    BY <1>18 DEF FinalExit, Dispatched, LeaveFor, EventInv, RecordsOK
  <2>3. SlotInv'
    BY Zenon, <2>2 DEF EventInv, SlotInv
  <2>4. LegalInv'
    BY Zenon, <2>2 DEF EventInv, SlotInv, LegalInv
  <2>5. OnceInv'
    BY Zenon, <2>2 DEF EventInv, SlotInv, OnceInv
  <2>6. MaskInv'
    BY Zenon, <2>2 DEF EventInv, SlotInv, MaskInv
  <2>7. NoSpuriousEvent'
    BY Zenon, <2>2 DEF EventInv, SlotInv, OnceInv, NoSpuriousEvent
  <2> QED
    BY Zenon, <2>1, <2>3, <2>4, <2>5, <2>6, <2>7 DEF EventInv
<1>19. ASSUME NEW e \in PlainExits, PlainExit(e) PROVE EventInv'
  BY Zenon, <1>19, QuietStep DEF PlainExit, Dispatched, Continue, LeaveFor
<1>20. CASE EnterGuest
  <2>1. RecordsOK'
    BY <1>20 DEF EnterGuest, EventInv, RecordsOK, Events
  <2>2. /\ pc = "armed" /\ pc' = "guest" /\ svm'.event_inj = "none"
        /\ svm'.nmi_request = svm.nmi_request /\ svm'.nmi_pending = svm.nmi_pending
        /\ svm'.bounce_pending = svm.bounce_pending /\ svm'.nmi_mask = svm.nmi_mask
        /\ guest'.inflight = svm.event_inj /\ guest'.rflags_if = guest.rflags_if
        /\ guest'.shadow = guest.shadow /\ guest'.in_nmi = guest.in_nmi
        /\ UNCHANGED owed
    BY <1>20 DEF EnterGuest, EventInv, RecordsOK
  <2>3. SlotInv'
    BY Zenon, <2>2 DEF EventInv, SlotInv
  <2>4. LegalInv'
    BY Zenon, <2>2 DEF EventInv, SlotInv, LegalInv
  <2>5. OnceInv'
    BY Zenon, <2>2 DEF EventInv, SlotInv, OnceInv
  <2>6. MaskInv'
    BY Zenon, <2>2 DEF EventInv, SlotInv, MaskInv
  <2>7. NoSpuriousEvent'
    BY Zenon, <2>2 DEF EventInv, SlotInv, OnceInv, NoSpuriousEvent
  <2> QED
    BY Zenon, <2>1, <2>3, <2>4, <2>5, <2>6, <2>7 DEF EventInv
<1>21. CASE Deliver
  <2>1. RecordsOK'
    BY ZenonT(30), <1>21 DEF Deliver, EventInv, RecordsOK, Events
  <2>2. /\ pc = "guest" /\ pc' = pc /\ svm' = svm /\ guest'.inflight = "none"
        /\ guest.inflight # "none"
        /\ (guest'.in_nmi => guest.in_nmi \/ guest.inflight = "nmi")
        /\ guest'.shadow = guest.shadow
        /\ owed' = owed \ (IF guest.inflight = "nmi" /\ (svm.nmi_request \/ svm.nmi_pending)
                         THEN {} ELSE {guest.inflight})
    BY <1>21 DEF Deliver, EventInv, RecordsOK
  <2>3. SlotInv'
    BY Zenon, <2>2 DEF EventInv, SlotInv
  <2>4. LegalInv'
    BY Zenon, <2>2 DEF EventInv, SlotInv, LegalInv
  <2>5. OnceInv'
    BY Zenon, <2>2 DEF EventInv, SlotInv, OnceInv
  <2>6. MaskInv'
    BY Zenon, <2>2 DEF EventInv, SlotInv, MaskInv
  <2>7. NoSpuriousEvent'
    BY Zenon, <2>2 DEF EventInv, SlotInv, OnceInv, NoSpuriousEvent
  <2> QED
    BY Zenon, <2>1, <2>3, <2>4, <2>5, <2>6, <2>7 DEF EventInv
<1>22. CASE GuestRuns
  <2>1. RecordsOK'
    BY ZenonT(30), <1>22 DEF GuestRuns, EventInv, RecordsOK, Events
  <2>2. /\ pc = "guest" /\ pc' = pc /\ guest.inflight = "none" /\ svm' = svm
        /\ guest'.inflight = "none" /\ guest'.in_nmi = guest.in_nmi
        /\ UNCHANGED owed
    BY <1>22 DEF GuestRuns, EventInv, RecordsOK
  <2>3. SlotInv'
    BY Zenon, <2>2 DEF EventInv, SlotInv
  <2>4. LegalInv'
    BY Zenon, <2>2 DEF EventInv, SlotInv, LegalInv
  <2>5. OnceInv'
    BY Zenon, <2>2 DEF EventInv, SlotInv, OnceInv
  <2>6. MaskInv'
    BY Zenon, <2>2 DEF EventInv, SlotInv, MaskInv
  <2>7. NoSpuriousEvent'
    BY Zenon, <2>2 DEF EventInv, SlotInv, OnceInv, NoSpuriousEvent
  <2> QED
    BY Zenon, <2>1, <2>3, <2>4, <2>5, <2>6, <2>7 DEF EventInv
<1>23. ASSUME NEW e \in Exits, ExitGuest(e) PROVE EventInv'
  <2>1. RecordsOK'
    BY Zenon, <1>23 DEF ExitGuest, svm_handle_interrupt_events, EventInv, RecordsOK, Events
  <2>2. /\ pc = "guest" /\ pc' = "dispatch" /\ reason' = e
        /\ svm'.event_inj = guest.inflight /\ svm'.nmi_request = svm.nmi_request
        /\ svm'.nmi_pending = svm.nmi_pending
        /\ svm'.bounce_pending = svm.bounce_pending /\ svm'.nmi_mask = svm.nmi_mask
        /\ guest'.inflight = "none" /\ (guest'.in_nmi => guest.in_nmi /\ e # "IRET")
        /\ guest'.rflags_if = guest.rflags_if /\ guest'.shadow = guest.shadow
        /\ UNCHANGED owed
        /\ e = "IRET" => guest.inflight = "none"
    BY Zenon, <1>23 DEF ExitGuest, svm_handle_interrupt_events, EventInv, RecordsOK
  <2>3. SlotInv'
    BY Zenon, <2>2 DEF EventInv, SlotInv
  <2>4. LegalInv'
    BY Zenon, <2>2 DEF EventInv, SlotInv, LegalInv
  <2>5. OnceInv'
    BY Zenon, <2>2 DEF EventInv, SlotInv, OnceInv
  <2>6. MaskInv'
    BY Zenon, <2>2 DEF EventInv, SlotInv, MaskInv
  <2>7. NoSpuriousEvent'
    BY Zenon, <2>2 DEF EventInv, SlotInv, OnceInv, NoSpuriousEvent
  <2> QED
    BY Zenon, <2>1, <2>3, <2>4, <2>5, <2>6, <2>7 DEF EventInv
<1>24. CASE UNCHANGED vars
  BY Zenon, <1>24, QuietStep DEF vars
<1> QED
  BY Zenon, <1>1, <1>2, <1>3, <1>4, <1>5, <1>6, <1>7, <1>8, <1>9, <1>10, <1>11, <1>12,
     <1>13, <1>14, <1>15, <1>16, <1>17, <1>18, <1>19, <1>20, <1>21, <1>22, <1>23, <1>24
  DEF Next, ThreadStep

(* One step keeps the status in agreement with what ended the loop.         *)
LEMMA ResultStep ==
  ASSUME ResultInv, [Next]_vars
  PROVE  ResultInv'
<1>1. ASSUME NEW s \in Signals, SendSignal(s) PROVE ResultInv'
  BY Zenon, <1>1 DEF SendSignal, ResultInv, ExitIsExplained, Explained
<1>2. ASSUME NEW s \in Signals, TakeSignal(s) PROVE ResultInv'
  BY Zenon, <1>2 DEF TakeSignal, ResultInv, ExitIsExplained, Explained
<1>3. CASE InjectNmi
  BY Zenon, <1>3 DEF InjectNmi, ResultInv, ExitIsExplained, Explained
<1>4. CASE Shutdown
  BY Zenon, <1>4 DEF Shutdown, ResultInv, ExitIsExplained, Explained
<1>5. CASE Run
  <2>1. /\ out' \in [status : Statuses, conf_status : Statuses, r : Codes, why : Causes]
        /\ pc' = "prepare"
    BY Zenon, <1>5 DEF Run, ResultInv, Codes, Causes
  <2> QED
    BY Zenon, <2>1 DEF ResultInv, ExitIsExplained
<1>6. CASE Prepare
  <2>1. \/ LeaveFor("shutdown", out.status) \/ LeaveFor("signal", "INTR")
        \/ pc' = "prepared" /\ UNCHANGED out
    BY Zenon, <1>6 DEF Prepare
  <2>2. out.status \in Statuses /\ {"shutdown", "signal"} \subseteq Causes /\ "INTR" \in Statuses
    BY Zenon DEF ResultInv, Causes, Statuses
  <2>3. CASE pc' = "prepared" /\ UNCHANGED out
    BY Zenon, <2>3 DEF ResultInv, ExitIsExplained
  <2> QED
    BY Zenon, <2>1, <2>2, <2>3, LeaveStep, ExplainedFacts
<1>7. CASE ProcessRequests
  BY Zenon, <1>7 DEF ProcessRequests, ResultInv, ExitIsExplained, Explained
<1>8. CASE InjectEvents
  <2>1. CASE pc' = "ready" /\ UNCHANGED out
    BY Zenon, <2>1 DEF ResultInv, ExitIsExplained
  <2>2. CASE pc' = "leave" /\ out' = [out EXCEPT !.why = "nmi", !.r = "EINVAL"]
    <3>1. /\ out' \in [status : Statuses, conf_status : Statuses, r : Codes, why : Causes]
          /\ out'.why = "nmi"
      BY Zenon, <2>2 DEF ResultInv, Codes, Causes
    <3> QED
      BY Zenon, <3>1, <2>2, ExplainedFacts DEF ResultInv, ExitIsExplained
  <2> QED
    BY Zenon, <1>8, <2>1, <2>2 DEF InjectEvents
<1>9. CASE ArmEntry
  BY Zenon, <1>9 DEF ArmEntry, ResultInv, ExitIsExplained, Explained
<1>10. CASE AbortEntry
  BY Zenon, <1>10 DEF AbortEntry, ResultInv, ExitIsExplained, Explained
<1>11. CASE EntryFails
  BY Zenon, <1>11 DEF EntryFails, ResultInv, ExitIsExplained, Explained
<1>12. CASE Leave
  <2>1. PICK code \in Codes :
          out' = [out EXCEPT !.r = code, !.conf_status = IF code = "0" THEN out.status ELSE @]
    BY Zenon, <1>12 DEF Leave, ResultInv, Codes
  <2>2. /\ out' \in [status : Statuses, conf_status : Statuses, r : Codes, why : Causes]
        /\ out'.why = out.why /\ (out'.r = "0" => out'.conf_status = out.status)
    BY Zenon, <2>1 DEF ResultInv
  <2>3. pc = "leave" /\ pc' = "user"
    BY Zenon, <1>12 DEF Leave
  <2> QED
    BY Zenon, <2>2, <2>3 DEF ResultInv, ExitIsExplained, Explained
<1>13. ASSUME NEW nr \in {"futex", "nr"}, NEW raw \in Results, Vmmcall(nr, raw)
       PROVE  ResultInv'
  BY Zenon, <1>13, ContinueStep DEF Vmmcall
<1>14. CASE VmmcallRefused
  <2>1. LeaveFor("seccomp", out.status) /\ out.status \in Statuses /\ "seccomp" \in Causes
    BY Zenon, <1>14 DEF VmmcallRefused, ResultInv, Statuses, Causes
  <2> QED
    BY Zenon, <2>1, LeaveStep, ExplainedFacts
<1>15. CASE ViolationFails
  <2>1. /\ out' \in [status : Statuses, conf_status : Statuses, r : Codes, why : Causes]
        /\ out'.why = "NPF" /\ pc' = "leave"
    BY ZenonT(30), <1>15 DEF ViolationFails, ResultInv, Codes, Causes, Statuses
  <2> QED
    BY Zenon, <2>1, ExplainedFacts DEF ResultInv, ExitIsExplained
<1>16. CASE IretExit
  BY Zenon, <1>16, ContinueStep DEF IretExit
<1>17. CASE VintrExit
  BY Zenon, <1>17, ContinueStep DEF VintrExit
<1>18. ASSUME NEW e \in DOMAIN FinalStatus, FinalExit(e) PROVE ResultInv'
  <2>1. /\ LeaveFor(e, FinalStatus[e]) /\ e \in Causes /\ FinalStatus[e] \in Statuses
        /\ e \in DOMAIN Explained => FinalStatus[e] = Explained[e]
    BY <1>18 DEF FinalExit, FinalStatus, Explained, ResultInv, Causes, Statuses
  <2> QED
    BY Zenon, <2>1, LeaveStep
<1>19. ASSUME NEW e \in PlainExits, PlainExit(e) PROVE ResultInv'
  BY Zenon, <1>19, ContinueStep DEF PlainExit
<1>20. CASE EnterGuest
  BY Zenon, <1>20 DEF EnterGuest, ResultInv, ExitIsExplained, Explained
<1>21. CASE Deliver
  BY Zenon, <1>21 DEF Deliver, ResultInv, ExitIsExplained, Explained
<1>22. CASE GuestRuns
  BY Zenon, <1>22 DEF GuestRuns, ResultInv, ExitIsExplained, Explained
<1>23. ASSUME NEW e \in Exits, ExitGuest(e) PROVE ResultInv'
  BY Zenon, <1>23 DEF ExitGuest, ResultInv, ExitIsExplained, Explained
<1>24. CASE UNCHANGED vars
  BY Zenon, <1>24 DEF vars, ResultInv, ExitIsExplained
<1> QED
  BY Zenon, <1>1, <1>2, <1>3, <1>4, <1>5, <1>6, <1>7, <1>8, <1>9, <1>10, <1>11, <1>12,
     <1>13, <1>14, <1>15, <1>16, <1>17, <1>18, <1>19, <1>20, <1>21, <1>22, <1>23, <1>24
  DEF Next, ThreadStep

(* One step keeps restart codes from the guest.                            *)
LEMMA RestartStep ==
  ASSUME GuestNeverSeesRestart, [Next]_vars
  PROVE  GuestNeverSeesRestart'
<1> USE DEF GuestNeverSeesRestart
<1>1. ASSUME NEW s \in Signals, SendSignal(s) PROVE GuestNeverSeesRestart'
  BY Zenon, <1>1 DEF SendSignal
<1>2. ASSUME NEW s \in Signals, TakeSignal(s) PROVE GuestNeverSeesRestart'
  BY Zenon, <1>2 DEF TakeSignal
<1>3. CASE InjectNmi
  BY Zenon, <1>3 DEF InjectNmi
<1>4. CASE Shutdown
  BY Zenon, <1>4 DEF Shutdown
<1>5. CASE Run
  BY Zenon, <1>5 DEF Run
<1>6. CASE Prepare
  BY Zenon, <1>6 DEF Prepare
<1>7. CASE ProcessRequests
  BY Zenon, <1>7 DEF ProcessRequests
<1>8. CASE InjectEvents
  BY Zenon, <1>8 DEF InjectEvents
<1>9. CASE ArmEntry
  BY Zenon, <1>9 DEF ArmEntry
<1>10. CASE AbortEntry
  BY Zenon, <1>10 DEF AbortEntry
<1>11. CASE EntryFails
  BY Zenon, <1>11 DEF EntryFails
<1>12. CASE Leave
  BY Zenon, <1>12 DEF Leave
<1>13. ASSUME NEW nr \in {"futex", "nr"}, NEW raw \in Results, Vmmcall(nr, raw)
       PROVE  GuestNeverSeesRestart'
  BY Zenon, <1>13 DEF Vmmcall, SyscallResult, ERestart, Results
<1>14. CASE VmmcallRefused
  BY Zenon, <1>14 DEF VmmcallRefused
<1>15. CASE ViolationFails
  BY Zenon, <1>15 DEF ViolationFails
<1>16. CASE IretExit
  BY Zenon, <1>16 DEF IretExit
<1>17. CASE VintrExit
  BY Zenon, <1>17 DEF VintrExit
<1>18. ASSUME NEW e \in DOMAIN FinalStatus, FinalExit(e) PROVE GuestNeverSeesRestart'
  BY Zenon, <1>18 DEF FinalExit
<1>19. ASSUME NEW e \in PlainExits, PlainExit(e) PROVE GuestNeverSeesRestart'
  BY Zenon, <1>19 DEF PlainExit
<1>20. CASE EnterGuest
  BY Zenon, <1>20 DEF EnterGuest
<1>21. CASE Deliver
  BY Zenon, <1>21 DEF Deliver
<1>22. CASE GuestRuns
  BY Zenon, <1>22 DEF GuestRuns
<1>23. ASSUME NEW e \in Exits, ExitGuest(e) PROVE GuestNeverSeesRestart'
  BY Zenon, <1>23 DEF ExitGuest
<1>24. CASE UNCHANGED vars
  BY Zenon, <1>24 DEF vars
<1> QED
  BY Zenon, <1>1, <1>2, <1>3, <1>4, <1>5, <1>6, <1>7, <1>8, <1>9, <1>10, <1>11, <1>12,
     <1>13, <1>14, <1>15, <1>16, <1>17, <1>18, <1>19, <1>20, <1>21, <1>22, <1>23, <1>24
  DEF Next, ThreadStep

(* Only signals are sent, or only NMIs are requested, in a behaviour.      *)
OneKind == \A b \in Budgets : b.sent = 0 \/ b.nmis = 0

NoNmis ==
  /\ left.nmis = 0 /\ ~svm.nmi_request /\ ~svm.nmi_pending
  /\ "nmi" \notin {svm.event_inj, guest.inflight} \cup owed

NoBounces ==
  /\ left.sent = 0 /\ pending = {} /\ ~svm.bounce_pending
  /\ "bounce" \notin {svm.event_inj, guest.inflight} \cup owed

(* With one kind of event, event_inj is not needed for the other kind      *)
(* while an interrupted delivery waits in it.                              *)
KeptInv ==
  /\ left \in [sent : Nat, nmis : Nat, calls : Nat]
  /\ NoNmis \/ NoBounces
  /\ BounceNeverLost /\ NmiNeverLost

(* One step keeps every bounce and every NMI.                              *)
LEMMA KeptStep ==
  ASSUME EventInv, KeptInv, [Next]_vars
  PROVE  KeptInv'
<1> USE DEF KeptInv, NoNmis, NoBounces, BounceNeverLost, NmiNeverLost
<1>1. ASSUME NEW s \in Signals, SendSignal(s) PROVE KeptInv'
  BY <1>1 DEF EventInv, SendSignal, RecordsOK
<1>2. ASSUME NEW s \in Signals, TakeSignal(s) PROVE KeptInv'
  BY Zenon, <1>2 DEF EventInv, TakeSignal, RecordsOK
<1>3. CASE InjectNmi
  BY <1>3 DEF EventInv, InjectNmi, RecordsOK
<1>4. CASE Shutdown
  BY Zenon, <1>4 DEF EventInv, Shutdown, RecordsOK
<1>5. CASE Run
  BY Zenon, <1>5 DEF EventInv, Run, RecordsOK
<1>6. CASE Prepare
  BY ZenonT(30), <1>6 DEF EventInv, Prepare, LeaveFor, TakesBounce, svm_signal_handler, RecordsOK
<1>7. CASE ProcessRequests
  BY Zenon, <1>7 DEF EventInv, ProcessRequests, RecordsOK
<1>8. CASE InjectEvents
  <2> DEFINE b == IF svm.bounce_pending THEN svm_inject_bounce(svm) ELSE svm
  <2>1. /\ UNCHANGED <<guest, pending, owed, left>>
        /\ svm' = b \/ (svm.nmi_pending /\ svm' = svm_inject_nmi(b))
    BY Zenon, <1>8 DEF InjectEvents
  <2>2. /\ b \in [nmi_request : BOOLEAN, nmi_pending : BOOLEAN, bounce_pending : BOOLEAN,
                 event_inj : Events, vintr : BOOLEAN, nmi_mask : BOOLEAN]
        /\ b.nmi_request = svm.nmi_request /\ b.nmi_pending = svm.nmi_pending
        /\ b.nmi_mask = svm.nmi_mask
        /\ \/ b.event_inj = svm.event_inj /\ b.bounce_pending = svm.bounce_pending
           \/ svm.bounce_pending /\ ~b.bounce_pending /\ b.event_inj = "bounce"
    BY Zenon DEF svm_inject_bounce, EventInv, RecordsOK, Events
  <2> HIDE DEF b
  <2>3. CASE svm' = b
    BY Zenon, <2>1, <2>2, <2>3
  <2>4. CASE svm.nmi_pending /\ svm' = svm_inject_nmi(b)
    <3>1. CASE b.nmi_mask
      BY Zenon, <2>3, <2>4, <3>1 DEF svm_inject_nmi
    <3>2. CASE ~b.nmi_mask
      <4>1. /\ svm'.nmi_request = svm.nmi_request /\ ~svm'.nmi_pending
            /\ svm'.event_inj = "nmi" /\ svm'.bounce_pending = b.bounce_pending
        BY Zenon, <2>2, <2>4, <3>2 DEF svm_inject_nmi
      <4> QED
        BY Zenon, <2>1, <2>2, <2>4, <4>1
    <3> QED
      BY Zenon, <3>1, <3>2
  <2> QED
    BY Zenon, <2>1, <2>3, <2>4
<1>9. CASE ArmEntry
  BY Zenon, <1>9 DEF EventInv, ArmEntry, RecordsOK
<1>10. CASE AbortEntry
  BY Zenon, <1>10 DEF EventInv, AbortEntry, RecordsOK
<1>11. CASE EntryFails
  BY Zenon, <1>11 DEF EventInv, EntryFails, RecordsOK
<1>12. CASE Leave
  BY Zenon, <1>12 DEF EventInv, Leave, RecordsOK
<1>13. ASSUME NEW nr \in {"futex", "nr"}, NEW raw \in Results, Vmmcall(nr, raw) PROVE KeptInv'
  BY <1>13 DEF EventInv, Vmmcall, Dispatched, Continue, LeaveFor, RecordsOK
<1>14. CASE VmmcallRefused
  BY Zenon, <1>14 DEF EventInv, VmmcallRefused, Dispatched, LeaveFor, RecordsOK
<1>15. CASE ViolationFails
  BY Zenon, <1>15 DEF EventInv, ViolationFails, Dispatched, RecordsOK
<1>16. CASE IretExit
  BY Zenon, <1>16
  DEF EventInv, IretExit, Dispatched, Continue, LeaveFor, iret_interception, RecordsOK
<1>17. CASE VintrExit
  BY Zenon, <1>17 DEF EventInv, VintrExit, Dispatched, Continue, LeaveFor, RecordsOK
<1>18. ASSUME NEW e \in DOMAIN FinalStatus, FinalExit(e) PROVE KeptInv'
  BY Zenon, <1>18 DEF EventInv, FinalExit, Dispatched, LeaveFor, RecordsOK
<1>19. ASSUME NEW e \in PlainExits, PlainExit(e) PROVE KeptInv'
  BY Zenon, <1>19 DEF EventInv, PlainExit, Dispatched, Continue, LeaveFor, RecordsOK
<1>20. CASE EnterGuest
  BY Zenon, <1>20 DEF EventInv, EnterGuest, SlotInv, RecordsOK
<1>21. CASE Deliver
  BY Zenon, <1>21 DEF EventInv, Deliver, RecordsOK
<1>22. CASE GuestRuns
  BY Zenon, <1>22 DEF EventInv, GuestRuns, RecordsOK
<1>23. ASSUME NEW e \in Exits, ExitGuest(e) PROVE KeptInv'
  BY Zenon, <1>23 DEF EventInv, ExitGuest, svm_handle_interrupt_events, SlotInv, RecordsOK
<1>24. CASE UNCHANGED vars
  BY Zenon, <1>24 DEF vars
<1> QED
  BY Zenon, <1>1, <1>2, <1>3, <1>4, <1>5, <1>6, <1>7, <1>8, <1>9, <1>10, <1>11, <1>12,
     <1>13, <1>14, <1>15, <1>16, <1>17, <1>18, <1>19, <1>20, <1>21, <1>22, <1>23, <1>24
  DEF Next, ThreadStep

(* RunInv is inductive: at every moment event_inj, what is pending, the    *)
(* NMI mask and what the guest is in agree (svm_launch, svm.c).            *)
THEOREM RunInvariance == Spec => []RunInv
<1>1. Init => RunInv
  <2> SUFFICES ASSUME Init PROVE RunInv
    OBVIOUS
  <2>1. EventInv
    BY Zenon
    DEF Init, EventInv, RecordsOK, Events, SlotInv, LegalInv, OnceInv, MaskInv, NoSpuriousEvent
  <2>2. /\ out \in [status : Statuses, conf_status : Statuses, r : Codes, why : Causes]
        /\ out.why = "none" /\ pc = "user"
    BY Zenon DEF Init, Statuses, Codes, Causes
  <2>3. ResultInv
    BY Zenon, <2>2, ExplainedFacts DEF ResultInv, ExitIsExplained
  <2>4. GuestNeverSeesRestart
    BY Zenon DEF Init, GuestNeverSeesRestart, ERestart
  <2> QED
    BY Zenon, <2>1, <2>3, <2>4 DEF RunInv
<1>2. RunInv /\ [Next]_vars => RunInv'
  BY Zenon, EventStep, ResultStep, RestartStep DEF RunInv
<1> QED
  BY <1>1, <1>2, PTL DEF Spec

(* What svm_inject_bounce and svm_inject_nmi tested holds when the event   *)
(* is delivered, re-injection included.                                    *)
THEOREM InjectionsLegal == Spec => []InjectionLegal
<1>1. RunInv => InjectionLegal
  BY Zenon DEF RunInv, EventInv, LegalInv, InjectionLegal
<1> QED
  BY <1>1, RunInvariance, PTL

(* No event is injected that was not asked for, nor twice for one request. *)
THEOREM EventsAskedFor == Spec => []NoSpuriousEvent
<1>1. RunInv => NoSpuriousEvent
  BY Zenon DEF RunInv, EventInv
<1> QED
  BY <1>1, RunInvariance, PTL

(* HF_NMI_MASK and the interception of IRET keep NMIs from nesting.        *)
THEOREM NmisDoNotNest == Spec => []NmiNotNested
<1>1. RunInv => NmiNotNested
  BY Zenon DEF RunInv, EventInv, MaskInv, NmiNotNested
<1> QED
  BY <1>1, RunInvariance, PTL

(* A RUN that returns 0 tells the runtime what ended it (svm->status).     *)
THEOREM ExitsExplained == Spec => []ExitIsExplained
<1>1. RunInv => ExitIsExplained
  BY Zenon DEF RunInv, ResultInv
<1> QED
  BY <1>1, RunInvariance, PTL

(* svm_handle_syscall keeps restart codes from the guest.                  *)
THEOREM RestartsHidden == Spec => []GuestNeverSeesRestart
<1>1. RunInv => GuestNeverSeesRestart
  BY Zenon DEF RunInv
<1> QED
  BY <1>1, RunInvariance, PTL

(* With one kind of event, RunInv and KeptInv are inductive together.      *)
LEMMA KeptInvariance ==
  ASSUME OneKind
  PROVE  Spec => [](EventInv /\ KeptInv)
<1>1. Init => KeptInv
  BY BoundsAssumption
  DEF OneKind, Init, KeptInv, NoNmis, NoBounces, BounceNeverLost, NmiNeverLost
<1>2. RunInv /\ KeptInv /\ [Next]_vars => KeptInv'
  BY Zenon, KeptStep DEF RunInv
<1>3. RunInv => EventInv
  BY Zenon DEF RunInv
<1> QED
  BY <1>1, <1>2, <1>3, RunInvariance, PTL DEF Spec

(* svm_signal_handler's bounce_pending, the re-injection from              *)
(* exit_int_info and svm_inject_bounce keep a bounce until it is           *)
(* delivered, as long as no NMI is requested.                              *)
THEOREM BouncesKept ==
  ASSUME OneKind
  PROVE  Spec => []BounceNeverLost
<1>1. KeptInv => BounceNeverLost
  BY Zenon DEF KeptInv
<1> QED
  BY <1>1, KeptInvariance, PTL

(* The request, nmi_pending, HF_NMI_MASK and the re-injection keep an NMI  *)
(* until it is delivered, as long as no bounce is sent.                    *)
THEOREM NmisKept ==
  ASSUME OneKind
  PROVE  Spec => []NmiNeverLost
<1>1. KeptInv => NmiNeverLost
  BY Zenon DEF KeptInv
<1> QED
  BY <1>1, KeptInvariance, PTL
=============================================================================

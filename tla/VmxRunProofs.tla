---------------------------- MODULE VmxRunProofs ----------------------------
(***************************************************************************)
(* The properties of VmxRun, for any number of signals, NMI requests and   *)
(* system calls, with or without exits during deliveries, and whatever the *)
(* runtime blocks.                                                         *)
(***************************************************************************)
EXTENDS VmxRun, TLAPS

(* An event is in delivery only in the guest, where the slot is empty.     *)
SlotInv ==
  /\ inflight # "none" => pc = "guest"
  /\ pc = "guest" => intr_info = "none"

(* What was tested when the slot was filled still holds: the guest has not *)
(* run since.                                                              *)
LegalInv ==
  /\ intr_info # "none" => ~shadow
  /\ intr_info = "bounce" => guest_if
  /\ inflight # "none" => ~shadow
  /\ inflight = "bounce" => guest_if

(* From the injection on, an event is not pending and in the slot at once, *)
(* so that its delivery settles all that is owed.                          *)
OnceInv ==
  /\ pc \in {"ready", "armed", "guest"} => ~nmi_pending
  /\ pc \in {"ready", "armed"} /\ intr_info = "bounce" => ~bounce_pending
  /\ inflight = "bounce" => ~bounce_pending

EventInv == SlotInv /\ LegalInv /\ OnceInv /\ NoSpuriousEvent

(* The status explains the end of the loop from the moment it is decided.  *)
ResultInv ==
  /\ pc = "leave" /\ why \in DOMAIN Explained => status = Explained[why]
  /\ ExitIsExplained

RunInv == EventInv /\ ResultInv /\ GuestNeverSeesRestart
(* One step keeps the events legal, unique and asked for.                   *)
LEMMA EventStep ==
  ASSUME EventInv, [Next]_vars
  PROVE  EventInv'
<1> USE DEF EventInv, SlotInv, LegalInv, OnceInv, NoSpuriousEvent,
            eventVars, guestVars, resultVars, boundVars, owedVars
<1>1. ASSUME NEW s \in Signals, SendSignal(s) PROVE EventInv'
  BY Zenon, <1>1 DEF SendSignal
<1>2. ASSUME NEW s \in Signals, TakeSignal(s) PROVE EventInv'
  BY Zenon, <1>2 DEF TakeSignal
<1>3. CASE InjectNmi
  BY Zenon, <1>3 DEF InjectNmi
<1>4. CASE Shutdown
  BY Zenon, <1>4 DEF Shutdown
<1>5. CASE Run
  BY Zenon, <1>5 DEF Run
<1>6. CASE Prepare
  <2>1. /\ pc = "prepare" /\ pc' \in {"leave", "prepared"}
        /\ UNCHANGED <<nmi_request, nmi_pending, intr_info, guest_if, shadow, inflight, owed_nmi>>
    BY Zenon, <1>6 DEF Prepare, LeaveFor
  <2>2. \/ UNCHANGED <<bounce_pending, owed_bounce>>
        \/ /\ bounce_pending' = (bounce_pending \/ TakesBounce)
           /\ owed_bounce' = (owed_bounce \/ TakesBounce)
    BY Zenon, <1>6 DEF Prepare
  <2>3. (bounce_pending => owed_bounce) => (bounce_pending' => owed_bounce')
    BY Zenon, <2>2
  <2>4. owed_bounce => owed_bounce'
    BY Zenon, <2>2
  <2> QED
    BY Zenon, <2>1, <2>3, <2>4
<1>7. CASE ProcessRequests
  BY Zenon, <1>7 DEF ProcessRequests
<1>8. CASE InjectEvents
  BY Zenon, <1>8 DEF InjectEvents, InjectBounce, vmx_interrupt_allowed, vmx_inject_nmi, LeaveFor
<1>9. CASE ArmEntry
  BY Zenon, <1>9 DEF ArmEntry
<1>10. CASE AbortEntry
  BY Zenon, <1>10 DEF AbortEntry
<1>11. CASE EntryFails
  BY Zenon, <1>11 DEF EntryFails
<1>12. CASE Leave
  BY Zenon, <1>12 DEF Leave
<1>13. ASSUME NEW nr \in {"futex", "nr"}, NEW raw \in Results, Vmcall(nr, raw)
       PROVE  EventInv'
  BY Zenon, <1>13 DEF Vmcall, Dispatched, Continue, LeaveFor
<1>14. CASE VmcallRefused
  BY Zenon, <1>14 DEF VmcallRefused, Dispatched, LeaveFor
<1>15. CASE ViolationFails
  BY Zenon, <1>15 DEF ViolationFails, Dispatched, LeaveFor
<1>16. CASE ExceptionExit
  BY Zenon, <1>16 DEF ExceptionExit, Dispatched
<1>17. CASE WindowExit
  BY Zenon, <1>17 DEF WindowExit, Dispatched, Continue, LeaveFor, InjectBounce, vmx_interrupt_allowed
<1>18. ASSUME NEW e \in DOMAIN FinalStatus, FinalExit(e) PROVE EventInv'
  BY Zenon, <1>18 DEF FinalExit, Dispatched, LeaveFor
<1>19. ASSUME NEW e \in PlainExits, PlainExit(e) PROVE EventInv'
  BY Zenon, <1>19 DEF PlainExit, Dispatched, Continue, LeaveFor
<1>20. CASE EnterGuest
  BY Zenon, <1>20 DEF EnterGuest
<1>21. CASE Deliver
  BY Zenon, <1>21 DEF Deliver
<1>22. CASE GuestRuns
  BY Zenon, <1>22 DEF GuestRuns
<1>23. ASSUME NEW e \in Exits, ExitGuest(e) PROVE EventInv'
  BY Zenon, <1>23 DEF ExitGuest
<1>24. CASE UNCHANGED vars
  BY Zenon, <1>24 DEF vars
<1> QED
  BY Zenon, <1>1, <1>2, <1>3, <1>4, <1>5, <1>6, <1>7, <1>8, <1>9, <1>10, <1>11, <1>12,
     <1>13, <1>14, <1>15, <1>16, <1>17, <1>18, <1>19, <1>20, <1>21, <1>22, <1>23, <1>24
  DEF Next, ThreadStep

(* One step keeps the status in agreement with what ended the loop.         *)
LEMMA ResultStep ==
  ASSUME ResultInv, [Next]_vars
  PROVE  ResultInv'
<1> USE DEF ResultInv, ExitIsExplained, Explained,
            eventVars, guestVars, resultVars, boundVars, owedVars
<1>1. ASSUME NEW s \in Signals, SendSignal(s) PROVE ResultInv'
  BY Zenon, <1>1 DEF SendSignal
<1>2. ASSUME NEW s \in Signals, TakeSignal(s) PROVE ResultInv'
  BY Zenon, <1>2 DEF TakeSignal
<1>3. CASE InjectNmi
  BY Zenon, <1>3 DEF InjectNmi
<1>4. CASE Shutdown
  BY Zenon, <1>4 DEF Shutdown
<1>5. CASE Run
  BY Zenon, <1>5 DEF Run
<1>6. CASE Prepare
  BY <1>6 DEF Prepare, LeaveFor, TakesBounce
<1>7. CASE ProcessRequests
  BY Zenon, <1>7 DEF ProcessRequests
<1>8. CASE InjectEvents
  BY Zenon, <1>8 DEF InjectEvents, InjectBounce, vmx_interrupt_allowed, vmx_inject_nmi, LeaveFor
<1>9. CASE ArmEntry
  BY Zenon, <1>9 DEF ArmEntry
<1>10. CASE AbortEntry
  BY Zenon, <1>10 DEF AbortEntry
<1>11. CASE EntryFails
  BY Zenon, <1>11 DEF EntryFails
<1>12. CASE Leave
  BY Zenon, <1>12 DEF Leave
<1>13. ASSUME NEW nr \in {"futex", "nr"}, NEW raw \in Results, Vmcall(nr, raw)
       PROVE  ResultInv'
  BY Zenon, <1>13 DEF Vmcall, Dispatched, Continue, LeaveFor
<1>14. CASE VmcallRefused
  BY Zenon, <1>14 DEF VmcallRefused, Dispatched, LeaveFor
<1>15. CASE ViolationFails
  BY Zenon, <1>15 DEF ViolationFails, Dispatched, LeaveFor
<1>16. CASE ExceptionExit
  BY Zenon, <1>16 DEF ExceptionExit, Dispatched
<1>17. CASE WindowExit
  BY Zenon, <1>17 DEF WindowExit, Dispatched, Continue, LeaveFor, InjectBounce, vmx_interrupt_allowed
<1>18. ASSUME NEW e \in DOMAIN FinalStatus, FinalExit(e) PROVE ResultInv'
  BY <1>18 DEF FinalExit, FinalStatus, Dispatched, LeaveFor
<1>19. ASSUME NEW e \in PlainExits, PlainExit(e) PROVE ResultInv'
  BY Zenon, <1>19 DEF PlainExit, Dispatched, Continue, LeaveFor
<1>20. CASE EnterGuest
  BY Zenon, <1>20 DEF EnterGuest
<1>21. CASE Deliver
  BY Zenon, <1>21 DEF Deliver
<1>22. CASE GuestRuns
  BY Zenon, <1>22 DEF GuestRuns
<1>23. ASSUME NEW e \in Exits, ExitGuest(e) PROVE ResultInv'
  BY Zenon, <1>23 DEF ExitGuest
<1>24. CASE UNCHANGED vars
  BY Zenon, <1>24 DEF vars
<1> QED
  BY Zenon, <1>1, <1>2, <1>3, <1>4, <1>5, <1>6, <1>7, <1>8, <1>9, <1>10, <1>11, <1>12,
     <1>13, <1>14, <1>15, <1>16, <1>17, <1>18, <1>19, <1>20, <1>21, <1>22, <1>23, <1>24
  DEF Next, ThreadStep

(* One step keeps restart codes from the guest.                            *)
LEMMA RestartStep ==
  ASSUME GuestNeverSeesRestart, [Next]_vars
  PROVE  GuestNeverSeesRestart'
<1> USE DEF GuestNeverSeesRestart,
            eventVars, guestVars, resultVars, boundVars, owedVars
<1>1. ASSUME NEW s \in Signals, SendSignal(s) PROVE GuestNeverSeesRestart'
  BY Zenon, <1>1 DEF SendSignal
<1>2. ASSUME NEW s \in Signals, TakeSignal(s) PROVE GuestNeverSeesRestart'
  BY Zenon, <1>2 DEF TakeSignal
<1>3. CASE InjectNmi
  BY Zenon, <1>3 DEF InjectNmi
<1>4. CASE Shutdown
  BY Zenon, <1>4 DEF Shutdown
<1>5. CASE Run
  BY Zenon, <1>5 DEF Run
<1>6. CASE Prepare
  BY Zenon, <1>6 DEF Prepare, LeaveFor, TakesBounce
<1>7. CASE ProcessRequests
  BY Zenon, <1>7 DEF ProcessRequests
<1>8. CASE InjectEvents
  BY Zenon, <1>8 DEF InjectEvents, InjectBounce, vmx_interrupt_allowed, vmx_inject_nmi, LeaveFor
<1>9. CASE ArmEntry
  BY Zenon, <1>9 DEF ArmEntry
<1>10. CASE AbortEntry
  BY Zenon, <1>10 DEF AbortEntry
<1>11. CASE EntryFails
  BY Zenon, <1>11 DEF EntryFails
<1>12. CASE Leave
  BY Zenon, <1>12 DEF Leave
<1>13. ASSUME NEW nr \in {"futex", "nr"}, NEW raw \in Results, Vmcall(nr, raw)
       PROVE  GuestNeverSeesRestart'
  BY Zenon, <1>13 DEF Vmcall, SyscallResult, ERestart, Results
<1>14. CASE VmcallRefused
  BY Zenon, <1>14 DEF VmcallRefused, Dispatched, LeaveFor
<1>15. CASE ViolationFails
  BY Zenon, <1>15 DEF ViolationFails, Dispatched, LeaveFor
<1>16. CASE ExceptionExit
  BY Zenon, <1>16 DEF ExceptionExit, Dispatched
<1>17. CASE WindowExit
  BY Zenon, <1>17 DEF WindowExit, Dispatched, Continue, LeaveFor, InjectBounce, vmx_interrupt_allowed
<1>18. ASSUME NEW e \in DOMAIN FinalStatus, FinalExit(e) PROVE GuestNeverSeesRestart'
  BY Zenon, <1>18 DEF FinalExit, Dispatched, LeaveFor
<1>19. ASSUME NEW e \in PlainExits, PlainExit(e) PROVE GuestNeverSeesRestart'
  BY Zenon, <1>19 DEF PlainExit, Dispatched, Continue, LeaveFor
<1>20. CASE EnterGuest
  BY Zenon, <1>20 DEF EnterGuest
<1>21. CASE Deliver
  BY Zenon, <1>21 DEF Deliver
<1>22. CASE GuestRuns
  BY Zenon, <1>22 DEF GuestRuns
<1>23. ASSUME NEW e \in Exits, ExitGuest(e) PROVE GuestNeverSeesRestart'
  BY Zenon, <1>23 DEF ExitGuest
<1>24. CASE UNCHANGED vars
  BY Zenon, <1>24 DEF vars
<1> QED
  BY Zenon, <1>1, <1>2, <1>3, <1>4, <1>5, <1>6, <1>7, <1>8, <1>9, <1>10, <1>11, <1>12,
     <1>13, <1>14, <1>15, <1>16, <1>17, <1>18, <1>19, <1>20, <1>21, <1>22, <1>23, <1>24
  DEF Next, ThreadStep

(* RunInv is inductive: at every moment the slot, what is pending and what *)
(* the guest is in agree (vmx_launch, vmx.c).                              *)
THEOREM RunInvariance == Spec => []RunInv
<1>1. Init => RunInv
  BY DEF Init, RunInv, EventInv, SlotInv, LegalInv, OnceInv, NoSpuriousEvent, ResultInv,
         ExitIsExplained, Explained, GuestNeverSeesRestart, ERestart
<1>2. RunInv /\ [Next]_vars => RunInv'
  BY Zenon, EventStep, ResultStep, RestartStep DEF RunInv
<1> QED
  BY <1>1, <1>2, PTL DEF Spec

(* What vmx_inject_bounce and vmx_inject_nmi tested before they filled the *)
(* slot holds when the hardware takes the event.                           *)
THEOREM InjectionsLegal == Spec => []InjectionLegal
<1>1. RunInv => InjectionLegal
  BY Zenon DEF RunInv, EventInv, LegalInv, InjectionLegal
<1> QED
  BY <1>1, RunInvariance, PTL

(* No event is injected that was not asked for, nor twice for one request. *)
THEOREM EventsAskedFor == Spec => []NoSpuriousEvent
<1>1. RunInv => NoSpuriousEvent
  BY Zenon DEF RunInv, EventInv
<1> QED
  BY <1>1, RunInvariance, PTL

(* A RUN that returns 0 tells the runtime what ended it (vcpu->status).    *)
THEOREM ExitsExplained == Spec => []ExitIsExplained
<1>1. RunInv => ExitIsExplained
  BY Zenon DEF RunInv, ResultInv
<1> QED
  BY <1>1, RunInvariance, PTL

(* vmx_handle_syscall keeps restart codes from the guest.                  *)
THEOREM RestartsHidden == Spec => []GuestNeverSeesRestart
<1>1. RunInv => GuestNeverSeesRestart
  BY Zenon DEF RunInv
<1> QED
  BY <1>1, RunInvariance, PTL
=============================================================================

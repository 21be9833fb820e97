------------------------------- MODULE SvmRun -------------------------------
(***************************************************************************)
(* The run loop of one SVM vcpu: svm_launch and what it calls (svm.c,      *)
(* svm.h), and svm_signal_handler (exception_svm.c).  ASIDs and TLB        *)
(* flushes are in SvmAsid.                                                 *)
(*                                                                         *)
(* What differs from VmxRun: an exit during the delivery of an event       *)
(* leaves it in exit_int_info, from where it is injected again; a second   *)
(* NMI waits for the IRET of the first one (HF_NMI_MASK); the interrupt    *)
(* window is a dummy virtual interrupt.                                    *)
(***************************************************************************)
EXTENDS Integers

CONSTANTS
  Budgets,         \* bounds, one chosen per behaviour: signals sent to the
                   \* thread, NMI requests, system calls by VMMCALL
  UserBlocked      \* the signals the runtime blocks when it calls RUN

ASSUME BoundsAssumption ==
  Budgets \subseteq [sent : Nat, nmis : Nat, calls : Nat]

(* Signals svm->sigset lets through: SIG_BOUNCE, SIGKILL, and SIGSTOP or   *)
(* SIGPROF as "other".                                                     *)
Signals == {"bounce", "other", "kill"}

VARIABLES
  pc,        \* where the thread stands in svm_launch
  pending,   \* current->pending: the signals not yet taken
  ipi,       \* an interrupt waits for this CPU to enable interrupts
  svm,       \* the fields of struct svm_vcpu and of its VMCB control area
  guest,     \* the guest: IF, interrupt shadow, event in delivery, NMI handler
  reason,    \* the exit code, until it is dispatched
  sysret,    \* what the guest's last system call was made to see
  out,       \* svm->status, the status last copied out, r, what ended the loop
  shutdown,  \* svm->shutdown or svm->instance->shutdown
  owed,      \* history: the events taken from their sender, not in the guest yet
  left       \* what is left of the budget

vars == <<pc, pending, ipi, svm, guest, reason, sysret, out, shutdown, owed, left>>

ERestart == {"ERESTARTNOHAND", "ERESTART_RESTARTBLOCK", "ERESTARTSYS",
             "ERESTARTNOINTR"}
Results == ERestart \cup {"result"}
Events == {"none", "bounce", "nmi"}

(* The exit codes svm_launch tells apart.                                  *)
Exits == {"VMMCALL", "CPUID", "NPF", "HLT", "NMI", "IRET", "MSR", "XSETBV",
          "VINTR", "INTR", "SHUTDOWN", "ERR", "UNHANDLED"}

Statuses == {"init", "INTR", "HLT", "UNHANDLED_VMEXIT", "FAIL_ENTRY",
             "INTERNAL_ERROR"}

TypeOK ==
  /\ pc \in {"user", "prepare", "prepared", "loaded", "ready", "armed", "guest",
             "dispatch", "leave"}
  /\ pending \subseteq Signals /\ ipi \in BOOLEAN /\ shutdown \in BOOLEAN
  /\ svm \in [nmi_request : BOOLEAN, nmi_pending : BOOLEAN,
              bounce_pending : BOOLEAN, event_inj : Events, vintr : BOOLEAN,
              nmi_mask : BOOLEAN]
  /\ guest \in [rflags_if : BOOLEAN, shadow : BOOLEAN, inflight : Events,
                in_nmi : BOOLEAN]
  /\ reason \in Exits \cup {"none"}
  /\ sysret \in [rax : Results \cup {"none", "EINTR", "nr", "restart_syscall"},
                 rewound : BOOLEAN]
  /\ {out.status, out.conf_status} \subseteq Statuses
  /\ owed \subseteq {"bounce", "nmi"}

Init ==
  /\ pc = "user" /\ pending = {} /\ ipi = FALSE /\ shutdown = FALSE
  /\ svm = [nmi_request |-> FALSE, nmi_pending |-> FALSE, bounce_pending |-> FALSE,
            event_inj |-> "none", vintr |-> FALSE, nmi_mask |-> FALSE]
  /\ guest \in [rflags_if : BOOLEAN, shadow : {FALSE}, inflight : {"none"},
                in_nmi : {FALSE}]
  /\ reason = "none" /\ sysret = [rax |-> "none", rewound |-> FALSE]
  /\ out = [status |-> "init", conf_status |-> "init", r |-> "0", why |-> "none"]
  /\ owed = {} /\ left \in Budgets

(***************************************************************************)
(* The other actors.                                                       *)
(***************************************************************************)
IrqsOff == pc \in {"armed", "guest"}

(* External: a signal is sent; the CPU is interrupted to make it notice.   *)
SendSignal(s) ==
  /\ left.sent > 0 /\ s \notin pending
  /\ left' = [left EXCEPT !.sent = @ - 1]
  /\ pending' = pending \cup {s}
  /\ ipi' = (ipi \/ IrqsOff)
  /\ UNCHANGED <<pc, svm, guest, reason, sysret, out, shutdown, owed>>

(* The NMI ioctl: svm_make_request, nobody is interrupted.                 *)
InjectNmi ==
  /\ left.nmis > 0
  /\ left' = [left EXCEPT !.nmis = @ - 1]
  /\ svm' = [svm EXCEPT !.nmi_request = TRUE]
  /\ owed' = owed \cup {"nmi"}
  /\ UNCHANGED <<pc, pending, ipi, guest, reason, sysret, out, shutdown>>

(* svm_shutdown_all_vcpus by another thread.                               *)
Shutdown ==
  /\ ~shutdown
  /\ shutdown' = TRUE
  /\ ipi' = (ipi \/ IrqsOff)
  /\ UNCHANGED <<pc, pending, svm, guest, reason, sysret, out, owed, left>>

(***************************************************************************)
(* The thread, up to the guest.                                            *)
(***************************************************************************)

(* The RUN ioctl; a killed process makes no more calls.                    *)
Run ==
  /\ pc = "user" /\ ~shutdown /\ "kill" \notin pending
  /\ pc' = "prepare"
  /\ out' = [out EXCEPT !.r = "0", !.why = "none"]
  /\ UNCHANGED <<pending, ipi, svm, guest, reason, sysret, shutdown, owed, left>>

(* Mutant: a signal exit leaves svm->status as it is.                      *)
LeaveFor_KeepsStatus(cause, status) ==
  /\ pc' = "leave"
  /\ out' = [out EXCEPT !.why = cause,
                        !.status = IF cause = "signal" THEN @ ELSE status]

(* The loop ends for the given cause, with svm->status set.                *)
LeaveFor(cause, status) ==
  pc' = "leave" /\ out' = [out EXCEPT !.why = cause, !.status = status]

(* svm_signal_handler is called for signals that are not fatal.            *)
TakesBounce == "bounce" \in pending /\ "kill" \notin pending

(* Mutant: the bounce is dropped when another signal is pending too.       *)
svm_signal_handler_Drops ==
  [svm EXCEPT !.bounce_pending = @ \/ (TakesBounce /\ pending = {"bounce"})]

(* A bounce is taken from the queue and kept in bounce_pending, also when  *)
(* another signal makes the thread leave.                                  *)
svm_signal_handler == [svm EXCEPT !.bounce_pending = @ \/ TakesBounce]

(* prepare_enter_guestmode: a shutdown, and the signals that are left,     *)
(* make the thread leave.                                                  *)
Prepare ==
  /\ pc = "prepare"
  /\ \/ /\ shutdown
        /\ LeaveFor("shutdown", out.status)
        /\ UNCHANGED <<pending, svm, owed>>
     \/ /\ ~shutdown
        /\ pending' = IF TakesBounce THEN pending \ {"bounce"} ELSE pending
        /\ svm' = svm_signal_handler
        /\ owed' = IF TakesBounce THEN owed \cup {"bounce"} ELSE owed
        /\ IF pending' # {} THEN LeaveFor("signal", "INTR")
           ELSE pc' = "prepared" /\ UNCHANGED out
  /\ UNCHANGED <<ipi, guest, reason, sysret, shutdown, left>>

(* preempt_disable, svm_process_vcpu_requests.                             *)
ProcessRequests ==
  /\ pc = "prepared"
  /\ pc' = "loaded"
  /\ svm' = [svm EXCEPT !.nmi_request = FALSE,
                        !.nmi_pending = @ \/ svm.nmi_request]
  /\ UNCHANGED <<pending, ipi, guest, reason, sysret, out, shutdown, owed, left>>

(* Mutant: only IF is looked at, not the interrupt shadow.                 *)
svm_interrupt_allowed_IfOnly == guest.rflags_if

svm_interrupt_allowed == guest.rflags_if /\ ~guest.shadow

(* Mutant: no interrupt window is asked for.                               *)
svm_inject_bounce_NoWindow(s) ==
  IF svm_interrupt_allowed
  THEN [s EXCEPT !.event_inj = "bounce", !.bounce_pending = FALSE, !.vintr = FALSE]
  ELSE s

(* Mutant: the bounce stays pending when it is injected.                   *)
svm_inject_bounce_Again(s) ==
  IF svm_interrupt_allowed
  THEN [s EXCEPT !.event_inj = "bounce", !.vintr = FALSE]
  ELSE [s EXCEPT !.vintr = TRUE]

(* svm_set_vintr, or svm_clear_vintr and svm_inject_event.                 *)
svm_inject_bounce(s) ==
  IF svm_interrupt_allowed
  THEN [s EXCEPT !.event_inj = "bounce", !.bounce_pending = FALSE, !.vintr = FALSE]
  ELSE [s EXCEPT !.vintr = TRUE]

svm_nmi_allowed == ~guest.shadow

(* Mutant: a second NMI does not wait for the IRET of the first.           *)
svm_inject_nmi_Unmasked(s) ==
  [s EXCEPT !.event_inj = "nmi", !.nmi_pending = FALSE, !.nmi_mask = TRUE]

(* While the guest handles an NMI (HF_NMI_MASK), the next stays pending;   *)
(* the mask goes with the interception of IRET.                            *)
svm_inject_nmi(s) ==
  IF s.nmi_mask THEN s
  ELSE [s EXCEPT !.event_inj = "nmi", !.nmi_pending = FALSE, !.nmi_mask = TRUE]

(* First the bounce, then the NMI; where that is not allowed, RUN returns  *)
(* the error.                                                              *)
InjectEvents ==
  LET bounced == IF svm.bounce_pending THEN svm_inject_bounce(svm) ELSE svm
  IN /\ pc = "loaded"
     /\ IF svm.nmi_pending /\ ~svm_nmi_allowed
        THEN /\ svm' = bounced
             /\ pc' = "leave"
             /\ out' = [out EXCEPT !.why = "nmi", !.r = "EINVAL"]
        ELSE /\ svm' = IF svm.nmi_pending THEN svm_inject_nmi(bounced) ELSE bounced
             /\ pc' = "ready"
             /\ UNCHANGED out
     /\ UNCHANGED <<pending, ipi, guest, reason, sysret, shutdown, owed, left>>

(* local_irq_disable, IN_GUEST_MODE.                                       *)
ArmEntry ==
  /\ pc = "ready"
  /\ pc' = "armed"
  /\ UNCHANGED <<pending, ipi, svm, guest, reason, sysret, out, shutdown, owed, left>>

(* A request is pending (an NMI, or a TLB flush at any time), the mode was *)
(* changed by a flush, or need_resched(): back to the top of the loop.     *)
AbortEntry ==
  /\ pc = "armed"
  /\ pc' = "prepare"
  /\ ipi' = FALSE
  /\ UNCHANGED <<pending, svm, guest, reason, sysret, out, shutdown, owed, left>>

(* svm_run_vcpu: VMRUN injects event_inj.                                  *)
EnterGuest ==
  /\ pc = "armed" /\ ~svm.nmi_request
  /\ pc' = "guest"
  /\ guest' = [guest EXCEPT !.inflight = svm.event_inj]
  /\ svm' = [svm EXCEPT !.event_inj = "none"]
  /\ UNCHANGED <<pending, ipi, reason, sysret, out, shutdown, owed, left>>

(* VMRUN refuses the VMCB (SVM_EXIT_ERR): event_inj is still there.        *)
EntryFails ==
  /\ pc = "armed" /\ ~svm.nmi_request
  /\ pc' = "dispatch" /\ reason' = "ERR"
  /\ ipi' = FALSE
  /\ UNCHANGED <<pending, svm, guest, sysret, out, shutdown, owed, left>>

(***************************************************************************)
(* External: the guest and its CPU.                                        *)
(***************************************************************************)

(* The event reaches its handler; interrupts are off there.                *)
Deliver ==
  /\ pc = "guest" /\ guest.inflight # "none"
  /\ guest' = [guest EXCEPT !.inflight = "none", !.rflags_if = FALSE,
                            !.in_nmi = @ \/ guest.inflight = "nmi"]
  /\ owed' = owed \ (IF guest.inflight = "nmi" /\ (svm.nmi_request \/ svm.nmi_pending)
                     THEN {} ELSE {guest.inflight})
  /\ UNCHANGED <<pc, pending, ipi, svm, reason, sysret, out, shutdown, left>>

(* The guest enables or disables interrupts; STI and MOV SS cast a shadow. *)
(* With the dummy virtual interrupt pending, the first chance to take it   *)
(* ends the run instead.                                                   *)
GuestRuns ==
  /\ pc = "guest" /\ guest.inflight = "none"
  /\ ~(svm.vintr /\ guest.rflags_if /\ ~guest.shadow)
  /\ \E i, s \in BOOLEAN :
       /\ <<i, s>> # <<guest.rflags_if, guest.shadow>>
       /\ guest' = [guest EXCEPT !.rflags_if = i, !.shadow = s]
  /\ UNCHANGED <<pc, pending, ipi, svm, reason, sysret, out, shutdown, owed, left>>

(* Mutant: exit_int_info is not looked at.                                 *)
svm_handle_interrupt_events_Skipped == "none"

(* An exit that hit the delivery of an event leaves it in exit_int_info;   *)
(* it becomes the event of the next entry.                                 *)
svm_handle_interrupt_events == guest.inflight

(* A VM exit, after which svm_launch enables interrupts.  Only a nested    *)
(* page fault hits the delivery of an event (on its stack, say).           *)
ExitGuest(e) ==
  /\ pc = "guest" /\ e # "ERR"
  /\ guest.inflight # "none" => e = "NPF"
  /\ e = "VINTR" => svm.vintr /\ guest.rflags_if /\ ~guest.shadow
  /\ e = "IRET" => svm.nmi_mask
  /\ pc' = "dispatch" /\ reason' = e
  /\ svm' = [svm EXCEPT !.event_inj = svm_handle_interrupt_events]
  /\ guest' = [guest EXCEPT !.inflight = "none", !.in_nmi = @ /\ e # "IRET"]
  /\ ipi' = FALSE
  /\ UNCHANGED <<pending, sysret, out, shutdown, owed, left>>

(***************************************************************************)
(* The switch on the exit code, with preemption and interrupts on, and     *)
(* the test that ends the loop.                                            *)
(***************************************************************************)

(* The guest goes on, unless the vcpu is shut down.                        *)
Continue ==
  IF shutdown THEN LeaveFor("shutdown", out.status)
  ELSE pc' = "prepare" /\ UNCHANGED out

Dispatched(e) == pc = "dispatch" /\ reason = e /\ reason' = "none"

(* Mutant: an interrupted call that must not be restarted is handed on.    *)
SyscallResult_MissesBlock(nr, raw, signalled) ==
  CASE raw \notin ERestart -> [rax |-> raw, rewound |-> FALSE]
    [] ~signalled /\ raw = "ERESTART_RESTARTBLOCK" ->
         [rax |-> "restart_syscall", rewound |-> TRUE]
    [] signalled /\ raw = "ERESTART_RESTARTBLOCK" -> [rax |-> raw, rewound |-> FALSE]
    [] signalled /\ (raw = "ERESTARTNOHAND" \/ (raw = "ERESTARTSYS" /\ nr = "futex")) ->
         [rax |-> "EINTR", rewound |-> FALSE]
    [] OTHER -> [rax |-> "nr", rewound |-> TRUE]

(* svm_handle_syscall: what becomes of the result raw of system call nr    *)
(* ("futex" stands for futex and ppoll).  RIP, already past the VMMCALL,   *)
(* is moved back when the guest has to make the call again.                *)
SyscallResult(nr, raw, signalled) ==
  CASE raw \notin ERestart -> [rax |-> raw, rewound |-> FALSE]
    [] ~signalled /\ raw = "ERESTART_RESTARTBLOCK" ->
         [rax |-> "restart_syscall", rewound |-> TRUE]
    [] signalled /\ (\/ raw \in {"ERESTARTNOHAND", "ERESTART_RESTARTBLOCK"}
                     \/ raw = "ERESTARTSYS" /\ nr = "futex") ->
         [rax |-> "EINTR", rewound |-> FALSE]
    [] OTHER -> [rax |-> "nr", rewound |-> TRUE]

(* A VMMCALL from CPL 0 that the seccomp filters allow.                    *)
Vmmcall(nr, raw) ==
  /\ Dispatched("VMMCALL") /\ left.calls > 0
  /\ left' = [left EXCEPT !.calls = @ - 1]
  /\ sysret' = SyscallResult(nr, raw, pending # {})
  /\ Continue
  /\ UNCHANGED <<pending, ipi, svm, guest, shutdown, owed>>

(* One the filters refuse: all vcpus of the instance are shut down.        *)
VmmcallRefused ==
  /\ Dispatched("VMMCALL")
  /\ shutdown' = TRUE
  /\ LeaveFor("seccomp", out.status)
  /\ UNCHANGED <<pending, ipi, svm, guest, sysret, owed, left>>

(* A nested page fault that cannot be served.                              *)
ViolationFails ==
  /\ Dispatched("NPF")
  /\ pc' = "leave"
  /\ out' = [out EXCEPT !.why = "NPF", !.status = "INTERNAL_ERROR", !.r = "fault"]
  /\ UNCHANGED <<pending, ipi, svm, guest, sysret, shutdown, owed, left>>

(* Exits that end the loop and the status they report: a halt, an MSR that *)
(* is not emulated (which reports none), a triple fault, a refused VMCB,   *)
(* an exit nobody handles.                                                 *)
FinalStatus ==
  [HLT |-> "HLT", MSR |-> out.status, SHUTDOWN |-> "FAIL_ENTRY",
   ERR |-> "FAIL_ENTRY", UNHANDLED |-> "UNHANDLED_VMEXIT"]

(* The emulation of HLT also ends the interrupt shadow.                    *)
FinalExit(e) ==
  /\ Dispatched(e)
  /\ LeaveFor(e, FinalStatus[e])
  /\ guest' = [guest EXCEPT !.shadow = @ /\ e # "HLT"]
  /\ UNCHANGED <<pending, ipi, svm, sysret, shutdown, owed, left>>

(* Mutant: the IRET of the handler does not open the way for the next NMI. *)
iret_interception_KeepsMask == svm

iret_interception == [svm EXCEPT !.nmi_mask = FALSE]

(* The guest is about to leave its NMI handler.                            *)
IretExit ==
  /\ Dispatched("IRET")
  /\ svm' = iret_interception
  /\ Continue
  /\ UNCHANGED <<pending, ipi, guest, sysret, shutdown, owed, left>>

(* The guest can take an interrupt now: svm_clear_vintr.                   *)
VintrExit ==
  /\ Dispatched("VINTR")
  /\ svm' = [svm EXCEPT !.vintr = FALSE]
  /\ Continue
  /\ UNCHANGED <<pending, ipi, guest, sysret, shutdown, owed, left>>

(* Exits that change nothing here: a VMMCALL from CPL > 0, an emulated     *)
(* instruction, a page fault that was served, an NMI or an interrupt of    *)
(* the host.                                                               *)
PlainExits == {"VMMCALL", "CPUID", "NPF", "NMI", "MSR", "XSETBV", "INTR"}

PlainExit(e) ==
  /\ Dispatched(e)
  /\ Continue
  /\ UNCHANGED <<pending, ipi, svm, guest, sysret, shutdown, owed, left>>

(* The epilogue: the status is copied to conf, the signal mask restored.   *)
(* The ioctl copies conf out only when 0 is returned.                      *)
Leave ==
  LET code == IF pending \ (UserBlocked \ {"kill"}) # {} THEN "EINTR" ELSE out.r
  IN /\ pc = "leave"
     /\ pc' = "user"
     /\ out' = [out EXCEPT !.r = code,
                  !.conf_status = IF code = "0" THEN out.status ELSE @]
     /\ UNCHANGED <<pending, ipi, svm, guest, reason, sysret, shutdown, owed, left>>

(* External: back in user mode the process takes a signal, or unblocks and *)
(* takes one it had blocked; SIGKILL ends it.                              *)
TakeSignal(s) ==
  /\ pc = "user" /\ s \in pending /\ s # "kill"
  /\ pending' = pending \ {s}
  /\ UNCHANGED <<pc, ipi, svm, guest, reason, sysret, out, shutdown, owed, left>>

(***************************************************************************)
(* The specification.                                                      *)
(***************************************************************************)
ThreadStep ==
  \/ Prepare \/ ProcessRequests \/ InjectEvents \/ ArmEntry \/ AbortEntry
  \/ EntryFails \/ Leave
  \/ \E nr \in {"futex", "nr"}, raw \in Results : Vmmcall(nr, raw)
  \/ VmmcallRefused \/ ViolationFails \/ IretExit \/ VintrExit
  \/ \E e \in DOMAIN FinalStatus : FinalExit(e)
  \/ \E e \in PlainExits : PlainExit(e)

Next ==
  \/ \E s \in Signals : SendSignal(s) \/ TakeSignal(s)
  \/ InjectNmi \/ Shutdown \/ Run
  \/ ThreadStep \/ EnterGuest
  \/ Deliver \/ GuestRuns \/ \E e \in Exits : ExitGuest(e)

Spec == Init /\ [][Next]_vars

(* The thread runs; need_resched() and requests do not hold for ever at    *)
(* the last check; timer interrupts end every stay in the guest; a page    *)
(* fault during a delivery is served, so that the delivery succeeds in the *)
(* end; the guest goes on enabling interrupts and leaves its NMI handlers  *)
(* by IRET.                                                                *)
FairSpec ==
  /\ Spec
  /\ WF_vars(ThreadStep)
  /\ SF_vars(EnterGuest)
  /\ SF_vars(Deliver) /\ WF_vars(\E e \in Exits : ExitGuest(e))
  /\ SF_vars(GuestRuns /\ guest'.rflags_if /\ ~guest'.shadow)
  /\ SF_vars(ExitGuest("IRET"))

(***************************************************************************)
(* Properties.                                                             *)
(***************************************************************************)

(* The comment at svm.h:159-166: an event injected while the guest is      *)
(* blocked corrupts it.  What svm_inject_bounce and svm_inject_nmi tested  *)
(* still holds when the event is delivered, after aborted entries, returns *)
(* to the runtime, and re-injection of an interrupted delivery.            *)
InjectionLegal ==
  pc = "guest" /\ guest.inflight # "none"
    => ~guest.shadow /\ (guest.inflight = "bounce" => guest.rflags_if)

(* One request, one event: what is to be injected was asked for and has    *)
(* not been delivered yet, also when its delivery was interrupted.         *)
NoSpuriousEvent ==
  /\ svm.bounce_pending \/ "bounce" \in {svm.event_inj, guest.inflight}
       => "bounce" \in owed
  /\ svm.nmi_request \/ svm.nmi_pending \/ "nmi" \in {svm.event_inj, guest.inflight}
       => "nmi" \in owed

(* HF_NMI_MASK: no NMI is delivered to a guest whose NMI handler has not   *)
(* come to its IRET, as the hardware would guarantee without injection.    *)
NmiNotNested == pc = "guest" /\ guest.inflight = "nmi" => ~guest.in_nmi

(* When RUN returns 0, the status the runtime reads is that of the exit    *)
(* that ended this RUN (comments svm.c:382-392 and 2424-2430).  Shutdown,  *)
(* a refused system call and a refused MSR access have no status.          *)
Explained ==
  [signal |-> "INTR", HLT |-> "HLT", SHUTDOWN |-> "FAIL_ENTRY", ERR |-> "FAIL_ENTRY",
   UNHANDLED |-> "UNHANDLED_VMEXIT"]
ExitIsExplained ==
  pc = "user" /\ out.r = "0" /\ out.why \in DOMAIN Explained
    => out.conf_status = Explained[out.why]

(* The guest never sees a restart code of the host kernel, and makes a     *)
(* call again exactly when RAX holds a call number.                        *)
GuestNeverSeesRestart ==
  /\ sysret.rax \notin ERestart
  /\ sysret.rewound <=> sysret.rax \in {"nr", "restart_syscall"}

(* The comment at exception_svm.c:112-117: the bounce is remembered in     *)
(* bounce_pending and injected at the next entry, "so it is never lost".   *)
BounceNeverLost ==
  "bounce" \in owed
    => svm.bounce_pending \/ "bounce" \in {svm.event_inj, guest.inflight}

(* The comment at svm.c:2341-2345: the NMI is injected, "otherwise, return *)
(* error to HR3" (after which it is still pending).                        *)
NmiNeverLost ==
  "nmi" \in owed
    => svm.nmi_request \/ svm.nmi_pending \/ "nmi" \in {svm.event_inj, guest.inflight}

(* A bounce reaches the guest, or the thread leaves RUN, also when it has  *)
(* to wait for the VINTR exit.                                             *)
BounceDelivered == "bounce" \in owed ~> "bounce" \notin owed \/ pc = "user"

(* Every NMI request reaches the guest, or the thread leaves RUN, also     *)
(* when it has to wait for the IRET of an earlier one.                     *)
NmiDelivered == "nmi" \in owed ~> "nmi" \notin owed \/ pc = "user"
=============================================================================

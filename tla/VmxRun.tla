------------------------------- MODULE VmxRun -------------------------------
(***************************************************************************)
(* The run loop of one VMX vcpu, as the signals, NMI requests, shutdowns   *)
(* and exits it serves see it (vmx.c: vmx_launch and what it calls,        *)
(* exception.c: slimvm_signal_handler).  Memory, TLB flushes and CPUs are  *)
(* in EptSync; MSRs in MsrSwitch.                                          *)
(*                                                                         *)
(* SIG_BOUNCE, sent to the thread, asks for vector 20 in the guest; NMI    *)
(* requests come from the NMI ioctl.  Both go through the one event slot   *)
(* of the VMCS, VM_ENTRY_INTR_INFO_FIELD.                                  *)
(***************************************************************************)
EXTENDS Integers, FiniteSets

CONSTANTS
  MaxSent,         \* bound: signals sent to the thread
  MaxNmi,          \* bound: NMI requests
  MaxCalls,        \* bound: system calls by VMCALL
  VectoringExits,  \* whether an exit may hit the delivery of an event
  UserBlocked      \* the signals the runtime blocks when it calls RUN

ASSUME BoundsAssumption ==
  {MaxSent, MaxNmi, MaxCalls} \subseteq Nat /\ VectoringExits \in BOOLEAN

(* Signals vcpu->sigset lets through: SIG_BOUNCE, SIGKILL, and SIGSTOP or  *)
(* SIGPROF as "other".                                                     *)
Signals == {"bounce", "other", "kill"}

VARIABLES
  pc,              \* where the thread stands in vmx_launch
  pending,         \* current->pending: the signals not yet taken
  ipi,             \* an interrupt waits for this CPU to enable interrupts
  nmi_request,     \* VMX_REQ_NMI of vcpu->requests
  nmi_pending, bounce_pending,  \* vcpu->nmi_pending, vcpu->bounce_pending
  intr_info,       \* VM_ENTRY_INTR_INFO_FIELD: "none", "bounce" or "nmi"
  window,          \* CPU_BASED_INTR_WINDOW_EXITING
  guest_if,        \* the guest's RFLAGS.IF
  shadow,          \* blocking by STI or MOV SS
  inflight,        \* the event the hardware is delivering to the guest
  reason,          \* the exit reason, until it is dispatched
  sysret,          \* what the guest's last system call was made to see
  status,          \* vcpu->status
  conf_status,     \* the status RUN last copied to the runtime
  r,               \* what vmx_launch returns
  shutdown,        \* vcpu->shutdown or vcpu->instance->shutdown
  why,             \* history: what ended the loop
  owed_bounce, owed_nmi,  \* history: taken from the sender, not yet in the guest
  sent, nmis, calls       \* counters for the bounds

eventVars == <<nmi_pending, bounce_pending, intr_info, window>>
guestVars == <<guest_if, shadow, inflight>>
resultVars == <<status, conf_status, r, why>>
boundVars == <<sent, nmis, calls>>
owedVars == <<owed_bounce, owed_nmi>>
vars == <<pc, pending, ipi, nmi_request, eventVars, guestVars, reason, sysret,
          resultVars, shutdown, owedVars, boundVars>>

(* System call results that ask for a restart, and other results.          *)
ERestart == {"ERESTARTNOHAND", "ERESTART_RESTARTBLOCK", "ERESTARTSYS",
             "ERESTARTNOINTR"}
Results == ERestart \cup {"result"}

(* The exit reasons vmx_launch tells apart.                                *)
Exits == {"VMCALL", "CPUID", "EPT_VIOLATION", "EPT_MISCONFIG", "HLT",
          "EXCEPTION_NMI", "MSR_WRITE", "MSR_READ", "XSETBV",
          "INTERRUPT_WINDOW", "EXTERNAL_INTERRUPT", "FAILED_VMENTRY", "UNHANDLED"}

Statuses == {"init", "INTR", "HLT", "MSR_WRITE", "UNHANDLED_VMEXIT",
             "FAIL_ENTRY", "INTERNAL_ERROR", "vector"}

TypeOK ==
  /\ pc \in {"user", "prepare", "prepared", "loaded", "ready", "armed", "guest",
             "dispatch", "leave"}
  /\ pending \subseteq Signals
  /\ {ipi, nmi_request, nmi_pending, bounce_pending, window, guest_if, shadow,
      shutdown, owed_bounce, owed_nmi} \subseteq BOOLEAN
  /\ {intr_info, inflight} \subseteq {"none", "bounce", "nmi"}
  /\ reason \in Exits \cup {"none"}
  /\ sysret \in [rax : Results \cup {"none", "EINTR", "nr", "restart_syscall"},
                 rewound : BOOLEAN]
  /\ {status, conf_status} \subseteq Statuses
  /\ r \in {"0", "EINVAL", "fault", "EINTR"}

Init ==
  /\ pc = "user" /\ pending = {} /\ ipi = FALSE /\ nmi_request = FALSE
  /\ nmi_pending = FALSE /\ bounce_pending = FALSE
  /\ intr_info = "none" /\ window = FALSE
  /\ guest_if \in BOOLEAN /\ shadow = FALSE /\ inflight = "none"
  /\ reason = "none" /\ sysret = [rax |-> "none", rewound |-> FALSE]
  /\ status = "init" /\ conf_status = "init" /\ r = "0" /\ why = "none"
  /\ shutdown = FALSE
  /\ owed_bounce = FALSE /\ owed_nmi = FALSE
  /\ sent = 0 /\ nmis = 0 /\ calls = 0

(***************************************************************************)
(* The other actors.                                                       *)
(***************************************************************************)
IrqsOff == pc \in {"armed", "guest"}

(* External: a signal is sent; the CPU is interrupted to make it notice.   *)
SendSignal(s) ==
  /\ sent < MaxSent /\ s \notin pending
  /\ sent' = sent + 1
  /\ pending' = pending \cup {s}
  /\ ipi' = (ipi \/ IrqsOff)
  /\ UNCHANGED <<pc, nmi_request, eventVars, guestVars, reason, sysret,
                 resultVars, shutdown, owedVars, nmis, calls>>

(* vcpu_inject_nmi: the request is made, nobody is interrupted.            *)
InjectNmi ==
  /\ nmis < MaxNmi
  /\ nmis' = nmis + 1
  /\ nmi_request' = TRUE
  /\ owed_nmi' = TRUE
  /\ UNCHANGED <<pc, pending, ipi, eventVars, guestVars, reason, sysret,
                 resultVars, shutdown, owed_bounce, sent, calls>>

(* vmx_shutdown_all_vcpus by another thread.                               *)
Shutdown ==
  /\ ~shutdown
  /\ shutdown' = TRUE
  /\ ipi' = (ipi \/ IrqsOff)
  /\ UNCHANGED <<pc, pending, nmi_request, eventVars, guestVars, reason, sysret,
                 resultVars, owedVars, boundVars>>

(***************************************************************************)
(* The thread.                                                             *)
(***************************************************************************)

(* The RUN ioctl; slimvm_enter refuses a vcpu that has been shut down, and *)
(* a killed process makes no more calls.                                   *)
Run ==
  /\ pc = "user" /\ ~shutdown /\ "kill" \notin pending
  /\ pc' = "prepare"
  /\ r' = "0" /\ why' = "none"
  /\ UNCHANGED <<pending, ipi, nmi_request, eventVars, guestVars, reason, sysret,
                 status, conf_status, shutdown, owedVars, boundVars>>

(* Mutant: a signal exit leaves vcpu->status as it is.                     *)
LeaveFor_KeepsStatus(cause, st) ==
  /\ pc' = "leave" /\ why' = cause
  /\ status' = IF cause = "signal" THEN status ELSE st

(* The loop ends for the given cause, with vcpu->status set to st.         *)
LeaveFor(cause, st) == pc' = "leave" /\ why' = cause /\ status' = st

(* slimvm_signal_handler, which sees signals that are not fatal, takes a   *)
(* bounce over even when another signal makes the thread leave.            *)
TakesBounce == "bounce" \in pending /\ "kill" \notin pending

(* prepare_enter_guestmode: a shutdown, and the signals that are left,     *)
(* make the thread leave.                                                  *)
Prepare ==
  /\ pc = "prepare"
  /\ \/ /\ shutdown
        /\ LeaveFor("shutdown", status)
        /\ UNCHANGED <<pending, bounce_pending, owed_bounce>>
     \/ /\ ~shutdown
        /\ pending' = IF TakesBounce THEN pending \ {"bounce"} ELSE pending
        /\ bounce_pending' = (bounce_pending \/ TakesBounce)
        /\ owed_bounce' = (owed_bounce \/ TakesBounce)
        /\ IF pending' # {} THEN LeaveFor("signal", "INTR")
           ELSE pc' = "prepared" /\ UNCHANGED <<why, status>>
  /\ UNCHANGED <<ipi, nmi_request, nmi_pending, intr_info, window, guestVars,
                 reason, sysret, conf_status, r, shutdown, owed_nmi, boundVars>>

(* preempt_disable, __load_vcpu, vmx_process_vcpu_requests.                *)
ProcessRequests ==
  /\ pc = "prepared"
  /\ pc' = "loaded"
  /\ nmi_request' = FALSE
  /\ nmi_pending' = (nmi_pending \/ nmi_request)
  /\ UNCHANGED <<pending, ipi, bounce_pending, intr_info, window, guestVars,
                 reason, sysret, resultVars, shutdown, owedVars, boundVars>>

(* Mutant: only IF is looked at, not the shadow of STI or MOV SS.          *)
vmx_interrupt_allowed_IfOnly == guest_if

vmx_interrupt_allowed == guest_if /\ ~shadow

(* What vmx_inject_bounce makes of the event slot, bounce_pending and      *)
(* interrupt-window exiting.                                               *)
InjectBounce ==
  IF vmx_interrupt_allowed
  THEN [slot |-> "bounce", pending |-> FALSE, window |-> FALSE]
  ELSE [slot |-> intr_info, pending |-> TRUE, window |-> TRUE]

(* It fails in the shadow of STI or MOV SS, else the NMI is in the slot.   *)
vmx_inject_nmi == [fails |-> shadow, slot |-> "nmi"]

(* Mutant: an injected NMI stays pending.                                  *)
InjectEvents_NmiStays ==
  LET b == IF bounce_pending THEN InjectBounce
           ELSE [slot |-> intr_info, pending |-> FALSE, window |-> window]
      fails == nmi_pending /\ vmx_inject_nmi.fails
  IN /\ pc = "loaded"
     /\ bounce_pending' = b.pending
     /\ window' = b.window
     /\ intr_info' = IF nmi_pending /\ ~fails THEN vmx_inject_nmi.slot ELSE b.slot
     /\ nmi_pending' = nmi_pending
     /\ r' = IF fails THEN "EINVAL" ELSE r
     /\ IF fails THEN LeaveFor("nmi", status)
        ELSE pc' = "ready" /\ UNCHANGED <<why, status>>
     /\ UNCHANGED <<pending, ipi, nmi_request, guestVars, reason, sysret,
                    conf_status, shutdown, owedVars, boundVars>>

(* First the bounce, then the pending NMI; when that fails, RUN returns    *)
(* the error.                                                              *)
InjectEvents ==
  LET b == IF bounce_pending THEN InjectBounce
           ELSE [slot |-> intr_info, pending |-> FALSE, window |-> window]
      fails == nmi_pending /\ vmx_inject_nmi.fails
  IN /\ pc = "loaded"
     /\ bounce_pending' = b.pending
     /\ window' = b.window
     /\ intr_info' = IF nmi_pending /\ ~fails THEN vmx_inject_nmi.slot ELSE b.slot
     /\ nmi_pending' = fails
     /\ r' = IF fails THEN "EINVAL" ELSE r
     /\ IF fails THEN LeaveFor("nmi", status)
        ELSE pc' = "ready" /\ UNCHANGED <<why, status>>
     /\ UNCHANGED <<pending, ipi, nmi_request, guestVars, reason, sysret,
                    conf_status, shutdown, owedVars, boundVars>>

(* local_irq_disable, IN_GUEST_MODE.                                       *)
ArmEntry ==
  /\ pc = "ready"
  /\ pc' = "armed"
  /\ UNCHANGED <<pending, ipi, nmi_request, eventVars, guestVars, reason, sysret,
                 resultVars, shutdown, owedVars, boundVars>>

(* A request is pending (an NMI, or a TLB flush at any time), the mode was *)
(* changed by a flush, or need_resched(): back to the top of the loop.     *)
AbortEntry ==
  /\ pc = "armed"
  /\ pc' = "prepare"
  /\ ipi' = FALSE
  /\ UNCHANGED <<pending, nmi_request, eventVars, guestVars, reason, sysret,
                 resultVars, shutdown, owedVars, boundVars>>

(* vmx_run_vcpu: the hardware takes the event out of the slot.             *)
EnterGuest ==
  /\ pc = "armed" /\ ~nmi_request
  /\ pc' = "guest"
  /\ inflight' = intr_info /\ intr_info' = "none"
  /\ UNCHANGED <<pending, ipi, nmi_request, nmi_pending, bounce_pending, window,
                 guest_if, shadow, reason, sysret, resultVars, shutdown, owedVars,
                 boundVars>>

(* The VM entry fails: the slot keeps its event.                           *)
EntryFails ==
  /\ pc = "armed" /\ ~nmi_request
  /\ pc' = "dispatch" /\ reason' = "FAILED_VMENTRY"
  /\ ipi' = FALSE
  /\ UNCHANGED <<pending, nmi_request, eventVars, guestVars, sysret, resultVars,
                 shutdown, owedVars, boundVars>>

(***************************************************************************)
(* External: the guest and its CPU.                                        *)
(***************************************************************************)

(* The event reaches its handler; interrupts are off there.                *)
Deliver ==
  /\ pc = "guest" /\ inflight # "none"
  /\ inflight' = "none"
  /\ owed_bounce' = (owed_bounce /\ inflight # "bounce")
  /\ owed_nmi' = IF inflight = "nmi" THEN nmi_request ELSE owed_nmi
  /\ guest_if' = FALSE
  /\ UNCHANGED <<pc, pending, ipi, nmi_request, eventVars, shadow, reason, sysret,
                 resultVars, shutdown, boundVars>>

(* The guest enables or disables interrupts; STI and MOV SS cast a shadow. *)
(* With interrupt-window exiting on, the first chance to interrupt it ends *)
(* the run instead.                                                        *)
GuestRuns ==
  /\ pc = "guest" /\ inflight = "none"
  /\ ~(window /\ guest_if /\ ~shadow)
  /\ guest_if' \in BOOLEAN /\ shadow' \in BOOLEAN
  /\ <<guest_if', shadow'>> # <<guest_if, shadow>>
  /\ UNCHANGED <<pc, pending, ipi, nmi_request, eventVars, inflight, reason,
                 sysret, resultVars, shutdown, owedVars, boundVars>>

(* A VM exit, after which vmx_launch enables interrupts.  An exit can hit  *)
(* the delivery of an event (an EPT violation on its stack): the hardware  *)
(* then leaves the event in IDT_VECTORING_INFO_FIELD, which is not read.   *)
ExitGuest(e) ==
  /\ pc = "guest" /\ e # "FAILED_VMENTRY"
  /\ inflight # "none" => VectoringExits /\ e = "EPT_VIOLATION"
  /\ e = "INTERRUPT_WINDOW" => window /\ guest_if /\ ~shadow
  /\ pc' = "dispatch" /\ reason' = e
  /\ inflight' = "none"
  /\ ipi' = FALSE
  /\ UNCHANGED <<pending, nmi_request, eventVars, guest_if, shadow, sysret,
                 resultVars, shutdown, owedVars, boundVars>>

(***************************************************************************)
(* The switch on the exit reason, with preemption and interrupts on, and   *)
(* the test that ends the loop.                                            *)
(***************************************************************************)

(* The guest goes on, unless the vcpu is shut down.                        *)
Continue ==
  IF shutdown THEN LeaveFor("shutdown", status)
  ELSE pc' = "prepare" /\ UNCHANGED <<why, status>>

Dispatched(e) == pc = "dispatch" /\ reason = e /\ reason' = "none"

(* Mutant: an interrupted call that must not be restarted is handed on.    *)
SyscallResult_MissesBlock(nr, raw, signalled) ==
  CASE raw \notin ERestart -> [rax |-> raw, rewound |-> FALSE]
    [] raw = "ERESTART_RESTARTBLOCK" /\ ~signalled ->
         [rax |-> "restart_syscall", rewound |-> TRUE]
    [] signalled /\ (raw = "ERESTARTNOHAND" \/ (raw = "ERESTARTSYS" /\ nr = "futex")) ->
         [rax |-> "EINTR", rewound |-> FALSE]
    [] raw = "ERESTART_RESTARTBLOCK" -> [rax |-> raw, rewound |-> FALSE]
    [] OTHER -> [rax |-> "nr", rewound |-> TRUE]

(* vmx_handle_syscall: what becomes of the result raw of system call nr    *)
(* ("futex" stands for futex and ppoll).  RIP, already past the VMCALL, is *)
(* moved back when the guest has to make the call again.                   *)
SyscallResult(nr, raw, signalled) ==
  CASE raw \notin ERestart -> [rax |-> raw, rewound |-> FALSE]
    [] raw = "ERESTART_RESTARTBLOCK" /\ ~signalled ->
         [rax |-> "restart_syscall", rewound |-> TRUE]
    [] signalled /\ (\/ raw \in {"ERESTARTNOHAND", "ERESTART_RESTARTBLOCK"}
                     \/ raw = "ERESTARTSYS" /\ nr = "futex") ->
         [rax |-> "EINTR", rewound |-> FALSE]
    [] OTHER -> [rax |-> "nr", rewound |-> TRUE]

(* A VMCALL from CPL 0 that the seccomp filters allow.                     *)
Vmcall(nr, raw) ==
  /\ Dispatched("VMCALL") /\ calls < MaxCalls
  /\ calls' = calls + 1
  /\ sysret' = SyscallResult(nr, raw, pending # {})
  /\ Continue
  /\ UNCHANGED <<pending, ipi, nmi_request, eventVars, guestVars, conf_status, r,
                 shutdown, owedVars, sent, nmis>>

(* One the filters refuse: all vcpus of the instance are shut down.        *)
VmcallRefused ==
  /\ Dispatched("VMCALL")
  /\ shutdown' = TRUE
  /\ LeaveFor("seccomp", status)
  /\ UNCHANGED <<pending, ipi, nmi_request, eventVars, guestVars, sysret,
                 conf_status, r, owedVars, boundVars>>

(* Exits that end the loop and the status they report: a halt, an MSR that *)
(* is not emulated (a read reports none), a misconfigured EPT, a failed    *)
(* entry, an exit nobody handles.                                          *)
FinalStatus ==
  [HLT |-> "HLT", MSR_WRITE |-> "MSR_WRITE", MSR_READ |-> status,
   EPT_MISCONFIG |-> "UNHANDLED_VMEXIT", FAILED_VMENTRY |-> "FAIL_ENTRY",
   UNHANDLED |-> "UNHANDLED_VMEXIT"]

FinalExit(e) ==
  /\ Dispatched(e)
  /\ LeaveFor(e, FinalStatus[e])
  /\ shadow' = (shadow /\ e # "HLT")
  /\ UNCHANGED <<pending, ipi, nmi_request, eventVars, guest_if, inflight, sysret,
                 conf_status, r, shutdown, owedVars, boundVars>>

(* An EPT violation that cannot be served.                                 *)
ViolationFails ==
  /\ Dispatched("EPT_VIOLATION")
  /\ r' = "fault"
  /\ LeaveFor("EPT_VIOLATION", "INTERNAL_ERROR")
  /\ UNCHANGED <<pending, ipi, nmi_request, eventVars, guestVars, sysret,
                 conf_status, shutdown, owedVars, boundVars>>

(* An exception (not an NMI) is noted in vcpu->status; the guest goes on.  *)
ExceptionExit ==
  /\ Dispatched("EXCEPTION_NMI")
  /\ status' = "vector"
  /\ IF shutdown THEN pc' = "leave" /\ why' = "shutdown"
     ELSE pc' = "prepare" /\ why' = why
  /\ UNCHANGED <<pending, ipi, nmi_request, eventVars, guestVars, sysret,
                 conf_status, r, shutdown, owedVars, boundVars>>

(* The guest can take an interrupt now.                                    *)
WindowExit ==
  LET b == IF bounce_pending THEN InjectBounce
           ELSE [slot |-> intr_info, pending |-> FALSE, window |-> FALSE]
  IN /\ Dispatched("INTERRUPT_WINDOW")
     /\ bounce_pending' = b.pending /\ window' = b.window /\ intr_info' = b.slot
     /\ Continue
     /\ UNCHANGED <<pending, ipi, nmi_request, nmi_pending, guestVars, sysret,
                    conf_status, r, shutdown, owedVars, boundVars>>

(* Exits that change nothing here: a VMCALL from CPL > 0, an emulated      *)
(* instruction, a violation that was served, an NMI or an interrupt of the *)
(* host.                                                                   *)
PlainExit(e) ==
  /\ Dispatched(e)
  /\ Continue
  /\ UNCHANGED <<pending, ipi, nmi_request, eventVars, guestVars, sysret,
                 conf_status, r, shutdown, owedVars, boundVars>>

PlainExits == {"VMCALL", "CPUID", "EPT_VIOLATION", "EXCEPTION_NMI", "MSR_WRITE",
               "MSR_READ", "XSETBV", "EXTERNAL_INTERRUPT"}

(* The epilogue: the status is copied to conf, the signal mask restored.   *)
(* The ioctl copies conf out only when 0 is returned.                      *)
Leave ==
  LET code == IF pending \ (UserBlocked \ {"kill"}) # {} THEN "EINTR" ELSE r
  IN /\ pc = "leave"
     /\ pc' = "user"
     /\ r' = code
     /\ conf_status' = IF code = "0" THEN status ELSE conf_status
     /\ UNCHANGED <<pending, ipi, nmi_request, eventVars, guestVars, reason,
                    sysret, status, why, shutdown, owedVars, boundVars>>

(* External: back in user mode the process takes a signal, or unblocks and *)
(* takes one it had blocked; SIGKILL ends it.                              *)
TakeSignal(s) ==
  /\ pc = "user" /\ s \in pending /\ s # "kill"
  /\ pending' = pending \ {s}
  /\ UNCHANGED <<pc, ipi, nmi_request, eventVars, guestVars, reason, sysret,
                 resultVars, shutdown, owedVars, boundVars>>

(***************************************************************************)
(* The specification.                                                      *)
(***************************************************************************)
ThreadStep ==
  \/ Prepare \/ ProcessRequests \/ InjectEvents \/ ArmEntry \/ AbortEntry
  \/ EntryFails \/ Leave
  \/ \E nr \in {"futex", "nr"}, raw \in Results : Vmcall(nr, raw)
  \/ VmcallRefused \/ ViolationFails \/ ExceptionExit \/ WindowExit
  \/ \E e \in DOMAIN FinalStatus : FinalExit(e)
  \/ \E e \in PlainExits : PlainExit(e)

Next ==
  \/ \E s \in Signals : SendSignal(s) \/ TakeSignal(s)
  \/ InjectNmi \/ Shutdown \/ Run
  \/ ThreadStep \/ EnterGuest
  \/ Deliver \/ GuestRuns \/ \E e \in Exits : ExitGuest(e)

Spec == Init /\ [][Next]_vars

(***************************************************************************)
(* Properties.                                                             *)
(***************************************************************************)

(* The VM entry would fail on an event the guest cannot take: vector 20 is *)
(* only injected into a guest with interrupts enabled and outside the      *)
(* shadow of STI and MOV SS, an NMI only outside that shadow.  What        *)
(* vmx_inject_bounce and vmx_inject_nmi tested still holds at the entry,   *)
(* whatever aborted entries, returns to the runtime and exits come between. *)
InjectionLegal ==
  pc = "guest" /\ inflight # "none"
    => ~shadow /\ (inflight = "bounce" => guest_if)

(* Every event the vcpu is about to inject, or will inject, was asked for  *)
(* and has not been delivered before: one request, one event.              *)
NoSpuriousEvent ==
  /\ bounce_pending \/ "bounce" \in {intr_info, inflight} => owed_bounce
  /\ nmi_request \/ nmi_pending \/ "nmi" \in {intr_info, inflight} => owed_nmi

(* When RUN returns 0, the status the runtime reads is that of the exit    *)
(* that ended this RUN, not of an earlier one (comment vmx.c:176-188).     *)
(* Shutdown, a refused system call and a refused MSR read have no status.  *)
Explained ==
  [signal |-> "INTR", HLT |-> "HLT", MSR_WRITE |-> "MSR_WRITE",
   EPT_MISCONFIG |-> "UNHANDLED_VMEXIT", FAILED_VMENTRY |-> "FAIL_ENTRY",
   UNHANDLED |-> "UNHANDLED_VMEXIT"]
ExitIsExplained ==
  pc = "user" /\ r = "0" /\ why \in DOMAIN Explained
    => conf_status = Explained[why]

(* The guest never sees a restart code of the host kernel, and makes a     *)
(* call again exactly when RAX holds a call number.                        *)
GuestNeverSeesRestart ==
  /\ sysret.rax \notin ERestart
  /\ sysret.rewound <=> sysret.rax \in {"nr", "restart_syscall"}

(* The comment at exception.c:81-86: the bounce is remembered in           *)
(* bounce_pending and injected at the next entry, "so it is never lost".   *)
BounceNeverLost ==
  owed_bounce => bounce_pending \/ "bounce" \in {intr_info, inflight}

=============================================================================

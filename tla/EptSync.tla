------------------------------ MODULE EptSync ------------------------------
(***************************************************************************)
(* How one instance keeps its EPT, and the translations its vcpus cache,   *)
(* in step with the page table of the host process (ept.c, the entry and   *)
(* exit path of vmx.c, core.c:slimvm_enter, vcpu.c:vcpu_alloc).            *)
(*                                                                         *)
(* Three kinds of actors interleave:                                       *)
(*   - vcpu threads, which run vmx_launch: enter the guest, leave it, and  *)
(*     map the page a guest access missed (ept_set_epte);                  *)
(*   - host threads, which change the page table of the process between    *)
(*     invalidate_range_start and invalidate_range_end, or age a page;     *)
(*   - the hardware, which walks the EPT and fills the TLB of the CPU the  *)
(*     guest runs on.  Translations are tagged with the EPT pointer, so    *)
(*     the vcpus of the instance share what a CPU has cached.              *)
(*                                                                         *)
(* One element of Pages is a 4K page: a host virtual page and the guest    *)
(* physical page the memory regions pair it with.  An element of Frames is *)
(* what a page table entry maps a page to.  2M entries: module NestedRange. *)
(* Accesses to shared fields are sequentially consistent here; module      *)
(* EptSyncTso adds the delayed store that x86 allows.                      *)
(***************************************************************************)
EXTENDS Integers, FiniteSets

CONSTANTS
  Pages,    \* pages of the guest's memory regions
  Frames,   \* what an entry can map a page to
  Vcpus,    \* vcpus of the instance
  Cpus,     \* physical CPUs
  Threads,  \* host threads that change or age the process's page table
  None,     \* an absent entry, CPU (-1), vcpu (NULL) or page
  MaxInvl,  \* bound: invalidate_range_start calls
  MaxAged   \* bound: mmu_notifier_seq up to which pages are aged

ASSUME NoneAssumption ==
  /\ None \notin Pages \cup Frames \cup Vcpus \cup Cpus \cup Threads
  /\ Vcpus \cap Threads = {}
ASSUME ThreadsAssumption == IsFiniteSet(Threads)
ASSUME BoundAssumption == MaxInvl \in Nat /\ MaxAged \in Nat

VARIABLES
  (* the host page table and the EPT, both under the instance's locks      *)
  hpt,         \* page -> frame: the page table of the host process
  ept,         \* page -> frame: the leaves of the EPT
  seq,         \* instp->mmu_notifier_seq
  count,       \* instp->mmu_notifier_count
  invl_count,  \* instp->ept_invl_count
  (* vcpus and CPUs                                                        *)
  vpc,         \* where each vcpu's thread stands in vmx_launch
  mode,        \* vcpu->mode
  req,         \* the VMX_REQ_TLB_FLUSH bit of vcpu->requests
  vcpu_cpu,    \* vcpu->cpu
  local,       \* per CPU: vmx_local_vcpu
  owner,       \* per CPU: the actor that has preemption disabled on it
  tlb,         \* per CPU: cached translations of this instance
  flt_page, flt_seq, flt_frame,  \* locals of an EPT violation in progress
  (* host threads                                                          *)
  tpc,         \* where each host thread stands
  range,       \* the pages between its invalidate_range_start and _end
  back,        \* where it continues once its TLB flush is done
  todo,        \* vcpus its ept_flush_remote_tlbs has still to visit
  cur,         \* the vcpu it is visiting
  seen_cpu,    \* the value of cur's vcpu->cpu it read
  nomask,      \* zalloc_cpumask_var failed
  targets      \* the CPUs to interrupt, then those that have not acked

memVars == <<hpt, ept, seq, count, invl_count>>
vcpuVars == <<vpc, mode, req, vcpu_cpu, local, owner, tlb>>
fltVars == <<flt_page, flt_seq, flt_frame>>
flushVars == <<todo, cur, seen_cpu, nomask, targets>>
threadVars == <<tpc, range, back, flushVars>>
vars == <<memVars, vcpuVars, fltVars, threadVars>>

(* enum vcpu_mode *)
OUTSIDE_ROOT_MODE == "outside_root"
IN_ROOT_MODE == "in_root"
OUTSIDE_GUEST_MODE == "outside_guest"
IN_GUEST_MODE == "in_guest"
EXITING_GUEST_MODE == "exiting_guest"
Modes == {OUTSIDE_ROOT_MODE, IN_ROOT_MODE, OUTSIDE_GUEST_MODE, IN_GUEST_MODE,
          EXITING_GUEST_MODE}

(* With interrupts off (local_irq_disable at vmx.c:2593 until 2678).  Only *)
(* module EptSyncTso goes through "drain".                                 *)
IrqOffPc == {"armed", "drain", "guest", "exited"}
(* With preemption off: the thread owns the CPU it was loaded on.          *)
PinnedPc == {"loaded", "flush", "ready"} \cup IrqOffPc
(* In the run ioctl and preemptible.                                       *)
PreemptiblePc == {"loop", "violation", "pin", "set"}
VcpuPc == {"none", "new", "user"} \cup PreemptiblePc \cup PinnedPc

(* Inside ept_flush_remote_tlbs; vcpu_lock is held in the last three.      *)
LockedPc == {"scan", "requested", "kick"}
FlushPc == {"unlocked", "wait"} \cup LockedPc
ThreadPc == {"idle", "open"} \cup FlushPc

TypeOK ==
  /\ hpt \in [Pages -> Frames \cup {None}]
  /\ ept \in [Pages -> Frames \cup {None}]
  /\ seq \in Nat /\ count \in Int /\ invl_count \in Nat
  /\ vpc \in [Vcpus -> VcpuPc]
  /\ mode \in [Vcpus -> Modes]
  /\ req \in [Vcpus -> BOOLEAN]
  /\ vcpu_cpu \in [Vcpus -> Cpus \cup {None}]
  /\ local \in [Cpus -> Vcpus \cup {None}]
  /\ owner \in [Cpus -> Vcpus \cup Threads \cup {None}]
  /\ tlb \in [Cpus -> SUBSET (Pages \X Frames)]
  /\ flt_page \in [Vcpus -> Pages \cup {None}]
  /\ flt_seq \in [Vcpus -> Nat]
  /\ flt_frame \in [Vcpus -> Frames \cup {None}]
  /\ tpc \in [Threads -> ThreadPc]
  /\ range \in [Threads -> SUBSET Pages]
  /\ back \in [Threads -> {"idle", "open"}]
  /\ todo \in [Threads -> SUBSET Vcpus]
  /\ cur \in [Threads -> Vcpus \cup {None}]
  /\ seen_cpu \in [Threads -> Cpus \cup {None}]
  /\ nomask \in [Threads -> BOOLEAN]
  /\ targets \in [Threads -> SUBSET Cpus]

Init ==
  /\ hpt \in [Pages -> Frames \cup {None}]
  /\ ept = [p \in Pages |-> None]
  /\ seq = 0 /\ count = 0 /\ invl_count = 0
  /\ vpc = [v \in Vcpus |-> "none"]
  /\ mode = [v \in Vcpus |-> OUTSIDE_ROOT_MODE]
  /\ req = [v \in Vcpus |-> FALSE]
  /\ vcpu_cpu = [v \in Vcpus |-> None]
  /\ local = [c \in Cpus |-> None]
  /\ owner = [c \in Cpus |-> None]
  /\ tlb = [c \in Cpus |-> {}]
  /\ flt_page = [v \in Vcpus |-> None]
  /\ flt_seq = [v \in Vcpus |-> 0]
  /\ flt_frame = [v \in Vcpus |-> None]
  /\ tpc = [t \in Threads |-> "idle"]
  /\ range = [t \in Threads |-> {}]
  /\ back = [t \in Threads |-> "idle"]
  /\ todo = [t \in Threads |-> {}]
  /\ cur = [t \in Threads |-> None]
  /\ seen_cpu = [t \in Threads |-> None]
  /\ nomask = [t \in Threads |-> FALSE]
  /\ targets = [t \in Threads |-> {}]

(***************************************************************************)
(* Helpers.                                                                *)
(***************************************************************************)

(* Mutant: a flush keeps interrupts off while it waits for its IPIs.       *)
IrqsOff_WhileFlushing(c) ==
  owner[c] \in Threads \/ (owner[c] \in Vcpus /\ vpc[owner[c]] \in IrqOffPc)

(* Interrupts are off on CPU c: an IPI to it waits.  A guest running there *)
(* leaves for it, and the handler runs once vmx_launch enables interrupts. *)
IrqsOff(c) == owner[c] \in Vcpus /\ vpc[owner[c]] \in IrqOffPc

(* instp->vcpus[v] has been set.                                           *)
Published == {v \in Vcpus : vpc[v] \notin {"none", "new"}}

VcpuLockFree == \A t \in Threads : tpc[t] \notin LockedPc

(* Thread t is between invalidate_range_start and invalidate_range_end.    *)
Invalidating(t) == tpc[t] = "open" \/ (tpc[t] \in FlushPc /\ back[t] = "open")

Goto(v, pc) == vpc' = [vpc EXCEPT ![v] = pc]

(* The locals of ept_set_epte go out of scope.                             *)
FaultOver(v) ==
  /\ flt_page' = [flt_page EXCEPT ![v] = None]
  /\ flt_seq' = [flt_seq EXCEPT ![v] = 0]
  /\ flt_frame' = [flt_frame EXCEPT ![v] = None]

SetMode(v, m) == mode' = [mode EXCEPT ![v] = m]

(***************************************************************************)
(* __load_vcpu: vcpu v becomes the one loaded on CPU c.  When it comes     *)
(* from another CPU, that CPU forgets it (an IPI the caller waits for) and *)
(* a TLB flush is requested for the new one.                               *)
(***************************************************************************)
LoadVcpu(v, c) ==
  LET old == vcpu_cpu[v]
  IN \/ /\ local[c] = v
        /\ UNCHANGED <<local, req, vcpu_cpu>>
     \/ /\ local[c] # v /\ old = c
        /\ local' = [local EXCEPT ![c] = v]
        /\ UNCHANGED <<req, vcpu_cpu>>
     \/ /\ local[c] # v /\ old # c
        /\ old # None => ~IrqsOff(old)
        /\ local' = [d \in Cpus |-> IF d = c THEN v
                                    ELSE IF d = old /\ local[d] = v THEN None
                                    ELSE local[d]]
        /\ req' = [req EXCEPT ![v] = TRUE]
        /\ vcpu_cpu' = [vcpu_cpu EXCEPT ![v] = c]

(***************************************************************************)
(* The life of a vcpu outside the run loop.                                *)
(***************************************************************************)

(* vmx_create_vcpu: the new vcpu is loaded on the CPU that creates it.     *)
CreateVcpu(v, c) ==
  /\ vpc[v] = "none" /\ owner[c] = None
  /\ LoadVcpu(v, c)
  /\ Goto(v, "new")
  /\ UNCHANGED <<memVars, mode, owner, tlb, fltVars, threadVars>>

(* vcpu_alloc publishes it in instp->vcpus, under vcpu_lock.               *)
PublishVcpu(v) ==
  /\ vpc[v] = "new" /\ VcpuLockFree
  /\ Goto(v, "user")
  /\ UNCHANGED <<memVars, mode, req, vcpu_cpu, local, owner, tlb, fltVars,
                 threadVars>>

(* slimvm_enter (under vcpu_lock) and vmx_load_vcpu, on CPU c.             *)
EnterRun(v, c) ==
  /\ vpc[v] = "user" /\ VcpuLockFree /\ owner[c] = None
  /\ SetMode(v, IN_ROOT_MODE)
  /\ LoadVcpu(v, c)
  /\ Goto(v, "loop")
  /\ UNCHANGED <<memVars, owner, tlb, fltVars, threadVars>>

(* The loop ends (shutdown, signal, a done exit); the epilogue of          *)
(* vmx_launch.                                                             *)
LeaveRun(v) ==
  /\ vpc[v] = "loop"
  /\ SetMode(v, OUTSIDE_ROOT_MODE)
  /\ Goto(v, "user")
  /\ UNCHANGED <<memVars, req, vcpu_cpu, local, owner, tlb, fltVars,
                 threadVars>>

(* slimvm_sched_in: the scheduler puts the thread on CPU c.  An exit       *)
(* handler that brackets VMCS accesses by vmx_get_cpu reloads it the same  *)
(* way.                                                                    *)
SchedIn(v, c) ==
  /\ vpc[v] \in PreemptiblePc /\ owner[c] = None
  /\ LoadVcpu(v, c)
  /\ UNCHANGED <<memVars, vpc, mode, owner, tlb, fltVars, threadVars>>

(***************************************************************************)
(* One turn of the loop of vmx_launch.                                     *)
(***************************************************************************)

(* preempt_disable and __load_vcpu.                                        *)
PreemptDisable(v, c) ==
  /\ vpc[v] = "loop" /\ owner[c] = None
  /\ LoadVcpu(v, c)
  /\ owner' = [owner EXCEPT ![c] = v]
  /\ Goto(v, "loaded")
  /\ UNCHANGED <<memVars, mode, tlb, fltVars, threadVars>>

(* vmx_process_vcpu_requests: vmx_check_request clears the bit ...         *)
CheckRequest(v) ==
  /\ vpc[v] = "loaded"
  /\ Goto(v, IF req[v] THEN "flush" ELSE "ready")
  /\ req' = [req EXCEPT ![v] = FALSE]
  /\ UNCHANGED <<memVars, mode, vcpu_cpu, local, owner, tlb, fltVars,
                 threadVars>>

(* Mutant: the request is cleared but nothing is flushed.                  *)
FlushTlb_Skipped(v) ==
  /\ vpc[v] = "flush"
  /\ Goto(v, "ready")
  /\ UNCHANGED <<memVars, mode, req, vcpu_cpu, local, owner, tlb, fltVars,
                 threadVars>>

(* ... and then vmx_vcpu_flush_tlb drops this CPU's translations (INVEPT). *)
FlushTlb(v) ==
  /\ vpc[v] = "flush"
  /\ tlb' = [tlb EXCEPT ![vcpu_cpu[v]] = {}]
  /\ Goto(v, "ready")
  /\ UNCHANGED <<memVars, mode, req, vcpu_cpu, local, owner, fltVars,
                 threadVars>>

(* local_irq_disable and vmx_set_vcpu_mode(IN_GUEST_MODE).                 *)
ArmEntry(v) ==
  /\ vpc[v] = "ready"
  /\ SetMode(v, IN_GUEST_MODE)
  /\ Goto(v, "armed")
  /\ UNCHANGED <<memVars, req, vcpu_cpu, local, owner, tlb, fltVars,
                 threadVars>>

(* Preemption and interrupts are on again on v's CPU.                      *)
ReleaseCpu(v) == owner' = [owner EXCEPT ![vcpu_cpu[v]] = None]

(* The last check before entry fails: someone is asking this vcpu to exit, *)
(* a request is pending, or need_resched() holds (any time).  A failed     *)
(* vmx_inject_nmi gives up the same way, before interrupts are off.        *)
AbortEntry(v) ==
  /\ vpc[v] \in {"ready", "armed"}
  /\ SetMode(v, OUTSIDE_GUEST_MODE)
  /\ ReleaseCpu(v)
  /\ Goto(v, "loop")
  /\ UNCHANGED <<memVars, req, vcpu_cpu, local, tlb, fltVars, threadVars>>

(* Mutant: requests made since vmx_process_vcpu_requests are not looked at. *)
EnterGuest_IgnoresRequests(v) ==
  /\ vpc[v] = "armed"
  /\ mode[v] # EXITING_GUEST_MODE
  /\ Goto(v, "guest")
  /\ UNCHANGED <<memVars, mode, req, vcpu_cpu, local, owner, tlb, fltVars,
                 threadVars>>

(* The check succeeds and vmx_run_vcpu enters the guest.                   *)
EnterGuest(v) ==
  /\ vpc[v] = "armed"
  /\ mode[v] # EXITING_GUEST_MODE /\ ~req[v]
  /\ Goto(v, "guest")
  /\ UNCHANGED <<memVars, mode, req, vcpu_cpu, local, owner, tlb, fltVars,
                 threadVars>>

(* External: the guest touches page p and the hardware caches the walk.    *)
GuestAccess(v, p) ==
  /\ vpc[v] = "guest" /\ ept[p] # None
  /\ tlb' = [tlb EXCEPT ![vcpu_cpu[v]] = @ \cup {<<p, ept[p]>>}]
  /\ UNCHANGED <<memVars, vpc, mode, req, vcpu_cpu, local, owner, fltVars,
                 threadVars>>

(* A VM exit, for page p (EPT violation) or for another reason (p = None). *)
(* After an NMI, vmx_handle_nmi leaves vmx_local_vcpu NULL.                *)
ExitGuest(v, p, nmi) ==
  /\ vpc[v] = "guest"
  /\ SetMode(v, OUTSIDE_GUEST_MODE)
  /\ flt_page' = [flt_page EXCEPT ![v] = p]
  /\ local' = IF nmi THEN [local EXCEPT ![vcpu_cpu[v]] = None] ELSE local
  /\ Goto(v, "exited")
  /\ UNCHANGED <<memVars, req, vcpu_cpu, owner, tlb, flt_seq, flt_frame,
                 threadVars>>

(* local_irq_enable, preempt_enable, and the dispatch on the exit reason.  *)
EnableIrqs(v) ==
  /\ vpc[v] = "exited"
  /\ ReleaseCpu(v)
  /\ Goto(v, IF flt_page[v] = None THEN "loop" ELSE "violation")
  /\ UNCHANGED <<memVars, mode, req, vcpu_cpu, local, tlb, fltVars, threadVars>>

(***************************************************************************)
(* vmx_do_ept_violation: ept_set_epte for flt_page[v].                     *)
(***************************************************************************)

ReadSeq(v) ==
  /\ vpc[v] = "violation"
  /\ flt_seq' = [flt_seq EXCEPT ![v] = seq]
  /\ Goto(v, "pin")
  /\ UNCHANGED <<memVars, mode, req, vcpu_cpu, local, owner, tlb, flt_page,
                 flt_frame, threadVars>>

(* ept_pin_user_page or ept_follow_pfn finds frame f; get_user_pages makes *)
(* the host fault the page in when it is not there.                        *)
PinPage(v, f) ==
  LET p == flt_page[v]
  IN /\ vpc[v] = "pin"
     /\ hpt[p] \in {f, None}
     /\ hpt' = [hpt EXCEPT ![p] = f]
     /\ flt_frame' = [flt_frame EXCEPT ![v] = f]
     /\ Goto(v, "set")
     /\ UNCHANGED <<ept, seq, count, invl_count, mode, req, vcpu_cpu, local,
                    owner, tlb, flt_page, flt_seq, threadVars>>

(* The page cannot be pinned: -ERESTARTSYS and -EBUSY resume the guest,    *)
(* other errors end the loop (LeaveRun).                                   *)
PinFails(v) ==
  /\ vpc[v] = "pin"
  /\ FaultOver(v)
  /\ Goto(v, "loop")
  /\ UNCHANGED <<memVars, mode, req, vcpu_cpu, local, owner, tlb, threadVars>>

(* Mutant: an invalidation that began and ended meanwhile goes unnoticed.  *)
mmu_notifier_retry_CountOnly(v) == count # 0

mmu_notifier_retry(v) == count # 0 \/ seq # flt_seq[v]

(* Under ept_lock: give up when an invalidation is open or has ended since *)
(* ReadSeq, or when a table page cannot be allocated; else write the leaf. *)
SetEpte(v) ==
  /\ vpc[v] = "set"
  /\ \/ ept' = ept
     \/ /\ ~mmu_notifier_retry(v)
        /\ ept' = [ept EXCEPT ![flt_page[v]] = flt_frame[v]]
  /\ FaultOver(v)
  /\ Goto(v, "loop")
  /\ UNCHANGED <<hpt, seq, count, invl_count, mode, req, vcpu_cpu, local,
                 owner, tlb, threadVars>>

(***************************************************************************)
(* Host threads: the mmu_notifier callbacks.                               *)
(***************************************************************************)

TGoto(t, pc) == tpc' = [tpc EXCEPT ![t] = pc]

(* invalidate_range_start on the pages S, up to the release of ept_lock.   *)
RangeStart(t, S) ==
  /\ tpc[t] = "idle" /\ invl_count < MaxInvl
  /\ count' = count + 1
  /\ ept' = [p \in Pages |-> IF p \in S THEN None ELSE ept[p]]
  /\ invl_count' = invl_count + 1
  /\ range' = [range EXCEPT ![t] = S]
  /\ back' = [back EXCEPT ![t] = "open"]
  /\ TGoto(t, "unlocked")
  /\ UNCHANGED <<hpt, seq, vcpuVars, fltVars, flushVars>>

(* ept_invalidate_page, for clear_flush_young (no range open) or for       *)
(* change_pte (inside one).  The sequence moves only when the lookup finds *)
(* a leaf table; TLBs are flushed only when an entry was there.            *)
InvalidatePage(t, p) ==
  /\ \/ tpc[t] = "idle" /\ seq < MaxAged
     \/ tpc[t] = "open" /\ p \in range[t] /\ seq < MaxAged
  /\ \/ /\ ept[p] # None
        /\ seq' = seq + 1
        /\ ept' = [ept EXCEPT ![p] = None]
        /\ back' = [back EXCEPT ![t] = tpc[t]]
        /\ TGoto(t, "unlocked")
     \/ /\ ept[p] = None
        /\ seq' = seq + 1
        /\ UNCHANGED <<ept, back, tpc>>
  /\ UNCHANGED <<hpt, count, invl_count, vcpuVars, fltVars, range, flushVars>>

(* ept_flush_remote_tlbs: get_cpu and vcpu_lock.  Without a CPU mask every *)
(* other CPU will be interrupted and no mode is touched.                   *)
FlushLock(t, c, failed) ==
  /\ tpc[t] = "unlocked" /\ owner[c] = None /\ VcpuLockFree
  /\ owner' = [owner EXCEPT ![c] = t]
  /\ todo' = [todo EXCEPT ![t] = Published]
  /\ nomask' = [nomask EXCEPT ![t] = failed]
  /\ targets' = [targets EXCEPT ![t] = IF failed THEN Cpus \ {c} ELSE {}]
  /\ TGoto(t, "scan")
  /\ UNCHANGED <<memVars, vpc, mode, req, vcpu_cpu, local, tlb, fltVars, range,
                 back, cur, seen_cpu>>

(* vmx_make_request.                                                       *)
MakeRequest(t, v) ==
  /\ tpc[t] = "scan" /\ v \in todo[t]
  /\ req' = [req EXCEPT ![v] = TRUE]
  /\ todo' = [todo EXCEPT ![t] = @ \ {v}]
  /\ cur' = [cur EXCEPT ![t] = v]
  /\ TGoto(t, "requested")
  /\ UNCHANGED <<memVars, vpc, mode, vcpu_cpu, local, owner, tlb, fltVars,
                 range, back, seen_cpu, nomask, targets>>

ReadCpu(t) ==
  /\ tpc[t] = "requested"
  /\ seen_cpu' = [seen_cpu EXCEPT ![t] = vcpu_cpu[cur[t]]]
  /\ TGoto(t, "kick")
  /\ UNCHANGED <<memVars, vcpuVars, fltVars, range, back, todo, cur, nomask,
                 targets>>

(* Mutant: a vcpu that someone else has asked to exit is not waited for.   *)
Kick_OnlyInGuest(t) ==
  LET v == cur[t]
      c == seen_cpu[t]
      kicks == ~nomask[t] /\ c # None /\ owner[c] # t /\ mode[v] = IN_GUEST_MODE
  IN /\ tpc[t] = "kick"
     /\ mode' = IF kicks THEN [mode EXCEPT ![v] = EXITING_GUEST_MODE] ELSE mode
     /\ targets' = IF kicks THEN [targets EXCEPT ![t] = @ \cup {c}] ELSE targets
     /\ cur' = [cur EXCEPT ![t] = None]
     /\ seen_cpu' = [seen_cpu EXCEPT ![t] = None]
     /\ TGoto(t, "scan")
     /\ UNCHANGED <<memVars, vpc, req, vcpu_cpu, local, owner, tlb, fltVars,
                    range, back, todo, nomask>>

(* The CPU is interrupted unless it is this one, unknown, or the vcpu was  *)
(* OUTSIDE_GUEST_MODE; the cmpxchg asks a vcpu in the guest to exit.       *)
Kick(t) ==
  LET v == cur[t]
      c == seen_cpu[t]
      kicks == ~nomask[t] /\ c # None /\ owner[c] # t
  IN /\ tpc[t] = "kick"
     /\ mode' = IF kicks /\ mode[v] = IN_GUEST_MODE
                THEN [mode EXCEPT ![v] = EXITING_GUEST_MODE] ELSE mode
     /\ targets' = IF kicks /\ mode[v] # OUTSIDE_GUEST_MODE
                   THEN [targets EXCEPT ![t] = @ \cup {c}] ELSE targets
     /\ cur' = [cur EXCEPT ![t] = None]
     /\ seen_cpu' = [seen_cpu EXCEPT ![t] = None]
     /\ TGoto(t, "scan")
     /\ UNCHANGED <<memVars, vpc, req, vcpu_cpu, local, owner, tlb, fltVars,
                    range, back, todo, nomask>>

(* vcpu_lock is released and smp_call_function_many waits for the targets. *)
SendIpis(t) ==
  /\ tpc[t] = "scan" /\ todo[t] = {}
  /\ TGoto(t, "wait")
  /\ UNCHANGED <<memVars, vcpuVars, fltVars, range, back, flushVars>>

(* ack_flush runs on CPU c.                                                *)
AckFlush(t, c) ==
  /\ tpc[t] = "wait" /\ c \in targets[t] /\ ~IrqsOff(c)
  /\ targets' = [targets EXCEPT ![t] = @ \ {c}]
  /\ UNCHANGED <<memVars, vcpuVars, fltVars, tpc, range, back, todo, cur,
                 seen_cpu, nomask>>

(* All have acked: put_cpu, and the callback returns.                      *)
FlushDone(t) ==
  /\ tpc[t] = "wait" /\ targets[t] = {}
  /\ owner' = [c \in Cpus |-> IF owner[c] = t THEN None ELSE owner[c]]
  /\ TGoto(t, back[t])
  /\ back' = [back EXCEPT ![t] = "idle"]
  /\ nomask' = [nomask EXCEPT ![t] = FALSE]
  /\ UNCHANGED <<memVars, vpc, mode, req, vcpu_cpu, local, tlb, fltVars, range,
                 todo, cur, seen_cpu, targets>>

(* External: with the callback returned the host unmaps or replaces a page *)
(* of the range (and may free the frame it had).                           *)
HostChange(t, p, f) ==
  /\ tpc[t] = "open" /\ p \in range[t]
  /\ hpt' = [hpt EXCEPT ![p] = f]
  /\ UNCHANGED <<ept, seq, count, invl_count, vcpuVars, fltVars, threadVars>>

(* External: a host access faults a page in; no notifier is called.        *)
HostFault(p, f) ==
  /\ hpt[p] = None
  /\ hpt' = [hpt EXCEPT ![p] = f]
  /\ UNCHANGED <<ept, seq, count, invl_count, vcpuVars, fltVars, threadVars>>

(* invalidate_range_end, under ept_lock.                                   *)
RangeEnd(t) ==
  /\ tpc[t] = "open"
  /\ seq' = seq + 1
  /\ count' = count - 1
  /\ range' = [range EXCEPT ![t] = {}]
  /\ TGoto(t, "idle")
  /\ UNCHANGED <<hpt, ept, invl_count, vcpuVars, fltVars, back, flushVars>>

(***************************************************************************)
(* The specification.                                                      *)
(***************************************************************************)

VcpuStep(v) ==
  \/ \E c \in Cpus : \/ CreateVcpu(v, c) \/ EnterRun(v, c)
                     \/ SchedIn(v, c) \/ PreemptDisable(v, c)
  \/ PublishVcpu(v) \/ LeaveRun(v)
  \/ CheckRequest(v) \/ FlushTlb(v) \/ ArmEntry(v)
  \/ AbortEntry(v) \/ EnterGuest(v)
  \/ \E p \in Pages : GuestAccess(v, p)
  \/ \E p \in Pages \cup {None}, nmi \in BOOLEAN : ExitGuest(v, p, nmi)
  \/ EnableIrqs(v)
  \/ ReadSeq(v)
  \/ \E f \in Frames : PinPage(v, f)
  \/ PinFails(v) \/ SetEpte(v)

ThreadStep(t) ==
  \/ \E S \in SUBSET Pages : RangeStart(t, S)
  \/ \E p \in Pages : InvalidatePage(t, p)
  \/ \E c \in Cpus, failed \in BOOLEAN : FlushLock(t, c, failed)
  \/ \E v \in Vcpus : MakeRequest(t, v)
  \/ ReadCpu(t) \/ Kick(t) \/ SendIpis(t)
  \/ \E c \in Cpus : AckFlush(t, c)
  \/ FlushDone(t)
  \/ \E p \in Pages, f \in Frames \cup {None} : HostChange(t, p, f)
  \/ RangeEnd(t)

Next ==
  \/ \E v \in Vcpus : VcpuStep(v)
  \/ \E t \in Threads : ThreadStep(t)
  \/ \E p \in Pages, f \in Frames : HostFault(p, f)

Spec == Init /\ [][Next]_vars

(* Fairness.  A host thread inside a flush, and a vcpu thread with         *)
(* preemption off, keep running; a guest leaves for the interrupts of its  *)
(* CPU (external-interrupt exiting), a pending IPI is taken as soon as     *)
(* interrupts are on, and the scheduler and the spin lock do not starve a  *)
(* thread that is about to flush.                                          *)
FlushFairness(t) ==
  /\ SF_vars(\E c \in Cpus, failed \in BOOLEAN : FlushLock(t, c, failed))
  /\ WF_vars(\/ \E v \in Vcpus : MakeRequest(t, v)
             \/ ReadCpu(t) \/ Kick(t) \/ SendIpis(t) \/ FlushDone(t))
  /\ SF_vars(\E c \in Cpus : AckFlush(t, c))

PinnedFairness(v) ==
  WF_vars(\/ CheckRequest(v) \/ FlushTlb(v) \/ ArmEntry(v) \/ AbortEntry(v)
          \/ EnterGuest(v) \/ EnableIrqs(v)
          \/ \E p \in Pages \cup {None}, nmi \in BOOLEAN : ExitGuest(v, p, nmi))

FairSpec ==
  /\ Spec
  /\ \A t \in Threads : FlushFairness(t)
  /\ \A v \in Vcpus : PinnedFairness(v)

(***************************************************************************)
(* Properties.                                                             *)
(***************************************************************************)

(* The EPT holds no translation the host page table does not hold: what    *)
(* ept_set_epte installed from a pinned page is dropped before the host    *)
(* can replace it, whatever faults and invalidations overlap.              *)
EptMatchesHost == \A p \in Pages : ept[p] # None => ept[p] = hpt[p]

(* While a vcpu executes guest code, no translation cached by its CPU maps *)
(* a page to anything but what the host page table maps it to: once an     *)
(* invalidate_range_start has returned, nobody uses the old frame.         *)
GuestNeverStale ==
  \A v \in Vcpus : vpc[v] = "guest" =>
    \A e \in tlb[vcpu_cpu[v]] : hpt[e[1]] = e[2]

(* The WARN_ON at ept.c:593 never fires: an entry that ept_set_epte finds  *)
(* present already maps the frame it is about to write.                    *)
NoPfnMismatch ==
  \A v \in Vcpus :
    LET p == flt_page[v]
    IN vpc[v] = "set" /\ ~mmu_notifier_retry(v) /\ ept[p] # None
         => ept[p] = flt_frame[v]

(* A vcpu that is loaded on a CPU (vmx_local_vcpu) is the one whose        *)
(* vcpu->cpu names it, so no two CPUs hold the same vcpu and a later load  *)
(* elsewhere will find and clear it.                                       *)
LoadedWhereRecorded ==
  \A c \in Cpus : local[c] # None => vcpu_cpu[local[c]] = c

(* A notifier callback that has to flush returns: its IPIs are acknowledged *)
(* whoever else is flushing, loading a vcpu or entering the guest.         *)
FlushReturns ==
  \A t \in Threads : tpc[t] = "unlocked" ~> tpc[t] \in {"idle", "open"}

(* While a page is inside an open invalidation no fault can map it again.  *)
RangeStaysClear ==
  \A t \in Threads : Invalidating(t) => \A p \in range[t] : ept[p] = None
=============================================================================

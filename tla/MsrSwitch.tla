----------------------------- MODULE MsrSwitch -----------------------------
(***************************************************************************)
(* The MSRs and XCR0 a vcpu shares with the host, in both engines.  They   *)
(* are switched lazily.  VMX (vmx.c): the frequent exits restore two MSRs  *)
(* only, the others stay with the guest until a rarer exit.  SVM (svm.c):  *)
(* the MSRs live in the VMCB and come with every entry; no exit restores   *)
(* them.  With both, a reschedule or the end of RUN gives back everything, *)
(* and XCR0 is only given back there.                                      *)
(*                                                                         *)
(* The CPU is the one the thread runs on.  Host values are 0: the system   *)
(* MSRs are the same on every CPU, and the scheduler keeps the per-thread  *)
(* ones.                                                                   *)
(***************************************************************************)
EXTENDS Integers, Sequences

CONSTANTS
  Values,      \* what the guest writes to an MSR; 0 is the host's value
  Unsupported, \* MSRs a CPU may lack
  Xcr0s,       \* what the guest writes to XCR0; 0 has no FP bit and is refused
  HostXcr0     \* host_xcr0

ASSUME ValuesAssumption == 0 \in Values /\ HostXcr0 \in Xcr0s /\ HostXcr0 # 0

ToSet(s) == {s[i] : i \in DOMAIN s}

vmx_msr_index == <<"SYSCALL_MASK", "LSTAR", "KERNEL_GS_BASE", "EFER", "STAR",
                   "MISC_FEATURES_ENABLES">>

svm_msr_index == <<"STAR", "LSTAR", "CSTAR", "SYSCALL_MASK", "KERNEL_GS_BASE">>

Msrs == ToSet(vmx_msr_index) \cup ToSet(svm_msr_index) \cup {"PLATFORM_INFO"}

VARIABLES
  engine,      \* "vmx" or "svm": what the CPU has
  pc,          \* "user", "kernel" (in the loop), "guest", "dispatch" or "leave"
  on_cpu,      \* FALSE while the thread is scheduled out
  msr, hw_xcr0,             \* the registers of the CPU
  guest_msrs, host_msrs,    \* lists of [index, data]; SVM: the VMCB's save
                            \* area and host_user_msrs
  msr_index, save_nmsrs,    \* positions in them, 0 for -1; how many are switched
  guest_msrs_loaded, scheded,
  xcr0, guest_xcr0_loaded,  \* vcpu->xcr0 is 0 until the guest sets it
  last_vmexit,
  op,          \* the instruction an exit has left to emulate
  guest_view,  \* history: the value the guest last gave each MSR
  went_back    \* history: the guest has chosen the host's XCR0 while
               \* another value of its own was loaded

listVars == <<engine, msr_index, save_nmsrs>>
xcr0Vars == <<hw_xcr0, xcr0, guest_xcr0_loaded, went_back>>
vars == <<pc, on_cpu, msr, guest_msrs, host_msrs, listVars, guest_msrs_loaded,
          scheded, xcr0Vars, last_vmexit, op, guest_view>>

(* The MSRs the engine switches.                                           *)
Shared == ToSet(IF engine = "vmx" THEN vmx_msr_index ELSE svm_msr_index)

(***************************************************************************)
(* The lists (vmx_setup_vmcs, setup_msr).                                  *)
(***************************************************************************)

(* __find_msr_index, with 0 for -1.                                        *)
find_msr_index(list, m) ==
  LET at == {i \in 1 .. Len(list) : list[i] = m}
  IN IF at = {} THEN 0 ELSE CHOOSE i \in at : \A j \in at : i <= j

move_msr_up(list, from, to) ==
  [list EXCEPT ![to] = list[from], ![from] = list[to]]

(* An MSR found at position i goes to the next slot.                       *)
NextSlot(s, m, i) ==
  IF i = 0 THEN s
  ELSE [list |-> move_msr_up(s.list, i, s.n + 1), n |-> s.n + 1,
        index |-> [s.index EXCEPT ![m] = i]]

(* One round of setup_msr, for MSR m.                                      *)
SetupOne(s, m) == NextSlot(s, m, find_msr_index(s.list, m))

(* The order of the lists, how many entries are switched, and where each   *)
(* MSR was found; PLATFORM_INFO is moved last but one, and not recorded.   *)
setup_msr(list) ==
  LET s1 == SetupOne([list |-> list, n |-> 0, index |-> [m \in Msrs |-> 0]],
                     "SYSCALL_MASK")
      s2 == SetupOne(s1, "LSTAR")
      s3 == SetupOne(s2, "KERNEL_GS_BASE")
      s4 == SetupOne(s3, "EFER")
      s5 == SetupOne(s4, "STAR")
      s6 == [SetupOne(s5, "PLATFORM_INFO") EXCEPT !.index = s5.index]
  IN SetupOne(s6, "MISC_FEATURES_ENABLES")

(* One round of the loop of vmx_setup_vmcs over vmx_msr_index.             *)
ListMsr(list, m, missing) == IF m \in missing THEN list ELSE Append(list, m)

(* vmx_setup_vmcs lists the MSRs the CPU has, then PLATFORM_INFO.          *)
VmxLists(missing) ==
  LET l1 == ListMsr(<<>>, vmx_msr_index[1], missing)
      l2 == ListMsr(l1, vmx_msr_index[2], missing)
      l3 == ListMsr(l2, vmx_msr_index[3], missing)
      l4 == ListMsr(l3, vmx_msr_index[4], missing)
      l5 == ListMsr(l4, vmx_msr_index[5], missing)
      l6 == ListMsr(l5, vmx_msr_index[6], missing)
  IN setup_msr(Append(l6, "PLATFORM_INFO"))

(* The save area and host_user_msrs have a place for every shared MSR.     *)
SvmLists ==
  [list |-> svm_msr_index, n |-> Len(svm_msr_index),
   index |-> [m \in Msrs |-> find_msr_index(svm_msr_index, m)]]

Init ==
  \E e \in {"vmx", "svm"}, missing \in SUBSET Unsupported :
    LET s == IF e = "vmx" THEN VmxLists(missing) ELSE SvmLists
        list == [i \in DOMAIN s.list |-> [index |-> s.list[i], data |-> 0]]
    IN /\ engine = e
       /\ guest_msrs = list /\ host_msrs = list
       /\ msr_index = s.index /\ save_nmsrs = s.n
       /\ pc = "user" /\ on_cpu = TRUE /\ went_back = FALSE
       /\ msr = [m \in Msrs |-> 0] /\ guest_view = [m \in Msrs |-> 0]
       /\ guest_msrs_loaded = FALSE /\ scheded = FALSE
       /\ hw_xcr0 = HostXcr0 /\ xcr0 = 0 /\ guest_xcr0_loaded = FALSE
       /\ last_vmexit = "none" /\ op = [kind |-> "none"]

TypeOK ==
  /\ pc \in {"user", "kernel", "guest", "dispatch", "leave"}
  /\ engine \in {"vmx", "svm"}
  /\ {on_cpu, guest_msrs_loaded, scheded, guest_xcr0_loaded, went_back} \subseteq BOOLEAN
  /\ msr \in [Msrs -> Values] /\ guest_view \in [Msrs -> Values]
  /\ Len(guest_msrs) = Len(host_msrs) /\ save_nmsrs = Len(guest_msrs)
  /\ \A i \in DOMAIN guest_msrs :
       /\ guest_msrs[i] \in [index : Msrs, data : Values]
       /\ host_msrs[i] \in [index : Msrs, data : Values]
  /\ msr_index \in [Msrs -> 0 .. save_nmsrs]
  /\ {hw_xcr0, xcr0} \subseteq Xcr0s
  /\ last_vmexit \in {"none", "fast", "XSETBV", "slow"}

(***************************************************************************)
(* Moving values between the lists and the CPU.                            *)
(***************************************************************************)

(* The slots of the MSRs ms that are switched.                             *)
Slots(ms) == {msr_index[m] : m \in ms} \cap 1 .. save_nmsrs

(* load_guest_msr and load_host_msr for each of ms: the CPU's registers    *)
(* after the values of list are written, where guest and host differ.      *)
Written(list, guest, host, ms) ==
  LET w == {i \in Slots(ms) : guest[i] # host[i]}
  IN [m \in Msrs |-> IF \E i \in w : list[i].index = m
                     THEN list[CHOOSE i \in w : list[i].index = m].data
                     ELSE msr[m]]

(* save_guest_msr and save_host_msr for each of ms.                        *)
Saved(list, ms) ==
  [i \in DOMAIN list |->
     IF i \in Slots(ms) THEN [list[i] EXCEPT !.data = msr[list[i].index]] ELSE list[i]]

(* The MSRs the frequent exits switch.                                     *)
FastMsrs == {"EFER", "KERNEL_GS_BASE"}

(* Mutant: only what the frequent exits switch is given back.              *)
load_host_msrs_Fast ==
  /\ msr' = IF guest_msrs_loaded THEN Written(host_msrs, guest_msrs, host_msrs, FastMsrs)
            ELSE msr
  /\ guest_msrs_loaded' = FALSE

(* vmx_load_host_msrs and svm_load_host_msrs, which compares the VMCB.     *)
load_host_msrs ==
  /\ msr' = IF guest_msrs_loaded THEN Written(host_msrs, guest_msrs, host_msrs, Shared)
            ELSE msr
  /\ guest_msrs_loaded' = FALSE

(* SVM writes the register even when the value is the host's.              *)
load_guest_xcr0 ==
  LET load == xcr0 # 0 /\ ~guest_xcr0_loaded
  IN /\ hw_xcr0' = IF load /\ (engine = "svm" \/ xcr0 # HostXcr0) THEN xcr0 ELSE hw_xcr0
     /\ guest_xcr0_loaded' = (guest_xcr0_loaded \/ load)

(* Mutant: the flag is reset, the register is not.                         *)
put_guest_xcr0_FlagOnly ==
  /\ hw_xcr0' = hw_xcr0
  /\ guest_xcr0_loaded' = FALSE

put_guest_xcr0 ==
  /\ hw_xcr0' = IF guest_xcr0_loaded /\ xcr0 # HostXcr0 THEN HostXcr0 ELSE hw_xcr0
  /\ guest_xcr0_loaded' = FALSE

(***************************************************************************)
(* The thread.                                                             *)
(***************************************************************************)

(* load_vcpu, on the way into vmx_launch or svm_launch.                    *)
load_vcpu ==
  /\ pc = "user"
  /\ pc' = "kernel"
  /\ host_msrs' = Saved(host_msrs, Shared)
  /\ scheded' = TRUE
  /\ UNCHANGED <<on_cpu, msr, guest_msrs, listVars, guest_msrs_loaded, xcr0Vars,
                 last_vmexit, op, guest_view>>

(* The preempt notifiers, wherever the loop runs with preemption on.       *)
slimvm_sched_out ==
  /\ pc \in {"kernel", "dispatch", "leave"} /\ on_cpu
  /\ on_cpu' = FALSE
  /\ load_host_msrs
  /\ put_guest_xcr0
  /\ UNCHANGED <<pc, guest_msrs, host_msrs, listVars, scheded, xcr0, went_back,
                 last_vmexit, op, guest_view>>

(* Mutant: the thread comes back unnoticed by the next entry.              *)
slimvm_sched_in_Unnoticed ==
  /\ ~on_cpu
  /\ on_cpu' = TRUE
  /\ host_msrs' = Saved(host_msrs, Shared)
  /\ UNCHANGED <<pc, msr, guest_msrs, listVars, guest_msrs_loaded, scheded,
                 xcr0Vars, last_vmexit, op, guest_view>>

slimvm_sched_in ==
  /\ ~on_cpu
  /\ on_cpu' = TRUE
  /\ host_msrs' = Saved(host_msrs, Shared)
  /\ scheded' = TRUE
  /\ UNCHANGED <<pc, msr, guest_msrs, listVars, guest_msrs_loaded, xcr0Vars,
                 last_vmexit, op, guest_view>>

(* The entry, with interrupts off.  VMX: everything after a reschedule,    *)
(* else what the last exit gave back.  SVM: VMLOAD and VMRUN load the save *)
(* area.                                                                   *)
EnterGuest ==
  LET fast == engine = "vmx" /\ ~scheded /\ last_vmexit = "fast"
  IN /\ pc = "kernel" /\ on_cpu
     /\ pc' = "guest"
     /\ msr' = IF engine = "svm"
               THEN [m \in Msrs |-> IF m \in Shared THEN guest_msrs[msr_index[m]].data
                                    ELSE msr[m]]
               ELSE Written(guest_msrs, guest_msrs, host_msrs,
                            IF fast THEN FastMsrs ELSE Shared)
     /\ guest_msrs_loaded' = (guest_msrs_loaded \/ ~fast)
     /\ IF scheded \/ last_vmexit = "XSETBV" THEN load_guest_xcr0
        ELSE UNCHANGED <<hw_xcr0, guest_xcr0_loaded>>
     /\ scheded' = FALSE
     /\ UNCHANGED <<on_cpu, guest_msrs, host_msrs, listVars, xcr0, went_back,
                    last_vmexit, op, guest_view>>

(* An exit; "fast" is VMCALL, EPT_VIOLATION or EXTERNAL_INTERRUPT.  VMX    *)
(* saves the guest's KERNEL_GS_BASE, then restores host values.  SVM saves *)
(* all (VMSAVE), and restores nothing.                                     *)
ExitGuest(reason, todo) ==
  LET vmx == engine = "vmx"
      saved == Saved(guest_msrs, IF vmx THEN {"KERNEL_GS_BASE"} ELSE Shared)
      all == vmx /\ reason # "fast" /\ guest_msrs_loaded
      ms == IF vmx /\ reason = "fast" THEN FastMsrs ELSE IF all THEN Shared ELSE {}
  IN /\ pc = "guest"
     /\ pc' = "dispatch" /\ last_vmexit' = reason /\ op' = todo
     /\ guest_msrs' = saved
     /\ msr' = Written(host_msrs, saved, host_msrs, ms)
     /\ guest_msrs_loaded' = (guest_msrs_loaded /\ ~all)
     /\ UNCHANGED <<on_cpu, host_msrs, listVars, scheded, xcr0Vars, guest_view>>

(* The MSRs the guest writes without an exit: KERNEL_GS_BASE (WRMSR or     *)
(* SWAPGS), with SVM all of the list.                                      *)
PassThrough == IF engine = "vmx" THEN {"KERNEL_GS_BASE"} ELSE Shared

(* External: the guest writes an MSR that is not intercepted.              *)
GuestWrites(m, v) ==
  /\ pc = "guest" /\ m \in PassThrough /\ msr_index[m] # 0
  /\ msr' = [msr EXCEPT ![m] = v]
  /\ guest_view' = [guest_view EXCEPT ![m] = v]
  /\ UNCHANGED <<pc, on_cpu, guest_msrs, host_msrs, listVars, guest_msrs_loaded,
                 scheded, xcr0Vars, last_vmexit, op>>

(* An exit with nothing to emulate here, and preparations of an entry that *)
(* do not touch the registers.                                             *)
Dispatch ==
  /\ pc = "dispatch" /\ on_cpu /\ op.kind = "none"
  /\ pc' = "kernel"
  /\ UNCHANGED <<on_cpu, msr, guest_msrs, host_msrs, listVars, guest_msrs_loaded,
                 scheded, xcr0Vars, last_vmexit, op, guest_view>>

(* vmx_handle_msr_write; an MSR that is not in the list ends the loop.     *)
(* With SVM no MSR of the list gets here.                                  *)
handle_msr_write ==
  LET known == {i \in DOMAIN guest_msrs : guest_msrs[i].index = op.m}
  IN /\ pc = "dispatch" /\ on_cpu /\ op.kind = "wrmsr"
     /\ pc' = IF known = {} THEN "leave" ELSE "kernel"
     /\ guest_msrs' = [i \in DOMAIN guest_msrs |->
                         IF i \in known THEN [guest_msrs[i] EXCEPT !.data = op.v]
                         ELSE guest_msrs[i]]
     /\ guest_view' = IF known = {} THEN guest_view ELSE [guest_view EXCEPT ![op.m] = op.v]
     /\ op' = [kind |-> "none"]
     /\ UNCHANGED <<on_cpu, msr, host_msrs, listVars, guest_msrs_loaded, scheded,
                    xcr0Vars, last_vmexit>>

(* handle_xsetbv: only vcpu->xcr0 is written; a bad value is ignored.      *)
handle_xsetbv ==
  /\ pc = "dispatch" /\ on_cpu /\ op.kind = "xsetbv"
  /\ pc' = "kernel"
  /\ xcr0' = IF op.v = 0 THEN xcr0 ELSE op.v
  /\ went_back' = (went_back \/ (op.v = HostXcr0 /\ guest_xcr0_loaded /\ xcr0 # HostXcr0))
  /\ op' = [kind |-> "none"]
  /\ UNCHANGED <<on_cpu, msr, guest_msrs, host_msrs, listVars, guest_msrs_loaded,
                 scheded, hw_xcr0, guest_xcr0_loaded, last_vmexit, guest_view>>

(* A signal, a shutdown or an exit that is not handled ends the loop.      *)
EndLoop ==
  /\ pc = "kernel" /\ on_cpu
  /\ pc' = "leave"
  /\ UNCHANGED <<on_cpu, msr, guest_msrs, host_msrs, listVars, guest_msrs_loaded,
                 scheded, xcr0Vars, last_vmexit, op, guest_view>>

(* put_vcpu, on the way back to user mode.                                 *)
put_vcpu ==
  /\ pc = "leave" /\ on_cpu
  /\ pc' = "user" /\ last_vmexit' = "none"
  /\ load_host_msrs
  /\ put_guest_xcr0
  /\ UNCHANGED <<on_cpu, guest_msrs, host_msrs, listVars, scheded, xcr0, went_back,
                 op, guest_view>>

Next ==
  \/ load_vcpu \/ slimvm_sched_out \/ slimvm_sched_in \/ EnterGuest
  \/ \E m \in Msrs, v \in Values : GuestWrites(m, v)
  \/ \E reason \in {"fast", "slow"} : ExitGuest(reason, [kind |-> "none"])
  \/ \E m \in Msrs \ PassThrough, v \in Values :
       ExitGuest("slow", [kind |-> "wrmsr", m |-> m, v |-> v])
  \/ \E v \in Xcr0s : ExitGuest("XSETBV", [kind |-> "xsetbv", v |-> v])
  \/ Dispatch \/ handle_msr_write \/ handle_xsetbv \/ EndLoop \/ put_vcpu

Spec == Init /\ [][Next]_vars

(***************************************************************************)
(* Properties.                                                             *)
(***************************************************************************)

(* In user mode, and whenever another task has the CPU, every MSR has the  *)
(* host's value; in the kernel of a VMX host, EFER and KERNEL_GS_BASE do   *)
(* (load_host_msrs in sched_out and put_vcpu of both engines, the exit     *)
(* path of vmx_launch).                                                    *)
HostMsrsRestored ==
  /\ pc = "user" \/ ~on_cpu => \A m \in Msrs : msr[m] = 0
  /\ engine = "vmx" /\ pc # "guest" => \A m \in FastMsrs : msr[m] = 0

(* The guest runs with the values it last gave the MSRs the CPU has,       *)
(* whatever exits and reschedules came between (the entry switch on        *)
(* scheded and last_vmexit, the positions setup_msr recorded).             *)
GuestMsrsKept ==
  pc = "guest" => \A m \in Shared : msr[m] = guest_view[m]

(* XCR0 is the host's in user mode and for every other task, unless the    *)
(* guest has gone back to the host's value while another was loaded:       *)
(* put_guest_xcr0 takes vcpu->xcr0 for what the register holds.            *)
HostXcr0Restored ==
  pc = "user" \/ ~on_cpu => hw_xcr0 = HostXcr0 \/ went_back

=============================================================================

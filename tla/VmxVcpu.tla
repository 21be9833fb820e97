------------------------------- MODULE VmxVcpu -------------------------------
(***************************************************************************)
(* Vcpus of the VMX engine from creation to release (vmx.c: __load_vcpu,   *)
(* vmx_create_vcpu, vmx_destroy_vcpu, the vpid bitmap, and the places of   *)
(* the run loop that load a vcpu), on the hardware of module Hardware.     *)
(*                                                                         *)
(* A vcpu's VMCS is active on the CPU that loaded it and has to be cleared *)
(* there before another CPU loads it or its memory is freed.  Each CPU     *)
(* remembers in vmx_local_vcpu whose VMCS it loaded last and skips the     *)
(* load when the same vcpu comes again; each vcpu remembers its CPU and    *)
(* skips the flush when it comes back.  TLB entries carry the vpid and the *)
(* root of the EPT, and both are handed out again after a release.         *)
(***************************************************************************)
EXTENDS Hardware

CONSTANTS
  Vcpus,     \* addresses of struct vmx_vcpu
  Insts,     \* addresses of struct instance
  Roots,     \* pages for the root of an EPT (instp->eptp)
  NR_VPIDS,  \* VMX_NR_VPIDS
  None,      \* NULL, cpu = -1, no root; who made the entries of a freed vcpu
  Freed      \* a VMCS whose memory has been freed

ASSUME VpidAssumption == NR_VPIDS \in Nat /\ NR_VPIDS > 1
ASSUME NamesAssumption ==
  /\ None \notin Vcpus \cup Cpus \cup Insts \cup Roots \cup {Freed}
  /\ Freed \notin Vcpus

Vpids == 1 .. NR_VPIDS - 1

VARIABLES
  eptp,           \* instp->eptp, None before creation and after release
  pc,             \* where the vcpu's thread stands
  where,          \* the CPU the thread is on, None when it is scheduled out
  instance, vpid, vcpu_cpu, launched,  \* fields of the vcpu
  request,        \* VMX_REQ_TLB_FLUSH of vcpu->requests
  vpid_bitmap,    \* vmx_vpid_bitmap
  local_vcpu,     \* vmx_local_vcpu of each CPU
  current,        \* hardware: the current VMCS of each CPU
  active,         \* hardware: the VMCSs active on each CPU
  vmcs_launched,  \* hardware: the launch state of a vcpu's VMCS
  tlb,            \* hardware: the TLB entries of each CPU
  leaked,         \* history: CPUs where a failed creation left its VMCS active
  misjudged       \* history: vcpus whose first entry on their CPU failed late

fieldVars == <<instance, vpid, vpid_bitmap>>
loadVars == <<vcpu_cpu, launched, request, local_vcpu, current, active, vmcs_launched, misjudged>>
vcpuVars == <<eptp, pc, where, fieldVars, loadVars, tlb, leaked>>
vars == <<hardwareVars, vcpuVars>>

(* A translation is used under the vpid and the root it was made with; by  *)
(* whom and for which instance is history.                                 *)
Entries == [vcpu : Vcpus \cup {None}, inst : Insts \cup {None},
            vpid : Vpids, eptp : Roots]

TypeOK ==
  /\ HardwareTypeOK
  /\ eptp \in [Insts -> Roots \cup {None}]
  /\ pc \in [Vcpus -> {"free", "alloc", "failed", "idle", "loop", "ready", "guest"}]
  /\ where \in [Vcpus -> Cpus \cup {None}]
  /\ instance \in [Vcpus -> Insts \cup {None}] /\ vpid \in [Vcpus -> 0 .. NR_VPIDS - 1]
  /\ vcpu_cpu \in [Vcpus -> Cpus \cup {None}]
  /\ launched \in [Vcpus -> BOOLEAN] /\ request \in [Vcpus -> BOOLEAN]
  /\ vpid_bitmap \subseteq 0 .. NR_VPIDS - 1
  /\ local_vcpu \in [Cpus -> Vcpus \cup {None}]
  /\ current \in [Cpus -> Vcpus \cup {None, Freed}]
  /\ active \in [Cpus -> SUBSET (Vcpus \cup {Freed})]
  /\ vmcs_launched \in [Vcpus -> BOOLEAN]
  /\ tlb \in [Cpus -> SUBSET Entries]
  /\ leaked \subseteq Cpus /\ misjudged \subseteq Vcpus

(* What earlier users of the hardware may have left in a TLB.              *)
Leftovers == [vcpu : {None}, inst : {None}, vpid : Vpids, eptp : Roots]

VcpuInit ==
  /\ eptp = [i \in Insts |-> None]
  /\ pc = [v \in Vcpus |-> "free"] /\ where = [v \in Vcpus |-> None]
  /\ instance = [v \in Vcpus |-> None] /\ vpid = [v \in Vcpus |-> 0]
  /\ vcpu_cpu = [v \in Vcpus |-> None]
  /\ launched = [v \in Vcpus |-> FALSE] /\ request = [v \in Vcpus |-> FALSE]
  /\ vpid_bitmap = {0}
  /\ local_vcpu = [c \in Cpus |-> None] /\ current = [c \in Cpus |-> None]
  /\ active = [c \in Cpus |-> {}] /\ vmcs_launched = [v \in Vcpus |-> FALSE]
  /\ tlb = [c \in Cpus |-> Leftovers]
  /\ leaked = {} /\ misjudged = {}

Init == HardwareInit /\ VcpuInit

(* The device serves ioctls of the VMX engine.                             *)
Serving == phase = "in" /\ engine = "vmx"

(* No vcpu's thread occupies CPU c: another thread can run there.          *)
Idle(c) == \A w \in Vcpus : where[w] # c

(***************************************************************************)
(* __load_vcpu(vcpu, cpu) on CPU c, with __vmx_get_cpu_helper on the CPU   *)
(* the vcpu was loaded on before.                                          *)
(***************************************************************************)
Loads(v, c) == local_vcpu[c] # v

Moves(v, c) == Loads(v, c) /\ vcpu_cpu[v] # c

(* The CPU that runs the helper.                                           *)
Helps(v, c, d) == Moves(v, c) /\ d = vcpu_cpu[v] /\ d # c

LoadedLocal(v, c) ==
  [d \in Cpus |-> IF d = c THEN v
                  ELSE IF Helps(v, c, d) /\ local_vcpu[d] = v THEN None
                  ELSE local_vcpu[d]]

(* vmcs_load on c and vmcs_clear on the old CPU.                           *)
LoadedCurrent(v, c) ==
  [d \in Cpus |-> IF d = c THEN (IF Loads(v, c) THEN v ELSE current[c])
                  ELSE IF Helps(v, c, d) /\ current[d] = v THEN None
                  ELSE current[d]]

(* Mutant: the helper is not sent.                                         *)
LoadedActive_NoClear(v, c) ==
  [d \in Cpus |-> IF d = c THEN (IF Loads(v, c) THEN active[c] \cup {v} ELSE active[c])
                  ELSE active[d]]

LoadedActive(v, c) ==
  [d \in Cpus |-> IF d = c THEN (IF Loads(v, c) THEN active[c] \cup {v} ELSE active[c])
                  ELSE IF Helps(v, c, d) THEN active[d] \ {v}
                  ELSE active[d]]

(* Mutant: only a vcpu that ran elsewhere before flushes.                  *)
LoadedRequest_NotFirst(v, c) == request[v] \/ (Moves(v, c) /\ vcpu_cpu[v] # None)

LoadedRequest(v, c) == request[v] \/ Moves(v, c)

(* Mutant: the vcpu still counts as launched on its new CPU.               *)
LoadedLaunched_Kept(v, c) == launched[v]

LoadedLaunched(v, c) == launched[v] /\ ~Moves(v, c)

(* External: VMCLEAR makes a VMCS one that has to be launched.             *)
ClearedLaunch(v, c) == vmcs_launched[v] /\ ~(Moves(v, c) /\ vcpu_cpu[v] # None)

LoadedMisjudged(v, c) == {w \in misjudged : w = v => ~Moves(v, c)}

__load_vcpu(v, c) ==
  /\ local_vcpu' = LoadedLocal(v, c)
  /\ current' = LoadedCurrent(v, c) /\ active' = LoadedActive(v, c)
  /\ vmcs_launched' = [vmcs_launched EXCEPT ![v] = ClearedLaunch(v, c)]
  /\ launched' = [launched EXCEPT ![v] = LoadedLaunched(v, c)]
  /\ request' = [request EXCEPT ![v] = LoadedRequest(v, c)]
  /\ vcpu_cpu' = [vcpu_cpu EXCEPT ![v] = IF Moves(v, c) THEN c ELSE @]
  /\ misjudged' = LoadedMisjudged(v, c)

(* External: INVEPT of one context on CPU c (ept_sync_context).            *)
Synced(c, r) == [tlb EXCEPT ![c] = {e \in @ : e.eptp # r}]

(* The entries t after vcpu v is gone.                                     *)
Disowned(t, v) ==
  [c \in Cpus |-> {[e EXCEPT !.vcpu = IF @ = v THEN None ELSE @] : e \in t[c]}]

(***************************************************************************)
(* Instances, as far as their roots go.                                    *)
(***************************************************************************)
CreateInstance(i, r) ==
  /\ Serving
  /\ eptp[i] = None /\ \A j \in Insts : eptp[j] # r
  /\ eptp' = [eptp EXCEPT ![i] = r]
  /\ UNCHANGED <<hardwareVars, pc, where, fieldVars, loadVars, tlb, leaked>>

(* The last reference goes after the vcpus have been destroyed.            *)
DestroyInstance(i) ==
  /\ Serving
  /\ eptp[i] # None /\ \A v \in Vcpus : instance[v] # i
  /\ eptp' = [eptp EXCEPT ![i] = None]
  /\ tlb' = [c \in Cpus |-> {[e EXCEPT !.inst = IF @ = i THEN None ELSE @] : e \in tlb[c]}]
  /\ UNCHANGED <<hardwareVars, pc, where, fieldVars, loadVars, leaked>>

(***************************************************************************)
(* vmx_create_vcpu.                                                        *)
(***************************************************************************)

(* vmx_allocate_vpid: find_first_zero_bit.                                 *)
FirstZeroBit(p) ==
  /\ p \in Vpids \ vpid_bitmap
  /\ \A q \in Vpids \ vpid_bitmap : p <= q

(* Up to the kmallocs.  Assumed of the allocator: it does not hand out the *)
(* address of a freed vcpu that some vmx_local_vcpu still names, which     *)
(* only a creation that failed late leaves behind.                         *)
vmx_allocate_vpid(v, i, p) ==
  /\ Serving
  /\ pc[v] = "free" /\ eptp[i] # None
  /\ \A c \in Cpus : local_vcpu[c] # v
  /\ FirstZeroBit(p)
  /\ pc' = [pc EXCEPT ![v] = "alloc"]
  /\ instance' = [instance EXCEPT ![v] = i]
  /\ vpid' = [vpid EXCEPT ![v] = p] /\ vpid_bitmap' = vpid_bitmap \cup {p}
  /\ UNCHANGED <<hardwareVars, eptp, where, loadVars, tlb, leaked>>

(* vmx_free_vpid and the kfrees.                                           *)
vmx_free_vpid(v) ==
  /\ pc' = [pc EXCEPT ![v] = "free"]
  /\ instance' = [instance EXCEPT ![v] = None]
  /\ vpid' = [vpid EXCEPT ![v] = 0] /\ vpid_bitmap' = vpid_bitmap \ {vpid[v]}
  /\ vcpu_cpu' = [vcpu_cpu EXCEPT ![v] = None]
  /\ request' = [request EXCEPT ![v] = FALSE]
  /\ launched' = [launched EXCEPT ![v] = FALSE]
  /\ vmcs_launched' = [vmcs_launched EXCEPT ![v] = FALSE]
  /\ misjudged' = misjudged \ {v}

(* fail_guest_msrs, fail_host_msrs.                                        *)
AllocMsrsFails(v) ==
  /\ pc[v] = "alloc"
  /\ vmx_free_vpid(v)
  /\ UNCHANGED <<hardwareVars, eptp, where, local_vcpu, current, active, tlb, leaked>>

(* vmx_get_cpu and the setup of the VMCS, which fails when the             *)
(* configuration asks for a feature the CPU lacks.                         *)
SetupVcpu(v, c, ok) ==
  /\ pc[v] = "alloc" /\ Idle(c)
  /\ __load_vcpu(v, c)
  /\ pc' = [pc EXCEPT ![v] = IF ok THEN "idle" ELSE "failed"]
  /\ UNCHANGED <<hardwareVars, eptp, where, fieldVars, tlb, leaked>>

(* fail_initial_guest_state: all is freed, but the VMCS is not cleared and *)
(* vmx_local_vcpu keeps the address.                                       *)
UnwindVcpu(v) ==
  /\ pc[v] = "failed"
  /\ vmx_free_vpid(v)
  /\ active' = [c \in Cpus |-> IF v \in active[c] THEN (active[c] \ {v}) \cup {Freed}
                               ELSE active[c]]
  /\ current' = [c \in Cpus |-> IF current[c] = v THEN Freed ELSE current[c]]
  /\ leaked' = leaked \cup {c \in Cpus : v \in active[c]}
  /\ UNCHANGED <<hardwareVars, eptp, where, local_vcpu, tlb>>

(* Mutant: the VMCS is cleared where the vcpu ran last, not where the      *)
(* release loaded it.                                                      *)
vmx_destroy_vcpu_Unloaded(v, c) ==
  /\ pc[v] = "idle" /\ Idle(c)
  /\ vmx_free_vpid(v)
  /\ local_vcpu' = [local_vcpu EXCEPT ![c] = None]
  /\ current' = [d \in Cpus |-> IF current[d] = v THEN (IF d = c THEN None ELSE Freed)
                                ELSE current[d]]
  /\ active' = [d \in Cpus |-> IF v \in active[d]
                               THEN (active[d] \ {v}) \cup (IF d = c THEN {} ELSE {Freed})
                               ELSE active[d]]
  /\ tlb' = Disowned(Synced(c, eptp[instance[v]]), v)
  /\ UNCHANGED <<hardwareVars, eptp, where, leaked>>

(* vmx_destroy_vcpu on CPU c: load, sync, clear, forget, free.             *)
vmx_destroy_vcpu(v, c) ==
  /\ pc[v] = "idle" /\ Idle(c)
  /\ vmx_free_vpid(v)
  /\ local_vcpu' = [LoadedLocal(v, c) EXCEPT ![c] = None]
  /\ current' = [d \in Cpus |-> CASE LoadedCurrent(v, c)[d] # v -> LoadedCurrent(v, c)[d]
                                  [] d = c -> None
                                  [] OTHER -> Freed]
  /\ active' = [d \in Cpus |-> CASE v \notin LoadedActive(v, c)[d] -> LoadedActive(v, c)[d]
                                 [] d = c -> LoadedActive(v, c)[d] \ {v}
                                 [] OTHER -> (LoadedActive(v, c)[d] \ {v}) \cup {Freed}]
  /\ tlb' = Disowned(Synced(c, eptp[instance[v]]), v)
  /\ UNCHANGED <<hardwareVars, eptp, where, leaked>>

(***************************************************************************)
(* RUN.                                                                    *)
(***************************************************************************)

(* vmx_load_vcpu, slimvm_sched_in.                                         *)
slimvm_sched_in(v, c) ==
  /\ (pc[v] = "loop" /\ where[v] = None) \/ pc[v] = "idle"
  /\ Idle(c)
  /\ __load_vcpu(v, c)
  /\ pc' = [pc EXCEPT ![v] = "loop"] /\ where' = [where EXCEPT ![v] = c]
  /\ UNCHANGED <<hardwareVars, eptp, fieldVars, tlb, leaked>>

(* The thread loses its CPU (slimvm_sched_out), or leaves RUN.             *)
slimvm_sched_out(v, leaves) ==
  /\ pc[v] = "loop" /\ where[v] # None
  /\ where' = [where EXCEPT ![v] = None]
  /\ pc' = [pc EXCEPT ![v] = IF leaves THEN "idle" ELSE @]
  /\ UNCHANGED <<hardwareVars, eptp, fieldVars, loadVars, tlb, leaked>>

(* vmx_launch: preempt_disable, __load_vcpu once more, and                 *)
(* vmx_process_vcpu_requests with vmx_vcpu_flush_tlb.                      *)
PrepareEnter(v) ==
  LET c == where[v]
  IN /\ pc[v] = "loop" /\ c # None
     /\ pc' = [pc EXCEPT ![v] = "ready"]
     /\ local_vcpu' = LoadedLocal(v, c)
     /\ current' = LoadedCurrent(v, c) /\ active' = LoadedActive(v, c)
     /\ vmcs_launched' = [vmcs_launched EXCEPT ![v] = ClearedLaunch(v, c)]
     /\ launched' = [launched EXCEPT ![v] = LoadedLaunched(v, c)]
     /\ vcpu_cpu' = [vcpu_cpu EXCEPT ![v] = IF Moves(v, c) THEN c ELSE @]
     /\ misjudged' = LoadedMisjudged(v, c)
     /\ request' = [request EXCEPT ![v] = FALSE]
     /\ tlb' = IF LoadedRequest(v, c) THEN Synced(c, eptp[instance[v]]) ELSE tlb
     /\ UNCHANGED <<hardwareVars, eptp, where, fieldVars, leaked>>

(* The last check before the entry finds a request or need_resched().      *)
AbortEntry(v) ==
  /\ pc[v] = "ready"
  /\ pc' = [pc EXCEPT ![v] = "loop"]
  /\ UNCHANGED <<hardwareVars, eptp, where, fieldVars, loadVars, tlb, leaked>>

(* vmx_run_vcpu: VMLAUNCH or VMRESUME, as the launch state requires, and   *)
(* the guest uses its pages.                                               *)
EnterGuest(v) ==
  LET c == where[v]
      i == instance[v]
  IN /\ pc[v] = "ready" /\ ~request[v] /\ launched[v] = vmcs_launched[v]
     /\ pc' = [pc EXCEPT ![v] = "guest"]
     /\ launched' = [launched EXCEPT ![v] = TRUE]
     /\ vmcs_launched' = [vmcs_launched EXCEPT ![v] = TRUE]
     /\ tlb' = [tlb EXCEPT ![c] = @ \cup
                 {[vcpu |-> v, inst |-> i, vpid |-> vpid[v], eptp |-> eptp[i]]}]
     /\ UNCHANGED <<hardwareVars, eptp, where, fieldVars, vcpu_cpu, request, local_vcpu,
                    current, active, leaked, misjudged>>

(* The entry fails: the instruction is refused (vcpu->fail), or it exits   *)
(* because of the guest state it loads.  The latter counts as launched for *)
(* vmx_run_vcpu, and leaves the launch state of the VMCS as it was.        *)
EntryFails(v, late) ==
  /\ pc[v] = "ready" /\ ~request[v]
  /\ late => launched[v] = vmcs_launched[v]
  /\ pc' = [pc EXCEPT ![v] = "loop"]
  /\ launched' = [launched EXCEPT ![v] = @ \/ late]
  /\ misjudged' = IF late /\ ~vmcs_launched[v] THEN misjudged \cup {v} ELSE misjudged
  /\ UNCHANGED <<hardwareVars, eptp, where, fieldVars, vcpu_cpu, request, local_vcpu,
                 current, active, vmcs_launched, tlb, leaked>>

(* An exit; vmx_handle_nmi leaves vmx_local_vcpu NULL.                     *)
ExitGuest(v, nmi) ==
  /\ pc[v] = "guest"
  /\ pc' = [pc EXCEPT ![v] = "loop"]
  /\ local_vcpu' = [local_vcpu EXCEPT ![where[v]] = IF nmi THEN None ELSE @]
  /\ UNCHANGED <<hardwareVars, eptp, where, fieldVars, vcpu_cpu, launched, request, current,
                 active, vmcs_launched, tlb, leaked, misjudged>>

(* make_all_vcpus_request: a change of the EPT asks for a flush.           *)
MakeRequest(v) ==
  /\ pc[v] \notin {"free", "alloc", "failed"} /\ ~request[v]
  /\ request' = [request EXCEPT ![v] = TRUE]
  /\ UNCHANGED <<hardwareVars, eptp, pc, where, fieldVars, vcpu_cpu, launched, local_vcpu,
                 current, active, vmcs_launched, tlb, leaked, misjudged>>

(***************************************************************************)
(* The hardware underneath.                                                *)
(***************************************************************************)

(* __vmx_enable ends with global flushes.                                  *)
EnableHere(c) ==
  /\ EnableCpu(c)
  /\ tlb' = [tlb EXCEPT ![c] = IF engine = "vmx" /\ ~svme[c] THEN {} ELSE @]
  /\ UNCHANGED <<eptp, pc, where, fieldVars, loadVars, leaked>>

(* An unload begins; with it go the module's variables.                    *)
Unload ==
  /\ \A i \in Insts : eptp[i] = None
  /\ slimvm_exit
  /\ local_vcpu' = [c \in Cpus |-> None]
  /\ current' = [c \in Cpus |-> None] /\ active' = [c \in Cpus |-> {}]
  /\ leaked' = {}
  /\ UNCHANGED <<eptp, pc, where, fieldVars, vcpu_cpu, launched, request, vmcs_launched, misjudged,
                 tlb>>

VcpuStep(v) ==
  \/ \E i \in Insts, p \in Vpids : vmx_allocate_vpid(v, i, p)
  \/ AllocMsrsFails(v) \/ UnwindVcpu(v)
  \/ \E c \in Cpus : \/ \E ok \in BOOLEAN : SetupVcpu(v, c, ok)
                     \/ vmx_destroy_vcpu(v, c) \/ slimvm_sched_in(v, c)
  \/ \E leaves \in BOOLEAN : slimvm_sched_out(v, leaves)
  \/ PrepareEnter(v) \/ AbortEntry(v) \/ EnterGuest(v)
  \/ \E late \in BOOLEAN : EntryFails(v, late)
  \/ \E nmi \in BOOLEAN : ExitGuest(v, nmi)
  \/ MakeRequest(v)

InstanceStep(i) == (\E r \in Roots : CreateInstance(i, r)) \/ DestroyInstance(i)

HardwareStep == (LoaderStep \/ KvmStep) /\ UNCHANGED vcpuVars

Next ==
  \/ \E v \in Vcpus : VcpuStep(v)
  \/ \E i \in Insts : InstanceStep(i)
  \/ HardwareStep \/ (\E c \in Cpus : EnableHere(c)) \/ Unload

Spec == Init /\ [][Next]_vars

(* Between the last load and the exit the VMCS that VMLAUNCH or VMRESUME   *)
(* uses is the vcpu's own, active on this CPU alone, and vcpu->launched    *)
(* chooses the instruction its launch state allows, however creations,     *)
(* releases, migrations and NMIs have moved VMCSs about (__load_vcpu);     *)
(* unless the VMLAUNCH before it loaded the guest state and failed then.   *)
VmcsReady ==
  \A v \in Vcpus : pc[v] \in {"ready", "guest"} =>
    /\ current[where[v]] = v /\ vcpu_cpu[v] = where[v]
    /\ \A c \in Cpus : v \in active[c] => c = where[v]
    /\ launched[v] = vmcs_launched[v] \/ v \in misjudged

(* A running guest finds no translation of another vcpu under its vpid and *)
(* none of another instance under its root, although both numbers are      *)
(* reused and a release flushes only the CPU it runs on: every CPU the new *)
(* vcpu comes to is flushed first (vmx_destroy_vcpu, __load_vcpu).         *)
NoForeignTranslation ==
  \A v \in Vcpus : pc[v] = "guest" =>
    \A e \in tlb[where[v]] : e.eptp = eptp[instance[v]] =>
      e.inst = instance[v] /\ (e.vpid = vpid[v] => e.vcpu = v)

(* Memory of a VMCS is freed only when no CPU holds the VMCS active, save  *)
(* for the creation that fails after loading it (vmx_destroy_vcpu and      *)
(* fail_initial_guest_state of vmx_create_vcpu).                           *)
VmcsClearedFirst ==
  \A c \in Cpus : Freed \in active[c] \cup {current[c]} => c \in leaked

(***************************************************************************)
(* The inductive invariant behind all of them.                             *)
(***************************************************************************)
LiveVcpus == {v \in Vcpus : pc[v] # "free"}

(* Roots and vpids in use have one user each; only a served device has     *)
(* instances, and vcpus belong to one.                                     *)
NumberInv ==
  /\ \A i \in Insts : eptp[i] # None => Serving
  /\ \A i, j \in Insts : eptp[i] = eptp[j] => i = j \/ eptp[i] = None
  /\ 0 \in vpid_bitmap
  /\ \A v \in LiveVcpus :
       /\ instance[v] \in Insts /\ eptp[instance[v]] # None
       /\ vpid[v] \in vpid_bitmap /\ vpid[v] # 0
  /\ \A v \in Vcpus \ LiveVcpus : instance[v] = None /\ vcpu_cpu[v] = None
  /\ \A v, w \in LiveVcpus : vpid[v] = vpid[w] => v = w

(* A thread in RUN and on a CPU has it to itself, and has loaded there.    *)
PlaceInv ==
  /\ \A v \in Vcpus :
       /\ pc[v] = "alloc" => vcpu_cpu[v] = None
       /\ where[v] # None => pc[v] \in {"loop", "ready", "guest"} /\ vcpu_cpu[v] = where[v]
       /\ pc[v] \in {"ready", "guest"} => where[v] # None /\ local_vcpu[where[v]] = v
  /\ \A v, w \in Vcpus : where[v] = where[w] => v = w \/ where[v] = None

(* What vmx_local_vcpu says of a vcpu that exists is true, and its VMCS is *)
(* active where vcpu->cpu says or nowhere.                                 *)
VmcsInv ==
  /\ \A c \in Cpus : local_vcpu[c] \in LiveVcpus =>
       current[c] = local_vcpu[c] /\ vcpu_cpu[local_vcpu[c]] = c
  /\ \A c \in Cpus : current[c] \in Vcpus \cup {Freed} => current[c] \in active[c]
  /\ \A c \in Cpus : \A v \in active[c] : v # Freed => v \in LiveVcpus /\ vcpu_cpu[v] = c
  /\ \A c \in Cpus : Freed \in active[c] => c \in leaked
  /\ \A v \in Vcpus :
       /\ launched[v] = vmcs_launched[v] \/ v \in misjudged
       /\ vcpu_cpu[v] = None => ~launched[v] /\ ~vmcs_launched[v]

(* CPU c holds nothing foreign under the numbers of v.                     *)
Clean(v, c) ==
  \A e \in tlb[c] : e.eptp = eptp[instance[v]] =>
    e.inst = instance[v] /\ (e.vpid = vpid[v] => e.vcpu = v)

TlbInv ==
  \A v \in Vcpus : vcpu_cpu[v] # None /\ ~(request[v] /\ pc[v] # "guest")
    => Clean(v, vcpu_cpu[v])

(* Whatever a vcpu, a CPU, a vpid or a root remembers of the other three   *)
(* is true of them, or a flush or a load is still to come (vmx.c:797-838   *)
(* and 1606-1695).                                                         *)
VcpuInv == TypeOK /\ HardwareInv /\ NumberInv /\ PlaceInv /\ VmcsInv /\ TlbInv
=============================================================================

------------------------------- MODULE SvmAsid -------------------------------
(***************************************************************************)
(* ASIDs of the SVM engine (svm.c: svm_update_asid, svm_cpu_init,          *)
(* __load_vcpu, svm_vcpu_flush_tlb, svm_run_vcpu).  A TLB entry carries    *)
(* the ASID that was loaded when it was made.  A CPU gives out ASIDs in    *)
(* order, and starts a new generation with an empty TLB when it has none   *)
(* left; a vcpu keeps its ASID while it stays on the CPU and the CPU in    *)
(* the generation.                                                         *)
(*                                                                         *)
(* A vcpu's flush request is served by tlb_ctl, a field of its VMCB that   *)
(* takes effect at the next VMRUN, which may come much later and on        *)
(* another CPU.                                                            *)
(***************************************************************************)
EXTENDS Integers

CONSTANTS
  Vcpus, Cpus,
  None,            \* svm->cpu = -1; the owner of a freed vcpu's TLB entries
  min_asid, max_asid,  \* svm_cpu_data: the ASIDs that SEV does not use
  MaxGeneration    \* bound: generations of a CPU

ASSUME AsidAssumption ==
  /\ min_asid \in Nat /\ max_asid \in Nat /\ 1 <= min_asid /\ min_asid <= max_asid
  /\ MaxGeneration \in Nat
ASSUME NoneAssumption == None \notin Vcpus \cup Cpus

Asids == min_asid .. max_asid

VARIABLES
  cpu_generation, next_asid,  \* svm_cpu_data of each CPU
  cpu,                        \* svm->cpu
  asid_generation, asid,      \* svm->asid_generation, svm->asid
  tlb_ctl,                    \* svm->vmcb->control.tlb_ctl
  request,                    \* SLIMVM_REQ_TLB_FLUSH of svm->requests
  pc,                         \* where the vcpu's thread stands
  tlb,                        \* TLB entries by CPU and ASID: owner, stale or not
  invalidating,               \* an invalidation of the nested page table is open
  waits                       \* the vcpus whose exit it waits for

cpuVars == <<cpu_generation, next_asid>>
vcpuVars == <<cpu, asid_generation, asid, tlb_ctl>>
flushVars == <<invalidating, waits>>
vars == <<cpuVars, vcpuVars, request, pc, tlb, flushVars>>

(* A cached translation: whose it is, and whether the host has changed it. *)
Translations == [owner : Vcpus \cup {None}, stale : BOOLEAN]

TypeOK ==
  /\ cpu_generation \in [Cpus -> Nat] /\ next_asid \in [Cpus -> min_asid .. max_asid + 1]
  /\ cpu \in [Vcpus -> Cpus \cup {None}]
  /\ asid_generation \in [Vcpus -> Nat] /\ asid \in [Vcpus -> 0 .. max_asid]
  /\ tlb_ctl \in [Vcpus -> {"DO_NOTHING", "FLUSH_ASID", "FLUSH_ALL_ASID"}]
  /\ request \in [Vcpus -> BOOLEAN]
  /\ pc \in [Vcpus -> {"none", "out", "loaded", "ready", "guest"}]
  /\ tlb \in [Cpus -> [Asids -> SUBSET Translations]]
  /\ invalidating \in BOOLEAN /\ waits \subseteq Vcpus

(* What an earlier user of the CPU left in its TLB.                        *)
Leftover == [owner |-> None, stale |-> TRUE]

(* svm_cpu_init: no ASID is left, so that the first vcpu starts a          *)
(* generation and flushes what the TLB holds from before.                  *)
Init ==
  /\ cpu_generation = [c \in Cpus |-> 1]
  /\ next_asid = [c \in Cpus |-> max_asid + 1]
  /\ cpu = [v \in Vcpus |-> None]
  /\ asid_generation = [v \in Vcpus |-> 0] /\ asid = [v \in Vcpus |-> 0]
  /\ tlb_ctl = [v \in Vcpus |-> "DO_NOTHING"]
  /\ request = [v \in Vcpus |-> FALSE]
  /\ pc = [v \in Vcpus |-> "none"]
  /\ tlb = [c \in Cpus |-> [a \in Asids |-> {Leftover}]]
  /\ invalidating = FALSE /\ waits = {}

svm_create_vcpu(v) ==
  /\ pc[v] = "none"
  /\ pc' = [pc EXCEPT ![v] = "out"]
  /\ cpu' = [cpu EXCEPT ![v] = None]
  /\ asid_generation' = [asid_generation EXCEPT ![v] = 0]
  /\ asid' = [asid EXCEPT ![v] = 0]
  /\ tlb_ctl' = [tlb_ctl EXCEPT ![v] = "DO_NOTHING"]
  /\ request' = [request EXCEPT ![v] = FALSE]
  /\ UNCHANGED <<cpuVars, tlb, flushVars>>

(* The vcpu is freed; its TLB entries stay where they are, stale and owned *)
(* by nobody.                                                              *)
svm_destroy_vcpu(v) ==
  /\ pc[v] = "out"
  /\ pc' = [pc EXCEPT ![v] = "none"]
  /\ cpu' = [cpu EXCEPT ![v] = None]
  /\ asid_generation' = [asid_generation EXCEPT ![v] = 0]
  /\ asid' = [asid EXCEPT ![v] = 0]
  /\ tlb_ctl' = [tlb_ctl EXCEPT ![v] = "DO_NOTHING"]
  /\ request' = [request EXCEPT ![v] = FALSE]
  /\ tlb' = [c \in Cpus |-> [a \in Asids |->
               {IF e.owner = v THEN Leftover ELSE e : e \in tlb[c][a]}]]
  /\ UNCHANGED <<cpuVars, flushVars>>

(* Mutant: the vcpu keeps the ASID it had on another CPU.                  *)
__load_vcpu_KeepsGeneration(v, c) ==
  /\ cpu' = [cpu EXCEPT ![v] = c]
  /\ UNCHANGED asid_generation

(* A vcpu that comes to another CPU has no ASID there.                     *)
__load_vcpu(v, c) ==
  /\ cpu' = [cpu EXCEPT ![v] = c]
  /\ asid_generation' = [asid_generation EXCEPT ![v] = IF c # cpu[v] THEN 0 ELSE @]

(* The thread starts RUN or is scheduled in on CPU c.                      *)
Load(v, c) ==
  /\ pc[v] = "out" /\ \A w \in Vcpus : cpu[w] = c => pc[w] \in {"none", "out"}
  /\ __load_vcpu(v, c)
  /\ pc' = [pc EXCEPT ![v] = "loaded"]
  /\ UNCHANGED <<cpuVars, asid, tlb_ctl, request, tlb, flushVars>>

(* svm_sched_out, svm_put_vcpu.                                            *)
Put(v) ==
  /\ pc[v] = "loaded"
  /\ pc' = [pc EXCEPT ![v] = "out"]
  /\ UNCHANGED <<cpuVars, vcpuVars, request, tlb, flushVars>>

(* Mutant: the flush request is only acknowledged.                         *)
svm_vcpu_flush_tlb_Nothing(v) == tlb_ctl[v]

svm_vcpu_flush_tlb(v) == "FLUSH_ASID"

(* preempt_disable, svm_process_vcpu_requests.                             *)
ProcessRequests(v) ==
  /\ pc[v] = "loaded"
  /\ pc' = [pc EXCEPT ![v] = "ready"]
  /\ request' = [request EXCEPT ![v] = FALSE]
  /\ tlb_ctl' = [tlb_ctl EXCEPT ![v] = IF request[v] THEN svm_vcpu_flush_tlb(v) ELSE @]
  /\ UNCHANGED <<cpuVars, cpu, asid_generation, asid, tlb, flushVars>>

(* The last check before the entry finds a request or need_resched(); the  *)
(* thread may then be scheduled out and lose its CPU.                      *)
AbortEntry(v) ==
  /\ pc[v] = "ready"
  /\ pc' = [pc EXCEPT ![v] = "loaded"]
  /\ UNCHANGED <<cpuVars, vcpuVars, request, tlb, flushVars>>

Exhausted(c) == next_asid[c] > max_asid

(* Mutant: a new generation starts with the TLB as it is.                  *)
svm_update_asid_NoFlush(v, c) ==
  CASE asid_generation[v] = cpu_generation[c] ->
         [generation |-> cpu_generation[c], next |-> next_asid[c],
          asid |-> asid[v], ctl |-> tlb_ctl[v]]
    [] asid_generation[v] # cpu_generation[c] /\ Exhausted(c) ->
         [generation |-> cpu_generation[c] + 1, next |-> min_asid + 1,
          asid |-> min_asid, ctl |-> tlb_ctl[v]]
    [] OTHER ->
         [generation |-> cpu_generation[c], next |-> next_asid[c] + 1,
          asid |-> next_asid[c], ctl |-> tlb_ctl[v]]

(* svm_update_asid as the CPU c of vcpu v sees it: the generation and the  *)
(* next ASID of the CPU, the ASID of the vcpu, and tlb_ctl.                *)
svm_update_asid(v, c) ==
  CASE asid_generation[v] = cpu_generation[c] ->
         [generation |-> cpu_generation[c], next |-> next_asid[c],
          asid |-> asid[v], ctl |-> tlb_ctl[v]]
    [] asid_generation[v] # cpu_generation[c] /\ Exhausted(c) ->
         [generation |-> cpu_generation[c] + 1, next |-> min_asid + 1,
          asid |-> min_asid, ctl |-> "FLUSH_ALL_ASID"]
    [] OTHER ->
         [generation |-> cpu_generation[c], next |-> next_asid[c] + 1,
          asid |-> next_asid[c], ctl |-> tlb_ctl[v]]

(* VMRUN empties what tlb_ctl names: the entries of one ASID, or all.      *)
Flushed(c, a, ctl) ==
  [b \in Asids |-> IF ctl = "FLUSH_ALL_ASID" \/ (ctl = "FLUSH_ASID" /\ b = a)
                   THEN {} ELSE tlb[c][b]]

(* svm_run_vcpu up to VMRUN, with no request pending.                      *)
EnterGuest(v) ==
  LET c == cpu[v]
      u == svm_update_asid(v, c)
  IN /\ pc[v] = "ready" /\ ~request[v]
     /\ u.generation <= MaxGeneration
     /\ pc' = [pc EXCEPT ![v] = "guest"]
     /\ cpu_generation' = [cpu_generation EXCEPT ![c] = u.generation]
     /\ next_asid' = [next_asid EXCEPT ![c] = u.next]
     /\ asid_generation' = [asid_generation EXCEPT ![v] = u.generation]
     /\ asid' = [asid EXCEPT ![v] = u.asid]
     /\ tlb_ctl' = [tlb_ctl EXCEPT ![v] = u.ctl]
     /\ tlb' = [tlb EXCEPT ![c] = Flushed(c, u.asid, u.ctl)]
     /\ UNCHANGED <<cpu, request, flushVars>>

(* External: the guest uses the page; the CPU caches the translation,      *)
(* which the page table has unless an invalidation is under way.           *)
GuestAccess(v) ==
  /\ pc[v] = "guest" /\ ~invalidating
  /\ tlb' = [tlb EXCEPT ![cpu[v]][asid[v]] = @ \cup {[owner |-> v, stale |-> FALSE]}]
  /\ UNCHANGED <<cpuVars, vcpuVars, request, pc, flushVars>>

(* svm_run_vcpu after the exit: tlb_ctl has done its work.                 *)
ExitGuest(v) ==
  /\ pc[v] = "guest"
  /\ pc' = [pc EXCEPT ![v] = "loaded"]
  /\ tlb_ctl' = [tlb_ctl EXCEPT ![v] = "DO_NOTHING"]
  /\ waits' = waits \ {v}
  /\ UNCHANGED <<cpuVars, cpu, asid_generation, asid, request, tlb, invalidating>>

(***************************************************************************)
(* External: an invalidation of the nested page table, which EptSync       *)
(* models in full for the EPT.  Every vcpu is asked to flush, guests are   *)
(* interrupted and waited for; then the host changes the page.             *)
(***************************************************************************)
StartInvalidate ==
  /\ ~invalidating
  /\ invalidating' = TRUE
  /\ request' = [v \in Vcpus |-> request[v] \/ pc[v] # "none"]
  /\ waits' = {v \in Vcpus : pc[v] = "guest"}
  /\ UNCHANGED <<cpuVars, vcpuVars, pc, tlb>>

EndInvalidate ==
  /\ invalidating /\ waits = {}
  /\ invalidating' = FALSE
  /\ tlb' = [c \in Cpus |-> [a \in Asids |->
               {[e EXCEPT !.stale = TRUE] : e \in tlb[c][a]}]]
  /\ UNCHANGED <<cpuVars, vcpuVars, request, pc, waits>>

VcpuStep(v) ==
  \/ svm_create_vcpu(v) \/ svm_destroy_vcpu(v)
  \/ \E c \in Cpus : Load(v, c)
  \/ Put(v) \/ ProcessRequests(v) \/ AbortEntry(v)
  \/ EnterGuest(v) \/ GuestAccess(v) \/ ExitGuest(v)

Next == (\E v \in Vcpus : VcpuStep(v)) \/ StartInvalidate \/ EndInvalidate

Spec == Init /\ [][Next]_vars

(* A guest runs under an ASID whose TLB entries are its own: not those of  *)
(* another vcpu, of a vcpu freed since, or of whoever used the CPU before, *)
(* through migrations back and forth and the CPU running out of ASIDs      *)
(* (svm_update_asid, __load_vcpu).                                         *)
AsidExclusive ==
  \A v \in Vcpus : pc[v] = "guest"
    => asid[v] \in Asids /\ \A e \in tlb[cpu[v]][asid[v]] : e.owner = v

(* A flush that was requested, acknowledged into tlb_ctl and then carried  *)
(* through aborted entries and migrations is done before the guest runs:   *)
(* no guest uses a translation from before an invalidation.                *)
NoStaleTranslation ==
  \A v \in Vcpus : pc[v] = "guest" => \A e \in tlb[cpu[v]][asid[v]] : ~e.stale

(***************************************************************************)
(* The inductive invariant behind both.                                    *)
(***************************************************************************)

(* The ASID of v is one its CPU gave out in the present generation.        *)
Holds(v) ==
  /\ pc[v] # "none" /\ cpu[v] \in Cpus
  /\ asid_generation[v] = cpu_generation[cpu[v]]

Entries(v) == tlb[cpu[v]][asid[v]]

OnCpu == {"loaded", "ready", "guest"}

PlaceInv ==
  /\ \A c \in Cpus : cpu_generation[c] >= 1
  /\ \A v \in Vcpus :
       /\ pc[v] \in OnCpu => cpu[v] \in Cpus
       /\ cpu[v] \in Cpus => asid_generation[v] <= cpu_generation[cpu[v]]
       /\ pc[v] = "guest" => Holds(v)
  /\ \A v, w \in Vcpus :
       v # w /\ pc[v] \in OnCpu /\ pc[w] \in OnCpu => cpu[v] # cpu[w]

(* ASIDs not given out yet have no entries; those given out are distinct,  *)
(* and their entries are their owner's.                                    *)
OwnerInv ==
  /\ \A c \in Cpus, a \in Asids : a >= next_asid[c] => tlb[c][a] = {}
  /\ \A v \in Vcpus : Holds(v) =>
       /\ asid[v] \in Asids /\ asid[v] < next_asid[cpu[v]]
       /\ \A e \in Entries(v) : e.owner = v
  /\ \A v, w \in Vcpus :
       v # w /\ Holds(v) /\ Holds(w) /\ cpu[v] = cpu[w] => asid[v] # asid[w]

(* A flush of v is still to come before its guest runs.                    *)
WillFlush(v) == request[v] \/ (pc[v] # "guest" /\ tlb_ctl[v] # "DO_NOTHING")

FlushInv ==
  /\ ~invalidating => waits = {}
  /\ \A v \in Vcpus :
       /\ pc[v] = "guest" /\ request[v] => v \in waits
       /\ pc[v] = "guest" => \A e \in Entries(v) : ~e.stale
       /\ Holds(v) => WillFlush(v) \/ \A e \in Entries(v) : ~e.stale
       /\ Holds(v) /\ invalidating => WillFlush(v) \/ Entries(v) = {}

(* What has been flushed, or is about to be, at every point between a      *)
(* request and the next VMRUN (svm.c:1690-1706 and 2293-2387).             *)
AsidInv == TypeOK /\ PlaceInv /\ OwnerInv /\ FlushInv
=============================================================================

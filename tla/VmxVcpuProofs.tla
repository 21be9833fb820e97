--------------------------- MODULE VmxVcpuProofs ----------------------------
(***************************************************************************)
(* VcpuInv is an inductive invariant of VmxVcpu, for any vcpus, CPUs,      *)
(* instances, roots and number of vpids; VmcsReady, NoForeignTranslation,  *)
(* VmcsClearedFirst and HardwareBalanced follow from it.                   *)
(***************************************************************************)
EXTENDS VmxVcpu, TLAPS

(* The steps of vcpus and instances leave the hardware and the loader.     *)
LEMMA SameHardware ==
  ASSUME HardwareTypeOK, HardwareInv, UNCHANGED hardwareVars
  PROVE  HardwareTypeOK' /\ HardwareInv' /\ (Serving' <=> Serving)
<1>1. HardwareTypeOK'
  BY Zenon DEF hardwareVars, HardwareTypeOK
<1>2. HardwareInv'
  BY Zenon DEF hardwareVars, HardwareInv, HardwareBalanced
<1>3. Serving' <=> Serving
  BY Zenon DEF hardwareVars, Serving
<1> QED BY Zenon, <1>1, <1>2, <1>3

(***************************************************************************)
(* Loading a vcpu.                                                         *)
(***************************************************************************)

(* What the functions of a load are made of (__load_vcpu).                 *)
LEMMA LoadType ==
  ASSUME TypeOK, NEW v \in Vcpus, NEW c \in Cpus
  PROVE  /\ LoadedLocal(v, c) \in [Cpus -> Vcpus \cup {None}]
         /\ LoadedCurrent(v, c) \in [Cpus -> Vcpus \cup {None, Freed}]
         /\ LoadedActive(v, c) \in [Cpus -> SUBSET (Vcpus \cup {Freed})]
         /\ LoadedRequest(v, c) \in BOOLEAN /\ LoadedLaunched(v, c) \in BOOLEAN
         /\ ClearedLaunch(v, c) \in BOOLEAN /\ LoadedMisjudged(v, c) \subseteq Vcpus
<1>1. LoadedLocal(v, c) \in [Cpus -> Vcpus \cup {None}]
  BY Zenon DEF TypeOK, LoadedLocal
<1>2. LoadedCurrent(v, c) \in [Cpus -> Vcpus \cup {None, Freed}]
  BY Zenon DEF TypeOK, LoadedCurrent
<1>3. \A d \in Cpus : active[d] \subseteq Vcpus \cup {Freed}
  BY Zenon DEF TypeOK
<1>4. LoadedActive(v, c) \in [Cpus -> SUBSET (Vcpus \cup {Freed})]
  BY Zenon, <1>3 DEF LoadedActive
<1>5. LoadedRequest(v, c) \in BOOLEAN /\ LoadedLaunched(v, c) \in BOOLEAN
      /\ ClearedLaunch(v, c) \in BOOLEAN
  BY Zenon DEF LoadedRequest, LoadedLaunched, ClearedLaunch
<1>6. LoadedMisjudged(v, c) \subseteq Vcpus
  BY Zenon DEF TypeOK, LoadedMisjudged
<1> QED BY Zenon, <1>1, <1>2, <1>4, <1>5, <1>6

(* After a load on CPU c (__load_vcpu, __vmx_get_cpu_helper) the vcpu's    *)
(* VMCS is current there, active there alone, and no other CPU remembers   *)
(* it; the other vcpus' VMCSs stay where they are.                         *)
LEMMA LoadFacts ==
  ASSUME TypeOK, VmcsInv, NEW v \in LiveVcpus, NEW c \in Cpus
  PROVE  /\ ~Moves(v, c) => vcpu_cpu[v] = c
         /\ LoadedLocal(v, c)[c] = v /\ LoadedCurrent(v, c)[c] = v
         /\ v \in LoadedActive(v, c)[c]
         /\ \A d \in Cpus \ {c} :
              /\ LoadedLocal(v, c)[d] # v /\ LoadedCurrent(v, c)[d] # v
              /\ v \notin LoadedActive(v, c)[d]
              /\ LoadedLocal(v, c)[d] \in {local_vcpu[d], None}
              /\ local_vcpu[d] # v => LoadedLocal(v, c)[d] = local_vcpu[d]
              /\ LoadedCurrent(v, c)[d] \in {current[d], None}
              /\ current[d] # v => LoadedCurrent(v, c)[d] = current[d]
         /\ \A d \in Cpus : LoadedActive(v, c)[d] \ {v} = active[d] \ {v}
         /\ LoadedLaunched(v, c) = ClearedLaunch(v, c) \/ v \in LoadedMisjudged(v, c)
         /\ LoadedMisjudged(v, c) \ {v} = misjudged \ {v}
<1> USE NamesAssumption
<1>1. v \in Vcpus /\ v # None /\ v # Freed
  BY Zenon DEF LiveVcpus
<1>2. local_vcpu[c] = v => current[c] = v /\ vcpu_cpu[v] = c
  BY DEF VmcsInv
<1>3. \A d \in Cpus : v \in active[d] => vcpu_cpu[v] = d
  BY Zenon, <1>1 DEF VmcsInv
<1>4. \A d \in Cpus : current[d] = v => v \in active[d]
  BY <1>1 DEF VmcsInv
<1>5. ~Moves(v, c) => vcpu_cpu[v] = c
  BY Zenon, <1>2 DEF Moves, Loads
<1>6. /\ LoadedLocal(v, c)[c] = v /\ LoadedCurrent(v, c)[c] = v
      /\ v \in LoadedActive(v, c)[c]
  BY Zenon, <1>2, <1>4 DEF LoadedLocal, LoadedCurrent, LoadedActive, Loads
<1>7. \A d \in Cpus \ {c} : vcpu_cpu[v] = d => Helps(v, c, d)
  BY Zenon, <1>5 DEF Helps
<1>8. \A d \in Cpus : local_vcpu[d] = v => vcpu_cpu[v] = d
  BY DEF VmcsInv
<1>9. \A d \in Cpus \ {c} :
        /\ LoadedLocal(v, c)[d] # v /\ LoadedLocal(v, c)[d] \in {local_vcpu[d], None}
        /\ local_vcpu[d] # v => LoadedLocal(v, c)[d] = local_vcpu[d]
  BY Zenon, <1>1, <1>7, <1>8 DEF LoadedLocal
<1>10. \A d \in Cpus \ {c} :
         /\ LoadedCurrent(v, c)[d] # v /\ LoadedCurrent(v, c)[d] \in {current[d], None}
         /\ current[d] # v => LoadedCurrent(v, c)[d] = current[d]
  BY Zenon, <1>1, <1>3, <1>4, <1>7 DEF LoadedCurrent
<1>11. \A d \in Cpus \ {c} : v \notin LoadedActive(v, c)[d]
  BY Zenon, <1>3, <1>7 DEF LoadedActive
<1>12. \A d \in Cpus : LoadedActive(v, c)[d] \ {v} = active[d] \ {v}
  BY Zenon DEF LoadedActive
<1>13. /\ launched[v] = vmcs_launched[v] \/ v \in misjudged
       /\ vcpu_cpu[v] = None => ~vmcs_launched[v]
  BY Zenon, <1>1 DEF VmcsInv
<1>14. LoadedLaunched(v, c) = ClearedLaunch(v, c) \/ v \in LoadedMisjudged(v, c)
  BY Zenon, <1>13 DEF LoadedLaunched, ClearedLaunch, LoadedMisjudged
<1>15. LoadedMisjudged(v, c) \ {v} = misjudged \ {v}
  BY Zenon DEF LoadedMisjudged
<1> QED BY Zenon, <1>5, <1>6, <1>9, <1>10, <1>11, <1>12, <1>14, <1>15

(* A load keeps VMCSs where the CPUs and vcpus remember them.              *)
LEMMA LoadVmcs ==
  ASSUME TypeOK, VmcsInv, NEW v \in LiveVcpus, NEW c \in Cpus,
         LiveVcpus' = LiveVcpus, leaked' = leaked,
         local_vcpu' = LoadedLocal(v, c),
         current' = LoadedCurrent(v, c), active' = LoadedActive(v, c),
         vmcs_launched' = [vmcs_launched EXCEPT ![v] = ClearedLaunch(v, c)],
         launched' = [launched EXCEPT ![v] = LoadedLaunched(v, c)],
         misjudged' = LoadedMisjudged(v, c),
         vcpu_cpu' = [vcpu_cpu EXCEPT ![v] = IF Moves(v, c) THEN c ELSE @]
  PROVE  /\ VmcsInv'
         /\ vcpu_cpu'[v] = c /\ \A w \in Vcpus \ {v} : vcpu_cpu'[w] = vcpu_cpu[w]
<1> USE NamesAssumption
<1>1. v \in Vcpus /\ v # None /\ v # Freed
  BY Zenon DEF LiveVcpus
<1>2. vcpu_cpu'[v] = c /\ \A w \in Vcpus \ {v} : vcpu_cpu'[w] = vcpu_cpu[w]
  BY <1>1, LoadFacts DEF TypeOK
<1>3. ASSUME NEW d \in Cpus, local_vcpu'[d] \in LiveVcpus'
      PROVE  current'[d] = local_vcpu'[d] /\ vcpu_cpu'[local_vcpu'[d]] = d
  <2>1. CASE d = c
    BY <1>2, <2>1, LoadFacts
  <2>2. CASE d # c
    <3>1. local_vcpu'[d] # v /\ local_vcpu'[d] \in Vcpus
      BY ZenonT(30), <1>3, <2>2, LoadFacts DEF LiveVcpus
    <3>2. local_vcpu'[d] = local_vcpu[d]
      BY <2>2, <3>1, LoadFacts
    <3>3. current[d] = local_vcpu[d] /\ vcpu_cpu[local_vcpu[d]] = d
      BY Zenon, <1>3, <3>2 DEF VmcsInv
    <3>4. current'[d] = current[d]
      BY <2>2, <3>1, <3>2, <3>3, LoadFacts
    <3> QED BY Zenon, <1>2, <3>1, <3>2, <3>3, <3>4
  <2> QED BY Zenon, <2>1, <2>2
<1>4. ASSUME NEW d \in Cpus, current'[d] \in Vcpus \cup {Freed}
      PROVE  current'[d] \in active'[d]
  <2>1. CASE d = c
    BY <2>1, LoadFacts
  <2>2. CASE d # c
    <3>1. current'[d] = current[d] /\ current[d] # v
      BY <1>4, <2>2, LoadFacts
    <3>2. current[d] \in active[d]
      BY Zenon, <1>4, <3>1 DEF VmcsInv
    <3>3. active'[d] \ {v} = active[d] \ {v}
      BY LoadFacts
    <3> QED BY Zenon, <3>1, <3>2, <3>3
  <2> QED BY Zenon, <2>1, <2>2
<1>5. ASSUME NEW d \in Cpus, NEW w \in active'[d], w # Freed
      PROVE  w \in LiveVcpus' /\ vcpu_cpu'[w] = d
  <2>1. CASE w = v
    BY <1>2, <2>1, LoadFacts
  <2>2. CASE w # v
    <3>1. w \in active[d]
      BY <2>2, LoadFacts
    <3>2. w \in LiveVcpus /\ vcpu_cpu[w] = d
      BY Zenon, <1>5, <3>1 DEF VmcsInv
    <3> QED BY Zenon, <1>2, <2>2, <3>2 DEF LiveVcpus
  <2> QED BY Zenon, <2>1, <2>2
<1>6. \A d \in Cpus : Freed \in active'[d] => d \in leaked'
  BY <1>1, LoadFacts DEF VmcsInv
<1>7. ASSUME NEW w \in Vcpus
      PROVE  launched'[w] = vmcs_launched'[w] \/ w \in misjudged'
  <2>1. CASE w = v
    BY <1>1, <2>1, LoadFacts DEF TypeOK
  <2>2. CASE w # v
    <3>1. launched'[w] = launched[w] /\ vmcs_launched'[w] = vmcs_launched[w]
      BY ZenonT(30), <2>2 DEF TypeOK
    <3>2. w \in misjudged => w \in misjudged'
      BY <2>2, LoadFacts
    <3> QED BY Zenon, <3>1, <3>2 DEF VmcsInv
  <2> QED BY Zenon, <2>1, <2>2
<1>8. \A w \in Vcpus : vcpu_cpu'[w] = None => ~launched'[w] /\ ~vmcs_launched'[w]
  BY <1>1, <1>2 DEF VmcsInv, TypeOK
<1> QED BY Zenon, <1>2, <1>3, <1>4, <1>5, <1>6, <1>7, <1>8 DEF VmcsInv

(***************************************************************************)
(* RUN.                                                                    *)
(***************************************************************************)

(* A step that only loads a vcpu on a CPU that no other vcpu's thread      *)
(* occupies (vmx_create_vcpu, vmx_load_vcpu, slimvm_sched_in).             *)
LEMMA LoadStep ==
  ASSUME VcpuInv, NEW v \in LiveVcpus, NEW c \in Cpus, Idle(c), __load_vcpu(v, c),
         UNCHANGED <<hardwareVars, eptp, fieldVars, tlb, leaked>>,
         NEW p \in {"failed", "idle", "loop"}, pc' = [pc EXCEPT ![v] = p],
         NEW u \in {c, None}, where' = [where EXCEPT ![v] = u],
         u # None => p = "loop"
  PROVE  VcpuInv'
<1> USE NamesAssumption DEF VcpuInv
<1>1. /\ local_vcpu' = LoadedLocal(v, c)
      /\ current' = LoadedCurrent(v, c) /\ active' = LoadedActive(v, c)
      /\ vmcs_launched' = [vmcs_launched EXCEPT ![v] = ClearedLaunch(v, c)]
      /\ launched' = [launched EXCEPT ![v] = LoadedLaunched(v, c)]
      /\ misjudged' = LoadedMisjudged(v, c)
      /\ request' = [request EXCEPT ![v] = LoadedRequest(v, c)]
      /\ vcpu_cpu' = [vcpu_cpu EXCEPT ![v] = IF Moves(v, c) THEN c ELSE @]
      /\ UNCHANGED <<eptp, instance, vpid, vpid_bitmap, tlb, leaked>>
  BY Zenon DEF __load_vcpu, fieldVars
<1>2. HardwareTypeOK' /\ HardwareInv' /\ (Serving' <=> Serving)
  BY Zenon, SameHardware DEF TypeOK
<1>3. v \in Vcpus /\ v # None /\ v # Freed
  BY Zenon DEF LiveVcpus
<1>4. /\ pc'[v] = p /\ where'[v] = u
      /\ \A w \in Vcpus \ {v} : pc'[w] = pc[w] /\ where'[w] = where[w]
  BY ZenonT(30), <1>3 DEF TypeOK
<1>5. LiveVcpus' = LiveVcpus
  BY Zenon, <1>4 DEF LiveVcpus
<1>6. /\ VmcsInv'
      /\ vcpu_cpu'[v] = c /\ \A w \in Vcpus \ {v} : vcpu_cpu'[w] = vcpu_cpu[w]
  BY Zenon, <1>1, <1>5, LoadVmcs
<1>7. TypeOK'
  <2>1. /\ pc' \in [Vcpus -> {"free", "alloc", "failed", "idle", "loop", "ready", "guest"}]
        /\ where' \in [Vcpus -> Cpus \cup {None}] /\ vcpu_cpu' \in [Vcpus -> Cpus \cup {None}]
    BY Zenon, <1>1 DEF TypeOK
  <2>2. /\ launched' \in [Vcpus -> BOOLEAN] /\ request' \in [Vcpus -> BOOLEAN]
        /\ vmcs_launched' \in [Vcpus -> BOOLEAN] /\ misjudged' \subseteq Vcpus
    BY Zenon, <1>1, <1>3, LoadType DEF TypeOK
  <2>3. /\ local_vcpu' \in [Cpus -> Vcpus \cup {None}]
        /\ current' \in [Cpus -> Vcpus \cup {None, Freed}]
        /\ active' \in [Cpus -> SUBSET (Vcpus \cup {Freed})]
    BY Zenon, <1>1, <1>3, LoadType
  <2> QED BY <1>1, <1>2, <2>1, <2>2, <2>3 DEF TypeOK
<1>8. NumberInv'
  <2>1. \A w \in Vcpus \ LiveVcpus' : vcpu_cpu'[w] = None
    BY Zenon, <1>5, <1>6 DEF NumberInv
  <2>2. UNCHANGED <<eptp, instance, vpid, vpid_bitmap>>
    BY Zenon, <1>1
  <2>3. /\ \A i \in Insts : eptp'[i] # None => Serving'
        /\ \A i, j \in Insts : eptp'[i] = eptp'[j] => i = j \/ eptp'[i] = None
        /\ 0 \in vpid_bitmap'
    <3>1. \A i \in Insts : eptp[i] # None => Serving
      BY Zenon DEF NumberInv
    <3>2. \A i, j \in Insts : eptp[i] = eptp[j] => i = j \/ eptp[i] = None
      BY Zenon DEF NumberInv
    <3>3. 0 \in vpid_bitmap
      BY Zenon DEF NumberInv
    <3>4. \A i \in Insts : eptp'[i] # None => Serving'
      BY Zenon, <1>2, <2>2, <3>1
    <3>5. \A i, j \in Insts : eptp'[i] = eptp'[j] => i = j \/ eptp'[i] = None
      BY Zenon, <2>2, <3>2
    <3> QED BY Zenon, <2>2, <3>3, <3>4, <3>5
  <2>4. /\ \A w \in LiveVcpus' : /\ instance'[w] \in Insts /\ eptp'[instance'[w]] # None
                                 /\ vpid'[w] \in vpid_bitmap' /\ vpid'[w] # 0
        /\ \A w \in Vcpus \ LiveVcpus' : instance'[w] = None
    BY Zenon, <1>5, <2>2 DEF NumberInv
  <2>5. \A w, x \in LiveVcpus' : vpid'[w] = vpid'[x] => w = x
    BY Zenon, <1>5, <2>2 DEF NumberInv
  <2> QED BY Zenon, <2>1, <2>3, <2>4, <2>5 DEF NumberInv
<1>9. PlaceInv'
  <2>1. ASSUME NEW w \in Vcpus, pc'[w] \in {"ready", "guest"}
        PROVE  where'[w] # None /\ local_vcpu'[where'[w]] = w
    <3>1. w # v /\ where[w] # None /\ local_vcpu[where[w]] = w
      BY Zenon, <1>4, <2>1 DEF PlaceInv
    <3>2. where[w] \in Cpus \ {c}
      BY Zenon, <3>1 DEF Idle, TypeOK
    <3>3. local_vcpu'[where[w]] = local_vcpu[where[w]]
      BY <1>1, <3>1, <3>2, LoadFacts
    <3> QED BY Zenon, <1>4, <3>1, <3>3
  <2>2. \A w \in Vcpus : pc'[w] = "alloc" => vcpu_cpu'[w] = None
    BY Zenon, <1>4, <1>6 DEF PlaceInv
  <2>3. \A w \in Vcpus : where'[w] # None =>
          pc'[w] \in {"loop", "ready", "guest"} /\ vcpu_cpu'[w] = where'[w]
    BY Zenon, <1>4, <1>6 DEF PlaceInv
  <2>4. \A x, w \in Vcpus : where'[x] = where'[w] => x = w \/ where'[x] = None
    BY <1>4 DEF PlaceInv, Idle
  <2> QED BY Zenon, <2>1, <2>2, <2>3, <2>4 DEF PlaceInv
<1>10. TlbInv'
  <2>1. \A w \in Vcpus \ {v} : request'[w] = request[w]
    BY Zenon, <1>1 DEF TypeOK
  <2>2. \A w \in Vcpus, d \in Cpus : Clean(w, d)' <=> Clean(w, d)
    BY Zenon, <1>1 DEF Clean
  <2>3. ASSUME NEW w \in Vcpus, vcpu_cpu'[w] # None, ~(request'[w] /\ pc'[w] # "guest")
        PROVE  Clean(w, vcpu_cpu[w])'
    <3>1. CASE w = v
      <4>1. request'[v] = LoadedRequest(v, c)
        BY Zenon, <1>1, <1>3 DEF TypeOK
      <4>2. ~Moves(v, c) /\ ~request[v]
        BY Zenon, <1>4, <2>3, <3>1, <4>1 DEF LoadedRequest
      <4>3. vcpu_cpu[v] = c
        BY <4>2, LoadFacts
      <4>4. Clean(v, c)
        BY Zenon, <1>3, <4>2, <4>3 DEF TlbInv
      <4> QED BY Zenon, <1>1, <1>3, <1>6, <3>1, <4>4 DEF Clean
    <3>2. CASE w # v
      <4>1. vcpu_cpu'[w] = vcpu_cpu[w] /\ pc'[w] = pc[w] /\ request'[w] = request[w]
        BY Zenon, <1>4, <1>6, <2>1, <3>2
      <4>2. Clean(w, vcpu_cpu[w])
        BY Zenon, <2>3, <4>1 DEF TlbInv
      <4> QED BY Zenon, <1>1, <4>1, <4>2 DEF Clean
    <3> QED BY Zenon, <3>1, <3>2
  <2> QED BY Zenon, <2>3 DEF TlbInv
<1> QED BY Zenon, <1>2, <1>6, <1>7, <1>8, <1>9, <1>10

(* vmx_create_vcpu's load, whether the setup succeeds or fails.            *)
LEMMA SetupInv ==
  ASSUME VcpuInv, NEW v \in Vcpus, NEW c \in Cpus, NEW ok \in BOOLEAN, SetupVcpu(v, c, ok)
  PROVE  VcpuInv'
<1> USE NamesAssumption DEF VcpuInv
<1>1. /\ pc[v] = "alloc" /\ Idle(c) /\ __load_vcpu(v, c)
      /\ pc' = [pc EXCEPT ![v] = IF ok THEN "idle" ELSE "failed"] /\ where' = where
      /\ UNCHANGED <<hardwareVars, eptp, fieldVars, tlb, leaked>>
  BY Zenon DEF SetupVcpu
<1>2. v \in LiveVcpus
  BY Zenon, <1>1 DEF LiveVcpus
<1>3. where' = [where EXCEPT ![v] = None]
  <2>1. where[v] = None
    BY Zenon, <1>1 DEF PlaceInv
  <2> QED BY Zenon, <1>1, <2>1 DEF TypeOK
<1>4. CASE ok
  BY Zenon, <1>1, <1>2, <1>3, <1>4, LoadStep
<1>5. CASE ~ok
  BY Zenon, <1>1, <1>2, <1>3, <1>5, LoadStep
<1> QED BY Zenon, <1>4, <1>5

(* vmx_load_vcpu and slimvm_sched_in.                                      *)
LEMMA SchedInInv ==
  ASSUME VcpuInv, NEW v \in Vcpus, NEW c \in Cpus, slimvm_sched_in(v, c)
  PROVE  VcpuInv'
<1>1. /\ Idle(c) /\ __load_vcpu(v, c)
      /\ pc' = [pc EXCEPT ![v] = "loop"] /\ where' = [where EXCEPT ![v] = c]
      /\ UNCHANGED <<hardwareVars, eptp, fieldVars, tlb, leaked>>
  BY Zenon DEF slimvm_sched_in
<1>2. v \in LiveVcpus
  BY Zenon DEF slimvm_sched_in, LiveVcpus
<1> QED BY Zenon, <1>1, <1>2, LoadStep

(* slimvm_sched_out, leaving RUN, and an entry that is given up.           *)
LEMMA PauseInv ==
  ASSUME VcpuInv, NEW v \in Vcpus,
         (\E leaves \in BOOLEAN : slimvm_sched_out(v, leaves)) \/ AbortEntry(v)
  PROVE  VcpuInv'
<1> USE NamesAssumption DEF VcpuInv
<1>1. UNCHANGED <<eptp, instance, vpid, vpid_bitmap, vcpu_cpu, launched, request, local_vcpu,
                  current, active, vmcs_launched, misjudged, tlb, leaked>>
  BY Zenon DEF slimvm_sched_out, AbortEntry, fieldVars, loadVars
<1>2. HardwareTypeOK' /\ HardwareInv' /\ (Serving' <=> Serving)
  BY Zenon, SameHardware DEF slimvm_sched_out, AbortEntry, TypeOK
<1>3. \E p \in {"idle", "loop"} : pc' = [pc EXCEPT ![v] = p]
  <2>1. ASSUME NEW leaves \in BOOLEAN, slimvm_sched_out(v, leaves)
        PROVE  \E p \in {"idle", "loop"} : pc' = [pc EXCEPT ![v] = p]
    BY Zenon, <2>1 DEF slimvm_sched_out, TypeOK
  <2>2. CASE AbortEntry(v)
    BY Zenon, <2>2 DEF AbortEntry
  <2> QED BY Zenon, <2>1, <2>2
<1>4. /\ where' = where \/ where' = [where EXCEPT ![v] = None]
      /\ where'[v] # None => pc'[v] = "loop"
  BY DEF slimvm_sched_out, AbortEntry, TypeOK
<1>5. pc[v] \in {"loop", "ready"}
  BY Zenon DEF slimvm_sched_out, AbortEntry
<1>6. TypeOK'
  <2>1. /\ pc' \in [Vcpus -> {"free", "alloc", "failed", "idle", "loop", "ready", "guest"}]
        /\ where' \in [Vcpus -> Cpus \cup {None}]
    BY <1>3, <1>4 DEF TypeOK
  <2> QED BY Zenon, <1>1, <1>2, <2>1 DEF TypeOK
<1>7. /\ pc'[v] \in {"idle", "loop"} /\ where'[v] \in {where[v], None}
      /\ \A w \in Vcpus \ {v} : pc'[w] = pc[w] /\ where'[w] = where[w]
  BY <1>3, <1>4 DEF TypeOK
<1>8. LiveVcpus' = LiveVcpus
  BY Zenon, <1>5, <1>7 DEF LiveVcpus
<1>9. NumberInv' /\ VmcsInv'
  BY ZenonT(40), <1>1, <1>2, <1>8 DEF NumberInv, VmcsInv
<1>10. PlaceInv'
  <2>1. \A w \in Vcpus : /\ pc'[w] = "alloc" => pc[w] = "alloc"
                         /\ pc'[w] \in {"ready", "guest"} => pc[w] = pc'[w] /\ w # v
                         /\ where'[w] # None => where'[w] = where[w]
    BY Zenon, <1>7
  <2>2. vcpu_cpu' = vcpu_cpu /\ local_vcpu' = local_vcpu
    BY Zenon, <1>1
  <2>3. ASSUME NEW w \in Vcpus, where'[w] # None
        PROVE  pc'[w] \in {"loop", "ready", "guest"} /\ vcpu_cpu'[w] = where'[w]
    <3>1. where'[w] = where[w] /\ pc[w] \in {"loop", "ready", "guest"} /\ vcpu_cpu[w] = where[w]
      BY Zenon, <2>1, <2>3 DEF PlaceInv
    <3>2. pc'[w] = pc[w] \/ pc'[w] = "loop"
      BY Zenon, <1>4, <1>7, <2>3
    <3> QED BY Zenon, <2>2, <3>1, <3>2
  <2>4. ASSUME NEW w \in Vcpus, pc'[w] \in {"ready", "guest"}
        PROVE  where'[w] # None /\ local_vcpu'[where'[w]] = w
    <3>1. where'[w] = where[w] /\ pc[w] \in {"ready", "guest"}
      BY Zenon, <1>7, <2>1, <2>4
    <3> QED BY Zenon, <2>2, <3>1 DEF PlaceInv
  <2>5. \A w \in Vcpus : pc'[w] = "alloc" => vcpu_cpu'[w] = None
    BY Zenon, <2>1, <2>2 DEF PlaceInv
  <2>6. ASSUME NEW u \in Vcpus, NEW w \in Vcpus, where'[u] = where'[w], where'[u] # None
        PROVE  u = w
    <3>1. where'[u] = where[u] /\ where'[w] = where[w]
      BY Zenon, <2>1, <2>6
    <3> QED BY Zenon, <2>6, <3>1 DEF PlaceInv
  <2> QED BY Zenon, <2>3, <2>4, <2>5, <2>6 DEF PlaceInv
<1>11. \A w \in Vcpus : Clean(w, vcpu_cpu[w])' <=> Clean(w, vcpu_cpu[w])
  BY Zenon, <1>1 DEF Clean
<1>12. TlbInv'
  BY Zenon, <1>1, <1>5, <1>7, <1>11 DEF TlbInv
<1> QED BY Zenon, <1>2, <1>6, <1>9, <1>10, <1>12

(* The load and the flush before an entry (vmx_launch).                    *)
LEMMA PrepareInv ==
  ASSUME VcpuInv, NEW v \in Vcpus, PrepareEnter(v)
  PROVE  VcpuInv'
<1> USE NamesAssumption DEF VcpuInv
<1> DEFINE c == where[v]
<1>1. /\ pc[v] = "loop" /\ c # None
      /\ pc' = [pc EXCEPT ![v] = "ready"]
      /\ local_vcpu' = LoadedLocal(v, c)
      /\ current' = LoadedCurrent(v, c) /\ active' = LoadedActive(v, c)
      /\ vmcs_launched' = [vmcs_launched EXCEPT ![v] = ClearedLaunch(v, c)]
      /\ launched' = [launched EXCEPT ![v] = LoadedLaunched(v, c)]
      /\ misjudged' = LoadedMisjudged(v, c)
      /\ vcpu_cpu' = [vcpu_cpu EXCEPT ![v] = IF Moves(v, c) THEN c ELSE @]
      /\ request' = [request EXCEPT ![v] = FALSE]
      /\ tlb' = IF LoadedRequest(v, c) THEN Synced(c, eptp[instance[v]]) ELSE tlb
      /\ UNCHANGED <<eptp, where, instance, vpid, vpid_bitmap, leaked>>
  BY Zenon DEF PrepareEnter, fieldVars
<1>2. HardwareTypeOK' /\ HardwareInv' /\ (Serving' <=> Serving)
  BY Zenon, SameHardware DEF PrepareEnter, TypeOK
<1>3. v \in LiveVcpus /\ v # None /\ v # Freed
  BY Zenon, <1>1 DEF LiveVcpus
<1>4. c \in Cpus /\ vcpu_cpu[v] = c
  BY Zenon, <1>1 DEF PlaceInv, TypeOK
<1> HIDE DEF c
<1>5. pc'[v] = "ready" /\ \A w \in Vcpus \ {v} : pc'[w] = pc[w]
  BY Zenon, <1>1 DEF TypeOK
<1>6. LiveVcpus' = LiveVcpus
  BY Zenon, <1>3, <1>5 DEF LiveVcpus
<1>7. /\ VmcsInv'
      /\ vcpu_cpu'[v] = c /\ \A w \in Vcpus \ {v} : vcpu_cpu'[w] = vcpu_cpu[w]
  BY Zenon, <1>1, <1>3, <1>4, <1>6, LoadVmcs
<1>8. \A d \in Cpus : tlb'[d] \subseteq tlb[d]
  BY Zenon, <1>1 DEF Synced, TypeOK
<1>9. TypeOK'
  <2>1. /\ pc' \in [Vcpus -> {"free", "alloc", "failed", "idle", "loop", "ready", "guest"}]
        /\ vcpu_cpu' \in [Vcpus -> Cpus \cup {None}]
    BY Zenon, <1>1, <1>4 DEF TypeOK
  <2>2. /\ launched' \in [Vcpus -> BOOLEAN] /\ request' \in [Vcpus -> BOOLEAN]
        /\ vmcs_launched' \in [Vcpus -> BOOLEAN] /\ misjudged' \subseteq Vcpus
    BY Zenon, <1>1, <1>4, LoadType DEF TypeOK
  <2>3. /\ local_vcpu' \in [Cpus -> Vcpus \cup {None}]
        /\ current' \in [Cpus -> Vcpus \cup {None, Freed}]
        /\ active' \in [Cpus -> SUBSET (Vcpus \cup {Freed})]
    BY Zenon, <1>1, <1>4, LoadType
  <2>4. tlb' \in [Cpus -> SUBSET Entries]
    BY Zenon, <1>1 DEF Synced, TypeOK
  <2> QED BY Zenon, <1>1, <1>2, <2>1, <2>2, <2>3, <2>4 DEF TypeOK
<1>10. NumberInv'
  <2>1. \A w \in Vcpus \ LiveVcpus' : vcpu_cpu'[w] = None
    BY Zenon, <1>3, <1>6, <1>7 DEF NumberInv
  <2> QED BY Zenon, <1>1, <1>2, <1>6, <2>1 DEF NumberInv
<1>11. PlaceInv'
  <2>1. ASSUME NEW w \in Vcpus, pc'[w] \in {"ready", "guest"}
        PROVE  where[w] # None /\ local_vcpu'[where[w]] = w
    <3>1. CASE w = v
      BY Zenon, <1>1, <1>3, <1>4, <3>1, LoadFacts DEF c
    <3>2. CASE w # v
      <4>1. where[w] # None /\ local_vcpu[where[w]] = w /\ where[w] \in Cpus
        BY Zenon, <1>5, <2>1, <3>2 DEF PlaceInv, TypeOK
      <4>2. where[w] # c
        BY Zenon, <1>1, <3>2 DEF PlaceInv, c
      <4>3. where[w] \in Cpus \ {c} /\ local_vcpu[where[w]] # v
        BY Zenon, <3>2, <4>1, <4>2
      <4>4. \A d \in Cpus \ {c} :
              /\ LoadedLocal(v, c)[d] # v /\ LoadedCurrent(v, c)[d] # v
              /\ v \notin LoadedActive(v, c)[d]
              /\ LoadedLocal(v, c)[d] \in {local_vcpu[d], None}
              /\ local_vcpu[d] # v => LoadedLocal(v, c)[d] = local_vcpu[d]
              /\ LoadedCurrent(v, c)[d] \in {current[d], None}
              /\ current[d] # v => LoadedCurrent(v, c)[d] = current[d]
        BY SMTT(30), ZenonT(40), <1>3, <1>4, LoadFacts
      <4>5. local_vcpu' = LoadedLocal(v, c)
        BY Zenon, <1>1
      <4> QED BY Zenon, <4>1, <4>3, <4>4, <4>5
    <3> QED BY Zenon, <3>1, <3>2
  <2>2. \A w \in Vcpus : pc'[w] = "alloc" => vcpu_cpu'[w] = None
    BY Zenon, <1>5, <1>7 DEF PlaceInv
  <2>3. \A w \in Vcpus : where[w] # None =>
          pc'[w] \in {"loop", "ready", "guest"} /\ vcpu_cpu'[w] = where[w]
    BY Zenon, <1>5, <1>7 DEF PlaceInv, c
  <2>4. \A u, w \in Vcpus : where[u] = where[w] => u = w \/ where[u] = None
    BY Zenon DEF PlaceInv
  <2>5. where' = where
    BY Zenon, <1>1
  <2> QED BY Zenon, <2>1, <2>2, <2>3, <2>4, <2>5 DEF PlaceInv
<1>12. \A w \in Vcpus, d \in Cpus : Clean(w, d) =>
         \A e \in tlb'[d] : e.eptp = eptp[instance[w]] =>
           e.inst = instance[w] /\ (e.vpid = vpid[w] => e.vcpu = w)
  BY Zenon, <1>8 DEF Clean
<1>13. ASSUME NEW w \in Vcpus, vcpu_cpu'[w] # None, ~(request'[w] /\ pc'[w] # "guest")
       PROVE  Clean(w, vcpu_cpu[w])'
  <2>1. vcpu_cpu'[w] = vcpu_cpu[w] /\ vcpu_cpu[w] \in Cpus
    BY Zenon, <1>4, <1>7, <1>13 DEF TypeOK
  <2>2. CASE w = v /\ request[v]
    <3>1. tlb' = Synced(c, eptp[instance[v]])
      BY Zenon, <1>1, <2>2 DEF LoadedRequest
    <3>2. \A e \in tlb'[c] : e.eptp # eptp[instance[v]]
      BY Zenon, <1>4, <3>1 DEF Synced, TypeOK
    <3> QED BY Zenon, <1>1, <1>4, <2>1, <2>2, <3>2 DEF Clean
  <2>3. CASE ~(w = v /\ request[v])
    <3>1. w # v => request'[w] = request[w] /\ pc'[w] = pc[w]
      BY Zenon, <1>1, <1>5 DEF TypeOK
    <3>2. Clean(w, vcpu_cpu[w])
      BY Zenon, <1>13, <2>1, <2>3, <3>1 DEF TlbInv
    <3>3. \A e \in tlb'[vcpu_cpu[w]] : e.eptp = eptp[instance[w]] =>
            e.inst = instance[w] /\ (e.vpid = vpid[w] => e.vcpu = w)
      BY Zenon, <1>12, <2>1, <3>2
    <3>4. eptp' = eptp /\ instance' = instance /\ vpid' = vpid
      BY Zenon, <1>1
    <3> QED BY Zenon, <2>1, <3>3, <3>4 DEF Clean
  <2> QED BY Zenon, <2>2, <2>3
<1>14. TlbInv'
  BY Zenon, <1>13 DEF TlbInv
<1> QED BY Zenon, <1>2, <1>7, <1>9, <1>10, <1>11, <1>14

(***************************************************************************)
(* Instances and the creation of a vcpu.                                   *)
(***************************************************************************)

(* A new instance takes a root nobody has, so no vcpu's numbers change.    *)
LEMMA CreateInstanceInv ==
  ASSUME VcpuInv, NEW i \in Insts, NEW r \in Roots, CreateInstance(i, r)
  PROVE  VcpuInv'
<1> USE NamesAssumption DEF VcpuInv
<1>1. /\ Serving /\ eptp[i] = None /\ \A j \in Insts : eptp[j] # r
      /\ eptp' = [eptp EXCEPT ![i] = r]
      /\ UNCHANGED <<pc, where, instance, vpid, vpid_bitmap, vcpu_cpu, launched, request,
                     local_vcpu, current, active, vmcs_launched, misjudged, tlb, leaked>>
  BY Zenon DEF CreateInstance, fieldVars, loadVars
<1>2. HardwareTypeOK' /\ HardwareInv' /\ (Serving' <=> Serving)
  BY Zenon, SameHardware DEF CreateInstance, TypeOK
<1>3. TypeOK'
  BY Zenon, <1>1, <1>2 DEF TypeOK
<1>4. LiveVcpus' = LiveVcpus
  BY Zenon, <1>1 DEF LiveVcpus
<1>5. \A v \in LiveVcpus : instance[v] # i /\ eptp'[instance[v]] = eptp[instance[v]]
  BY Zenon, <1>1 DEF NumberInv, TypeOK
<1>6. NumberInv'
  <2>1. \A j \in Insts : eptp'[j] # None => Serving'
    BY Zenon, <1>1, <1>2
  <2>2. \A j, k \in Insts : eptp'[j] = eptp'[k] => j = k \/ eptp'[j] = None
    BY Zenon, <1>1 DEF NumberInv, TypeOK
  <2>3. \A v \in LiveVcpus : eptp'[instance[v]] # None
    BY Zenon, <1>5 DEF NumberInv
  <2> QED BY ZenonT(40), <1>1, <1>4, <2>1, <2>2, <2>3 DEF NumberInv
<1>7. PlaceInv' /\ VmcsInv'
  BY SMTT(30), ZenonT(40), <1>1, <1>4 DEF PlaceInv, VmcsInv
<1>8. ASSUME NEW v \in Vcpus, vcpu_cpu[v] # None PROVE Clean(v, vcpu_cpu[v])' <=> Clean(v, vcpu_cpu[v])
  <2>1. v \in LiveVcpus
    BY Zenon, <1>8 DEF NumberInv
  <2> QED BY ZenonT(40), <1>1, <1>5, <2>1 DEF Clean
<1>9. TlbInv'
  BY Zenon, <1>1, <1>8 DEF TlbInv
<1> QED BY Zenon, <1>2, <1>3, <1>6, <1>7, <1>9

(* The entries of an instance that goes are under no other one's root.     *)
LEMMA DestroyInstanceInv ==
  ASSUME VcpuInv, NEW i \in Insts, DestroyInstance(i)
  PROVE  VcpuInv'
<1> USE NamesAssumption DEF VcpuInv
<1>1. /\ Serving /\ \A v \in Vcpus : instance[v] # i
      /\ eptp' = [eptp EXCEPT ![i] = None]
      /\ UNCHANGED <<pc, where, instance, vpid, vpid_bitmap, vcpu_cpu, launched, request,
                     local_vcpu, current, active, vmcs_launched, misjudged, leaked>>
  BY Zenon DEF DestroyInstance, fieldVars, loadVars
<1>2. HardwareTypeOK' /\ HardwareInv' /\ (Serving' <=> Serving)
  BY Zenon, SameHardware DEF DestroyInstance, TypeOK
<1>3. tlb' = [c \in Cpus |-> {[e EXCEPT !.inst = IF @ = i THEN None ELSE @] : e \in tlb[c]}]
  BY Zenon DEF DestroyInstance
<1>4. tlb' \in [Cpus -> SUBSET Entries]
  <2>1. \A c \in Cpus : tlb[c] \subseteq Entries
    BY Zenon DEF TypeOK
  <2>2. \A e \in Entries : [e EXCEPT !.inst = IF @ = i THEN None ELSE @] \in Entries
    BY Zenon DEF Entries
  <2>3. \A c \in Cpus : {[e EXCEPT !.inst = IF @ = i THEN None ELSE @] : e \in tlb[c]}
                        \subseteq Entries
    BY Zenon, <2>1, <2>2
  <2> QED BY Zenon, <1>3, <2>3
<1>5. TypeOK'
  BY Zenon, <1>1, <1>2, <1>4 DEF TypeOK
<1>6. LiveVcpus' = LiveVcpus
  BY Zenon, <1>1 DEF LiveVcpus
<1>7. \A v \in LiveVcpus : eptp'[instance[v]] = eptp[instance[v]]
  BY <1>1 DEF NumberInv, TypeOK, LiveVcpus
<1>8. NumberInv'
  <2>1. \A j \in Insts : eptp'[j] # None => Serving'
    BY Zenon, <1>1, <1>2
  <2>2. \A j, k \in Insts : eptp'[j] = eptp'[k] => j = k \/ eptp'[j] = None
    BY Zenon, <1>1 DEF NumberInv, TypeOK
  <2>3. \A v \in LiveVcpus : eptp'[instance[v]] # None
    BY Zenon, <1>7 DEF NumberInv
  <2> QED BY Zenon, <1>1, <1>6, <2>1, <2>2, <2>3 DEF NumberInv
<1>9. PlaceInv' /\ VmcsInv'
  BY <1>1, <1>6 DEF PlaceInv, VmcsInv
<1>10. ASSUME NEW v \in Vcpus, vcpu_cpu[v] # None, Clean(v, vcpu_cpu[v])
       PROVE  Clean(v, vcpu_cpu[v])'
  <2>1. v \in LiveVcpus /\ vcpu_cpu[v] \in Cpus
    BY <1>10 DEF NumberInv, TypeOK
  <2>2. SUFFICES ASSUME NEW f \in tlb'[vcpu_cpu[v]], f.eptp = eptp[instance[v]]
                 PROVE  f.inst = instance[v] /\ (f.vpid = vpid[v] => f.vcpu = v)
    BY Zenon, <1>1, <1>7, <2>1 DEF Clean
  <2>3. PICK e \in tlb[vcpu_cpu[v]] : f = [e EXCEPT !.inst = IF @ = i THEN None ELSE @]
    BY Zenon, <1>3, <2>1, <2>2
  <2>4. e \in Entries
    BY Zenon, <2>1, <2>3 DEF TypeOK
  <2>5. f.eptp = e.eptp /\ f.vpid = e.vpid /\ f.vcpu = e.vcpu /\ (e.inst # i => f.inst = e.inst)
    BY Zenon, <2>3, <2>4 DEF Entries
  <2>6. e.inst = instance[v] /\ (e.vpid = vpid[v] => e.vcpu = v)
    BY Zenon, <1>10, <2>2, <2>5 DEF Clean
  <2> QED BY Zenon, <1>1, <2>5, <2>6
<1>11. TlbInv'
  BY Zenon, <1>1, <1>10 DEF TlbInv
<1> QED BY Zenon, <1>2, <1>5, <1>8, <1>9, <1>11

(* A new vcpu gets a vpid nobody has, and no CPU (vmx_allocate_vpid).      *)
LEMMA AllocInv ==
  ASSUME VcpuInv, NEW v \in Vcpus, NEW i \in Insts, NEW p \in Vpids,
         vmx_allocate_vpid(v, i, p)
  PROVE  VcpuInv'
<1> USE NamesAssumption DEF VcpuInv
<1>1. /\ pc[v] = "free" /\ eptp[i] # None /\ p \notin vpid_bitmap
      /\ \A c \in Cpus : local_vcpu[c] # v
      /\ pc' = [pc EXCEPT ![v] = "alloc"] /\ instance' = [instance EXCEPT ![v] = i]
      /\ vpid' = [vpid EXCEPT ![v] = p] /\ vpid_bitmap' = vpid_bitmap \cup {p}
      /\ UNCHANGED <<eptp, where, vcpu_cpu, launched, request,
                     local_vcpu, current, active, vmcs_launched, misjudged, tlb, leaked>>
  BY Zenon DEF vmx_allocate_vpid, FirstZeroBit, loadVars
<1>2. HardwareTypeOK' /\ HardwareInv' /\ (Serving' <=> Serving)
  BY Zenon, SameHardware DEF vmx_allocate_vpid, TypeOK
<1>3. p \in 0 .. NR_VPIDS - 1 /\ p # 0
  BY VpidAssumption DEF Vpids
<1>4. TypeOK'
  <2>1. pc' \in [Vcpus -> {"free", "alloc", "failed", "idle", "loop", "ready", "guest"}]
    BY Zenon, <1>1 DEF TypeOK
  <2>2. /\ instance' \in [Vcpus -> Insts \cup {None}] /\ vpid' \in [Vcpus -> 0 .. NR_VPIDS - 1]
        /\ vpid_bitmap' \subseteq 0 .. NR_VPIDS - 1
    BY Zenon, <1>1, <1>3 DEF TypeOK
  <2> QED BY Zenon, <1>1, <1>2, <2>1, <2>2 DEF TypeOK
<1>5. LiveVcpus' = LiveVcpus \cup {v} /\ v \notin LiveVcpus
  BY <1>1 DEF LiveVcpus, TypeOK
<1>6. /\ instance'[v] = i /\ vpid'[v] = p /\ vcpu_cpu[v] = None /\ pc'[v] = "alloc"
      /\ \A w \in Vcpus \ {v} : instance'[w] = instance[w] /\ vpid'[w] = vpid[w] /\ pc'[w] = pc[w]
  BY <1>1, <1>5 DEF TypeOK, NumberInv
<1>7. NumberInv'
  <2>1. \A w \in LiveVcpus : w \in Vcpus /\ w # v /\ vpid[w] # p
    BY ZenonT(40), <1>1, <1>5 DEF NumberInv, LiveVcpus
  <2>2. ASSUME NEW w \in LiveVcpus'
        PROVE  /\ instance'[w] \in Insts /\ eptp'[instance'[w]] # None
               /\ vpid'[w] \in vpid_bitmap' /\ vpid'[w] # 0
    <3>0. eptp' = eptp /\ eptp[i] # None /\ p \in vpid_bitmap' /\ vpid_bitmap \subseteq vpid_bitmap'
      BY Zenon, <1>1
    <3>1. CASE w = v
      BY Zenon, <1>3, <1>6, <3>0, <3>1
    <3>2. CASE w \in LiveVcpus
      <4>1. instance'[w] = instance[w] /\ vpid'[w] = vpid[w]
        BY Zenon, <1>6, <2>1, <3>2
      <4>2. /\ instance[w] \in Insts /\ eptp[instance[w]] # None
            /\ vpid[w] \in vpid_bitmap /\ vpid[w] # 0
        BY Zenon, <3>2 DEF NumberInv
      <4> QED BY Zenon, <3>0, <4>1, <4>2
    <3> QED BY Zenon, <1>5, <2>2, <3>1, <3>2
  <2>3. \A w \in Vcpus \ LiveVcpus' : instance'[w] = None /\ vcpu_cpu'[w] = None
    BY Zenon, <1>1, <1>5, <1>6 DEF NumberInv
  <2>4. ASSUME NEW u \in LiveVcpus', NEW w \in LiveVcpus', vpid'[u] = vpid'[w]
        PROVE  u = w
    <3>1. \A x \in LiveVcpus : vpid'[x] = vpid[x] /\ vpid'[x] # vpid'[v]
      BY Zenon, <1>6, <2>1
    <3>2. CASE u = v
      BY Zenon, <1>5, <2>4, <3>1, <3>2
    <3>3. CASE w = v
      BY Zenon, <1>5, <2>4, <3>1, <3>3
    <3>4. CASE u \in LiveVcpus /\ w \in LiveVcpus
      <4>1. vpid[u] = vpid[w]
        BY Zenon, <2>4, <3>1, <3>4
      <4>2. \A x, y \in LiveVcpus : vpid[x] = vpid[y] => x = y
        BY Zenon DEF NumberInv
      <4> QED BY Zenon, <3>4, <4>1, <4>2
    <3> QED BY Zenon, <1>5, <2>4, <3>2, <3>3, <3>4
  <2> QED BY Zenon, <1>1, <1>2, <2>2, <2>3, <2>4 DEF NumberInv
<1>8. PlaceInv'
  BY ZenonT(30), <1>1, <1>6 DEF PlaceInv
<1>9. VmcsInv'
  BY Zenon, <1>1, <1>5 DEF VmcsInv
<1>10. ASSUME NEW w \in Vcpus \ {v}, Clean(w, vcpu_cpu[w]) PROVE Clean(w, vcpu_cpu[w])'
  <2>1. instance'[w] = instance[w] /\ vpid'[w] = vpid[w]
    BY Zenon, <1>6
  <2>2. eptp' = eptp /\ tlb' = tlb /\ vcpu_cpu' = vcpu_cpu
    BY Zenon, <1>1
  <2> QED BY Zenon, <1>10, <2>1, <2>2 DEF Clean
<1>11. TlbInv'
  BY Zenon, <1>1, <1>6, <1>10 DEF TlbInv
<1> QED BY Zenon, <1>2, <1>4, <1>7, <1>8, <1>9, <1>11

(***************************************************************************)
(* Freeing a vcpu.                                                         *)
(***************************************************************************)

(* vmx_free_vpid and the kfrees give back the numbers of one vcpu.         *)
LEMMA FreeFacts ==
  ASSUME TypeOK, NumberInv, PlaceInv, NEW v \in LiveVcpus, vmx_free_vpid(v),
         pc[v] \in {"alloc", "failed", "idle"},
         UNCHANGED <<eptp, where>>, Serving' <=> Serving
  PROVE  /\ NumberInv' /\ LiveVcpus' = LiveVcpus \ {v}
         /\ pc' \in [Vcpus -> {"free", "alloc", "failed", "idle", "loop", "ready", "guest"}]
         /\ instance' \in [Vcpus -> Insts \cup {None}]
         /\ vpid' \in [Vcpus -> 0 .. NR_VPIDS - 1]
         /\ vpid_bitmap' \subseteq 0 .. NR_VPIDS - 1
         /\ vcpu_cpu' \in [Vcpus -> Cpus \cup {None}]
         /\ launched' \in [Vcpus -> BOOLEAN] /\ request' \in [Vcpus -> BOOLEAN]
         /\ vmcs_launched' \in [Vcpus -> BOOLEAN]
         /\ vcpu_cpu'[v] = None /\ pc'[v] = "free" /\ where[v] = None
         /\ ~launched'[v] /\ ~vmcs_launched'[v] /\ misjudged' = misjudged \ {v}
         /\ misjudged' \subseteq Vcpus
         /\ \A w \in Vcpus \ {v} :
              /\ pc'[w] = pc[w] /\ instance'[w] = instance[w] /\ vpid'[w] = vpid[w]
              /\ vcpu_cpu'[w] = vcpu_cpu[w] /\ request'[w] = request[w]
              /\ launched'[w] = launched[w] /\ vmcs_launched'[w] = vmcs_launched[w]
<1> USE NamesAssumption
<1>1. v \in Vcpus
  BY Zenon DEF LiveVcpus
<1>2. /\ pc' = [pc EXCEPT ![v] = "free"]
      /\ instance' = [instance EXCEPT ![v] = None]
      /\ vpid' = [vpid EXCEPT ![v] = 0] /\ vpid_bitmap' = vpid_bitmap \ {vpid[v]}
      /\ vcpu_cpu' = [vcpu_cpu EXCEPT ![v] = None]
      /\ request' = [request EXCEPT ![v] = FALSE]
      /\ launched' = [launched EXCEPT ![v] = FALSE]
      /\ vmcs_launched' = [vmcs_launched EXCEPT ![v] = FALSE]
      /\ misjudged' = misjudged \ {v}
  BY Zenon DEF vmx_free_vpid
<1>3. /\ pc' \in [Vcpus -> {"free", "alloc", "failed", "idle", "loop", "ready", "guest"}]
      /\ instance' \in [Vcpus -> Insts \cup {None}]
      /\ vcpu_cpu' \in [Vcpus -> Cpus \cup {None}]
  BY Zenon, <1>2 DEF TypeOK
<1>4. /\ launched' \in [Vcpus -> BOOLEAN] /\ request' \in [Vcpus -> BOOLEAN]
      /\ vmcs_launched' \in [Vcpus -> BOOLEAN]
  BY Zenon, <1>2 DEF TypeOK
<1>5. vpid' \in [Vcpus -> 0 .. NR_VPIDS - 1] /\ vpid_bitmap' \subseteq 0 .. NR_VPIDS - 1
  <2>1. 0 \in 0 .. NR_VPIDS - 1
    BY VpidAssumption
  <2>2. vpid \in [Vcpus -> 0 .. NR_VPIDS - 1] /\ vpid_bitmap \subseteq 0 .. NR_VPIDS - 1
    BY Zenon DEF TypeOK
  <2> QED BY Zenon, <1>2, <2>1, <2>2
<1>6. /\ vcpu_cpu'[v] = None /\ pc'[v] = "free" /\ instance'[v] = None
      /\ ~launched'[v] /\ ~vmcs_launched'[v]
  BY <1>1, <1>2 DEF TypeOK
<1>7. \A w \in Vcpus \ {v} :
        /\ pc'[w] = pc[w] /\ instance'[w] = instance[w] /\ vpid'[w] = vpid[w]
        /\ vcpu_cpu'[w] = vcpu_cpu[w] /\ request'[w] = request[w]
  BY <1>2 DEF TypeOK
<1>8. \A w \in Vcpus \ {v} : launched'[w] = launched[w] /\ vmcs_launched'[w] = vmcs_launched[w]
  BY Zenon, <1>2 DEF TypeOK
<1>9. LiveVcpus' = LiveVcpus \ {v}
  BY Zenon, <1>6, <1>7 DEF LiveVcpus
<1>10. where[v] = None
  BY Zenon, <1>1 DEF PlaceInv
<1>11. NumberInv'
  <2>1. \A w \in LiveVcpus \ {v} :
          w \in Vcpus \ {v} /\ vpid[w] \in vpid_bitmap' /\ vpid[w] # 0
    BY Zenon, <1>2 DEF NumberInv, LiveVcpus
  <2>2. 0 \in vpid_bitmap'
    BY Zenon, <1>2 DEF NumberInv
  <2>3. \A w \in LiveVcpus' : /\ instance'[w] \in Insts /\ eptp'[instance'[w]] # None
                              /\ vpid'[w] \in vpid_bitmap' /\ vpid'[w] # 0
    BY SMTT(30), <1>7, <1>9, <2>1 DEF NumberInv
  <2>4. \A w \in Vcpus \ LiveVcpus' : instance'[w] = None /\ vcpu_cpu'[w] = None
    BY Zenon, <1>6, <1>7, <1>9 DEF NumberInv
  <2>5. \A u, w \in LiveVcpus' : vpid'[u] = vpid'[w] => u = w
    BY <1>7, <1>9, <2>1 DEF NumberInv
  <2>6. /\ \A j \in Insts : eptp'[j] # None => Serving'
        /\ \A j, k \in Insts : eptp'[j] = eptp'[k] => j = k \/ eptp'[j] = None
    BY Zenon DEF NumberInv
  <2> QED BY Zenon, <2>2, <2>3, <2>4, <2>5, <2>6 DEF NumberInv
<1>12. misjudged' = misjudged \ {v} /\ misjudged' \subseteq Vcpus
  BY Zenon, <1>2 DEF TypeOK
<1> QED BY Zenon, <1>3, <1>4, <1>5, <1>6, <1>7, <1>8, <1>9, <1>10, <1>11, <1>12

(* A freed vcpu's VMCS and vcpu->launched start over; the others keep      *)
(* theirs.                                                                 *)
LEMMA FreeLaunch ==
  ASSUME TypeOK, NumberInv, PlaceInv, VmcsInv, NEW v \in LiveVcpus, vmx_free_vpid(v),
         pc[v] \in {"alloc", "failed", "idle"},
         UNCHANGED <<eptp, where>>, Serving' <=> Serving
  PROVE  \A w \in Vcpus : /\ launched'[w] = vmcs_launched'[w] \/ w \in misjudged'
                          /\ vcpu_cpu'[w] = None => ~launched'[w] /\ ~vmcs_launched'[w]
<1> SUFFICES ASSUME NEW w \in Vcpus
             PROVE  /\ launched'[w] = vmcs_launched'[w] \/ w \in misjudged'
                    /\ vcpu_cpu'[w] = None => ~launched'[w] /\ ~vmcs_launched'[w]
  BY Zenon
<1>1. CASE w = v
  <2>1. ~launched'[v] /\ ~vmcs_launched'[v]
    BY Zenon, FreeFacts
  <2>2. launched'[v] \in BOOLEAN /\ vmcs_launched'[v] \in BOOLEAN
    BY Zenon, <1>1, FreeFacts
  <2> QED BY Zenon, <1>1, <2>1, <2>2
<1>2. CASE w # v
  <2>1. /\ launched'[w] = launched[w] /\ vmcs_launched'[w] = vmcs_launched[w]
        /\ vcpu_cpu'[w] = vcpu_cpu[w]
    BY Zenon, <1>2, FreeFacts
  <2>2. w \in misjudged => w \in misjudged'
    BY Zenon, <1>2, FreeFacts
  <2> QED BY Zenon, <2>1, <2>2 DEF VmcsInv
<1> QED BY Zenon, <1>1, <1>2

(* What the freed vcpu left in the TLBs concerns no other vcpu that is     *)
(* loaded.                                                                 *)
LEMMA FreeTlb ==
  ASSUME TypeOK, NumberInv, PlaceInv, TlbInv, NEW v \in LiveVcpus, vmx_free_vpid(v),
         pc[v] \in {"alloc", "failed", "idle"},
         UNCHANGED <<eptp, where, tlb>>, Serving' <=> Serving
  PROVE  TlbInv'
<1> SUFFICES ASSUME NEW w \in Vcpus, vcpu_cpu'[w] # None, ~(request'[w] /\ pc'[w] # "guest")
             PROVE  Clean(w, vcpu_cpu[w])'
  BY Zenon DEF TlbInv
<1>1. w # v
  BY Zenon, FreeFacts
<1>2. /\ pc'[w] = pc[w] /\ instance'[w] = instance[w] /\ vpid'[w] = vpid[w]
      /\ vcpu_cpu'[w] = vcpu_cpu[w] /\ request'[w] = request[w]
  BY Zenon, <1>1, FreeFacts
<1>3. Clean(w, vcpu_cpu[w])
  BY Zenon, <1>2 DEF TlbInv
<1> QED BY Zenon, <1>2, <1>3 DEF Clean

(* A creation that fails before the load (fail_guest_msrs) leaves nothing. *)
LEMMA AllocMsrsFailsInv ==
  ASSUME VcpuInv, NEW v \in Vcpus, AllocMsrsFails(v)
  PROVE  VcpuInv'
<1> USE NamesAssumption DEF VcpuInv
<1>1. /\ pc[v] = "alloc" /\ vmx_free_vpid(v)
      /\ UNCHANGED <<eptp, where, local_vcpu, current, active, tlb, leaked>>
  BY Zenon DEF AllocMsrsFails
<1>2. HardwareTypeOK' /\ HardwareInv' /\ (Serving' <=> Serving)
  BY Zenon, SameHardware DEF AllocMsrsFails, TypeOK
<1>3. v \in LiveVcpus
  BY Zenon, <1>1 DEF LiveVcpus
<1>4. TypeOK'
  BY Zenon, <1>1, <1>2, <1>3, FreeFacts DEF TypeOK
<1>5. NumberInv'
  BY Zenon, <1>1, <1>2, <1>3, FreeFacts
<1>6. PlaceInv'
  <2>1. /\ pc'[v] = "free" /\ where[v] = None /\ vcpu_cpu'[v] = None
        /\ \A w \in Vcpus \ {v} : pc'[w] = pc[w] /\ vcpu_cpu'[w] = vcpu_cpu[w]
    BY Zenon, <1>1, <1>2, <1>3, FreeFacts
  <2>2. \A w \in Vcpus : pc'[w] = "alloc" => vcpu_cpu'[w] = None
    BY Zenon, <2>1 DEF PlaceInv
  <2>3. \A w \in Vcpus : where[w] # None =>
          pc'[w] \in {"loop", "ready", "guest"} /\ vcpu_cpu'[w] = where[w]
    BY Zenon, <2>1 DEF PlaceInv
  <2>4. \A w \in Vcpus : pc'[w] \in {"ready", "guest"} =>
          where[w] # None /\ local_vcpu[where[w]] = w
    BY Zenon, <2>1 DEF PlaceInv
  <2> QED BY ZenonT(30), <1>1, <2>2, <2>3, <2>4 DEF PlaceInv
<1>7. \A c \in Cpus : v \notin active[c]
  <2>1. vcpu_cpu[v] = None
    BY Zenon, <1>1 DEF PlaceInv
  <2>2. v # Freed /\ \A c \in Cpus : c # None
    BY Zenon
  <2>3. \A c \in Cpus : \A w \in active[c] : w # Freed => vcpu_cpu[w] = c
    BY Zenon DEF VmcsInv
  <2> QED BY Zenon, <2>1, <2>2, <2>3
<1>8. VmcsInv'
  <2>1. LiveVcpus' = LiveVcpus \ {v}
    BY Zenon, <1>1, <1>2, <1>3, FreeFacts
  <2>2. ASSUME NEW c \in Cpus, local_vcpu'[c] \in LiveVcpus'
        PROVE  current'[c] = local_vcpu'[c] /\ vcpu_cpu'[local_vcpu'[c]] = c
    <3>1. local_vcpu[c] \in LiveVcpus /\ local_vcpu[c] \in Vcpus \ {v}
      BY Zenon, <1>1, <2>1, <2>2 DEF LiveVcpus
    <3>2. vcpu_cpu'[local_vcpu[c]] = vcpu_cpu[local_vcpu[c]]
      BY Zenon, <1>1, <1>2, <1>3, <3>1, FreeFacts
    <3> QED BY Zenon, <1>1, <3>1, <3>2 DEF VmcsInv
  <2>3. ASSUME NEW c \in Cpus, NEW w \in active'[c], w # Freed
        PROVE  w \in LiveVcpus' /\ vcpu_cpu'[w] = c
    <3>1. w \in active[c] /\ w # v
      BY Zenon, <1>1, <1>7, <2>3
    <3>2. w \in LiveVcpus /\ vcpu_cpu[w] = c
      BY Zenon, <2>3, <3>1 DEF VmcsInv
    <3>3. vcpu_cpu'[w] = vcpu_cpu[w]
      BY Zenon, <1>1, <1>2, <1>3, <3>1, <3>2, FreeFacts DEF LiveVcpus
    <3> QED BY Zenon, <2>1, <3>1, <3>2, <3>3
  <2>4. \A w \in Vcpus : /\ launched'[w] = vmcs_launched'[w] \/ w \in misjudged'
                         /\ vcpu_cpu'[w] = None => ~launched'[w] /\ ~vmcs_launched'[w]
    BY Zenon, <1>1, <1>2, <1>3, FreeLaunch
  <2> QED BY Zenon, <1>1, <2>2, <2>3, <2>4 DEF VmcsInv
<1>9. TlbInv'
  BY Zenon, <1>1, <1>2, <1>3, FreeTlb
<1> QED BY Zenon, <1>2, <1>4, <1>5, <1>6, <1>8, <1>9

(* A creation that fails after the load (fail_initial_guest_state) leaves  *)
(* the address in vmx_local_vcpu, and a VMCS that counts as leaked.        *)
LEMMA UnwindInv ==
  ASSUME VcpuInv, NEW v \in Vcpus, UnwindVcpu(v)
  PROVE  VcpuInv'
<1> USE NamesAssumption DEF VcpuInv
<1>1. /\ pc[v] = "failed" /\ vmx_free_vpid(v)
      /\ active' = [c \in Cpus |-> IF v \in active[c] THEN (active[c] \ {v}) \cup {Freed}
                                   ELSE active[c]]
      /\ current' = [c \in Cpus |-> IF current[c] = v THEN Freed ELSE current[c]]
      /\ leaked' = leaked \cup {c \in Cpus : v \in active[c]}
      /\ UNCHANGED <<eptp, where, local_vcpu, tlb>>
  BY Zenon DEF UnwindVcpu
<1>2. HardwareTypeOK' /\ HardwareInv' /\ (Serving' <=> Serving)
  BY Zenon, SameHardware DEF UnwindVcpu, TypeOK
<1>3. v \in LiveVcpus /\ v # Freed
  BY Zenon, <1>1 DEF LiveVcpus
<1>4. TypeOK'
  <2>1. \A c \in Cpus : active[c] \subseteq Vcpus \cup {Freed}
    BY Zenon DEF TypeOK
  <2>2. active' \in [Cpus -> SUBSET (Vcpus \cup {Freed})]
    BY Zenon, <1>1, <2>1
  <2>3. current' \in [Cpus -> Vcpus \cup {None, Freed}]
    BY Zenon, <1>1 DEF TypeOK
  <2>4. leaked' \subseteq Cpus
    BY Zenon, <1>1 DEF TypeOK
  <2> QED BY Zenon, <1>1, <1>2, <1>3, <2>2, <2>3, <2>4, FreeFacts DEF TypeOK
<1>5. NumberInv' /\ LiveVcpus' = LiveVcpus \ {v}
  BY Zenon, <1>1, <1>2, <1>3, FreeFacts
<1>6. PlaceInv'
  <2>1. /\ pc'[v] = "free" /\ where[v] = None /\ vcpu_cpu'[v] = None
        /\ \A w \in Vcpus \ {v} : pc'[w] = pc[w] /\ vcpu_cpu'[w] = vcpu_cpu[w]
    BY Zenon, <1>1, <1>2, <1>3, FreeFacts
  <2>2. \A w \in Vcpus : pc'[w] = "alloc" => vcpu_cpu'[w] = None
    BY Zenon, <2>1 DEF PlaceInv
  <2>3. \A w \in Vcpus : where[w] # None =>
          pc'[w] \in {"loop", "ready", "guest"} /\ vcpu_cpu'[w] = where[w]
    BY Zenon, <2>1 DEF PlaceInv
  <2>4. \A w \in Vcpus : pc'[w] \in {"ready", "guest"} =>
          where[w] # None /\ local_vcpu[where[w]] = w
    BY Zenon, <2>1 DEF PlaceInv
  <2> QED BY ZenonT(30), <1>1, <2>2, <2>3, <2>4 DEF PlaceInv
<1>7. \A w \in Vcpus \ {v} : vcpu_cpu'[w] = vcpu_cpu[w]
  BY Zenon, <1>1, <1>2, <1>3, FreeFacts
<1>8. VmcsInv'
  <2>1. ASSUME NEW c \in Cpus, local_vcpu'[c] \in LiveVcpus'
        PROVE  current'[c] = local_vcpu'[c] /\ vcpu_cpu'[local_vcpu'[c]] = c
    <3>1. local_vcpu[c] \in LiveVcpus /\ local_vcpu[c] # v /\ local_vcpu[c] \in Vcpus
      BY Zenon, <1>1, <1>5, <2>1 DEF LiveVcpus
    <3>2. current[c] = local_vcpu[c] /\ vcpu_cpu[local_vcpu[c]] = c
      BY Zenon, <3>1 DEF VmcsInv
    <3> QED BY Zenon, <1>1, <1>7, <3>1, <3>2
  <2>2. ASSUME NEW c \in Cpus, current'[c] \in Vcpus \cup {Freed}
        PROVE  current'[c] \in active'[c]
    <3>1. current[c] \in Vcpus \cup {Freed} => current[c] \in active[c]
      BY Zenon DEF VmcsInv
    <3> QED BY Zenon, <1>1, <1>3, <2>2, <3>1
  <2>3. ASSUME NEW c \in Cpus, NEW w \in active'[c], w # Freed
        PROVE  w \in LiveVcpus' /\ vcpu_cpu'[w] = c
    <3>1. w \in active[c] /\ w # v
      BY Zenon, <1>1, <2>3
    <3>2. w \in LiveVcpus /\ vcpu_cpu[w] = c
      BY Zenon, <2>3, <3>1 DEF VmcsInv
    <3> QED BY Zenon, <1>5, <1>7, <3>1, <3>2 DEF LiveVcpus
  <2>4. \A c \in Cpus : Freed \in active'[c] => c \in leaked'
    BY Zenon, <1>1 DEF VmcsInv
  <2>5. \A w \in Vcpus : /\ launched'[w] = vmcs_launched'[w] \/ w \in misjudged'
                         /\ vcpu_cpu'[w] = None => ~launched'[w] /\ ~vmcs_launched'[w]
    BY Zenon, <1>1, <1>2, <1>3, FreeLaunch
  <2> QED BY Zenon, <2>1, <2>2, <2>3, <2>4, <2>5 DEF VmcsInv
<1>9. TlbInv'
  BY Zenon, <1>1, <1>2, <1>3, FreeTlb
<1> QED BY Zenon, <1>2, <1>4, <1>5, <1>6, <1>8, <1>9

(* The entries of a freed vcpu keep their vpid, root and instance; the     *)
(* others stay as they are.                                                *)
LEMMA DisownedFacts ==
  ASSUME NEW t \in [Cpus -> SUBSET Entries], NEW v \in Vcpus
  PROVE  /\ Disowned(t, v) \in [Cpus -> SUBSET Entries]
         /\ \A c \in Cpus : \A f \in Disowned(t, v)[c] : \E e \in t[c] :
              /\ f.eptp = e.eptp /\ f.vpid = e.vpid /\ f.inst = e.inst
              /\ e.vcpu # v => f.vcpu = e.vcpu
<1> DEFINE D(e) == [e EXCEPT !.vcpu = IF @ = v THEN None ELSE @]
<1>1. \A e \in Entries : /\ D(e) \in Entries
                         /\ D(e).eptp = e.eptp /\ D(e).vpid = e.vpid /\ D(e).inst = e.inst
                         /\ e.vcpu # v => D(e).vcpu = e.vcpu
  BY Zenon DEF Entries
<1>2. \A c \in Cpus : t[c] \subseteq Entries
  BY Zenon
<1>3. Disowned(t, v) = [c \in Cpus |-> {D(e) : e \in t[c]}]
  BY Zenon DEF Disowned
<1> HIDE DEF D
<1>4. \A c \in Cpus : {D(e) : e \in t[c]} \subseteq Entries
  BY Zenon, <1>1, <1>2
<1>5. Disowned(t, v) \in [Cpus -> SUBSET Entries]
  BY Zenon, <1>3, <1>4
<1>6. ASSUME NEW c \in Cpus, NEW f \in Disowned(t, v)[c]
      PROVE  \E e \in t[c] : /\ f.eptp = e.eptp /\ f.vpid = e.vpid /\ f.inst = e.inst
                             /\ e.vcpu # v => f.vcpu = e.vcpu
  <2>1. PICK e \in t[c] : f = D(e)
    BY <1>3, <1>6
  <2>2. e \in Entries
    BY Zenon, <1>2
  <2> QED BY Zenon, <1>1, <2>1, <2>2
<1> QED BY Zenon, <1>5, <1>6

(* A release (vmx_destroy_vcpu) takes the VMCS from every CPU before its   *)
(* memory goes, and leaves no vmx_local_vcpu behind.                       *)
LEMMA DestroyInv ==
  ASSUME VcpuInv, NEW v \in Vcpus, NEW c \in Cpus, vmx_destroy_vcpu(v, c)
  PROVE  VcpuInv'
<1> USE NamesAssumption DEF VcpuInv
<1>1. /\ pc[v] = "idle" /\ Idle(c) /\ vmx_free_vpid(v)
      /\ local_vcpu' = [LoadedLocal(v, c) EXCEPT ![c] = None]
      /\ tlb' = Disowned(Synced(c, eptp[instance[v]]), v)
      /\ UNCHANGED <<eptp, where, leaked>>
  BY Zenon DEF vmx_destroy_vcpu
<1>2. HardwareTypeOK' /\ HardwareInv' /\ (Serving' <=> Serving)
  BY Zenon, SameHardware DEF vmx_destroy_vcpu, TypeOK
<1>3. v \in LiveVcpus /\ v # Freed /\ v # None
  BY Zenon, <1>1 DEF LiveVcpus
<1>4. \A d \in Cpus \ {c} : v \notin LoadedActive(v, c)[d] /\ LoadedCurrent(v, c)[d] # v
  BY Zenon, <1>3, LoadFacts
<1>5. active' = [d \in Cpus |-> active[d] \ {v}]
  <2>1. active' = [d \in Cpus |->
                    CASE v \notin LoadedActive(v, c)[d] -> LoadedActive(v, c)[d]
                      [] d = c -> LoadedActive(v, c)[d] \ {v}
                      [] OTHER -> (LoadedActive(v, c)[d] \ {v}) \cup {Freed}]
    BY Zenon DEF vmx_destroy_vcpu
  <2>2. \A d \in Cpus : LoadedActive(v, c)[d] \ {v} = active[d] \ {v}
    BY Zenon, <1>3, LoadFacts
  <2>3. v \in LoadedActive(v, c)[c]
    BY Zenon, <1>3, LoadFacts
  <2>4. ASSUME NEW d \in Cpus PROVE active'[d] = active[d] \ {v}
    <3>1. CASE d = c
      BY Zenon, <2>1, <2>2, <2>3, <3>1
    <3>2. CASE d # c
      BY Zenon, <1>4, <2>1, <2>2, <3>2
    <3> QED BY Zenon, <3>1, <3>2
  <2> QED BY Zenon, <2>1, <2>4
<1>6. current' = [d \in Cpus |-> IF d = c THEN None ELSE LoadedCurrent(v, c)[d]]
  <2>1. current' = [d \in Cpus |->
                     CASE LoadedCurrent(v, c)[d] # v -> LoadedCurrent(v, c)[d]
                       [] d = c -> None
                       [] OTHER -> Freed]
    BY Zenon DEF vmx_destroy_vcpu
  <2>2. LoadedCurrent(v, c)[c] = v
    BY Zenon, <1>3, LoadFacts
  <2>3. ASSUME NEW d \in Cpus
        PROVE  current'[d] = IF d = c THEN None ELSE LoadedCurrent(v, c)[d]
    BY Zenon, <1>4, <2>1, <2>2
  <2> QED BY Zenon, <2>1, <2>3
<1>7. \A d \in Cpus \ {c} :
        /\ local_vcpu'[d] # v /\ local_vcpu'[d] \in {local_vcpu[d], None}
        /\ local_vcpu[d] # v => local_vcpu'[d] = local_vcpu[d]
        /\ current'[d] # v /\ current'[d] \in {current[d], None}
        /\ current[d] # v => current'[d] = current[d]
  <2> SUFFICES ASSUME NEW d \in Cpus \ {c}
               PROVE  /\ local_vcpu'[d] # v /\ local_vcpu'[d] \in {local_vcpu[d], None}
                      /\ local_vcpu[d] # v => local_vcpu'[d] = local_vcpu[d]
                      /\ current'[d] # v /\ current'[d] \in {current[d], None}
                      /\ current[d] # v => current'[d] = current[d]
    BY Zenon
  <2>1. local_vcpu'[d] = LoadedLocal(v, c)[d] /\ current'[d] = LoadedCurrent(v, c)[d]
    BY Zenon, <1>1, <1>6, LoadType
  <2>2. \A a \in Cpus \ {c} :
          /\ LoadedLocal(v, c)[a] # v /\ LoadedCurrent(v, c)[a] # v
          /\ v \notin LoadedActive(v, c)[a]
          /\ LoadedLocal(v, c)[a] \in {local_vcpu[a], None}
          /\ local_vcpu[a] # v => LoadedLocal(v, c)[a] = local_vcpu[a]
          /\ LoadedCurrent(v, c)[a] \in {current[a], None}
          /\ current[a] # v => LoadedCurrent(v, c)[a] = current[a]
    BY Zenon, <1>3, LoadFacts
  <2> QED BY Zenon, <2>1, <2>2
<1>8. local_vcpu'[c] = None /\ current'[c] = None
  BY Zenon, <1>1, <1>6, LoadType
<1>9. Synced(c, eptp[instance[v]]) \in [Cpus -> SUBSET Entries]
      /\ \A d \in Cpus : Synced(c, eptp[instance[v]])[d] \subseteq tlb[d]
  BY Zenon DEF Synced, TypeOK
<1>10. TypeOK'
  <2>1. \A d \in Cpus : active[d] \subseteq Vcpus \cup {Freed}
    BY Zenon DEF TypeOK
  <2>2. active' \in [Cpus -> SUBSET (Vcpus \cup {Freed})]
    BY Zenon, <1>5, <2>1
  <2>3. current' \in [Cpus -> Vcpus \cup {None, Freed}]
    BY <1>6, LoadType
  <2>4. local_vcpu' \in [Cpus -> Vcpus \cup {None}]
    BY Zenon, <1>1, LoadType
  <2>5. tlb' \in [Cpus -> SUBSET Entries]
    BY Zenon, <1>1, <1>9, DisownedFacts
  <2> QED BY Zenon, <1>1, <1>2, <1>3, <2>2, <2>3, <2>4, <2>5, FreeFacts DEF TypeOK
<1>11. NumberInv' /\ LiveVcpus' = LiveVcpus \ {v}
  BY Zenon, <1>1, <1>2, <1>3, FreeFacts
<1>12. /\ vcpu_cpu'[v] = None /\ pc'[v] = "free" /\ where[v] = None
       /\ \A w \in Vcpus \ {v} : /\ pc'[w] = pc[w] /\ instance'[w] = instance[w]
                                  /\ vpid'[w] = vpid[w] /\ vcpu_cpu'[w] = vcpu_cpu[w]
                                  /\ request'[w] = request[w]
  BY Zenon, <1>1, <1>2, <1>3, FreeFacts
<1>13. PlaceInv'
  <2>1. ASSUME NEW w \in Vcpus, pc'[w] \in {"ready", "guest"}
        PROVE  where[w] # None /\ local_vcpu'[where[w]] = w
    <3>1. w # v /\ where[w] # None /\ local_vcpu[where[w]] = w
      BY Zenon, <1>12, <2>1 DEF PlaceInv
    <3>2. where[w] \in Cpus \ {c}
      BY Zenon, <1>1, <3>1 DEF Idle, TypeOK
    <3> QED BY Zenon, <1>7, <3>1, <3>2
  <2>2. \A w \in Vcpus : pc'[w] = "alloc" => vcpu_cpu'[w] = None
    BY Zenon, <1>12 DEF PlaceInv
  <2>3. \A w \in Vcpus : where[w] # None =>
          pc'[w] \in {"loop", "ready", "guest"} /\ vcpu_cpu'[w] = where[w]
    BY Zenon, <1>12 DEF PlaceInv
  <2>4. \A u, w \in Vcpus : where[u] = where[w] => u = w \/ where[u] = None
    BY Zenon DEF PlaceInv
  <2>5. where' = where
    BY Zenon, <1>1
  <2> QED BY Zenon, <2>1, <2>2, <2>3, <2>4, <2>5 DEF PlaceInv
<1>14. VmcsInv'
  <2>1. ASSUME NEW d \in Cpus, local_vcpu'[d] \in LiveVcpus'
        PROVE  current'[d] = local_vcpu'[d] /\ vcpu_cpu'[local_vcpu'[d]] = d
    <3>1. local_vcpu'[d] \in Vcpus \ {v} /\ d # c
      BY Zenon, <1>8, <1>11, <2>1 DEF LiveVcpus
    <3>2. local_vcpu'[d] = local_vcpu[d]
      BY Zenon, <1>7, <3>1
    <3>3. current[d] = local_vcpu[d] /\ vcpu_cpu[local_vcpu[d]] = d
      BY Zenon, <1>11, <2>1, <3>2 DEF VmcsInv
    <3> QED BY Zenon, <1>7, <1>12, <3>1, <3>2, <3>3
  <2>2. ASSUME NEW d \in Cpus, current'[d] \in Vcpus \cup {Freed}
        PROVE  current'[d] \in active'[d]
    <3>1. current'[d] = current[d] /\ current[d] # v
      BY Zenon, <1>7, <1>8, <2>2
    <3>2. current[d] \in active[d]
      BY Zenon, <2>2, <3>1 DEF VmcsInv
    <3> QED BY Zenon, <1>5, <3>1, <3>2
  <2>3. ASSUME NEW d \in Cpus, NEW w \in active'[d], w # Freed
        PROVE  w \in LiveVcpus' /\ vcpu_cpu'[w] = d
    <3>1. w \in active[d] /\ w # v
      BY Zenon, <1>5, <2>3
    <3>2. w \in LiveVcpus /\ vcpu_cpu[w] = d
      BY Zenon, <2>3, <3>1 DEF VmcsInv
    <3> QED BY Zenon, <1>11, <1>12, <3>1, <3>2 DEF LiveVcpus
  <2>4. \A d \in Cpus : Freed \in active'[d] => d \in leaked'
    BY Zenon, <1>1, <1>5 DEF VmcsInv
  <2>5. \A w \in Vcpus : /\ launched'[w] = vmcs_launched'[w] \/ w \in misjudged'
                         /\ vcpu_cpu'[w] = None => ~launched'[w] /\ ~vmcs_launched'[w]
    BY Zenon, <1>1, <1>2, <1>3, FreeLaunch
  <2> QED BY Zenon, <2>1, <2>2, <2>3, <2>4, <2>5 DEF VmcsInv
<1>15. ASSUME NEW w \in Vcpus \ {v}, vcpu_cpu[w] # None, Clean(w, vcpu_cpu[w])
       PROVE  Clean(w, vcpu_cpu[w])'
  <2>1. vcpu_cpu[w] \in Cpus /\ vcpu_cpu'[w] = vcpu_cpu[w]
    BY Zenon, <1>12, <1>15 DEF TypeOK
  <2>2. SUFFICES ASSUME NEW f \in tlb'[vcpu_cpu[w]], f.eptp = eptp[instance[w]]
                 PROVE  f.inst = instance[w] /\ (f.vpid = vpid[w] => f.vcpu = w)
    BY Zenon, <1>1, <1>12, <2>1 DEF Clean
  <2>3. PICK e \in Synced(c, eptp[instance[v]])[vcpu_cpu[w]] :
          /\ f.eptp = e.eptp /\ f.vpid = e.vpid /\ f.inst = e.inst
          /\ e.vcpu # v => f.vcpu = e.vcpu
    <3>1. f \in Disowned(Synced(c, eptp[instance[v]]), v)[vcpu_cpu[w]]
      BY Zenon, <1>1, <2>2
    <3>2. \A d \in Cpus : \A g \in Disowned(Synced(c, eptp[instance[v]]), v)[d] :
            \E e \in Synced(c, eptp[instance[v]])[d] :
              /\ g.eptp = e.eptp /\ g.vpid = e.vpid /\ g.inst = e.inst
              /\ e.vcpu # v => g.vcpu = e.vcpu
      BY Zenon, <1>9, DisownedFacts
    <3> QED BY Zenon, <2>1, <3>1, <3>2
  <2>4. e \in tlb[vcpu_cpu[w]]
    BY Zenon, <1>9, <2>1, <2>3
  <2>5. e.inst = instance[w] /\ (e.vpid = vpid[w] => e.vcpu = w)
    BY Zenon, <1>15, <2>2, <2>3, <2>4 DEF Clean
  <2> QED BY Zenon, <2>3, <2>5
<1>16. TlbInv'
  BY Zenon, <1>12, <1>15 DEF TlbInv
<1> QED BY Zenon, <1>2, <1>10, <1>11, <1>13, <1>14, <1>16

(***************************************************************************)
(* The hardware.                                                           *)
(***************************************************************************)

(* A loader or KVM step (slimvm_init, vmx_hardware_enable_all and the SVM  *)
(* counterpart) keeps what each phase of the loader has done.              *)
LEMMA LoaderInv ==
  ASSUME HardwareTypeOK, HardwareInv, LoaderStep \/ KvmStep \/ slimvm_exit
         \/ \E c \in Cpus : EnableCpu(c)
  PROVE  HardwareTypeOK' /\ HardwareInv'
<1> USE DEF HardwareTypeOK, HardwareInv, HardwareBalanced
<1>1. CASE slimvm_init
  BY Zenon, <1>1 DEF slimvm_init, Phases
<1>2. CASE AllocFails
  <2>1. \A c \in Cpus : ~enabled[c]
    BY Zenon, <1>2 DEF AllocFails
  <2>2. CASE engine = "vmx"
    BY Zenon, <1>2, <2>1, <2>2 DEF AllocFails, FreeAreas, Phases
  <2>3. CASE engine # "vmx"
    BY Zenon, <1>2, <2>1, <2>3 DEF AllocFails, StartDisable, Phases
  <2> QED BY Zenon, <2>2, <2>3
<1>3. CASE StartEnable
  BY Zenon, <1>3 DEF StartEnable, Phases
<1>4. CASE EnabledAll
  <2>1. CASE failed
    BY Zenon, <1>4, <2>1 DEF EnabledAll, StartDisable, Phases
  <2>2. CASE ~failed
    BY Zenon, <1>4, <2>2 DEF EnabledAll, Phases
  <2> QED BY Zenon, <2>1, <2>2
<1>5. CASE DisabledAll
  BY Zenon, <1>5 DEF DisabledAll, FreeAreas, Phases
<1>6. ASSUME NEW ok \in BOOLEAN, misc_register(ok)
      PROVE  HardwareTypeOK' /\ HardwareInv'
  <2>1. CASE ok
    BY Zenon, <1>6, <2>1 DEF misc_register, Phases
  <2>2. CASE ~ok
    BY Zenon, <1>6, <2>2 DEF misc_register, StartDisable, Phases
  <2> QED BY Zenon, <2>1, <2>2
<1>7. ASSUME NEW c \in Cpus, AllocArea(c)
      PROVE  HardwareTypeOK' /\ HardwareInv'
  BY Zenon, <1>7 DEF AllocArea, Phases
<1>8. ASSUME NEW c \in Cpus, DisableCpu(c)
      PROVE  HardwareTypeOK' /\ HardwareInv'
  BY Zenon, <1>8 DEF DisableCpu, Phases
<1>9. ASSUME NEW c \in Cpus, KvmTakes(c) \/ KvmLeaves(c)
      PROVE  HardwareTypeOK' /\ HardwareInv'
  <2>1. HardwareTypeOK'
    BY Zenon, <1>9 DEF KvmTakes, KvmLeaves
  <2>2. ~enabled[c]
    BY Zenon, <1>9 DEF KvmTakes, KvmLeaves
  <2>3. svme'[c] <=> kvm'[c]
    BY Zenon, <1>9 DEF KvmTakes, KvmLeaves
  <2>4. \A d \in Cpus \ {c} : svme'[d] = svme[d] /\ kvm'[d] = kvm[d]
    BY Zenon, <1>9 DEF KvmTakes, KvmLeaves
  <2>5. UNCHANGED <<engine, phase, pending, failed, enabled, area, msr_bitmap>>
    BY Zenon, <1>9 DEF KvmTakes, KvmLeaves
  <2> QED BY Zenon, <2>1, <2>2, <2>3, <2>4, <2>5
<1>10. CASE slimvm_exit
  BY Zenon, <1>10 DEF slimvm_exit, StartDisable, Phases
<1>11. ASSUME NEW c \in Cpus, EnableCpu(c)
       PROVE  HardwareTypeOK' /\ HardwareInv'
  BY SMTT(30), <1>11 DEF EnableCpu, Phases
<1> QED BY Zenon, <1>1, <1>2, <1>3, <1>4, <1>5, <1>6, <1>7, <1>8, <1>9, <1>10, <1>11
        DEF LoaderStep, KvmStep

(***************************************************************************)
(* The guest.                                                              *)
(***************************************************************************)

(* The guest's own entry is foreign to nobody: other vcpus of the instance *)
(* have other vpids, other instances other roots (vmx_run_vcpu).           *)
LEMMA EnterInv ==
  ASSUME VcpuInv, NEW v \in Vcpus, EnterGuest(v)
  PROVE  VcpuInv'
<1> USE NamesAssumption DEF VcpuInv
<1> DEFINE c == where[v]
           n == [vcpu |-> v, inst |-> instance[v], vpid |-> vpid[v], eptp |-> eptp[instance[v]]]
<1>1. /\ pc[v] = "ready" /\ ~request[v]
      /\ pc' = [pc EXCEPT ![v] = "guest"]
      /\ launched' = [launched EXCEPT ![v] = TRUE]
      /\ vmcs_launched' = [vmcs_launched EXCEPT ![v] = TRUE]
      /\ tlb' = [tlb EXCEPT ![c] = @ \cup {n}]
      /\ UNCHANGED <<eptp, where, instance, vpid, vpid_bitmap, vcpu_cpu, request, local_vcpu,
                     current, active, misjudged, leaked>>
  BY Zenon DEF EnterGuest, fieldVars
<1>2. HardwareTypeOK' /\ HardwareInv' /\ (Serving' <=> Serving)
  BY Zenon, SameHardware DEF EnterGuest, TypeOK
<1>3. v \in LiveVcpus
  BY Zenon, <1>1 DEF LiveVcpus
<1>4. c \in Cpus /\ vcpu_cpu[v] = c
  BY Zenon, <1>1 DEF PlaceInv, TypeOK
<1>5. n \in Entries
  <2>1. vpid[v] \in Vpids
    <3>1. vpid[v] \in 0 .. NR_VPIDS - 1 /\ vpid[v] # 0
      BY Zenon, <1>3 DEF NumberInv, TypeOK
    <3> QED BY <3>1, VpidAssumption DEF Vpids
  <2>2. instance[v] \in Insts /\ eptp[instance[v]] \in Roots
    BY <1>3 DEF NumberInv, TypeOK
  <2> QED BY Zenon, <2>1, <2>2 DEF Entries
<1>6. /\ n.vcpu = v /\ n.inst = instance[v] /\ n.vpid = vpid[v]
      /\ n.eptp = eptp[instance[v]]
  BY Zenon
<1> HIDE DEF c, n
<1>7. pc'[v] = "guest" /\ \A w \in Vcpus \ {v} : pc'[w] = pc[w]
  BY Zenon, <1>1 DEF TypeOK
<1>8. LiveVcpus' = LiveVcpus
  BY Zenon, <1>3, <1>7 DEF LiveVcpus
<1>9. TypeOK'
  <2>1. pc' \in [Vcpus -> {"free", "alloc", "failed", "idle", "loop", "ready", "guest"}]
    BY Zenon, <1>1 DEF TypeOK
  <2>2. launched' \in [Vcpus -> BOOLEAN] /\ vmcs_launched' \in [Vcpus -> BOOLEAN]
    BY Zenon, <1>1 DEF TypeOK
  <2>3. tlb' \in [Cpus -> SUBSET Entries]
    BY Zenon, <1>1, <1>5 DEF TypeOK
  <2> QED BY Zenon, <1>1, <1>2, <2>1, <2>2, <2>3 DEF TypeOK
<1>10. NumberInv'
  BY Zenon, <1>1, <1>2, <1>8 DEF NumberInv
<1>11. PlaceInv'
  BY Zenon, <1>1, <1>7 DEF PlaceInv
<1>12. VmcsInv'
  <2>0. launched'[v] = TRUE /\ vmcs_launched'[v] = TRUE
        /\ \A w \in Vcpus \ {v} :
             launched'[w] = launched[w] /\ vmcs_launched'[w] = vmcs_launched[w]
    BY ZenonT(30), <1>1 DEF TypeOK
  <2>1. \A w \in Vcpus : launched'[w] = vmcs_launched'[w] \/ w \in misjudged
    BY Zenon, <2>0 DEF VmcsInv
  <2>2. \A w \in Vcpus : vcpu_cpu[w] = None => ~launched'[w] /\ ~vmcs_launched'[w]
    <3>1. vcpu_cpu[v] # None
      BY Zenon, <1>4
    <3> QED BY Zenon, <2>0, <3>1 DEF VmcsInv
  <2> QED BY Zenon, <1>1, <1>8, <2>1, <2>2 DEF VmcsInv
<1>13. ASSUME NEW w \in Vcpus, vcpu_cpu[w] # None, Clean(w, vcpu_cpu[w])
       PROVE  Clean(w, vcpu_cpu[w])'
  <2>1. w \in LiveVcpus /\ vcpu_cpu[w] \in Cpus
    BY <1>13 DEF NumberInv, TypeOK
  <2>2. SUFFICES ASSUME NEW e \in tlb'[vcpu_cpu[w]], e.eptp = eptp[instance[w]]
                 PROVE  e.inst = instance[w] /\ (e.vpid = vpid[w] => e.vcpu = w)
    BY Zenon, <1>1 DEF Clean
  <2>3. CASE e \in tlb[vcpu_cpu[w]]
    BY Zenon, <1>13, <2>2, <2>3 DEF Clean
  <2>4. CASE e = n
    <3>1. instance[w] = instance[v]
      BY <1>3, <1>6, <2>1, <2>2, <2>4 DEF NumberInv
    <3>2. vpid[v] = vpid[w] => v = w
      BY Zenon, <1>3, <2>1 DEF NumberInv
    <3> QED BY Zenon, <1>6, <2>4, <3>1, <3>2
  <2> QED BY Zenon, <1>1, <1>4, <2>1, <2>2, <2>3, <2>4 DEF TypeOK
<1>14. TlbInv'
  BY Zenon, <1>1, <1>7, <1>13 DEF TlbInv
<1> QED BY Zenon, <1>2, <1>9, <1>10, <1>11, <1>12, <1>14

(* An entry that fails, before or after the guest state is loaded.         *)
LEMMA EntryFailsInv ==
  ASSUME VcpuInv, NEW v \in Vcpus, NEW late \in BOOLEAN, EntryFails(v, late)
  PROVE  VcpuInv'
<1> USE NamesAssumption DEF VcpuInv
<1>1. /\ pc[v] = "ready" /\ pc' = [pc EXCEPT ![v] = "loop"]
      /\ launched' = [launched EXCEPT ![v] = @ \/ late]
      /\ UNCHANGED <<eptp, where, instance, vpid, vpid_bitmap, vcpu_cpu, request, local_vcpu,
                     current, active, vmcs_launched, tlb, leaked>>
  BY Zenon DEF EntryFails, fieldVars
<1>2. HardwareTypeOK' /\ HardwareInv' /\ (Serving' <=> Serving)
  BY Zenon, SameHardware DEF EntryFails, TypeOK
<1>3. v \in LiveVcpus /\ vcpu_cpu[v] # None
  BY Zenon, <1>1 DEF LiveVcpus, PlaceInv
<1>4. pc'[v] = "loop" /\ \A w \in Vcpus \ {v} : pc'[w] = pc[w]
  BY Zenon, <1>1 DEF TypeOK
<1>5. LiveVcpus' = LiveVcpus
  BY Zenon, <1>3, <1>4 DEF LiveVcpus
<1>6. /\ misjudged \subseteq misjudged' /\ misjudged' \subseteq Vcpus
      /\ late /\ ~vmcs_launched[v] => v \in misjudged'
  BY Zenon DEF EntryFails, TypeOK
<1>7. \A w \in Vcpus \ {v} : launched'[w] = launched[w]
  BY Zenon, <1>1 DEF TypeOK
<1>8. TypeOK'
  <2>1. pc' \in [Vcpus -> {"free", "alloc", "failed", "idle", "loop", "ready", "guest"}]
    BY Zenon, <1>1 DEF TypeOK
  <2>2. launched' \in [Vcpus -> BOOLEAN]
    BY Zenon, <1>1 DEF TypeOK
  <2> QED BY Zenon, <1>1, <1>2, <1>6, <2>1, <2>2 DEF TypeOK
<1>9. NumberInv'
  BY Zenon, <1>1, <1>2, <1>5 DEF NumberInv
<1>10. PlaceInv'
  BY Zenon, <1>1, <1>4 DEF PlaceInv
<1>11. VmcsInv'
  <2>1. launched'[v] = vmcs_launched[v] \/ v \in misjudged'
    <3>1. launched[v] = vmcs_launched[v] \/ v \in misjudged
      BY Zenon DEF VmcsInv
    <3>2. launched[v] \in BOOLEAN /\ vmcs_launched[v] \in BOOLEAN
      BY Zenon DEF TypeOK
    <3>3. launched'[v] = (launched[v] \/ late)
      BY Zenon, <1>1 DEF TypeOK
    <3>4. CASE late /\ ~vmcs_launched[v]
      BY Zenon, <1>6, <3>4
    <3>5. CASE late /\ vmcs_launched[v]
      BY Zenon, <3>2, <3>3, <3>5
    <3>6. CASE ~late
      BY Zenon, <1>6, <3>1, <3>2, <3>3, <3>6
    <3> QED BY Zenon, <3>4, <3>5, <3>6
  <2>2. \A w \in Vcpus : launched'[w] = vmcs_launched[w] \/ w \in misjudged'
    BY <1>6, <1>7, <2>1 DEF VmcsInv
  <2>3. \A w \in Vcpus : vcpu_cpu[w] = None => ~launched'[w] /\ ~vmcs_launched[w]
    BY Zenon, <1>3, <1>7 DEF VmcsInv
  <2> QED BY Zenon, <1>1, <1>5, <2>2, <2>3 DEF VmcsInv
<1>12. \A w \in Vcpus : Clean(w, vcpu_cpu[w])' <=> Clean(w, vcpu_cpu[w])
  BY Zenon, <1>1 DEF Clean
<1>13. TlbInv'
  BY Zenon, <1>1, <1>4, <1>12 DEF TlbInv
<1> QED BY Zenon, <1>2, <1>8, <1>9, <1>10, <1>11, <1>13

(* An exit, with or without an NMI (vmx_handle_nmi).                       *)
LEMMA ExitInv ==
  ASSUME VcpuInv, NEW v \in Vcpus, NEW nmi \in BOOLEAN, ExitGuest(v, nmi)
  PROVE  VcpuInv'
<1> USE NamesAssumption DEF VcpuInv
<1> DEFINE c == where[v]
<1>1. /\ pc[v] = "guest" /\ pc' = [pc EXCEPT ![v] = "loop"]
      /\ local_vcpu' = [local_vcpu EXCEPT ![c] = IF nmi THEN None ELSE @]
      /\ UNCHANGED <<eptp, where, instance, vpid, vpid_bitmap, vcpu_cpu, launched, request,
                     current, active, vmcs_launched, misjudged, tlb, leaked>>
  BY Zenon DEF ExitGuest, fieldVars
<1>2. HardwareTypeOK' /\ HardwareInv' /\ (Serving' <=> Serving)
  BY Zenon, SameHardware DEF ExitGuest, TypeOK
<1>3. v \in LiveVcpus
  BY Zenon, <1>1 DEF LiveVcpus
<1>4. c \in Cpus /\ c # None
  BY Zenon, <1>1 DEF PlaceInv, TypeOK
<1>5. pc'[v] = "loop" /\ \A w \in Vcpus \ {v} : pc'[w] = pc[w]
  BY Zenon, <1>1 DEF TypeOK
<1>6. /\ local_vcpu'[c] \in {local_vcpu[c], None}
      /\ \A d \in Cpus \ {c} : local_vcpu'[d] = local_vcpu[d]
      /\ local_vcpu' \in [Cpus -> Vcpus \cup {None}]
  BY Zenon, <1>1, <1>4 DEF TypeOK
<1>7. LiveVcpus' = LiveVcpus /\ None \notin LiveVcpus
  BY Zenon, <1>3, <1>5 DEF LiveVcpus
<1>8. TypeOK'
  <2>1. pc' \in [Vcpus -> {"free", "alloc", "failed", "idle", "loop", "ready", "guest"}]
    BY Zenon, <1>1 DEF TypeOK
  <2> QED BY Zenon, <1>1, <1>2, <1>6, <2>1 DEF TypeOK
<1>9. NumberInv'
  BY Zenon, <1>1, <1>2, <1>7 DEF NumberInv
<1>10. PlaceInv'
  <2>1. ASSUME NEW w \in Vcpus, pc'[w] \in {"ready", "guest"}
        PROVE  where[w] # None /\ local_vcpu'[where[w]] = w
    <3>1. w # v /\ where[w] # None /\ local_vcpu[where[w]] = w /\ where[w] \in Cpus
      BY Zenon, <1>5, <2>1 DEF PlaceInv, TypeOK
    <3>2. where[w] # c
      BY Zenon, <1>4, <3>1 DEF PlaceInv
    <3> QED BY Zenon, <1>6, <3>1, <3>2
  <2>2. \A w \in Vcpus : pc'[w] = "alloc" => vcpu_cpu[w] = None
    BY Zenon, <1>5 DEF PlaceInv
  <2>3. \A w \in Vcpus : where[w] # None =>
          pc'[w] \in {"loop", "ready", "guest"} /\ vcpu_cpu[w] = where[w]
    BY Zenon, <1>5 DEF PlaceInv
  <2>4. \A u, w \in Vcpus : where[u] = where[w] => u = w \/ where[u] = None
    BY Zenon DEF PlaceInv
  <2>5. where' = where /\ vcpu_cpu' = vcpu_cpu
    BY Zenon, <1>1
  <2> QED BY Zenon, <2>1, <2>2, <2>3, <2>4, <2>5 DEF PlaceInv
<1>11. VmcsInv'
  <2>1. ASSUME NEW d \in Cpus, local_vcpu'[d] \in LiveVcpus'
        PROVE  current'[d] = local_vcpu'[d] /\ vcpu_cpu'[local_vcpu'[d]] = d
    <3>1. local_vcpu'[d] = local_vcpu[d]
      BY Zenon, <1>6, <1>7, <2>1
    <3>2. local_vcpu[d] \in LiveVcpus
      BY Zenon, <1>7, <2>1, <3>1
    <3>3. current[d] = local_vcpu[d] /\ vcpu_cpu[local_vcpu[d]] = d
      BY Zenon, <3>2 DEF VmcsInv
    <3> QED BY Zenon, <1>1, <3>1, <3>3
  <2>2. /\ current' = current /\ active' = active
        /\ vcpu_cpu' = vcpu_cpu /\ leaked' = leaked
        /\ launched' = launched /\ vmcs_launched' = vmcs_launched
        /\ misjudged' = misjudged
    BY Zenon, <1>1
  <2>3. \A d \in Cpus : current[d] \in Vcpus \cup {Freed} => current[d] \in active[d]
    BY Zenon DEF VmcsInv
  <2>4. \A d \in Cpus : \A w \in active[d] :
          w # Freed => w \in LiveVcpus' /\ vcpu_cpu[w] = d
    BY Zenon, <1>7 DEF VmcsInv
  <2>5. \A d \in Cpus : Freed \in active[d] => d \in leaked
    BY Zenon DEF VmcsInv
  <2>6. \A w \in Vcpus :
          /\ launched[w] = vmcs_launched[w] \/ w \in misjudged
          /\ vcpu_cpu[w] = None => ~launched[w] /\ ~vmcs_launched[w]
    BY Zenon DEF VmcsInv
  <2> QED BY Zenon, <2>1, <2>2, <2>3, <2>4, <2>5, <2>6 DEF VmcsInv
<1>12. \A w \in Vcpus : Clean(w, vcpu_cpu[w])' <=> Clean(w, vcpu_cpu[w])
  BY Zenon, <1>1 DEF Clean
<1>13. TlbInv'
  BY Zenon, <1>1, <1>5, <1>12 DEF TlbInv
<1> QED BY Zenon, <1>2, <1>8, <1>9, <1>10, <1>11, <1>13

(* A request to flush only adds to what is still to come.                  *)
LEMMA RequestInv ==
  ASSUME VcpuInv, NEW v \in Vcpus, MakeRequest(v)
  PROVE  VcpuInv'
<1> USE DEF VcpuInv
<1>1. /\ request' = [request EXCEPT ![v] = TRUE]
      /\ UNCHANGED <<eptp, pc, where, instance, vpid, vpid_bitmap, vcpu_cpu, launched,
                     local_vcpu, current, active, vmcs_launched, misjudged, tlb, leaked>>
  BY Zenon DEF MakeRequest, fieldVars
<1>2. HardwareTypeOK' /\ HardwareInv' /\ (Serving' <=> Serving)
  BY Zenon, SameHardware DEF MakeRequest, TypeOK
<1>3. request' \in [Vcpus -> BOOLEAN] /\ \A w \in Vcpus : request[w] => request'[w]
  BY Zenon, <1>1 DEF TypeOK
<1>4. TypeOK'
  BY Zenon, <1>1, <1>2, <1>3 DEF TypeOK
<1>5. LiveVcpus' = LiveVcpus
  BY Zenon, <1>1 DEF LiveVcpus
<1>6. NumberInv' /\ PlaceInv' /\ VmcsInv'
  <2>1. NumberInv'
    BY Zenon, <1>1, <1>2, <1>5 DEF NumberInv
  <2>2. PlaceInv'
    BY Zenon, <1>1 DEF PlaceInv
  <2>3. VmcsInv'
    BY Zenon, <1>1, <1>5 DEF VmcsInv
  <2> QED BY Zenon, <2>1, <2>2, <2>3
<1>7. \A w \in Vcpus : Clean(w, vcpu_cpu[w])' <=> Clean(w, vcpu_cpu[w])
  BY Zenon, <1>1 DEF Clean
<1>8. TlbInv'
  BY Zenon, <1>1, <1>3, <1>7 DEF TlbInv
<1> QED BY Zenon, <1>2, <1>4, <1>6, <1>8

(***************************************************************************)
(* The whole.                                                              *)
(***************************************************************************)

(* The loader and KVM move only while there is no instance; a global flush *)
(* (__vmx_enable) only takes entries away.                                 *)
LEMMA HardwareStepInv ==
  ASSUME VcpuInv, HardwareStep \/ \E c \in Cpus : EnableHere(c)
  PROVE  VcpuInv'
<1> USE NamesAssumption DEF VcpuInv
<1>1. LoaderStep \/ KvmStep \/ \E c \in Cpus : EnableCpu(c)
  BY Zenon DEF HardwareStep, EnableHere
<1>2. HardwareTypeOK' /\ HardwareInv'
  BY Zenon, <1>1, LoaderInv DEF TypeOK
<1>3. Serving => Serving'
  <2>1. engine' = engine
    BY Zenon, <1>1 DEF LoaderStep, KvmStep, slimvm_init, AllocFails, StartEnable, EnabledAll,
       DisabledAll, misc_register, AllocArea, DisableCpu, KvmTakes, KvmLeaves, EnableCpu
  <2>2. phase = "in" => phase' = "in"
    BY Zenon, <1>1 DEF LoaderStep, KvmStep, slimvm_init, AllocFails, StartEnable, EnabledAll,
       DisabledAll, misc_register, AllocArea, DisableCpu, KvmTakes, KvmLeaves, EnableCpu
  <2> QED BY Zenon, <2>1, <2>2 DEF Serving
<1>4. UNCHANGED <<eptp, pc, where, instance, vpid, vpid_bitmap, vcpu_cpu, launched, request,
                  local_vcpu, current, active, vmcs_launched, misjudged, leaked>>
  BY Zenon DEF HardwareStep, EnableHere, vcpuVars, fieldVars, loadVars
<1>5. /\ tlb' \in [Cpus -> SUBSET Entries]
      /\ \A c \in Cpus : tlb'[c] \subseteq tlb[c]
  <2>1. CASE HardwareStep
    BY Zenon, <2>1 DEF HardwareStep, vcpuVars, TypeOK
  <2>2. ASSUME NEW c \in Cpus, EnableHere(c)
        PROVE  /\ tlb' \in [Cpus -> SUBSET Entries]
               /\ \A d \in Cpus : tlb'[d] \subseteq tlb[d]
    BY SMTT(30), ZenonT(40), <2>2 DEF EnableHere, TypeOK
  <2> QED BY Zenon, <2>1, <2>2
<1>6. TypeOK'
  BY Zenon, <1>2, <1>4, <1>5 DEF TypeOK
<1>7. LiveVcpus' = LiveVcpus
  BY Zenon, <1>4 DEF LiveVcpus
<1>8. NumberInv'
  BY Zenon, <1>3, <1>4, <1>7 DEF NumberInv
<1>9. PlaceInv'
  BY Zenon, <1>4 DEF PlaceInv
<1>10. VmcsInv'
  BY Zenon, <1>4, <1>7 DEF VmcsInv
<1>11. ASSUME NEW w \in Vcpus, vcpu_cpu[w] # None, Clean(w, vcpu_cpu[w])
       PROVE  Clean(w, vcpu_cpu[w])'
  <2>1. tlb'[vcpu_cpu[w]] \subseteq tlb[vcpu_cpu[w]]
    BY Zenon, <1>5, <1>11 DEF TypeOK
  <2> QED BY Zenon, <1>4, <1>11, <2>1 DEF Clean
<1>12. TlbInv'
  BY Zenon, <1>4, <1>11 DEF TlbInv
<1> QED BY Zenon, <1>2, <1>6, <1>8, <1>9, <1>10, <1>12

(* The module goes only when no instance is left (slimvm_exit).            *)
LEMMA UnloadInv ==
  ASSUME VcpuInv, Unload
  PROVE  VcpuInv'
<1> USE NamesAssumption DEF VcpuInv
<1>1. /\ \A i \in Insts : eptp[i] = None
      /\ local_vcpu' = [c \in Cpus |-> None]
      /\ current' = [c \in Cpus |-> None] /\ active' = [c \in Cpus |-> {}]
      /\ leaked' = {}
      /\ UNCHANGED <<eptp, pc, where, instance, vpid, vpid_bitmap, vcpu_cpu, launched, request,
                     vmcs_launched, misjudged, tlb>>
  BY Zenon DEF Unload, fieldVars
<1>2. HardwareTypeOK' /\ HardwareInv'
  BY Zenon, LoaderInv DEF Unload, TypeOK
<1>3. LiveVcpus = {} /\ LiveVcpus' = {}
  BY Zenon, <1>1 DEF NumberInv, LiveVcpus
<1>4. TypeOK'
  <2>1. /\ local_vcpu' \in [Cpus -> Vcpus \cup {None}]
        /\ current' \in [Cpus -> Vcpus \cup {None, Freed}]
        /\ active' \in [Cpus -> SUBSET (Vcpus \cup {Freed})] /\ leaked' \subseteq Cpus
    BY Zenon, <1>1
  <2> QED BY Zenon, <1>1, <1>2, <2>1 DEF TypeOK
<1>5. \A v \in Vcpus : pc[v] = "free" /\ vcpu_cpu[v] = None /\ instance[v] = None
  BY Zenon, <1>3 DEF NumberInv, LiveVcpus
<1>6. NumberInv'
  BY Zenon, <1>1, <1>3, <1>5 DEF NumberInv
<1>7. PlaceInv'
  BY Zenon, <1>1, <1>5 DEF PlaceInv
<1>8. VmcsInv'
  BY Zenon, <1>1, <1>3 DEF VmcsInv
<1>9. TlbInv'
  BY Zenon, <1>1, <1>5 DEF TlbInv
<1> QED BY Zenon, <1>2, <1>4, <1>6, <1>7, <1>8, <1>9

(* Before the module is loaded.                                            *)
LEMMA InitInv == Init => VcpuInv
<1> SUFFICES ASSUME Init PROVE VcpuInv
  BY Zenon
<1> USE NamesAssumption DEF Init
<1>1. HardwareTypeOK /\ HardwareInv
  BY Zenon DEF HardwareInit, HardwareTypeOK, HardwareInv, HardwareBalanced, Phases
<1>2. TypeOK
  <2>1. Leftovers \subseteq Entries
    BY Zenon DEF Leftovers, Entries
  <2>2. tlb \in [Cpus -> SUBSET Entries]
    BY Zenon, <2>1 DEF VcpuInit
  <2>3. vpid \in [Vcpus -> 0 .. NR_VPIDS - 1] /\ vpid_bitmap \subseteq 0 .. NR_VPIDS - 1
    BY VpidAssumption DEF VcpuInit
  <2>4. /\ pc \in [Vcpus -> {"free", "alloc", "failed", "idle", "loop", "ready", "guest"}]
        /\ eptp \in [Insts -> Roots \cup {None}] /\ where \in [Vcpus -> Cpus \cup {None}]
        /\ instance \in [Vcpus -> Insts \cup {None}] /\ vcpu_cpu \in [Vcpus -> Cpus \cup {None}]
    BY Zenon DEF VcpuInit
  <2>5. /\ launched \in [Vcpus -> BOOLEAN] /\ request \in [Vcpus -> BOOLEAN]
        /\ vmcs_launched \in [Vcpus -> BOOLEAN]
    BY Zenon DEF VcpuInit
  <2>6. /\ local_vcpu \in [Cpus -> Vcpus \cup {None}]
        /\ current \in [Cpus -> Vcpus \cup {None, Freed}]
        /\ active \in [Cpus -> SUBSET (Vcpus \cup {Freed})] /\ leaked \subseteq Cpus
        /\ misjudged \subseteq Vcpus
    BY Zenon DEF VcpuInit
  <2> QED BY Zenon, <1>1, <2>2, <2>3, <2>4, <2>5, <2>6 DEF TypeOK
<1>3. LiveVcpus = {}
  BY Zenon DEF VcpuInit, LiveVcpus
<1>4. NumberInv
  BY Zenon, <1>3 DEF VcpuInit, NumberInv
<1>5. PlaceInv
  BY Zenon DEF VcpuInit, PlaceInv
<1>6. VmcsInv
  BY Zenon, <1>3 DEF VcpuInit, VmcsInv
<1>7. TlbInv
  BY Zenon DEF VcpuInit, TlbInv
<1> QED BY Zenon, <1>1, <1>2, <1>4, <1>5, <1>6, <1>7 DEF VcpuInv

(* Every step of every vcpu, instance, loader and KVM keeps VcpuInv: what  *)
(* a vcpu, a CPU, a vpid or a root remembers of the others is true, or a   *)
(* flush or a load is still to come.                                       *)
THEOREM VcpuInvariance == Spec => []VcpuInv
<1>1. VcpuInv /\ [Next]_vars => VcpuInv'
  <2> SUFFICES ASSUME VcpuInv, [Next]_vars PROVE VcpuInv'
    BY Zenon
  <2>1. ASSUME NEW v \in Vcpus, VcpuStep(v) PROVE VcpuInv'
    BY Zenon, <2>1, AllocInv, AllocMsrsFailsInv, UnwindInv, SetupInv, DestroyInv, SchedInInv,
       PauseInv, PrepareInv, EnterInv, EntryFailsInv, ExitInv, RequestInv DEF VcpuStep
  <2>2. ASSUME NEW i \in Insts, InstanceStep(i) PROVE VcpuInv'
    BY Zenon, <2>2, CreateInstanceInv, DestroyInstanceInv DEF InstanceStep
  <2>3. CASE UNCHANGED vars
    <3>1. UNCHANGED hardwareVars /\ UNCHANGED vcpuVars
      BY Zenon, <2>3 DEF vars
    <3>2. HardwareTypeOK' /\ HardwareInv' /\ (Serving' <=> Serving)
      BY Zenon, <3>1, SameHardware DEF VcpuInv, TypeOK
    <3>3. TypeOK'
      BY Zenon, <3>1, <3>2 DEF vcpuVars, fieldVars, loadVars, VcpuInv, TypeOK
    <3>4. NumberInv' /\ PlaceInv'
      BY Zenon, <3>1, <3>2 DEF vcpuVars, fieldVars, loadVars, VcpuInv, NumberInv, PlaceInv,
         LiveVcpus
    <3>5. UNCHANGED <<pc, vcpu_cpu, local_vcpu, current, active, leaked, launched,
                      vmcs_launched, misjudged, request, tlb, eptp, instance, vpid>>
      BY Zenon, <3>1 DEF vcpuVars, fieldVars, loadVars
    <3>6. VmcsInv'
      <4>1. LiveVcpus' = LiveVcpus
        BY Zenon, <3>5 DEF LiveVcpus
      <4> QED BY Zenon, <3>5, <4>1 DEF VcpuInv, VmcsInv
    <3>7. TlbInv'
      BY Zenon, <3>5 DEF VcpuInv, TlbInv, Clean
    <3> QED BY Zenon, <3>2, <3>3, <3>4, <3>6, <3>7 DEF VcpuInv
  <2> QED BY Zenon, <2>1, <2>2, <2>3, HardwareStepInv, UnloadInv DEF Next
<1> QED BY <1>1, InitInv, PTL DEF Spec

(* A vcpu enters the guest on its own VMCS, active on this CPU alone, with *)
(* the instruction its launch state allows (vmx_run_vcpu).                 *)
THEOREM VmcsCorrect == Spec => []VmcsReady
<1>1. VcpuInv => VmcsReady
  <2> SUFFICES ASSUME VcpuInv, NEW v \in Vcpus, pc[v] \in {"ready", "guest"}
               PROVE  /\ current[where[v]] = v /\ vcpu_cpu[v] = where[v]
                      /\ \A c \in Cpus : v \in active[c] => c = where[v]
                      /\ launched[v] = vmcs_launched[v] \/ v \in misjudged
    BY Zenon DEF VmcsReady
  <2>1. where[v] \in Cpus /\ local_vcpu[where[v]] = v /\ vcpu_cpu[v] = where[v]
    BY Zenon DEF VcpuInv, PlaceInv, TypeOK
  <2>2. v \in LiveVcpus /\ v # Freed
    BY Zenon, NamesAssumption DEF LiveVcpus
  <2>3. current[where[v]] = v
    BY ZenonT(30), <2>1, <2>2 DEF VcpuInv, VmcsInv
  <2>4. \A c \in Cpus : v \in active[c] => c = where[v]
    BY Zenon, <2>1, <2>2 DEF VcpuInv, VmcsInv
  <2>5. launched[v] = vmcs_launched[v] \/ v \in misjudged
    BY Zenon DEF VcpuInv, VmcsInv
  <2> QED BY Zenon, <2>1, <2>3, <2>4, <2>5
<1> QED BY <1>1, VcpuInvariance, PTL

(* A running guest finds nothing of another vcpu under its vpid and of     *)
(* another instance under its root.                                        *)
THEOREM TranslationsOwn == Spec => []NoForeignTranslation
<1>1. VcpuInv => NoForeignTranslation
  <2> SUFFICES ASSUME VcpuInv, NEW v \in Vcpus, pc[v] = "guest"
               PROVE  Clean(v, where[v])
    BY Zenon DEF NoForeignTranslation, Clean
  <2>1. vcpu_cpu[v] = where[v] /\ where[v] # None
    BY Zenon DEF VcpuInv, PlaceInv
  <2> QED BY Zenon, <2>1 DEF VcpuInv, TlbInv
<1> QED BY <1>1, VcpuInvariance, PTL

(* A release frees no VMCS that a CPU holds active; a creation that fails  *)
(* late is the only one that does.                                         *)
THEOREM VmcsCleared == Spec => []VmcsClearedFirst
<1>1. VcpuInv => VmcsClearedFirst
  BY DEF VcpuInv, VmcsInv, VmcsClearedFirst
<1> QED BY <1>1, VcpuInvariance, PTL

(* Loads that fail and unloads give back what they took, on every CPU and  *)
(* for both engines.                                                       *)
THEOREM HardwareCorrect == Spec => []HardwareBalanced
<1>1. VcpuInv => HardwareBalanced
  BY Zenon DEF VcpuInv, HardwareInv
<1> QED BY <1>1, VcpuInvariance, PTL
=============================================================================

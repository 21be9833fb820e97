---------------------------- MODULE SvmAsidProofs ----------------------------
(***************************************************************************)
(* AsidInv is an inductive invariant of SvmAsid, for any vcpus, CPUs and   *)
(* range of ASIDs; AsidExclusive and NoStaleTranslation follow from it.    *)
(***************************************************************************)
EXTENDS SvmAsid, TLAPS

(* svm_cpu_init and no vcpu yet: the invariant holds.                      *)
LEMMA InitInv == Init => AsidInv
<1> SUFFICES ASSUME Init PROVE AsidInv
  OBVIOUS
<1> USE DEF Init
<1>1. TypeOK
  <2>1. Leftover \in Translations
    BY Zenon DEF Leftover, Translations
  <2>2. tlb \in [Cpus -> [Asids -> SUBSET Translations]]
    BY Zenon, <2>1
  <2>3. next_asid \in [Cpus -> min_asid .. max_asid + 1] /\ asid \in [Vcpus -> 0 .. max_asid]
    BY AsidAssumption
  <2>4. /\ cpu_generation \in [Cpus -> Nat] /\ cpu \in [Vcpus -> Cpus \cup {None}]
        /\ asid_generation \in [Vcpus -> Nat] /\ request \in [Vcpus -> BOOLEAN]
    OBVIOUS
  <2>5. /\ tlb_ctl \in [Vcpus -> {"DO_NOTHING", "FLUSH_ASID", "FLUSH_ALL_ASID"}]
        /\ pc \in [Vcpus -> {"none", "out", "loaded", "ready", "guest"}]
    OBVIOUS
  <2>6. invalidating \in BOOLEAN /\ waits \subseteq Vcpus
    BY Zenon
  <2> QED BY Zenon, <2>2, <2>3, <2>4, <2>5, <2>6 DEF TypeOK
<1>2. PlaceInv
  BY NoneAssumption DEF PlaceInv, Holds, OnCpu
<1>3. \A w \in Vcpus : ~Holds(w)
  BY Zenon DEF Holds
<1>4. OwnerInv
  BY <1>3, AsidAssumption DEF OwnerInv, Asids
<1>5. FlushInv
  BY Zenon, <1>3 DEF FlushInv
<1> QED BY Zenon, <1>1, <1>2, <1>4, <1>5 DEF AsidInv

(* Creating a vcpu (svm_create_vcpu) keeps the invariant: it has no CPU.   *)
LEMMA CreateInv ==
  ASSUME AsidInv, NEW v \in Vcpus, svm_create_vcpu(v)
  PROVE  AsidInv'
<1> USE DEF AsidInv
<1>1. /\ pc[v] = "none" /\ pc' = [pc EXCEPT ![v] = "out"]
      /\ cpu' = [cpu EXCEPT ![v] = None]
      /\ asid_generation' = [asid_generation EXCEPT ![v] = 0]
      /\ asid' = [asid EXCEPT ![v] = 0]
      /\ tlb_ctl' = [tlb_ctl EXCEPT ![v] = "DO_NOTHING"]
      /\ request' = [request EXCEPT ![v] = FALSE]
      /\ UNCHANGED <<cpu_generation, next_asid, tlb, invalidating, waits>>
  BY Zenon DEF svm_create_vcpu, cpuVars, flushVars
<1>2. TypeOK'
  BY <1>1, AsidAssumption DEF TypeOK, Asids
<1>3. ~Holds(v)'
  BY Zenon, <1>1, NoneAssumption DEF Holds, TypeOK
<1>4. \A w \in Vcpus \ {v} : /\ Holds(w)' <=> Holds(w)
                             /\ Entries(w)' = Entries(w)
                             /\ WillFlush(w)' <=> WillFlush(w)
  BY <1>1 DEF Holds, Entries, WillFlush, TypeOK
<1>5. PlaceInv'
  BY <1>1, <1>3, <1>4, NoneAssumption DEF PlaceInv, OnCpu, TypeOK
<1>6. OwnerInv'
  BY <1>1, <1>3, <1>4 DEF OwnerInv, TypeOK
<1>7. FlushInv'
  BY <1>1, <1>3, <1>4 DEF FlushInv, TypeOK
<1> QED BY Zenon, <1>2, <1>5, <1>6, <1>7

(* Freeing a vcpu (svm_destroy_vcpu) keeps it: the entries that change     *)
(* hands are in nobody else's ASID.                                        *)
LEMMA DestroyInv ==
  ASSUME AsidInv, NEW v \in Vcpus, svm_destroy_vcpu(v)
  PROVE  AsidInv'
<1> USE DEF AsidInv
<1>1. /\ pc[v] = "out" /\ pc' = [pc EXCEPT ![v] = "none"]
      /\ cpu' = [cpu EXCEPT ![v] = None]
      /\ asid_generation' = [asid_generation EXCEPT ![v] = 0]
      /\ asid' = [asid EXCEPT ![v] = 0]
      /\ tlb_ctl' = [tlb_ctl EXCEPT ![v] = "DO_NOTHING"]
      /\ request' = [request EXCEPT ![v] = FALSE]
      /\ UNCHANGED <<cpu_generation, next_asid, invalidating, waits>>
  BY Zenon DEF svm_destroy_vcpu, cpuVars, flushVars
<1>2. tlb' = [c \in Cpus |-> [a \in Asids |->
               {IF e.owner = v THEN Leftover ELSE e : e \in tlb[c][a]}]]
  BY Zenon DEF svm_destroy_vcpu
<1>3. TypeOK'
  <2>1. Leftover \in Translations
    BY Zenon DEF Leftover, Translations
  <2>2. \A c \in Cpus, a \in Asids : tlb[c][a] \subseteq Translations
    BY Zenon DEF TypeOK
  <2>3. \A c \in Cpus, a \in Asids :
          {IF e.owner = v THEN Leftover ELSE e : e \in tlb[c][a]} \subseteq Translations
    BY Zenon, <2>1, <2>2
  <2>4. tlb' \in [Cpus -> [Asids -> SUBSET Translations]]
    BY Zenon, <1>2, <2>3
  <2> QED BY <1>1, <2>4, AsidAssumption DEF TypeOK
<1>4. ~Holds(v)'
  BY Zenon, <1>1 DEF Holds, TypeOK
<1>5. \A w \in Vcpus \ {v} : /\ Holds(w)' <=> Holds(w)
                             /\ WillFlush(w)' <=> WillFlush(w)
  BY Zenon, <1>1 DEF Holds, WillFlush, TypeOK
<1>6. ASSUME NEW w \in Vcpus \ {v}, Holds(w)
      PROVE  Entries(w)' = Entries(w)
  <2>1. /\ cpu[w] \in Cpus /\ asid[w] \in Asids /\ cpu'[w] = cpu[w] /\ asid'[w] = asid[w]
        /\ \A e \in tlb[cpu[w]][asid[w]] : e.owner = w
    BY Zenon, <1>1, <1>6 DEF Holds, OwnerInv, Entries, TypeOK
  <2> QED BY Zenon, <1>2, <2>1 DEF Entries
<1>7. \A w \in Vcpus \ {v} : pc'[w] = pc[w] /\ cpu'[w] = cpu[w]
                              /\ asid'[w] = asid[w] /\ request'[w] = request[w]
                              /\ asid_generation'[w] = asid_generation[w]
  BY Zenon, <1>1 DEF TypeOK
<1>8. pc'[v] = "none" /\ cpu'[v] \notin Cpus
  BY Zenon, <1>1, NoneAssumption DEF TypeOK
<1>9. PlaceInv'
  BY <1>1, <1>4, <1>5, <1>7, <1>8 DEF PlaceInv, OnCpu
<1>10. OwnerInv'
  <2>1. \A c \in Cpus, a \in Asids : a >= next_asid'[c] => tlb'[c][a] = {}
    BY <1>1, <1>2 DEF OwnerInv
  <2> QED BY <1>1, <1>4, <1>5, <1>6, <1>7, <2>1 DEF OwnerInv
<1>11. FlushInv'
  <2>1. \A w \in Vcpus : pc'[w] = "guest" => w # v /\ Holds(w)
    BY Zenon, <1>7, <1>8 DEF PlaceInv
  <2> QED BY <1>1, <1>4, <1>5, <1>6, <1>7, <1>8, <2>1 DEF FlushInv
<1> QED BY Zenon, <1>3, <1>9, <1>10, <1>11

(* Loading a vcpu on a CPU (__load_vcpu) keeps it: where it was not before *)
(* it holds no ASID, as no generation is 0.                                *)
LEMMA LoadInv ==
  ASSUME AsidInv, NEW v \in Vcpus, NEW c \in Cpus, Load(v, c)
  PROVE  AsidInv'
<1> USE DEF AsidInv
<1>1. /\ pc[v] = "out" /\ pc' = [pc EXCEPT ![v] = "loaded"]
      /\ cpu' = [cpu EXCEPT ![v] = c]
      /\ \A w \in Vcpus : cpu[w] = c => pc[w] \in {"none", "out"}
      /\ UNCHANGED <<cpu_generation, next_asid, asid, tlb_ctl, request, tlb,
                     invalidating, waits>>
  BY Zenon DEF Load, __load_vcpu, cpuVars, flushVars
<1>2. asid_generation' = [asid_generation EXCEPT ![v] = IF c # cpu[v] THEN 0 ELSE @]
  BY Zenon DEF Load, __load_vcpu
<1>3. \A w \in Vcpus \ {v} : /\ pc'[w] = pc[w] /\ cpu'[w] = cpu[w]
                              /\ asid_generation'[w] = asid_generation[w]
  BY Zenon, <1>1, <1>2 DEF TypeOK
<1>4. pc'[v] = "loaded" /\ cpu'[v] = c
      /\ asid_generation'[v] = IF c # cpu[v] THEN 0 ELSE asid_generation[v]
  BY Zenon, <1>1, <1>2 DEF TypeOK
<1>5. TypeOK'
  BY Zenon, <1>1, <1>2 DEF TypeOK
<1>6. \A w \in Vcpus : Holds(w)' => /\ Holds(w) /\ cpu'[w] = cpu[w]
                                    /\ Entries(w)' = Entries(w)
                                    /\ WillFlush(w)' <=> WillFlush(w)
  BY <1>1, <1>3, <1>4 DEF Holds, PlaceInv, Entries, WillFlush, TypeOK
<1>7. PlaceInv'
  <2>1. \A w \in Vcpus : pc'[w] = "guest" => Holds(w)'
    BY <1>1, <1>3, <1>4 DEF PlaceInv, Holds, OnCpu
  <2>2. \A w \in Vcpus : cpu'[w] \in Cpus => asid_generation'[w] <= cpu_generation'[cpu'[w]]
    BY <1>1, <1>3, <1>4 DEF PlaceInv, TypeOK
  <2>3. \A u, w \in Vcpus :
          u # w /\ pc'[u] \in OnCpu /\ pc'[w] \in OnCpu => cpu'[u] # cpu'[w]
    BY <1>1, <1>3, <1>4 DEF PlaceInv, OnCpu
  <2>4. \A w \in Vcpus : pc'[w] \in OnCpu => cpu'[w] \in Cpus
    BY Zenon, <1>3, <1>4 DEF PlaceInv
  <2> QED BY Zenon, <1>1, <2>1, <2>2, <2>3, <2>4 DEF PlaceInv
<1>8. OwnerInv'
  BY <1>1, <1>6 DEF OwnerInv
<1>9. FlushInv'
  <2>1. \A w \in Vcpus : pc'[w] = "guest" => pc[w] = "guest" /\ Holds(w)'
    BY Zenon, <1>3, <1>4, <1>7 DEF PlaceInv
  <2> QED BY Zenon, <1>1, <1>6, <2>1 DEF FlushInv
<1> QED BY Zenon, <1>5, <1>7, <1>8, <1>9

(* Leaving the CPU, and giving up an entry at the last check, change       *)
(* nothing that the invariant speaks of: the flush in tlb_ctl is kept.     *)
LEMMA PutAbortInv ==
  ASSUME AsidInv, NEW v \in Vcpus, Put(v) \/ AbortEntry(v)
  PROVE  AsidInv'
<1> USE DEF AsidInv
<1>1. /\ pc[v] \in {"loaded", "ready"} /\ pc'[v] \in {"out", "loaded"}
      /\ pc' = [pc EXCEPT ![v] = pc'[v]]
      /\ UNCHANGED <<cpu_generation, next_asid, cpu, asid_generation, asid, tlb_ctl,
                     request, tlb, invalidating, waits>>
  BY Zenon DEF Put, AbortEntry, cpuVars, vcpuVars, flushVars, TypeOK
<1>2. \A w \in Vcpus \ {v} : pc'[w] = pc[w]
  BY Zenon, <1>1 DEF TypeOK
<1>3. TypeOK'
  BY <1>1 DEF TypeOK
<1>4. \A w \in Vcpus : /\ Holds(w)' <=> Holds(w)
                       /\ Entries(w)' = Entries(w)
                       /\ WillFlush(w)' <=> WillFlush(w)
  BY Zenon, <1>1, <1>2 DEF Holds, Entries, WillFlush
<1>5. PlaceInv'
  BY <1>1, <1>2, <1>4 DEF PlaceInv, OnCpu
<1>6. OwnerInv'
  BY <1>1, <1>4 DEF OwnerInv
<1>7. FlushInv'
  BY Zenon, <1>1, <1>2, <1>4 DEF FlushInv
<1> QED BY Zenon, <1>3, <1>5, <1>6, <1>7

(* Serving the requests (svm_process_vcpu_requests) keeps it: a flush      *)
(* moves from the request to tlb_ctl and is still to come.                 *)
LEMMA ProcessInv ==
  ASSUME AsidInv, NEW v \in Vcpus, ProcessRequests(v)
  PROVE  AsidInv'
<1> USE DEF AsidInv
<1>1. /\ pc[v] = "loaded" /\ pc' = [pc EXCEPT ![v] = "ready"]
      /\ request' = [request EXCEPT ![v] = FALSE]
      /\ UNCHANGED <<cpu_generation, next_asid, cpu, asid_generation, asid, tlb,
                     invalidating, waits>>
  BY Zenon DEF ProcessRequests, cpuVars, flushVars
<1>2. tlb_ctl' = [tlb_ctl EXCEPT ![v] = IF request[v] THEN "FLUSH_ASID" ELSE @]
  BY Zenon DEF ProcessRequests, svm_vcpu_flush_tlb
<1>3. \A w \in Vcpus \ {v} : /\ pc'[w] = pc[w] /\ request'[w] = request[w]
                              /\ tlb_ctl'[w] = tlb_ctl[w]
  BY Zenon, <1>1, <1>2 DEF TypeOK
<1>4. TypeOK'
  BY Zenon, <1>1, <1>2 DEF TypeOK
<1>5. \A w \in Vcpus : /\ Holds(w)' <=> Holds(w)
                       /\ Entries(w)' = Entries(w)
  BY <1>1, <1>3 DEF Holds, Entries, TypeOK
<1>6. \A w \in Vcpus : WillFlush(w) => WillFlush(w)'
  <2>1. WillFlush(v) => WillFlush(v)'
    BY Zenon, <1>1, <1>2 DEF WillFlush, TypeOK
  <2> QED BY Zenon, <1>3, <2>1 DEF WillFlush
<1>7. pc'[v] = "ready"
  BY Zenon, <1>1 DEF TypeOK
<1>8. PlaceInv'
  BY <1>1, <1>3, <1>5, <1>7 DEF PlaceInv, OnCpu
<1>9. OwnerInv'
  BY Zenon, <1>1, <1>5 DEF OwnerInv
<1>10. FlushInv'
  BY Zenon, <1>1, <1>3, <1>5, <1>6, <1>7 DEF FlushInv
<1> QED BY Zenon, <1>4, <1>8, <1>9, <1>10

(* A VM exit keeps it: what tlb_ctl asked for was done at the entry.       *)
LEMMA ExitInv ==
  ASSUME AsidInv, NEW v \in Vcpus, ExitGuest(v)
  PROVE  AsidInv'
<1> USE DEF AsidInv
<1>1. /\ pc[v] = "guest" /\ pc' = [pc EXCEPT ![v] = "loaded"]
      /\ tlb_ctl' = [tlb_ctl EXCEPT ![v] = "DO_NOTHING"]
      /\ waits' = waits \ {v}
      /\ UNCHANGED <<cpu_generation, next_asid, cpu, asid_generation, asid, request,
                     tlb, invalidating>>
  BY Zenon DEF ExitGuest, cpuVars
<1>2. \A w \in Vcpus \ {v} : pc'[w] = pc[w] /\ tlb_ctl'[w] = tlb_ctl[w]
  BY Zenon, <1>1 DEF TypeOK
<1>3. pc'[v] = "loaded" /\ tlb_ctl'[v] = "DO_NOTHING"
  BY Zenon, <1>1 DEF TypeOK
<1>4. TypeOK'
  BY Zenon, <1>1 DEF TypeOK
<1>5. \A w \in Vcpus : /\ Holds(w)' <=> Holds(w)
                       /\ Entries(w)' = Entries(w)
                       /\ WillFlush(w)' <=> WillFlush(w)
  BY <1>1, <1>2, <1>3 DEF Holds, Entries, WillFlush
<1>6. PlaceInv'
  BY <1>1, <1>2, <1>3, <1>5 DEF PlaceInv, OnCpu
<1>7. OwnerInv'
  BY Zenon, <1>1, <1>5 DEF OwnerInv
<1>8. FlushInv'
  BY Zenon, <1>1, <1>2, <1>3, <1>5 DEF FlushInv
<1> QED BY Zenon, <1>4, <1>6, <1>7, <1>8

(* A guest that caches a translation keeps it: the entry goes under its    *)
(* own ASID, which no other vcpu of the CPU holds.                         *)
LEMMA AccessInv ==
  ASSUME AsidInv, NEW v \in Vcpus, GuestAccess(v)
  PROVE  AsidInv'
<1> USE DEF AsidInv
<1> DEFINE t == [owner |-> v, stale |-> FALSE]
<1>1. /\ pc[v] = "guest" /\ invalidating = FALSE
      /\ UNCHANGED <<cpu_generation, next_asid, cpu, asid_generation, asid, tlb_ctl,
                     request, pc, invalidating, waits>>
  BY Zenon DEF GuestAccess, cpuVars, vcpuVars, flushVars, TypeOK
<1>2. tlb' = [tlb EXCEPT ![cpu[v]][asid[v]] = @ \cup {t}]
  BY Zenon DEF GuestAccess
<1>3. Holds(v) /\ cpu[v] \in Cpus /\ asid[v] \in Asids /\ asid[v] < next_asid[cpu[v]]
  BY Zenon, <1>1 DEF PlaceInv, OwnerInv, OnCpu
<1>4. t \in Translations
  BY Zenon DEF Translations
<1>5. /\ tlb'[cpu[v]][asid[v]] = tlb[cpu[v]][asid[v]] \cup {t}
      /\ \A c \in Cpus, a \in Asids :
           <<c, a>> # <<cpu[v], asid[v]>> => tlb'[c][a] = tlb[c][a]
  BY Zenon, <1>2, <1>3 DEF TypeOK
<1>6. TypeOK'
  <2>1. tlb' \in [Cpus -> [Asids -> SUBSET Translations]]
    <3> DEFINE row == [tlb[cpu[v]] EXCEPT ![asid[v]] = @ \cup {t}]
    <3>1. tlb \in [Cpus -> [Asids -> SUBSET Translations]]
      BY Zenon DEF TypeOK
    <3>2. row \in [Asids -> SUBSET Translations]
      BY <1>3, <1>4, <3>1
    <3>3. tlb' = [tlb EXCEPT ![cpu[v]] = row]
      BY Zenon, <1>2
    <3> HIDE DEF row
    <3> QED BY Zenon, <1>3, <3>1, <3>2, <3>3
  <2> QED BY Zenon, <1>1, <2>1 DEF TypeOK
<1>7. \A w \in Vcpus : /\ Holds(w)' <=> Holds(w)
                       /\ WillFlush(w)' <=> WillFlush(w)
  BY Zenon, <1>1 DEF Holds, WillFlush
<1>8. ASSUME NEW w \in Vcpus, w # v, Holds(w)
      PROVE  Entries(w)' = Entries(w)
  <2>1. cpu[w] \in Cpus /\ asid[w] \in Asids /\ <<cpu[w], asid[w]>> # <<cpu[v], asid[v]>>
    BY Zenon, <1>3, <1>8 DEF Holds, OwnerInv
  <2> QED BY Zenon, <1>1, <1>5, <2>1 DEF Entries
<1>9. Entries(v)' = Entries(v) \cup {t}
  BY Zenon, <1>1, <1>5 DEF Entries
<1>10. t.owner = v /\ t.stale = FALSE
  OBVIOUS
<1> HIDE DEF t
<1>11. PlaceInv'
  BY Zenon, <1>1, <1>7 DEF PlaceInv
<1>12. OwnerInv'
  <2>1. \A c \in Cpus, a \in Asids : a >= next_asid'[c] => tlb'[c][a] = {}
    <3> SUFFICES ASSUME NEW c \in Cpus, NEW a \in Asids, a >= next_asid[c]
                 PROVE  tlb'[c][a] = {}
      BY Zenon, <1>1
    <3>1. <<c, a>> # <<cpu[v], asid[v]>>
      BY <1>3 DEF TypeOK, Asids
    <3> QED BY Zenon, <1>5, <3>1 DEF OwnerInv
  <2>2. \A w \in Vcpus : Holds(w)' => \A e \in Entries(w)' : e.owner = w
    BY <1>7, <1>8, <1>9, <1>10 DEF OwnerInv
  <2> QED BY Zenon, <1>1, <1>7, <2>1, <2>2 DEF OwnerInv
<1>13. FlushInv'
  <2>1. \A w \in Vcpus : pc'[w] = "guest" => Holds(w)
    BY Zenon, <1>1 DEF PlaceInv
  <2>2. \A w \in Vcpus : Holds(w) /\ (\A e \in Entries(w) : ~e.stale)
                           => \A e \in Entries(w)' : ~e.stale
    BY Zenon, <1>8, <1>9, <1>10
  <2> QED BY Zenon, <1>1, <1>7, <2>1, <2>2 DEF FlushInv
<1> QED BY Zenon, <1>6, <1>11, <1>12, <1>13

(* The start of an invalidation keeps it: every vcpu there is will flush,  *)
(* and the guests that run are waited for.                                 *)
LEMMA StartInv ==
  ASSUME AsidInv, StartInvalidate
  PROVE  AsidInv'
<1> USE DEF AsidInv
<1>1. /\ invalidating' = TRUE
      /\ request' = [w \in Vcpus |-> request[w] \/ pc[w] # "none"]
      /\ waits' = {w \in Vcpus : pc[w] = "guest"}
      /\ UNCHANGED <<cpu_generation, next_asid, cpu, asid_generation, asid, tlb_ctl,
                     pc, tlb>>
  BY Zenon DEF StartInvalidate, cpuVars, vcpuVars
<1>2. TypeOK'
  BY Zenon, <1>1 DEF TypeOK
<1>3. \A w \in Vcpus : (Holds(w)' <=> Holds(w)) /\ Entries(w)' = Entries(w)
  BY Zenon, <1>1 DEF Holds, Entries
<1>4. \A w \in Vcpus : Holds(w) => WillFlush(w)'
  BY Zenon, <1>1 DEF Holds, WillFlush
<1>5. PlaceInv'
  BY Zenon, <1>1, <1>3 DEF PlaceInv
<1>6. OwnerInv'
  BY Zenon, <1>1, <1>3 DEF OwnerInv
<1>7. FlushInv'
  BY Zenon, <1>1, <1>3, <1>4 DEF FlushInv
<1> QED BY Zenon, <1>2, <1>5, <1>6, <1>7

(* Its end keeps it: a guest that runs entered after the request, so it    *)
(* has flushed, and has cached nothing since.                              *)
LEMMA EndInv ==
  ASSUME AsidInv, EndInvalidate
  PROVE  AsidInv'
<1> USE DEF AsidInv
<1>1. /\ invalidating /\ waits = {} /\ invalidating' = FALSE
      /\ UNCHANGED <<cpu_generation, next_asid, cpu, asid_generation, asid, tlb_ctl,
                     request, pc, waits>>
  BY Zenon DEF EndInvalidate, cpuVars, vcpuVars
<1>2. tlb' = [c \in Cpus |-> [a \in Asids |->
               {[e EXCEPT !.stale = TRUE] : e \in tlb[c][a]}]]
  BY Zenon DEF EndInvalidate
<1>3. TypeOK'
  <2>1. \A e \in Translations : [e EXCEPT !.stale = TRUE] \in Translations
    BY Zenon DEF Translations
  <2>2. \A c \in Cpus, a \in Asids : tlb[c][a] \subseteq Translations
    BY Zenon DEF TypeOK
  <2>3. \A c \in Cpus, a \in Asids :
          {[e EXCEPT !.stale = TRUE] : e \in tlb[c][a]} \subseteq Translations
    BY Zenon, <2>1, <2>2
  <2>4. tlb' \in [Cpus -> [Asids -> SUBSET Translations]]
    BY Zenon, <1>2, <2>3
  <2> QED BY Zenon, <1>1, <2>4 DEF TypeOK
<1>4. \A w \in Vcpus : /\ Holds(w)' <=> Holds(w)
                       /\ WillFlush(w)' <=> WillFlush(w)
  BY Zenon, <1>1 DEF Holds, WillFlush
<1>5. ASSUME NEW w \in Vcpus, Holds(w)
      PROVE  /\ \A e \in Entries(w)' : e.owner = w
             /\ Entries(w) = {} => Entries(w)' = {}
  <2>1. Entries(w)' = {[e EXCEPT !.stale = TRUE] : e \in Entries(w)}
    BY Zenon, <1>1, <1>2, <1>5 DEF Entries, Holds, OwnerInv
  <2>2. \A e \in Entries(w) : e \in Translations /\ e.owner = w
    BY <1>5 DEF Entries, Holds, OwnerInv, TypeOK
  <2> QED BY Zenon, <2>1, <2>2 DEF Translations
<1>6. PlaceInv'
  BY Zenon, <1>1, <1>4 DEF PlaceInv
<1>7. OwnerInv'
  <2>1. \A c \in Cpus, a \in Asids : a >= next_asid'[c] => tlb'[c][a] = {}
    BY <1>1, <1>2 DEF OwnerInv
  <2> QED BY Zenon, <1>1, <1>4, <1>5, <2>1 DEF OwnerInv
<1>8. FlushInv'
  <2>1. \A w \in Vcpus : Holds(w) => WillFlush(w) \/ Entries(w)' = {}
    BY Zenon, <1>1, <1>5 DEF FlushInv
  <2>2. \A w \in Vcpus : pc[w] = "guest" => Holds(w) /\ ~request[w] /\ ~WillFlush(w)
    BY Zenon, <1>1 DEF PlaceInv, FlushInv, WillFlush
  <2> QED BY Zenon, <1>1, <1>4, <2>1, <2>2 DEF FlushInv
<1> QED BY Zenon, <1>3, <1>6, <1>7, <1>8

(* What svm_update_asid gives a vcpu that enters the guest on its CPU c:   *)
(* an ASID of the CPU's present generation that no other vcpu there holds. *)
LEMMA UpdateAsid ==
  ASSUME AsidInv, NEW v \in Vcpus, pc[v] \in OnCpu
  PROVE  LET c == cpu[v]
             u == svm_update_asid(v, c)
         IN /\ c \in Cpus
            /\ u.generation \in Nat /\ u.generation >= cpu_generation[c]
            /\ u.asid \in Asids /\ u.asid < u.next
            /\ u.next \in min_asid .. max_asid + 1
            /\ u.ctl \in {"DO_NOTHING", "FLUSH_ASID", "FLUSH_ALL_ASID"}
            /\ \A w \in Vcpus :
                 w # v /\ pc[w] # "none" /\ cpu[w] = c /\ asid_generation[w] = u.generation
                   => Holds(w) /\ asid[w] # u.asid /\ asid[w] < u.next
            /\ u.ctl # "FLUSH_ALL_ASID"
                 => \/ u.next = next_asid[c] /\ u.asid = asid[v] /\ Holds(v)
                       /\ u.ctl = tlb_ctl[v]
                    \/ u.asid = next_asid[c] /\ u.next = next_asid[c] + 1
<1> DEFINE c == cpu[v]
           u == svm_update_asid(v, c)
           Typed == /\ c \in Cpus
                    /\ u.generation \in Nat /\ u.generation >= cpu_generation[c]
                    /\ u.asid \in Asids /\ u.asid < u.next
                    /\ u.next \in min_asid .. max_asid + 1
                    /\ u.ctl \in {"DO_NOTHING", "FLUSH_ASID", "FLUSH_ALL_ASID"}
           Alone == \A w \in Vcpus :
                      w # v /\ pc[w] # "none" /\ cpu[w] = c /\ asid_generation[w] = u.generation
                        => Holds(w) /\ asid[w] # u.asid /\ asid[w] < u.next
           Kept == u.ctl # "FLUSH_ALL_ASID"
                     => \/ u.next = next_asid[c] /\ u.asid = asid[v] /\ Holds(v)
                           /\ u.ctl = tlb_ctl[v]
                        \/ u.asid = next_asid[c] /\ u.next = next_asid[c] + 1
<1> SUFFICES Typed /\ Alone /\ Kept
  OBVIOUS
<1>1. /\ c \in Cpus /\ cpu_generation[c] \in Nat /\ next_asid[c] \in min_asid .. max_asid + 1
      /\ tlb_ctl[v] \in {"DO_NOTHING", "FLUSH_ASID", "FLUSH_ALL_ASID"}
  BY Zenon DEF AsidInv, PlaceInv, TypeOK
<1>2. \A w \in Vcpus : /\ asid_generation[w] \in Nat /\ asid[w] \in Int
                       /\ cpu[w] = c => asid_generation[w] <= cpu_generation[c]
  BY <1>1 DEF AsidInv, PlaceInv, TypeOK
<1>3. pc[v] # "none"
  BY Zenon DEF OnCpu
<1>4. CASE asid_generation[v] = cpu_generation[c]
  <2>1. u = [generation |-> cpu_generation[c], next |-> next_asid[c],
             asid |-> asid[v], ctl |-> tlb_ctl[v]]
    BY Zenon, <1>4 DEF svm_update_asid
  <2>2. Holds(v)
    BY Zenon, <1>1, <1>3, <1>4 DEF Holds
  <2>3. asid[v] \in Asids /\ asid[v] < next_asid[c]
    BY Zenon, <2>2 DEF AsidInv, OwnerInv
  <2>4. \A w \in Vcpus :
          w # v /\ pc[w] # "none" /\ cpu[w] = c /\ asid_generation[w] = cpu_generation[c]
            => Holds(w) /\ asid[w] # asid[v] /\ asid[w] < next_asid[c]
    BY Zenon, <1>1, <2>2 DEF Holds, AsidInv, OwnerInv
  <2> HIDE DEF u, c
  <2>5. Typed
    <3>1. /\ u.generation = cpu_generation[c] /\ u.next = next_asid[c]
          /\ u.asid = asid[v] /\ u.ctl = tlb_ctl[v]
      BY Zenon, <2>1
    <3> QED BY <1>1, <2>3, <3>1
  <2>6. Alone
    BY Zenon, <2>1, <2>4
  <2>7. Kept
    BY Zenon, <2>1, <2>2
  <2> QED BY Zenon, <2>5, <2>6, <2>7
<1>5. CASE asid_generation[v] # cpu_generation[c] /\ next_asid[c] > max_asid
  <2>1. u = [generation |-> cpu_generation[c] + 1, next |-> min_asid + 1,
             asid |-> min_asid, ctl |-> "FLUSH_ALL_ASID"]
    BY Zenon, <1>5 DEF svm_update_asid, Exhausted
  <2>2. \A w \in Vcpus : cpu[w] = c => asid_generation[w] # cpu_generation[c] + 1
    BY <1>1, <1>2
  <2> HIDE DEF u, c
  <2>3. Typed
    BY <1>1, <2>1, AsidAssumption DEF Asids
  <2>4. Alone
    BY Zenon, <2>1, <2>2
  <2>5. Kept
    BY Zenon, <2>1
  <2> QED BY Zenon, <2>3, <2>4, <2>5
<1>6. CASE asid_generation[v] # cpu_generation[c] /\ ~(next_asid[c] > max_asid)
  <2>1. u = [generation |-> cpu_generation[c], next |-> next_asid[c] + 1,
             asid |-> next_asid[c], ctl |-> tlb_ctl[v]]
    BY Zenon, <1>6 DEF svm_update_asid, Exhausted
  <2>2. /\ next_asid[c] \in Asids /\ next_asid[c] + 1 \in min_asid .. max_asid + 1
        /\ next_asid[c] < next_asid[c] + 1
    BY <1>1, <1>6, AsidAssumption DEF Asids
  <2>3. \A w \in Vcpus :
          w # v /\ pc[w] # "none" /\ cpu[w] = c /\ asid_generation[w] = cpu_generation[c]
            => Holds(w) /\ asid[w] # next_asid[c] /\ asid[w] < next_asid[c] + 1
    <3> SUFFICES ASSUME NEW w \in Vcpus, w # v, pc[w] # "none", cpu[w] = c,
                        asid_generation[w] = cpu_generation[c]
                 PROVE  Holds(w) /\ asid[w] # next_asid[c] /\ asid[w] < next_asid[c] + 1
      OBVIOUS
    <3>1. Holds(w)
      BY Zenon, <1>1 DEF Holds
    <3>2. asid[w] < next_asid[c] /\ asid[w] \in Int /\ next_asid[c] \in Int
      BY <1>1, <1>2, <3>1, AsidAssumption DEF AsidInv, OwnerInv
    <3> QED BY <3>1, <3>2
  <2> HIDE DEF u, c
  <2>4. Typed
    BY <1>1, <2>1, <2>2
  <2>5. Alone
    BY Zenon, <2>1, <2>3
  <2>6. Kept
    BY Zenon, <2>1
  <2> QED BY Zenon, <2>4, <2>5, <2>6
<1> HIDE DEF Typed, Alone, Kept
<1> QED BY Zenon, <1>4, <1>5, <1>6

(* Entering the guest keeps it: the ASID is the vcpu's own, and what it    *)
(* had to flush, on this CPU or before it came here, is flushed or is not  *)
(* under this ASID.                                                        *)
LEMMA EnterInv ==
  ASSUME AsidInv, NEW v \in Vcpus, EnterGuest(v)
  PROVE  AsidInv'
<1> DEFINE c == cpu[v]
           u == svm_update_asid(v, c)
<1> USE DEF AsidInv
<1>1. /\ pc[v] = "ready" /\ request[v] = FALSE
      /\ pc' = [pc EXCEPT ![v] = "guest"]
      /\ cpu_generation' = [cpu_generation EXCEPT ![c] = u.generation]
      /\ next_asid' = [next_asid EXCEPT ![c] = u.next]
      /\ asid_generation' = [asid_generation EXCEPT ![v] = u.generation]
      /\ asid' = [asid EXCEPT ![v] = u.asid]
      /\ tlb_ctl' = [tlb_ctl EXCEPT ![v] = u.ctl]
      /\ UNCHANGED <<cpu, request, invalidating, waits>>
  BY Zenon DEF EnterGuest, flushVars, TypeOK
<1>2. tlb' = [tlb EXCEPT ![c] = Flushed(c, u.asid, u.ctl)]
  BY Zenon DEF EnterGuest
<1>3. /\ c \in Cpus
      /\ u.generation \in Nat /\ u.generation >= cpu_generation[c]
      /\ u.asid \in Asids /\ u.asid < u.next
      /\ u.next \in min_asid .. max_asid + 1
      /\ u.ctl \in {"DO_NOTHING", "FLUSH_ASID", "FLUSH_ALL_ASID"}
  BY Zenon, <1>1, UpdateAsid DEF OnCpu
<1>4. \A w \in Vcpus :
        w # v /\ pc[w] # "none" /\ cpu[w] = c /\ asid_generation[w] = u.generation
          => Holds(w) /\ asid[w] # u.asid /\ asid[w] < u.next
  BY Zenon, <1>1, UpdateAsid DEF OnCpu
<1>5. u.ctl # "FLUSH_ALL_ASID"
        => \/ u.next = next_asid[c] /\ u.asid = asid[v] /\ Holds(v)
              /\ u.ctl = tlb_ctl[v]
           \/ u.asid = next_asid[c] /\ u.next = next_asid[c] + 1
  BY Zenon, <1>1, UpdateAsid DEF OnCpu
<1> HIDE DEF u
<1>6. /\ \A d \in Cpus \ {c} : tlb'[d] = tlb[d]
      /\ \A b \in Asids : tlb'[c][b] = IF u.ctl = "FLUSH_ALL_ASID"
                                          \/ (u.ctl = "FLUSH_ASID" /\ b = u.asid)
                                       THEN {} ELSE tlb[c][b]
  BY Zenon, <1>2, <1>3 DEF TypeOK, Flushed
<1>7. /\ pc'[v] = "guest" /\ cpu'[v] = c /\ asid_generation'[v] = u.generation
      /\ asid'[v] = u.asid /\ tlb_ctl'[v] = u.ctl
      /\ cpu_generation'[c] = u.generation /\ next_asid'[c] = u.next
  BY Zenon, <1>1, <1>3 DEF TypeOK
<1>8. /\ \A d \in Cpus \ {c} : /\ cpu_generation'[d] = cpu_generation[d]
                               /\ next_asid'[d] = next_asid[d]
      /\ \A w \in Vcpus \ {v} :
           /\ pc'[w] = pc[w] /\ cpu'[w] = cpu[w] /\ tlb_ctl'[w] = tlb_ctl[w]
           /\ asid_generation'[w] = asid_generation[w] /\ asid'[w] = asid[w]
  BY Zenon, <1>1 DEF TypeOK
<1>9. TypeOK'
  <2>1. tlb' \in [Cpus -> [Asids -> SUBSET Translations]]
    <3>1. Flushed(c, u.asid, u.ctl) \in [Asids -> SUBSET Translations]
      BY <1>3 DEF TypeOK, Flushed
    <3> QED BY Zenon, <1>2, <1>3, <3>1 DEF TypeOK
  <2>2. u.asid \in 0 .. max_asid
    BY <1>3, AsidAssumption DEF Asids
  <2> QED BY Zenon, <1>1, <1>3, <2>1, <2>2 DEF TypeOK
<1>10. Holds(v)'
  BY Zenon, <1>1, <1>3, <1>7 DEF Holds
<1>11. ASSUME NEW w \in Vcpus, w # v, Holds(w)'
       PROVE  /\ Holds(w)
              /\ cpu[w] = c => asid[w] # u.asid /\ asid[w] < u.next
              /\ Entries(w)' \in {{}, Entries(w)}
              /\ WillFlush(w)' <=> WillFlush(w)
  <2>1. Holds(w) /\ (cpu[w] = c => asid[w] # u.asid /\ asid[w] < u.next)
    BY SMTT(30), <1>3, <1>4, <1>7, <1>8, <1>11 DEF Holds
  <2>2. cpu[w] \in Cpus /\ asid[w] \in Asids
    BY Zenon, <2>1 DEF Holds, OwnerInv
  <2>3. Entries(w)' \in {{}, Entries(w)}
    BY <1>6, <1>8, <1>11, <2>2 DEF Entries
  <2>4. WillFlush(w)' <=> WillFlush(w)
    BY Zenon, <1>1, <1>8, <1>11 DEF WillFlush
  <2> QED BY Zenon, <2>1, <2>3, <2>4
<1>12. /\ \A e \in Entries(v)' : e.owner = v /\ ~e.stale
       /\ invalidating => Entries(v)' = {}
  <2>1. Entries(v)' = tlb'[c][u.asid]
    BY Zenon, <1>7 DEF Entries
  <2>2. CASE u.ctl \in {"FLUSH_ASID", "FLUSH_ALL_ASID"}
    <3>1. tlb'[c][u.asid] = {}
      BY Zenon, <1>3, <1>6, <2>2
    <3> QED BY Zenon, <2>1, <3>1
  <2>3. CASE u.ctl = "DO_NOTHING" /\ u.asid = asid[v] /\ Holds(v) /\ u.ctl = tlb_ctl[v]
    <3>1. Entries(v)' = Entries(v)
      BY Zenon, <1>3, <1>6, <2>1, <2>3 DEF Entries
    <3>2. ~WillFlush(v)
      BY Zenon, <1>1, <2>3 DEF WillFlush
    <3> QED BY Zenon, <2>3, <3>1, <3>2 DEF OwnerInv, FlushInv
  <2>4. CASE u.ctl = "DO_NOTHING" /\ u.asid = next_asid[c]
    <3>1. tlb[c][u.asid] = {}
      BY <1>3, <2>4, AsidAssumption DEF OwnerInv, Asids
    <3> QED BY <1>3, <1>6, <2>1, <2>4, <3>1
  <2> QED BY Zenon, <1>3, <1>5, <2>2, <2>3, <2>4
<1>13. PlaceInv'
  <2>1. \A d \in Cpus : cpu_generation'[d] >= 1 /\ cpu_generation'[d] >= cpu_generation[d]
    <3> SUFFICES ASSUME NEW d \in Cpus
                 PROVE  cpu_generation'[d] >= 1 /\ cpu_generation'[d] >= cpu_generation[d]
      OBVIOUS
    <3>1. cpu_generation[d] \in Nat /\ cpu_generation[d] >= 1
      BY Zenon DEF PlaceInv, TypeOK
    <3>2. CASE d = c
      BY <1>3, <1>7, <3>1, <3>2
    <3>3. CASE d # c
      <4>1. cpu_generation'[d] = cpu_generation[d]
        BY Zenon, <1>8, <3>3
      <4> QED BY <3>1, <4>1
    <3> QED BY Zenon, <3>2, <3>3
  <2>2. ASSUME NEW w \in Vcpus, cpu'[w] \in Cpus
        PROVE  asid_generation'[w] <= cpu_generation'[cpu'[w]]
    <3>1. CASE w = v
      <4>1. asid_generation'[w] = cpu_generation'[cpu'[w]]
        BY Zenon, <1>7, <3>1
      <4>2. asid_generation'[w] \in Nat
        BY Zenon, <1>9 DEF TypeOK
      <4> QED BY <4>1, <4>2
    <3>2. CASE w # v
      <4>1. cpu'[w] = cpu[w] /\ asid_generation'[w] = asid_generation[w]
        BY Zenon, <1>8, <3>2
      <4>2. asid_generation[w] <= cpu_generation[cpu[w]]
        BY Zenon, <2>2, <4>1 DEF PlaceInv
      <4>3. asid_generation[w] \in Nat /\ cpu_generation[cpu[w]] \in Nat
        BY Zenon, <2>2, <4>1 DEF TypeOK
      <4>4. cpu_generation'[cpu[w]] \in Nat
        BY Zenon, <1>9, <2>2, <4>1 DEF TypeOK
      <4> QED BY <2>1, <2>2, <4>1, <4>2, <4>3, <4>4
    <3> QED BY Zenon, <3>1, <3>2
  <2>3. \A w \in Vcpus : pc'[w] = "guest" => Holds(w)'
    <3> SUFFICES ASSUME NEW w \in Vcpus \ {v}, pc[w] = "guest" PROVE Holds(w)'
      BY Zenon, <1>8, <1>10
    <3>1. Holds(w) /\ cpu[w] # c
      BY Zenon, <1>1 DEF PlaceInv, OnCpu
    <3>2. cpu[w] \in Cpus
      BY Zenon, <3>1 DEF Holds
    <3>3. /\ pc'[w] = pc[w] /\ cpu'[w] = cpu[w] /\ asid_generation'[w] = asid_generation[w]
          /\ cpu_generation'[cpu[w]] = cpu_generation[cpu[w]]
      BY Zenon, <1>8, <3>1, <3>2
    <3> QED BY Zenon, <3>1, <3>3 DEF Holds
  <2>4. \A w \in Vcpus : /\ cpu'[w] = cpu[w]
                         /\ pc'[w] \in OnCpu <=> pc[w] \in OnCpu
    BY Zenon, <1>1, <1>7, <1>8 DEF OnCpu
  <2>5. /\ \A w \in Vcpus : pc'[w] \in OnCpu => cpu'[w] \in Cpus
        /\ \A w, x \in Vcpus :
             w # x /\ pc'[w] \in OnCpu /\ pc'[x] \in OnCpu => cpu'[w] # cpu'[x]
    BY Zenon, <2>4 DEF PlaceInv
  <2> QED BY Zenon, <2>1, <2>2, <2>3, <2>5 DEF PlaceInv
<1>14. OwnerInv'
  <2>1. ASSUME NEW d \in Cpus, NEW a \in Asids, a >= next_asid'[d]
        PROVE  tlb'[d][a] = {}
    <3>1. CASE d # c
      <4>1. next_asid'[d] = next_asid[d] /\ tlb'[d] = tlb[d]
        BY Zenon, <1>6, <1>8, <3>1
      <4> QED BY Zenon, <2>1, <4>1 DEF OwnerInv
    <3>2. CASE d = c /\ u.ctl = "FLUSH_ALL_ASID"
      BY Zenon, <1>6, <3>2
    <3>3. CASE d = c /\ u.ctl # "FLUSH_ALL_ASID"
      <4>1. u.next >= next_asid[c] /\ next_asid[c] \in Int /\ u.next \in Int /\ a \in Int
        BY <1>3, <1>5, <3>3, AsidAssumption DEF TypeOK, Asids
      <4>2. a >= next_asid[c]
        BY <1>7, <2>1, <3>3, <4>1
      <4> QED BY Zenon, <1>6, <3>3, <4>2 DEF OwnerInv
    <3> QED BY Zenon, <3>1, <3>2, <3>3
  <2>2. ASSUME NEW w \in Vcpus, Holds(w)'
        PROVE  /\ asid'[w] \in Asids /\ asid'[w] < next_asid'[cpu'[w]]
               /\ \A e \in Entries(w)' : e.owner = w
    <3>1. CASE w = v
      BY Zenon, <1>3, <1>7, <1>12, <3>1
    <3>2. CASE w # v
      <4>1. /\ Holds(w) /\ cpu[w] \in Cpus /\ asid[w] \in Asids
            /\ asid[w] < next_asid[cpu[w]] /\ \A e \in Entries(w) : e.owner = w
        BY Zenon, <1>11, <2>2, <3>2 DEF OwnerInv, Holds
      <4>2. asid'[w] < next_asid'[cpu'[w]]
        <5>1. asid'[w] = asid[w] /\ cpu'[w] = cpu[w]
          BY Zenon, <1>8, <3>2
        <5>2. CASE cpu[w] = c
          <6>1. asid[w] < u.next
            BY Zenon, <1>11, <2>2, <3>2, <5>2
          <6> QED BY Zenon, <1>7, <5>1, <5>2, <6>1
        <5>3. CASE cpu[w] # c
          <6>1. next_asid'[cpu[w]] = next_asid[cpu[w]]
            BY Zenon, <1>8, <4>1, <5>3
          <6> QED BY Zenon, <4>1, <5>1, <6>1
        <5> QED BY Zenon, <5>2, <5>3
      <4>3. \A e \in Entries(w)' : e.owner = w
        BY Zenon, <1>11, <2>2, <3>2, <4>1
      <4> QED BY Zenon, <1>8, <3>2, <4>1, <4>2, <4>3
    <3> QED BY Zenon, <3>1, <3>2
  <2>3. ASSUME NEW w \in Vcpus, NEW x \in Vcpus, w # x, Holds(w)', Holds(x)', cpu'[w] = cpu'[x]
        PROVE  asid'[w] # asid'[x]
    <3>1. CASE w = v
      BY Zenon, <1>7, <1>8, <1>11, <2>3, <3>1
    <3>2. CASE x = v
      BY Zenon, <1>7, <1>8, <1>11, <2>3, <3>2
    <3>3. CASE w # v /\ x # v
      <4>1. /\ Holds(w) /\ Holds(x) /\ cpu[w] = cpu[x]
            /\ asid'[w] = asid[w] /\ asid'[x] = asid[x]
        BY Zenon, <1>8, <1>11, <2>3, <3>3
      <4> QED BY Zenon, <2>3, <4>1 DEF OwnerInv
    <3> QED BY Zenon, <3>1, <3>2, <3>3
  <2> QED BY Zenon, <2>1, <2>2, <2>3 DEF OwnerInv
<1>15. FlushInv'
  <2>1. ASSUME NEW w \in Vcpus
        PROVE  /\ pc'[w] = "guest" /\ request'[w] => w \in waits'
               /\ pc'[w] = "guest" => \A e \in Entries(w)' : ~e.stale
               /\ Holds(w)' => WillFlush(w)' \/ \A e \in Entries(w)' : ~e.stale
               /\ Holds(w)' /\ invalidating' => WillFlush(w)' \/ Entries(w)' = {}
    <3>1. CASE w = v
      BY Zenon, <1>1, <1>12, <3>1
    <3>2. CASE w # v
      <4>1. pc'[w] = "guest" => Holds(w)'
        BY Zenon, <1>13 DEF PlaceInv
      <4>2. pc'[w] = pc[w] /\ UNCHANGED <<request, invalidating, waits>>
        BY Zenon, <1>1, <1>8, <3>2
      <4>3. Holds(w)' => /\ Holds(w) /\ Entries(w)' \in {{}, Entries(w)}
                         /\ WillFlush(w)' <=> WillFlush(w)
        BY Zenon, <1>11, <3>2
      <4>4. /\ pc[w] = "guest" /\ request[w] => w \in waits
            /\ pc[w] = "guest" => \A e \in Entries(w) : ~e.stale
            /\ Holds(w) => WillFlush(w) \/ \A e \in Entries(w) : ~e.stale
            /\ Holds(w) /\ invalidating => WillFlush(w) \/ Entries(w) = {}
        BY Zenon DEF FlushInv
      <4> QED BY Zenon, <4>1, <4>2, <4>3, <4>4
    <3> QED BY Zenon, <3>1, <3>2
  <2> QED BY Zenon, <1>1, <2>1 DEF FlushInv
<1> QED BY Zenon, <1>9, <1>13, <1>14, <1>15

(* The invariant behind the ASID scheme holds in every reachable state of  *)
(* svm_update_asid, __load_vcpu and svm_vcpu_flush_tlb, for any number of  *)
(* vcpus, CPUs and ASIDs.                                                  *)
THEOREM AsidInvariance == Spec => []AsidInv
<1>1. ASSUME AsidInv, [Next]_vars PROVE AsidInv'
  <2>1. CASE UNCHANGED vars
    <3>1. UNCHANGED <<cpu_generation, next_asid, tlb, pc, cpu, asid, asid_generation,
                      tlb_ctl, request, invalidating, waits>>
      BY Zenon, <2>1 DEF vars, cpuVars, vcpuVars, flushVars
    <3>2. /\ TypeOK' <=> TypeOK
          /\ \A v \in Vcpus : /\ Holds(v)' <=> Holds(v)
                              /\ Entries(v)' = Entries(v)
                              /\ WillFlush(v)' <=> WillFlush(v)
      BY Zenon, <3>1 DEF TypeOK, Holds, Entries, WillFlush
    <3>3. PlaceInv'
      BY Zenon, <1>1, <3>1, <3>2 DEF AsidInv, PlaceInv
    <3>4. OwnerInv'
      BY Zenon, <1>1, <3>1, <3>2 DEF AsidInv, OwnerInv
    <3>5. FlushInv'
      BY Zenon, <1>1, <3>1, <3>2 DEF AsidInv, FlushInv
    <3> QED BY Zenon, <1>1, <3>2, <3>3, <3>4, <3>5 DEF AsidInv
  <2>2. ASSUME NEW v \in Vcpus, VcpuStep(v) PROVE AsidInv'
    BY Zenon, <1>1, <2>2, CreateInv, DestroyInv, LoadInv, PutAbortInv, ProcessInv,
       EnterInv, AccessInv, ExitInv DEF VcpuStep
  <2> QED BY Zenon, <1>1, <2>1, <2>2, StartInv, EndInv DEF Next
<1> QED BY InitInv, <1>1, PTL DEF Spec

(* A guest never runs under an ASID that holds another's TLB entries.      *)
THEOREM AsidsExclusive == Spec => []AsidExclusive
<1>1. AsidInv => AsidExclusive
  BY Zenon DEF AsidInv, PlaceInv, OwnerInv, AsidExclusive, Entries
<1> QED BY AsidInvariance, <1>1, PTL

(* No guest uses a translation from before an invalidation that has ended, *)
(* wherever the flush had to be carried.                                   *)
THEOREM FlushesDone == Spec => []NoStaleTranslation
<1>1. AsidInv => NoStaleTranslation
  BY Zenon DEF AsidInv, FlushInv, NoStaleTranslation, Entries
<1> QED BY AsidInvariance, <1>1, PTL
=============================================================================

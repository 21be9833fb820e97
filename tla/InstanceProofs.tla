--------------------------- MODULE InstanceProofs ---------------------------
(***************************************************************************)
(* The safety properties of Instance hold for every number of files,       *)
(* threads, vcpus, ids and reclaimers.  The counting argument is CountInv: *)
(* a reference to the file is the descriptor, a call that is not yet       *)
(* counted in running_vcpus, or one unit of running_vcpus.                 *)
(***************************************************************************)
EXTENDS Instance, FiniteSetTheorems, WellFoundedInduction, TLAPS

(* The threads of a process that are in the places L, and their number.    *)
At(f, p, L) == {t \in ThreadsOf(f) : p[t] \in L}
NumberAt(f, p, L) == Cardinality(At(f, p, L))

(* Calls that hold a reference and are not counted in running_vcpus.       *)
UncountedAt == {"create", "configure", "enter"}
Uncounted(f) == NumberAt(f, pc, UncountedAt)

(* Calls inside slimvm_enter.                                              *)
CountedAt == {"run", "refuse", "done"}
Counted(f) == NumberAt(f, pc, CountedAt)

(* The reference of the descriptor.                                        *)
Descriptors(f) == IF fd[f] THEN 1 ELSE 0

(* The types the proofs use: the reference counts are natural numbers.     *)
TypeInv ==
  /\ instances_bitmap \subseteq Ids
  /\ file \in [Files -> {"closed", "open", "shutdown", "synced"}]
  /\ refs \in [Files -> Nat]
  /\ running_vcpus \in [Files -> Nat]
  /\ id \in [Files -> Ids \cup {None}]
  /\ vcpu_bitmap \in [Files -> SUBSET Slots]
  /\ vcpus \in [Files -> SUBSET Slots]
  /\ fd \in [Files -> BOOLEAN]
  /\ force_release \in [Files -> BOOLEAN]
  /\ alive \in [Files -> BOOLEAN]
  /\ pc \in [Files \X Threads -> {"user", "create", "configure", "enter", "run",
                                   "refuse", "done", "gone"}]
  /\ slot \in [Files \X Threads -> Slots \cup {None}]
  /\ reclaim_list \in [Reclaimers -> SUBSET Files]

(* What the references to a file are, and what a file that is not open, or *)
(* whose process is gone, no longer has.                                   *)
CountInv(f) ==
  /\ file[f] = "open" =>
       /\ refs[f] > 0
       /\ refs[f] = running_vcpus[f] + Descriptors(f) + Uncounted(f)
  /\ Counted(f) <= running_vcpus[f]
  /\ file[f] # "open" => /\ refs[f] = 0 /\ ~fd[f]
                         /\ \A t \in ThreadsOf(f) : pc[t] \in {"user", "gone"}
  /\ file[f] = "closed" => running_vcpus[f] = 0 /\ ~force_release[f]
  /\ ~alive[f] => ~fd[f] /\ \A t \in ThreadsOf(f) : pc[t] = "gone"
  /\ file[f] \in {"shutdown", "synced"} => alive[f] \/ force_release[f]

(* An instance on a list is leaked, marked, and on no other list.          *)
ListInv ==
  \A r \in Reclaimers : \A f \in reclaim_list[r] :
    /\ force_release[f] /\ file[f] = "open" /\ ~alive[f]
    /\ \A q \in Reclaimers : f \in reclaim_list[q] => q = r

InstanceInv ==
  /\ TypeInv /\ \A f \in Files : CountInv(f)
  /\ IdsExclusive /\ SlotsExclusive /\ ListInv

(***************************************************************************)
(* Facts about the operators of the model.                                 *)
(***************************************************************************)

(* find_first_zero_bit returns a clear bit of a map that is not full.      *)
LEMMA FirstFreeIsFree ==
  ASSUME NEW n \in Nat, NEW bits \in SUBSET (0 .. n - 1), bits # 0 .. n - 1
  PROVE  FirstFree(bits, 0 .. n - 1) \in (0 .. n - 1) \ bits
<1> DEFINE free == (0 .. n - 1) \ bits
           Less == {p \in Nat \X Nat : p[1] < p[2]}
<1>1. free \subseteq Nat
  OBVIOUS
<1>2. free # {}
  BY Zenon
<1>3. IsWellFoundedOn(Less, Nat)
  BY NatLessThanWellFounded DEF OpToRel
<1>4. PICK b \in free : \A c \in free : ~(<<c, b>> \in Less)
  <2> HIDE DEF free, Less
  <2> QED BY Zenon, <1>1, <1>2, <1>3, WFMin
<1>5. ASSUME NEW c \in free PROVE b <= c
  <2>1. b \in Nat /\ c \in Nat
    BY <1>1
  <2>2. ~(<<c, b>> \in Less)
    BY Zenon, <1>4
  <2>3. ~(c < b)
    BY <2>1, <2>2
  <2> QED BY <2>1, <2>3
<1> QED BY <1>5 DEF FirstFree

(* A thread belongs to the process of one file.                            *)
LEMMA ThreadFacts ==
  /\ \A t \in Files \X Threads : t[1] \in Files /\ t \in ThreadsOf(t[1])
  /\ \A f \in Files : ThreadsOf(f) \subseteq Files \X Threads
  /\ \A f \in Files : \A t \in ThreadsOf(f) : t[1] = f
BY DEF ThreadsOf

(* A process has finitely many threads, so its calls can be counted.       *)
LEMMA FiniteThreads ==
  ASSUME NEW f \in Files, NEW S \in SUBSET ThreadsOf(f)
  PROVE  IsFiniteSet(S) /\ Cardinality(S) \in Nat
<1>1. IsFiniteSet({f}) /\ IsFiniteSet(Threads)
  BY FS_Singleton, SizesAssumption
<1>2. IsFiniteSet(ThreadsOf(f))
  BY <1>1, FS_Product DEF ThreadsOf
<1> QED BY <1>2, FS_Subset, FS_CardinalityType

(* fput changes the count and the state of one file.                       *)
LEMMA FputFacts ==
  ASSUME TypeInv, NEW f \in Files, NEW n \in Nat, n <= refs[f], Fput(f, n)
  PROVE  /\ refs' \in [Files -> Nat] /\ refs'[f] = refs[f] - n
         /\ file' \in [Files -> {"closed", "open", "shutdown", "synced"}]
         /\ n > 0 /\ refs[f] = n => file'[f] = "shutdown"
         /\ ~(n > 0 /\ refs[f] = n) => file'[f] = file[f]
         /\ \A g \in Files \ {f} : refs'[g] = refs[g] /\ file'[g] = file[g]
BY DEF TypeInv, Fput

(* A step that leaves a file, its process and its calls alone keeps what   *)
(* its references are.                                                     *)
LEMMA OtherFile ==
  ASSUME NEW g \in Files, CountInv(g),
         file'[g] = file[g], refs'[g] = refs[g], fd'[g] = fd[g], alive'[g] = alive[g],
         running_vcpus'[g] = running_vcpus[g], force_release'[g] = force_release[g],
         \A t \in ThreadsOf(g) : pc'[t] = pc[t]
  PROVE  CountInv(g)'
<1>1. Uncounted(g)' = Uncounted(g) /\ Counted(g)' = Counted(g)
      /\ Descriptors(g)' = Descriptors(g)
  BY Zenon DEF Uncounted, Counted, NumberAt, At, ThreadsOf, Descriptors
<1>2. ThreadsOf(g)' = ThreadsOf(g)
  BY DEF ThreadsOf
<1> QED BY <1>1, <1>2 DEF CountInv

(* A step that opens no file and takes no id keeps the ids apart.          *)
LEMMA SameIds ==
  ASSUME IdsExclusive, id' = id, instances_bitmap' = instances_bitmap,
         \A f \in Files : file'[f] # "closed" => file[f] # "closed"
  PROVE  IdsExclusive'
BY DEF IdsExclusive, Live

(* A step that starts no CREATE_VCPU and touches no vcpu keeps the numbers *)
(* apart.                                                                  *)
LEMMA SameSlots ==
  ASSUME SlotsExclusive, vcpus' = vcpus, vcpu_bitmap' = vcpu_bitmap,
         \A t \in Files \X Threads :
           pc'[t] = "create" => pc[t] = "create" /\ slot'[t] = slot[t]
  PROVE  SlotsExclusive'
<1>1. \A f \in Files : ThreadsOf(f) \subseteq Files \X Threads /\ ThreadsOf(f)' = ThreadsOf(f)
  BY DEF ThreadsOf
<1> QED BY <1>1 DEF SlotsExclusive

(* A step that leaves the leaked instances alone keeps the lists right.    *)
LEMMA SameLists ==
  ASSUME ListInv, TypeInv, reclaim_list' = reclaim_list,
         \A f \in Files : force_release[f] /\ file[f] = "open" /\ ~alive[f] =>
                          force_release'[f] /\ file'[f] = "open" /\ ~alive'[f]
  PROVE  ListInv'
BY DEF ListInv, TypeInv

(* A process none of whose calls counts has no thread in a call.           *)
LEMMA NoCallsLeft ==
  ASSUME NEW f \in Files,
         NEW p \in [Files \X Threads -> {"user", "create", "configure", "enter", "run",
                                         "refuse", "done", "gone"}],
         NumberAt(f, p, UncountedAt) = 0, NumberAt(f, p, CountedAt) = 0
  PROVE  \A t \in ThreadsOf(f) : p[t] \in {"user", "gone"}
<1>1. ASSUME NEW L, NumberAt(f, p, L) = 0 PROVE At(f, p, L) = {}
  <2>1. At(f, p, L) \in SUBSET ThreadsOf(f)
    BY Zenon DEF At
  <2>2. IsFiniteSet(At(f, p, L))
    BY Zenon, <2>1, FiniteThreads
  <2> QED BY Zenon, <1>1, <2>2, FS_EmptySet DEF NumberAt
<1>2. At(f, p, UncountedAt) = {} /\ At(f, p, CountedAt) = {}
  BY Zenon, <1>1
<1>3. ASSUME NEW t \in ThreadsOf(f) PROVE p[t] \in {"user", "gone"}
  <2>1. t \in Files \X Threads
    BY Zenon, ThreadFacts
  <2> QED BY <1>2, <2>1 DEF At, UncountedAt, CountedAt
<1> QED BY Zenon, <1>3

(* How the number of threads in the places L follows one that went on.     *)
Recounted(f, t, p, q, L) ==
  /\ NumberAt(f, p, L) \in Nat /\ NumberAt(f, q, L) \in Nat
  /\ p[t] \in L /\ q[t] \notin L =>
       NumberAt(f, p, L) # 0 /\ NumberAt(f, q, L) = NumberAt(f, p, L) - 1
  /\ p[t] \notin L /\ q[t] \in L => NumberAt(f, q, L) = NumberAt(f, p, L) + 1
  /\ (p[t] \in L <=> q[t] \in L) => NumberAt(f, q, L) = NumberAt(f, p, L)

(* It does when no other thread of the process moved.                      *)
LEMMA Recount ==
  ASSUME NEW f \in Files, NEW t \in ThreadsOf(f), NEW L, NEW p, NEW q,
         \A u \in ThreadsOf(f) \ {t} : q[u] = p[u]
  PROVE  Recounted(f, t, p, q, L)
<1> DEFINE S == At(f, p, L)
           T == At(f, q, L)
           l == q[t]
<1>1. S \in SUBSET ThreadsOf(f) /\ T \in SUBSET ThreadsOf(f)
  BY Zenon DEF At
<1>2. p[t] \in L => t \in S
  BY Zenon DEF At
<1>3. p[t] \notin L => t \notin S
  BY Zenon DEF At
<1>4. l \notin L => T = S \ {t}
  BY DEF At
<1>5. l \in L => T = S \cup {t}
  BY DEF At
<1>6. NumberAt(f, p, L) = Cardinality(S) /\ NumberAt(f, q, L) = Cardinality(T)
  BY Zenon DEF NumberAt
<1> HIDE DEF S, T, l
<1>7. IsFiniteSet(S) /\ Cardinality(S) \in Nat /\ Cardinality(T) \in Nat
  BY Zenon, <1>1, FiniteThreads
<1>8. ASSUME p[t] \in L, l \notin L
       PROVE  Cardinality(S) # 0 /\ Cardinality(T) = Cardinality(S) - 1
  <2>1. Cardinality(S) # 0
    BY Zenon, <1>2, <1>7, <1>8, FS_EmptySet
  <2>2. Cardinality(S \ {t}) = Cardinality(S) - 1
    BY Zenon, <1>2, <1>7, <1>8, FS_RemoveElement
  <2> QED BY Zenon, <1>4, <1>8, <2>1, <2>2
<1>9. ASSUME p[t] \notin L, l \in L PROVE Cardinality(T) = Cardinality(S) + 1
  <2>1. Cardinality(S \cup {t}) = Cardinality(S) + 1
    BY Zenon, <1>3, <1>7, <1>9, FS_AddElement
  <2> QED BY Zenon, <1>5, <1>9, <2>1
<1>10. ASSUME p[t] \in L <=> l \in L PROVE T = S
  BY Zenon, <1>2, <1>3, <1>4, <1>5, <1>10
<1> QED BY Zenon, <1>6, <1>7, <1>8, <1>9, <1>10 DEF Recounted, l

(* What the counts of a process are after one of its threads went on.      *)
LEMMA Moved ==
  ASSUME TypeInv, NEW f \in Files, NEW t \in ThreadsOf(f), NEW l, Goto(t, l)
  PROVE  /\ Uncounted(f) \in Nat /\ Uncounted(f)' \in Nat
         /\ pc[t] \in UncountedAt /\ l \notin UncountedAt =>
              Uncounted(f) # 0 /\ Uncounted(f)' = Uncounted(f) - 1
         /\ pc[t] \notin UncountedAt /\ l \in UncountedAt =>
              Uncounted(f)' = Uncounted(f) + 1
         /\ (pc[t] \in UncountedAt <=> l \in UncountedAt) => Uncounted(f)' = Uncounted(f)
         /\ Counted(f) \in Nat /\ Counted(f)' \in Nat
         /\ pc[t] \in CountedAt /\ l \notin CountedAt =>
              Counted(f) # 0 /\ Counted(f)' = Counted(f) - 1
         /\ pc[t] \notin CountedAt /\ l \in CountedAt => Counted(f)' = Counted(f) + 1
         /\ (pc[t] \in CountedAt <=> l \in CountedAt) => Counted(f)' = Counted(f)
<1>1. pc'[t] = l /\ \A u \in ThreadsOf(f) \ {t} : pc'[u] = pc[u]
  BY Zenon, ThreadFacts DEF TypeInv, Goto
<1>2. /\ Uncounted(f) = NumberAt(f, pc, UncountedAt)
      /\ Uncounted(f)' = NumberAt(f, pc', UncountedAt)
      /\ Counted(f) = NumberAt(f, pc, CountedAt)
      /\ Counted(f)' = NumberAt(f, pc', CountedAt)
  BY Zenon DEF Uncounted, Counted, NumberAt, At, ThreadsOf, UncountedAt, CountedAt
<1>3. /\ Recounted(f, t, pc, pc', UncountedAt)
      /\ Recounted(f, t, pc, pc', CountedAt)
  BY Zenon, <1>1, Recount
<1> QED BY Zenon, <1>1, <1>2, <1>3 DEF Recounted

(* A thread in a call keeps its process alive and its file open.           *)
LEMMA CallHolds ==
  ASSUME NEW t \in Files \X Threads, CountInv(t[1])
  PROVE  /\ pc[t] # "gone" => alive[t[1]]
         /\ InCall(t) => file[t[1]] = "open" /\ alive[t[1]]
<1>1. t \in ThreadsOf(t[1])
  BY Zenon, ThreadFacts
<1> QED BY Zenon, <1>1 DEF CountInv, InCall

(* A reference goes with what it stood for; with the last one the release  *)
(* begins, and no call is left.                                            *)
LEMMA PutOne ==
  ASSUME TypeInv, NEW f \in Files, file[f] = "open", refs[f] > 0, Fput(f, 1), alive'[f],
         pc' \in [Files \X Threads -> {"user", "create", "configure", "enter", "run",
                                        "refuse", "done", "gone"}],
         running_vcpus'[f] \in Nat, Uncounted(f)' \in Nat, Counted(f)' \in Nat,
         running_vcpus'[f] + Descriptors(f)' + Uncounted(f)' = refs[f] - 1,
         Counted(f)' <= running_vcpus'[f]
  PROVE  CountInv(f)'
<1>1. refs[f] \in Nat /\ Descriptors(f)' \in {0, 1}
  BY Zenon DEF TypeInv, Descriptors
<1>2. refs'[f] = refs[f] - 1 /\ (refs[f] = 1 => file'[f] = "shutdown")
      /\ (refs[f] # 1 => file'[f] = "open")
  BY <1>1, FputFacts
<1>3. ThreadsOf(f)' = ThreadsOf(f)
  BY Zenon DEF ThreadsOf
<1>4. CASE refs[f] = 1
  <2>1. refs'[f] = 0 /\ running_vcpus'[f] = 0 /\ Descriptors(f)' = 0
    BY <1>1, <1>2, <1>4
  <2>2. Uncounted(f)' = 0 /\ Counted(f)' = 0
    BY <1>1, <1>2, <1>4, <2>1
  <2>3. ~fd'[f]
    BY <2>1 DEF Descriptors
  <2>4. NumberAt(f, pc', UncountedAt) = 0 /\ NumberAt(f, pc', CountedAt) = 0
    BY Zenon, <2>2 DEF Uncounted, Counted, NumberAt, At, ThreadsOf, UncountedAt, CountedAt
  <2>5. \A t \in ThreadsOf(f) : pc'[t] \in {"user", "gone"}
    BY Zenon, <2>4, NoCallsLeft
  <2>6. file'[f] = "shutdown"
    BY Zenon, <1>2, <1>4
  <2> QED BY Zenon, <1>3, <2>1, <2>3, <2>5, <2>6 DEF CountInv
<1>5. CASE refs[f] # 1
  <2>1. file'[f] = "open"
    BY Zenon, <1>2, <1>5
  <2>2. refs'[f] > 0
    BY <1>1, <1>2, <1>5
  <2>3. refs'[f] = running_vcpus'[f] + Descriptors(f)' + Uncounted(f)'
    BY Zenon, <1>2
  <2> QED BY Zenon, <2>1, <2>2, <2>3 DEF CountInv
<1> QED BY Zenon, <1>4, <1>5

(* What a step leaves of the files it is not about.                        *)
SameFile(g) ==
  /\ file'[g] = file[g] /\ refs'[g] = refs[g] /\ fd'[g] = fd[g] /\ alive'[g] = alive[g]
  /\ running_vcpus'[g] = running_vcpus[g] /\ force_release'[g] = force_release[g]
  /\ \A t \in ThreadsOf(g) : pc'[t] = pc[t]

(* So a step about one file need only be looked at there.                  *)
LEMMA OneFile ==
  ASSUME \A g \in Files : CountInv(g), NEW f \in Files, CountInv(f)',
         \A g \in Files \ {f} : SameFile(g)
  PROVE  \A g \in Files : CountInv(g)'
<1>1. ASSUME NEW g \in Files, g # f PROVE CountInv(g)'
  BY Zenon, <1>1, OtherFile DEF SameFile
<1> QED BY Zenon, <1>1

(* And a step of one thread only at its process.                           *)
LEMMA OneThread ==
  ASSUME TypeInv, NEW t \in Files \X Threads, NEW l, Goto(t, l)
  PROVE  /\ \A g \in Files \ {t[1]} : \A u \in ThreadsOf(g) : pc'[u] = pc[u]
         /\ \A u \in Files \X Threads : u # t => pc'[u] = pc[u]
         /\ pc'[t] = l
<1>1. \A u \in Files \X Threads : u # t => pc'[u] = pc[u]
  BY Zenon DEF TypeInv, Goto
<1>2. pc'[t] = l
  BY Zenon DEF TypeInv, Goto
<1>3. \A g \in Files \ {t[1]} : \A u \in ThreadsOf(g) : u \in Files \X Threads /\ u # t
  BY Zenon, ThreadFacts
<1> QED BY Zenon, <1>1, <1>2, <1>3

(* A call that was not counted returns.                                    *)
LEMMA ReturnUncounted ==
  ASSUME InstanceInv, NEW t \in Files \X Threads, pc[t] \in UncountedAt,
         Goto(t, "user"), Fput(t[1], 1),
         UNCHANGED <<running_vcpus, fd, alive, id, instances_bitmap, reclaim_list,
                     force_release>>
  PROVE  /\ \A g \in Files : CountInv(g)'
         /\ IdsExclusive' /\ ListInv' /\ refs' \in [Files -> Nat]
         /\ file' \in [Files -> {"closed", "open", "shutdown", "synced"}]
<1> USE DEF InstanceInv
<1> DEFINE f == t[1]
<1>1. f \in Files /\ t \in ThreadsOf(f)
  BY Zenon, ThreadFacts
<1>2. CountInv(f)
  BY Zenon, <1>1
<1> HIDE DEF f
<1>3. InCall(t)
  BY DEF InCall, UncountedAt
<1>4. file[f] = "open" /\ alive[f]
  BY Zenon, <1>2, <1>3, CallHolds DEF f
<1>5. /\ refs[f] > 0 /\ refs[f] = running_vcpus[f] + Descriptors(f) + Uncounted(f)
      /\ Counted(f) <= running_vcpus[f]
  BY Zenon, <1>2, <1>4 DEF CountInv
<1>6. "user" \notin UncountedAt /\ "user" \notin CountedAt /\ pc[t] \notin CountedAt
  BY DEF UncountedAt, CountedAt
<1>7. /\ Uncounted(f) \in Nat /\ Uncounted(f) # 0 /\ Uncounted(f)' = Uncounted(f) - 1
      /\ Uncounted(f)' \in Nat /\ Counted(f)' \in Nat /\ Counted(f)' = Counted(f)
  BY Zenon, <1>1, <1>6, Moved
<1>8. /\ refs[f] \in Nat /\ running_vcpus[f] \in Nat /\ Descriptors(f) \in {0, 1}
      /\ Descriptors(f)' = Descriptors(f) /\ running_vcpus'[f] = running_vcpus[f]
  BY Zenon, <1>1 DEF TypeInv, Descriptors
<1>9. pc' \in [Files \X Threads -> {"user", "create", "configure", "enter", "run",
                                     "refuse", "done", "gone"}]
  BY Zenon DEF TypeInv, Goto
<1>10. CountInv(f)'
  <2>1. running_vcpus'[f] + Descriptors(f)' + Uncounted(f)' = refs[f] - 1
    BY <1>5, <1>7, <1>8
  <2> QED BY Zenon, <1>1, <1>4, <1>5, <1>7, <1>8, <1>9, <2>1, PutOne DEF f
<1>11. 1 <= refs[f]
  BY <1>5, <1>8
<1>12. /\ refs' \in [Files -> Nat]
       /\ file' \in [Files -> {"closed", "open", "shutdown", "synced"}]
       /\ file'[f] \in {"shutdown", "open"}
       /\ \A g \in Files \ {f} : refs'[g] = refs[g] /\ file'[g] = file[g]
  BY <1>1, <1>4, <1>11, FputFacts DEF f
<1>13. \A g \in Files \ {f} : SameFile(g)
  <2>1. \A g \in Files \ {f} : \A u \in ThreadsOf(g) : pc'[u] = pc[u]
    BY Zenon, OneThread DEF f
  <2> QED BY Zenon, <1>12, <2>1 DEF SameFile
<1>14. \A g \in Files : CountInv(g)'
  BY Zenon, <1>1, <1>10, <1>13, OneFile
<1>15. \A g \in Files : file'[g] # "closed" => file[g] # "closed"
  BY <1>4, <1>12
<1>16. IdsExclusive'
  BY Zenon, <1>15, SameIds
<1>17. ListInv'
  BY Zenon, <1>1, <1>4, <1>12, SameLists
<1> QED BY Zenon, <1>12, <1>14, <1>16, <1>17

(***************************************************************************)
(* Every action keeps the invariant.                                       *)
(***************************************************************************)

LEMMA PublishInv ==
  ASSUME InstanceInv, NEW t \in Files \X Threads, NEW created \in BOOLEAN,
         PublishVcpu(t, created)
  PROVE  InstanceInv'
<1> USE DEF InstanceInv
<1> DEFINE f == t[1]
           s == slot[t]
<1>1. /\ pc[t] = "create" /\ Goto(t, "user") /\ slot' = [slot EXCEPT ![t] = None]
      /\ vcpus' = IF created THEN [vcpus EXCEPT ![f] = @ \cup {s}] ELSE vcpus
      /\ vcpu_bitmap' = IF created THEN [vcpu_bitmap EXCEPT ![f] = @ \cup {s}]
                        ELSE [vcpu_bitmap EXCEPT ![f] = @ \ {s}]
      /\ Fput(f, 1)
      /\ UNCHANGED <<fd, alive, instances_bitmap, id, running_vcpus, reclaim_list,
                     force_release>>
  BY Zenon DEF PublishVcpu, reclaimVars
<1>2. f \in Files /\ t \in ThreadsOf(f)
  BY Zenon, ThreadFacts
<1>3. /\ \A g \in Files : CountInv(g)'
      /\ IdsExclusive' /\ ListInv' /\ refs' \in [Files -> Nat]
      /\ file' \in [Files -> {"closed", "open", "shutdown", "synced"}]
  <2>1. pc[t] \in UncountedAt
    BY Zenon, <1>1 DEF UncountedAt
  <2> QED BY Zenon, <1>1, <2>1, ReturnUncounted
<1> HIDE DEF f, s
<1>4. s \in vcpu_bitmap[f] /\ s \notin vcpus[f] /\ vcpus[f] \subseteq vcpu_bitmap[f]
  BY Zenon, <1>1, <1>2 DEF SlotsExclusive, s
<1>5. s \in Slots /\ vcpu_bitmap[f] \subseteq Slots /\ vcpus[f] \subseteq Slots
  BY Zenon, <1>2, <1>4 DEF TypeInv
<1>6. /\ vcpus'[f] = IF created THEN vcpus[f] \cup {s} ELSE vcpus[f]
      /\ vcpu_bitmap'[f] = IF created THEN vcpu_bitmap[f] ELSE vcpu_bitmap[f] \ {s}
      /\ \A g \in Files \ {f} : vcpus'[g] = vcpus[g] /\ vcpu_bitmap'[g] = vcpu_bitmap[g]
      /\ vcpus' \in [Files -> SUBSET Slots] /\ vcpu_bitmap' \in [Files -> SUBSET Slots]
  <2>1. CASE created
    BY <1>1, <1>2, <1>4, <1>5, <2>1 DEF TypeInv
  <2>2. CASE ~created
    BY <1>1, <1>2, <1>4, <1>5, <2>2 DEF TypeInv
  <2> QED BY Zenon, <2>1, <2>2
<1>7. TypeInv'
  <2>1. /\ slot' \in [Files \X Threads -> Slots \cup {None}]
        /\ pc' \in [Files \X Threads -> {"user", "create", "configure", "enter", "run",
                                          "refuse", "done", "gone"}]
    BY Zenon, <1>1 DEF TypeInv, Goto
  <2> QED BY Zenon, <1>1, <1>3, <1>6, <2>1 DEF TypeInv
<1>8. ASSUME NEW g \in Files, NEW u \in ThreadsOf(g), pc'[u] = "create"
      PROVE  u # t /\ pc[u] = "create" /\ slot'[u] = slot[u]
  <2>1. u \in Files \X Threads
    BY Zenon, ThreadFacts
  <2>2. pc'[t] = "user" /\ (u # t => pc'[u] = pc[u])
    BY ZenonT(30), <1>1, <2>1, OneThread
  <2>3. u # t /\ pc[u] = "create"
    BY <1>8, <2>2
  <2> QED BY Zenon, <1>1, <2>1, <2>3 DEF TypeInv
<1>9. SlotsExclusive'
  <2> SUFFICES ASSUME NEW g \in Files
               PROVE  /\ vcpus'[g] \subseteq vcpu_bitmap'[g]
                      /\ \A u \in ThreadsOf(g) : pc'[u] = "create" =>
                           /\ slot'[u] \in vcpu_bitmap'[g] \ vcpus'[g]
                           /\ \A w \in ThreadsOf(g) :
                                w # u /\ pc'[w] = "create" => slot'[w] # slot'[u]
    BY Zenon DEF SlotsExclusive, ThreadsOf
  <2>1. vcpus'[g] \subseteq vcpu_bitmap'[g]
    BY <1>4, <1>6 DEF SlotsExclusive
  <2>2. ASSUME NEW u \in ThreadsOf(g), pc'[u] = "create"
        PROVE  /\ slot'[u] \in vcpu_bitmap'[g] \ vcpus'[g]
               /\ \A w \in ThreadsOf(g) :
                    w # u /\ pc'[w] = "create" => slot'[w] # slot'[u]
    <3>1. u # t /\ pc[u] = "create" /\ slot'[u] = slot[u]
      BY Zenon, <1>8, <2>2
    <3>2. slot[u] \in vcpu_bitmap[g] \ vcpus[g]
      BY Zenon, <3>1 DEF SlotsExclusive
    <3>3. g = f => slot[u] # s
      BY Zenon, <1>1, <1>2, <3>1 DEF SlotsExclusive, s
    <3>4. slot'[u] \in vcpu_bitmap'[g] \ vcpus'[g]
      BY <1>6, <3>1, <3>2, <3>3
    <3>5. ASSUME NEW w \in ThreadsOf(g), w # u, pc'[w] = "create"
          PROVE  slot'[w] # slot'[u]
      <4>1. pc[w] = "create" /\ slot'[w] = slot[w]
        BY Zenon, <1>8, <3>5
      <4>2. slot[w] # slot[u]
        BY Zenon, <3>1, <3>5, <4>1 DEF SlotsExclusive
      <4> QED BY Zenon, <3>1, <4>1, <4>2
    <3> QED BY Zenon, <3>4, <3>5
  <2> QED BY Zenon, <2>1, <2>2
<1> QED BY Zenon, <1>3, <1>7, <1>9

(* A step of a thread in a call that neither returns nor creates a vcpu    *)
(* need only account for running_vcpus.                                    *)
LEMMA InsideCall ==
  ASSUME InstanceInv, NEW t \in Files \X Threads, InCall(t), NEW l, Goto(t, l),
         UNCHANGED <<file, refs, fd, alive, id, instances_bitmap, reclaim_list,
                     force_release>>,
         \A g \in Files \ {t[1]} : running_vcpus'[g] = running_vcpus[g],
         running_vcpus'[t[1]] + Uncounted(t[1])' = running_vcpus[t[1]] + Uncounted(t[1]),
         running_vcpus'[t[1]] \in Nat, Counted(t[1])' <= running_vcpus'[t[1]]
  PROVE  (\A g \in Files : CountInv(g)') /\ IdsExclusive' /\ ListInv'
<1> USE DEF InstanceInv
<1> DEFINE f == t[1]
<1>1. f \in Files /\ t \in ThreadsOf(f)
  BY Zenon, ThreadFacts
<1>2. CountInv(f)
  BY Zenon, <1>1
<1>3. file[f] = "open" /\ alive[f]
  BY Zenon, <1>2, CallHolds
<1>4. /\ running_vcpus'[f] + Uncounted(f)' = running_vcpus[f] + Uncounted(f)
      /\ running_vcpus'[f] \in Nat /\ Counted(f)' <= running_vcpus'[f]
      /\ \A g \in Files \ {f} : running_vcpus'[g] = running_vcpus[g]
  BY Zenon
<1> HIDE DEF f
<1>5. refs[f] > 0 /\ refs[f] = running_vcpus[f] + Descriptors(f) + Uncounted(f)
  BY Zenon, <1>2, <1>3 DEF CountInv
<1>6. Uncounted(f) \in Nat /\ Uncounted(f)' \in Nat
  BY Zenon, <1>1, Moved
<1>7. /\ running_vcpus[f] \in Nat /\ Descriptors(f) \in {0, 1}
      /\ Descriptors(f)' = Descriptors(f)
  BY Zenon, <1>1 DEF TypeInv, Descriptors
<1>8. CountInv(f)'
  <2>1. refs'[f] > 0 /\ file'[f] = "open" /\ alive'[f]
    BY Zenon, <1>3, <1>5
  <2>2. refs'[f] = running_vcpus'[f] + Descriptors(f)' + Uncounted(f)'
    <3>1. refs'[f] = refs[f]
      BY Zenon
    <3> QED BY <1>4, <1>5, <1>6, <1>7, <3>1
  <2> QED BY Zenon, <1>4, <2>1, <2>2 DEF CountInv
<1>9. \A g \in Files \ {f} : SameFile(g)
  <2>1. \A g \in Files \ {f} : \A u \in ThreadsOf(g) : pc'[u] = pc[u]
    BY Zenon, OneThread DEF f
  <2> QED BY Zenon, <1>4, <2>1 DEF SameFile
<1>10. \A g \in Files : CountInv(g)'
  BY Zenon, <1>1, <1>8, <1>9, OneFile
<1>11. IdsExclusive'
  BY Zenon, SameIds
<1>12. ListInv'
  BY Zenon, SameLists
<1> QED BY Zenon, <1>10, <1>11, <1>12

(* Only CREATE_VCPU's start makes a thread one that creates a vcpu.        *)
LEMMA OldSlots ==
  ASSUME TypeInv, SlotsExclusive, NEW t \in Files \X Threads, NEW l, l # "create",
         Goto(t, l), vcpus' = vcpus, vcpu_bitmap' = vcpu_bitmap,
         \A u \in Files \X Threads : u # t => slot'[u] = slot[u]
  PROVE  SlotsExclusive'
<1>1. ASSUME NEW u \in Files \X Threads, pc'[u] = "create"
      PROVE  pc[u] = "create" /\ slot'[u] = slot[u]
  <2>1. pc'[t] = l
    BY Zenon, OneThread
  <2>2. u # t => pc'[u] = pc[u]
    BY ZenonT(30), OneThread
  <2> QED BY Zenon, <1>1, <2>1, <2>2
<1> QED BY Zenon, <1>1, SameSlots

(* A call that was not counted returns, and has touched no vcpu.           *)
LEMMA ReturnInv ==
  ASSUME InstanceInv, NEW t \in Files \X Threads, pc[t] \in UncountedAt, Return(t),
         UNCHANGED <<running_vcpus, fd, alive, id, instances_bitmap, reclaim_list,
                     force_release, vcpus, vcpu_bitmap>>
  PROVE  InstanceInv'
<1> USE DEF InstanceInv
<1>1. /\ Goto(t, "user") /\ slot' = [slot EXCEPT ![t] = None] /\ Fput(t[1], 1)
  BY Zenon DEF Return
<1>2. /\ \A g \in Files : CountInv(g)'
      /\ IdsExclusive' /\ ListInv' /\ refs' \in [Files -> Nat]
      /\ file' \in [Files -> {"closed", "open", "shutdown", "synced"}]
  BY Zenon, <1>1, ReturnUncounted
<1>3. SlotsExclusive'
  <2>1. \A u \in Files \X Threads : u # t => slot'[u] = slot[u]
    BY Zenon, <1>1 DEF TypeInv
  <2> QED BY Zenon, <1>1, <2>1, OldSlots
<1>4. TypeInv'
  <2>1. /\ slot' \in [Files \X Threads -> Slots \cup {None}]
        /\ pc' \in [Files \X Threads -> {"user", "create", "configure", "enter", "run",
                                          "refuse", "done", "gone"}]
    BY Zenon, <1>1 DEF TypeInv, Goto
  <2> QED BY Zenon, <1>2, <2>1 DEF TypeInv
<1> QED BY Zenon, <1>2, <1>3, <1>4

LEMMA ConfigureInv ==
  ASSUME InstanceInv, NEW t \in Files \X Threads, Configure(t)
  PROVE  InstanceInv'
<1> USE DEF InstanceInv
<1>1. /\ pc[t] = "configure"
      /\ UNCHANGED <<fd, alive, instances_bitmap, id, vcpu_bitmap, vcpus, running_vcpus,
                     reclaim_list, force_release>>
  BY Zenon DEF Configure, reclaimVars
<1>2. t[1] \in Files /\ t \in ThreadsOf(t[1])
  BY Zenon, ThreadFacts
<1>3. pc[t] \in UncountedAt /\ pc[t] \notin CountedAt /\ InCall(t)
  BY <1>1 DEF UncountedAt, CountedAt, InCall
<1>4. CASE Goto(t, "enter") /\ UNCHANGED <<slot, refs, file>>
  <2>1. /\ Uncounted(t[1])' = Uncounted(t[1]) /\ Counted(t[1])' = Counted(t[1])
    <3>1. "enter" \in UncountedAt /\ "enter" \notin CountedAt
      BY DEF UncountedAt, CountedAt
    <3> QED BY Zenon, <1>2, <1>3, <1>4, <3>1, Moved
  <2>2. running_vcpus[t[1]] \in Nat /\ Counted(t[1]) <= running_vcpus[t[1]]
    BY Zenon, <1>2 DEF TypeInv, CountInv
  <2>3. (\A g \in Files : CountInv(g)') /\ IdsExclusive' /\ ListInv'
    BY Zenon, <1>1, <1>3, <1>4, <2>1, <2>2, InsideCall
  <2>4. SlotsExclusive'
    BY Zenon, <1>1, <1>4, OldSlots
  <2>5. TypeInv'
    BY Zenon, <1>1, <1>4 DEF TypeInv, Goto
  <2> QED BY Zenon, <2>3, <2>4, <2>5
<1>5. CASE Return(t)
  BY Zenon, <1>1, <1>3, <1>5, ReturnInv
<1> QED BY Zenon, <1>4, <1>5 DEF Configure

LEMMA EnterInv ==
  ASSUME InstanceInv, NEW t \in Files \X Threads, Enter(t)
  PROVE  InstanceInv'
<1> USE DEF InstanceInv
<1>1. /\ pc[t] = "enter"
      /\ UNCHANGED <<fd, alive, instances_bitmap, id, vcpu_bitmap, vcpus,
                     reclaim_list, force_release>>
  BY Zenon DEF Enter, reclaimVars
<1>2. t[1] \in Files /\ t \in ThreadsOf(t[1])
  BY Zenon, ThreadFacts
<1>3. pc[t] \in UncountedAt /\ pc[t] \notin CountedAt /\ InCall(t)
  BY <1>1 DEF UncountedAt, CountedAt, InCall
<1>4. CASE /\ running_vcpus' = [running_vcpus EXCEPT ![t[1]] = @ + 1]
           /\ Goto(t, "run") /\ UNCHANGED <<slot, refs, file>>
  <2>1. /\ Uncounted(t[1])' = Uncounted(t[1]) - 1 /\ Counted(t[1])' = Counted(t[1]) + 1
        /\ Uncounted(t[1]) \in Nat /\ Counted(t[1]) \in Nat
    <3>1. "run" \notin UncountedAt /\ "run" \in CountedAt
      BY DEF UncountedAt, CountedAt
    <3> QED BY Zenon, <1>2, <1>3, <1>4, <3>1, Moved
  <2>2. running_vcpus[t[1]] \in Nat /\ Counted(t[1]) <= running_vcpus[t[1]]
    BY Zenon, <1>2 DEF TypeInv, CountInv
  <2>3. /\ running_vcpus'[t[1]] = running_vcpus[t[1]] + 1
        /\ \A g \in Files \ {t[1]} : running_vcpus'[g] = running_vcpus[g]
    BY Zenon, <1>2, <1>4 DEF TypeInv
  <2>4. /\ running_vcpus'[t[1]] \in Nat /\ Counted(t[1])' <= running_vcpus'[t[1]]
        /\ running_vcpus'[t[1]] + Uncounted(t[1])' = running_vcpus[t[1]] + Uncounted(t[1])
    BY <2>1, <2>2, <2>3
  <2>5. (\A g \in Files : CountInv(g)') /\ IdsExclusive' /\ ListInv'
    BY Zenon, <1>1, <1>3, <1>4, <2>3, <2>4, InsideCall
  <2>6. SlotsExclusive'
    BY Zenon, <1>1, <1>4, OldSlots
  <2>7. TypeInv'
    <3>1. running_vcpus' \in [Files -> Nat]
      BY <1>2, <1>4 DEF TypeInv
    <3> QED BY Zenon, <1>1, <1>4, <3>1 DEF TypeInv, Goto
  <2> QED BY Zenon, <2>5, <2>6, <2>7
<1>5. CASE Return(t) /\ running_vcpus' = running_vcpus
  BY Zenon, <1>1, <1>3, <1>5, ReturnInv
<1> QED BY Zenon, <1>4, <1>5 DEF Enter

LEMMA LeaveRunInv ==
  ASSUME InstanceInv, NEW t \in Files \X Threads, LeaveRun(t)
  PROVE  InstanceInv'
<1> USE DEF InstanceInv
<1> DEFINE f == t[1]
<1>1. /\ pc[t] \in {"run", "done"} /\ Goto(t, "user")
      /\ slot' = [slot EXCEPT ![t] = None] /\ Fput(f, 1)
      /\ running_vcpus' = [running_vcpus EXCEPT ![f] = @ - 1]
      /\ UNCHANGED <<fd, alive, instances_bitmap, id, vcpu_bitmap, vcpus,
                     reclaim_list, force_release>>
  BY Zenon DEF LeaveRun, Return, reclaimVars
<1>2. f \in Files /\ t \in ThreadsOf(f) /\ CountInv(f)
  BY Zenon, ThreadFacts
<1>3. /\ pc[t] \notin UncountedAt /\ pc[t] \in CountedAt /\ InCall(t)
      /\ "user" \notin UncountedAt /\ "user" \notin CountedAt
  BY <1>1 DEF UncountedAt, CountedAt, InCall
<1>4. file[f] = "open" /\ alive[f]
  BY Zenon, <1>2, <1>3, CallHolds
<1> HIDE DEF f
<1>5. /\ refs[f] > 0 /\ refs[f] = running_vcpus[f] + Descriptors(f) + Uncounted(f)
      /\ Counted(f) <= running_vcpus[f]
  BY Zenon, <1>2, <1>4 DEF CountInv
<1>6. /\ Counted(f) \in Nat /\ Counted(f) # 0 /\ Counted(f)' = Counted(f) - 1
      /\ Uncounted(f)' \in Nat /\ Counted(f)' \in Nat /\ Uncounted(f)' = Uncounted(f)
  BY Zenon, <1>1, <1>2, <1>3, Moved
<1>7. /\ refs[f] \in Nat /\ running_vcpus[f] \in Nat /\ Descriptors(f) \in {0, 1}
      /\ Descriptors(f)' = Descriptors(f)
  BY Zenon, <1>1, <1>2 DEF TypeInv, Descriptors
<1>8. /\ running_vcpus'[f] = running_vcpus[f] - 1 /\ DOMAIN running_vcpus' = Files
      /\ \A g \in Files \ {f} : running_vcpus'[g] = running_vcpus[g]
  BY Zenon, <1>1, <1>2 DEF TypeInv
<1>9. /\ running_vcpus'[f] \in Nat /\ Counted(f)' <= running_vcpus'[f]
      /\ running_vcpus'[f] + Descriptors(f)' + Uncounted(f)' = refs[f] - 1
  BY <1>5, <1>6, <1>7, <1>8
<1>10. pc' \in [Files \X Threads -> {"user", "create", "configure", "enter", "run",
                                      "refuse", "done", "gone"}]
  BY Zenon, <1>1 DEF TypeInv, Goto
<1>11. CountInv(f)'
  BY Zenon, <1>1, <1>2, <1>4, <1>5, <1>6, <1>9, <1>10, PutOne
<1>12. 1 <= refs[f]
  BY <1>5, <1>7
<1>13. /\ refs' \in [Files -> Nat]
       /\ file' \in [Files -> {"closed", "open", "shutdown", "synced"}]
       /\ file'[f] \in {"shutdown", "open"}
       /\ \A g \in Files \ {f} : refs'[g] = refs[g] /\ file'[g] = file[g]
  BY <1>1, <1>2, <1>4, <1>12, FputFacts
<1>14. \A g \in Files \ {f} : SameFile(g)
  <2>1. \A g \in Files \ {f} : \A u \in ThreadsOf(g) : pc'[u] = pc[u]
    BY Zenon, <1>1, OneThread DEF f
  <2> QED BY Zenon, <1>1, <1>8, <1>13, <2>1 DEF SameFile
<1>15. \A g \in Files : CountInv(g)'
  BY Zenon, <1>2, <1>11, <1>14, OneFile
<1>16. \A g \in Files : file'[g] # "closed" => file[g] # "closed"
  BY <1>4, <1>13
<1>17. IdsExclusive'
  BY Zenon, <1>1, <1>16, SameIds
<1>18. ListInv'
  BY Zenon, <1>1, <1>2, <1>4, <1>13, SameLists
<1>19. SlotsExclusive'
  <2>1. \A u \in Files \X Threads : u # t => slot'[u] = slot[u]
    BY Zenon, <1>1 DEF TypeInv
  <2> QED BY Zenon, <1>1, <2>1, OldSlots
<1>20. TypeInv'
  <2>1. slot' \in [Files \X Threads -> Slots \cup {None}]
    BY Zenon, <1>1 DEF TypeInv
  <2>2. running_vcpus' \in [Files -> Nat]
    BY <1>1, <1>8, <1>9 DEF TypeInv
  <2> QED BY Zenon, <1>1, <1>10, <1>13, <2>1, <2>2 DEF TypeInv
<1> QED BY Zenon, <1>15, <1>17, <1>18, <1>19, <1>20

(* A thread goes on inside launch, or ends there: running_vcpus counts it  *)
(* still.                                                                  *)
LEMMA StillCounted ==
  ASSUME InstanceInv, NEW t \in Files \X Threads, pc[t] \in CountedAt, NEW l,
         l \in {"refuse", "done", "gone"}, Goto(t, l),
         UNCHANGED <<file, refs, fd, alive, id, instances_bitmap, reclaim_list,
                     force_release, running_vcpus>>
  PROVE  /\ (\A g \in Files : CountInv(g)') /\ IdsExclusive' /\ ListInv'
         /\ pc' \in [Files \X Threads -> {"user", "create", "configure", "enter", "run",
                                           "refuse", "done", "gone"}]
<1> USE DEF InstanceInv
<1>1. t[1] \in Files /\ t \in ThreadsOf(t[1])
  BY Zenon, ThreadFacts
<1>2. pc[t] \notin UncountedAt /\ InCall(t) /\ l \notin UncountedAt
  BY DEF UncountedAt, CountedAt, InCall
<1>3. /\ Uncounted(t[1])' = Uncounted(t[1]) /\ Counted(t[1]) \in Nat
      /\ Counted(t[1])' = Counted(t[1]) \/ Counted(t[1])' = Counted(t[1]) - 1
  BY Zenon, <1>1, <1>2, Moved
<1>4. running_vcpus[t[1]] \in Nat /\ Counted(t[1]) <= running_vcpus[t[1]]
  BY Zenon, <1>1 DEF TypeInv, CountInv
<1>5. Counted(t[1])' <= running_vcpus[t[1]]
  BY <1>3, <1>4
<1>6. (\A g \in Files : CountInv(g)') /\ IdsExclusive' /\ ListInv'
  BY Zenon, <1>2, <1>3, <1>4, <1>5, InsideCall
<1>7. l \in {"user", "create", "configure", "enter", "run", "refuse", "done", "gone"}
  OBVIOUS
<1> QED BY Zenon, <1>6, <1>7 DEF TypeInv, Goto

(* vcpu_release gives back the number of a vcpu there is, and of no other. *)
LEMMA ReleasedSlots ==
  ASSUME TypeInv, SlotsExclusive, NEW f \in Files, NEW s, Released(f, s),
         \A t \in Files \X Threads :
           pc'[t] = "create" => pc[t] = "create" /\ slot'[t] = slot[t]
  PROVE  /\ SlotsExclusive'
         /\ vcpus' \in [Files -> SUBSET Slots] /\ vcpu_bitmap' \in [Files -> SUBSET Slots]
<1>1. /\ vcpus' = [vcpus EXCEPT ![f] = @ \ {s}]
      /\ vcpu_bitmap' = IF s \in vcpus[f] THEN [vcpu_bitmap EXCEPT ![f] = @ \ {s}]
                        ELSE vcpu_bitmap
  BY Zenon DEF Released
<1>2. /\ vcpus' \in [Files -> SUBSET Slots]
      /\ vcpus'[f] = vcpus[f] \ {s} /\ \A g \in Files \ {f} : vcpus'[g] = vcpus[g]
  BY <1>1 DEF TypeInv
<1>3. /\ vcpu_bitmap' \in [Files -> SUBSET Slots]
      /\ vcpu_bitmap'[f] = IF s \in vcpus[f] THEN vcpu_bitmap[f] \ {s} ELSE vcpu_bitmap[f]
      /\ \A g \in Files \ {f} : vcpu_bitmap'[g] = vcpu_bitmap[g]
  <2>1. CASE s \in vcpus[f]
    BY <1>1, <2>1 DEF TypeInv
  <2>2. CASE s \notin vcpus[f]
    BY Zenon, <1>1, <2>2 DEF TypeInv
  <2> QED BY Zenon, <2>1, <2>2
<1>4. \A g \in Files : ThreadsOf(g) \subseteq Files \X Threads /\ ThreadsOf(g)' = ThreadsOf(g)
  BY Zenon, ThreadFacts DEF ThreadsOf
<1>5. \A g \in Files : vcpus[g] \subseteq vcpu_bitmap[g]
  BY Zenon DEF SlotsExclusive
<1>6. ASSUME NEW g \in Files PROVE vcpus'[g] \subseteq vcpu_bitmap'[g]
  <2>1. CASE g = f
    BY <1>2, <1>3, <1>5, <2>1
  <2>2. CASE g # f
    BY Zenon, <1>2, <1>3, <1>5, <2>2
  <2> QED BY Zenon, <2>1, <2>2
<1>7. ASSUME NEW g \in Files, NEW u \in ThreadsOf(g), pc'[u] = "create"
      PROVE  /\ slot'[u] \in vcpu_bitmap'[g] \ vcpus'[g]
             /\ \A w \in ThreadsOf(g) :
                  w # u /\ pc'[w] = "create" => slot'[w] # slot'[u]
  <2>1. pc[u] = "create" /\ slot'[u] = slot[u]
    BY Zenon, <1>4, <1>7
  <2>2. slot[u] \in vcpu_bitmap[g] \ vcpus[g]
    BY Zenon, <2>1 DEF SlotsExclusive
  <2>3. slot[u] \in vcpu_bitmap'[g] \ vcpus'[g]
    <3>1. CASE g = f
      BY <1>2, <1>3, <2>2, <3>1
    <3>2. CASE g # f
      BY Zenon, <1>2, <1>3, <2>2, <3>2
    <3> QED BY Zenon, <3>1, <3>2
  <2>4. ASSUME NEW w \in ThreadsOf(g), w # u, pc'[w] = "create"
        PROVE  slot'[w] # slot'[u]
    <3>1. pc[w] = "create" /\ slot'[w] = slot[w]
      BY Zenon, <1>4, <2>4
    <3>2. slot[w] # slot[u]
      BY <2>1, <2>4, <3>1 DEF SlotsExclusive
    <3> QED BY Zenon, <2>1, <3>1, <3>2
  <2> QED BY Zenon, <2>1, <2>3, <2>4
<1>8. SlotsExclusive'
  BY Zenon, <1>4, <1>6, <1>7 DEF SlotsExclusive
<1> QED BY Zenon, <1>2, <1>3, <1>8

LEMMA ShutdownInv ==
  ASSUME InstanceInv, NEW t \in Files \X Threads, ShutdownVcpus(t) \/ ShutdownInstance(t)
  PROVE  InstanceInv'
<1> USE DEF InstanceInv
<1>1. /\ pc[t] \in {"run", "refuse"} /\ (Goto(t, "refuse") \/ Goto(t, "done"))
      /\ UNCHANGED <<file, refs, fd, alive, id, instances_bitmap, reclaim_list,
                     force_release, running_vcpus, vcpus, vcpu_bitmap, slot>>
  BY Zenon DEF ShutdownVcpus, ShutdownInstance, fileVars, reclaimVars
<1>2. PICK l \in {"refuse", "done"} : Goto(t, l)
  BY Zenon, <1>1
<1>3. pc[t] \in CountedAt /\ l \in {"refuse", "done", "gone"} /\ l # "create"
  BY <1>1 DEF CountedAt
<1>4. /\ (\A g \in Files : CountInv(g)') /\ IdsExclusive' /\ ListInv'
      /\ pc' \in [Files \X Threads -> {"user", "create", "configure", "enter", "run",
                                        "refuse", "done", "gone"}]
  BY Zenon, <1>1, <1>2, <1>3, StillCounted
<1>5. SlotsExclusive'
  BY Zenon, <1>1, <1>2, <1>3, OldSlots
<1>6. TypeInv'
  BY Zenon, <1>1, <1>4 DEF TypeInv
<1> QED BY Zenon, <1>4, <1>5, <1>6

LEMMA ThreadEndsInv ==
  ASSUME InstanceInv, NEW t \in Files \X Threads, ExitThread(t) \/ ThreadDies(t)
  PROVE  InstanceInv'
<1> USE DEF InstanceInv
<1>1. /\ pc[t] = "run" /\ Goto(t, "gone") /\ slot' = [slot EXCEPT ![t] = None]
      /\ UNCHANGED <<file, refs, fd, alive, id, instances_bitmap, reclaim_list,
                     force_release, running_vcpus>>
  BY Zenon DEF ExitThread, ThreadDies, fileVars, instVars, reclaimVars
<1>2. Released(t[1], slot[t]) \/ UNCHANGED <<vcpus, vcpu_bitmap>>
  BY Zenon DEF ExitThread, ThreadDies, instVars
<1>3. /\ (\A g \in Files : CountInv(g)') /\ IdsExclusive' /\ ListInv'
      /\ pc' \in [Files \X Threads -> {"user", "create", "configure", "enter", "run",
                                        "refuse", "done", "gone"}]
  <2>1. pc[t] \in CountedAt
    BY Zenon, <1>1 DEF CountedAt
  <2> QED BY Zenon, <1>1, <2>1, StillCounted
<1>4. \A u \in Files \X Threads : u # t => slot'[u] = slot[u]
  BY Zenon, <1>1 DEF TypeInv
<1>5. ASSUME NEW u \in Files \X Threads, pc'[u] = "create"
      PROVE  pc[u] = "create" /\ slot'[u] = slot[u]
  <2>1. pc'[t] = "gone" /\ (u # t => pc'[u] = pc[u])
    BY ZenonT(30), <1>1, OneThread
  <2>2. u # t
    BY <1>5, <2>1
  <2> QED BY Zenon, <1>4, <1>5, <2>1, <2>2
<1>6. /\ SlotsExclusive'
      /\ vcpus' \in [Files -> SUBSET Slots] /\ vcpu_bitmap' \in [Files -> SUBSET Slots]
  <2>1. CASE Released(t[1], slot[t])
    <3>1. t[1] \in Files
      BY Zenon, ThreadFacts
    <3> QED BY Zenon, <1>5, <2>1, <3>1, ReleasedSlots
  <2>2. CASE UNCHANGED <<vcpus, vcpu_bitmap>>
    <3>1. SlotsExclusive'
      BY Zenon, <1>5, <2>2, SameSlots
    <3> QED BY Zenon, <2>2, <3>1 DEF TypeInv
  <2> QED BY Zenon, <1>2, <2>1, <2>2
<1>7. slot' \in [Files \X Threads -> Slots \cup {None}]
  BY Zenon, <1>1 DEF TypeInv
<1>8. TypeInv'
  BY Zenon, <1>1, <1>3, <1>6, <1>7 DEF TypeInv
<1> QED BY Zenon, <1>3, <1>6, <1>8

LEMMA ReleaseVcpuInv ==
  ASSUME InstanceInv, NEW t \in Files \X Threads, NEW s \in Slots, ReleaseVcpu(t, s)
  PROVE  InstanceInv'
<1> USE DEF InstanceInv
<1>1. /\ Released(t[1], s)
      /\ UNCHANGED <<file, refs, fd, alive, id, instances_bitmap, reclaim_list,
                     force_release, running_vcpus, pc, slot>>
  BY Zenon DEF ReleaseVcpu, fileVars, reclaimVars
<1>2. t[1] \in Files
  BY Zenon, ThreadFacts
<1>3. /\ SlotsExclusive'
      /\ vcpus' \in [Files -> SUBSET Slots] /\ vcpu_bitmap' \in [Files -> SUBSET Slots]
  BY Zenon, <1>1, <1>2, ReleasedSlots
<1>4. TypeInv'
  BY Zenon, <1>1, <1>3 DEF TypeInv
<1>5. \A g \in Files : CountInv(g)'
  BY Zenon, <1>1, OtherFile
<1>6. IdsExclusive' /\ ListInv'
  BY Zenon, <1>1, SameIds, SameLists
<1> QED BY Zenon, <1>3, <1>4, <1>5, <1>6

(* An ioctl starts: one reference more, for a call that is not counted.    *)
LEMMA StartCall ==
  ASSUME InstanceInv, NEW t \in Files \X Threads, Fget(t), NEW l,
         l \in {"create", "configure"}, Goto(t, l),
         UNCHANGED <<file, fd, alive, id, instances_bitmap, reclaim_list,
                     force_release, running_vcpus>>
  PROVE  /\ (\A g \in Files : CountInv(g)') /\ IdsExclusive' /\ ListInv'
         /\ refs' \in [Files -> Nat]
         /\ pc' \in [Files \X Threads -> {"user", "create", "configure", "enter", "run",
                                           "refuse", "done", "gone"}]
<1> USE DEF InstanceInv
<1> DEFINE f == t[1]
<1>1. pc[t] = "user" /\ fd[f] /\ refs' = [refs EXCEPT ![f] = @ + 1]
  BY Zenon DEF Fget
<1>2. f \in Files /\ t \in ThreadsOf(f) /\ CountInv(f)
  BY Zenon, ThreadFacts
<1>3. file[f] = "open" /\ alive[f]
  BY Zenon, <1>1, <1>2 DEF CountInv
<1>4. /\ pc[t] \notin UncountedAt /\ l \in UncountedAt
      /\ pc[t] \notin CountedAt /\ l \notin CountedAt
  BY <1>1 DEF UncountedAt, CountedAt
<1>5. \A g \in Files \ {f} : \A u \in ThreadsOf(g) : pc'[u] = pc[u]
  BY Zenon, OneThread
<1> HIDE DEF f
<1>6. /\ Uncounted(f) \in Nat /\ Uncounted(f)' = Uncounted(f) + 1
      /\ Counted(f)' = Counted(f)
  BY Zenon, <1>2, <1>4, Moved
<1>7. /\ refs[f] > 0 /\ refs[f] = running_vcpus[f] + Descriptors(f) + Uncounted(f)
      /\ Counted(f) <= running_vcpus[f]
  BY Zenon, <1>2, <1>3 DEF CountInv
<1>8. /\ refs[f] \in Nat /\ running_vcpus[f] \in Nat /\ Descriptors(f) \in {0, 1}
      /\ Descriptors(f)' = Descriptors(f) /\ running_vcpus'[f] = running_vcpus[f]
  BY Zenon, <1>2 DEF TypeInv, Descriptors
<1>9. refs'[f] = refs[f] + 1 /\ \A g \in Files \ {f} : refs'[g] = refs[g]
  BY Zenon, <1>1, <1>2 DEF TypeInv
<1>10. CountInv(f)'
  <2>1. /\ refs'[f] > 0
        /\ refs'[f] = running_vcpus'[f] + Descriptors(f)' + Uncounted(f)'
    BY <1>6, <1>7, <1>8, <1>9
  <2>2. file'[f] = "open" /\ alive'[f] /\ Counted(f)' <= running_vcpus'[f]
    BY Zenon, <1>3, <1>6, <1>7, <1>8
  <2> QED BY Zenon, <2>1, <2>2 DEF CountInv
<1>11. \A g \in Files \ {f} : SameFile(g)
  BY Zenon, <1>5, <1>9 DEF SameFile
<1>12. \A g \in Files : CountInv(g)'
  BY Zenon, <1>2, <1>10, <1>11, OneFile
<1>13. IdsExclusive' /\ ListInv'
  BY Zenon, SameIds, SameLists
<1>14. refs' \in [Files -> Nat]
  BY <1>1, <1>2 DEF TypeInv
<1>15. l \in {"user", "create", "configure", "enter", "run", "refuse", "done", "gone"}
  OBVIOUS
<1> QED BY Zenon, <1>12, <1>13, <1>14, <1>15 DEF TypeInv, Goto

LEMMA CreateVcpuInv ==
  ASSUME InstanceInv, NEW t \in Files \X Threads, CreateVcpu(t)
  PROVE  InstanceInv'
<1> USE DEF InstanceInv
<1> DEFINE f == t[1]
           s == FirstFree(vcpu_bitmap[f], Slots)
<1>1. /\ vcpu_bitmap[f] # Slots /\ Fget(t) /\ Goto(t, "create")
      /\ slot' = [slot EXCEPT ![t] = s]
      /\ vcpu_bitmap' = [vcpu_bitmap EXCEPT ![f] = @ \cup {s}]
      /\ UNCHANGED <<file, fd, alive, id, instances_bitmap, reclaim_list,
                     force_release, running_vcpus, vcpus>>
  BY Zenon DEF CreateVcpu, reclaimVars
<1>2. f \in Files /\ t \in ThreadsOf(f)
  BY Zenon, ThreadFacts
<1>3. s \in Slots \ vcpu_bitmap[f]
  <2>1. VM_MAX_VCPUS \in Nat
    BY SizesAssumption
  <2>2. vcpu_bitmap[f] \in SUBSET (0 .. VM_MAX_VCPUS - 1)
    BY Zenon, <1>2 DEF TypeInv, Slots
  <2> QED BY Zenon, <1>1, <2>1, <2>2, FirstFreeIsFree DEF Slots
<1>4. /\ (\A g \in Files : CountInv(g)') /\ IdsExclusive' /\ ListInv'
      /\ refs' \in [Files -> Nat]
      /\ pc' \in [Files \X Threads -> {"user", "create", "configure", "enter", "run",
                                        "refuse", "done", "gone"}]
  <2>1. "create" \in {"create", "configure"}
    BY Zenon
  <2> QED BY Zenon, <1>1, <2>1, StartCall
<1> HIDE DEF f, s
<1>5. /\ vcpu_bitmap'[f] = vcpu_bitmap[f] \cup {s}
      /\ \A g \in Files \ {f} : vcpu_bitmap'[g] = vcpu_bitmap[g]
      /\ vcpu_bitmap' \in [Files -> SUBSET Slots]
  BY <1>1, <1>2, <1>3 DEF TypeInv
<1>6. slot'[t] = s /\ \A u \in Files \X Threads : u # t => slot'[u] = slot[u]
  BY Zenon, <1>1 DEF TypeInv
<1>7. slot' \in [Files \X Threads -> Slots \cup {None}]
  BY Zenon, <1>1, <1>3 DEF TypeInv
<1>8. TypeInv'
  BY Zenon, <1>1, <1>4, <1>5, <1>7 DEF TypeInv
<1>9. \A g \in Files : \A u \in ThreadsOf(g) : u \in Files \X Threads /\ (u = t => g = f)
  BY Zenon, ThreadFacts DEF f
<1>10. ASSUME NEW g \in Files, NEW u \in ThreadsOf(g), u # t, pc'[u] = "create"
       PROVE  pc[u] = "create" /\ slot'[u] = slot[u]
              /\ slot[u] \in vcpu_bitmap[g] \ vcpus[g]
  <2>1. u \in Files \X Threads
    BY Zenon, <1>9
  <2>2. pc'[u] = pc[u]
    BY ZenonT(30), <1>1, <1>10, <2>1, OneThread
  <2>3. pc[u] = "create" /\ slot'[u] = slot[u]
    BY Zenon, <1>6, <1>10, <2>1, <2>2
  <2> QED BY Zenon, <2>3 DEF SlotsExclusive
<1>11. SlotsExclusive'
  <2> SUFFICES ASSUME NEW g \in Files
               PROVE  /\ vcpus'[g] \subseteq vcpu_bitmap'[g]
                      /\ \A u \in ThreadsOf(g) : pc'[u] = "create" =>
                           /\ slot'[u] \in vcpu_bitmap'[g] \ vcpus'[g]
                           /\ \A w \in ThreadsOf(g) :
                                w # u /\ pc'[w] = "create" => slot'[w] # slot'[u]
    BY Zenon DEF SlotsExclusive, ThreadsOf
  <2>1. vcpus[g] \subseteq vcpu_bitmap[g] /\ vcpus'[g] = vcpus[g]
    BY Zenon, <1>1 DEF SlotsExclusive
  <2>2. vcpus'[g] \subseteq vcpu_bitmap'[g] /\ vcpu_bitmap[g] \subseteq vcpu_bitmap'[g]
    BY <1>5, <2>1
  <2>3. ASSUME NEW u \in ThreadsOf(g), pc'[u] = "create"
        PROVE  slot'[u] \in vcpu_bitmap'[g] \ vcpus'[g]
    <3>1. CASE u = t
      BY <1>3, <1>5, <1>6, <1>9, <2>1, <3>1
    <3>2. CASE u # t
      BY Zenon, <1>10, <2>1, <2>2, <2>3, <3>2
    <3> QED BY Zenon, <3>1, <3>2
  <2>4. ASSUME NEW u \in ThreadsOf(g), NEW w \in ThreadsOf(g), w # u,
               pc'[u] = "create", pc'[w] = "create"
        PROVE  slot'[w] # slot'[u]
    <3>1. CASE u = t
      <4>1. slot'[w] \in vcpu_bitmap[g] /\ g = f /\ slot'[u] = s
        BY Zenon, <1>6, <1>9, <1>10, <2>4, <3>1
      <4> QED BY Zenon, <1>3, <4>1
    <3>2. CASE w = t
      <4>1. slot'[u] \in vcpu_bitmap[g] /\ g = f /\ slot'[w] = s
        BY Zenon, <1>6, <1>9, <1>10, <2>4, <3>2
      <4> QED BY Zenon, <1>3, <4>1
    <3>3. CASE u # t /\ w # t
      <4>1. pc[u] = "create" /\ slot'[u] = slot[u] /\ pc[w] = "create" /\ slot'[w] = slot[w]
        BY Zenon, <1>10, <2>4, <3>3
      <4>2. slot[w] # slot[u]
        BY Zenon, <2>4, <4>1 DEF SlotsExclusive
      <4> QED BY Zenon, <4>1, <4>2
    <3> QED BY Zenon, <3>1, <3>2, <3>3
  <2> QED BY Zenon, <2>2, <2>3, <2>4
<1> QED BY Zenon, <1>4, <1>8, <1>11

LEMMA RunVcpuInv ==
  ASSUME InstanceInv, NEW t \in Files \X Threads, NEW s \in Slots, RunVcpu(t, s)
  PROVE  InstanceInv'
<1> USE DEF InstanceInv
<1>1. /\ Fget(t) /\ Goto(t, "configure") /\ slot' = [slot EXCEPT ![t] = s]
      /\ UNCHANGED <<file, fd, alive, id, instances_bitmap, reclaim_list,
                     force_release, running_vcpus, vcpus, vcpu_bitmap>>
  BY Zenon DEF RunVcpu, instVars, reclaimVars
<1>2. /\ (\A g \in Files : CountInv(g)') /\ IdsExclusive' /\ ListInv'
      /\ refs' \in [Files -> Nat]
      /\ pc' \in [Files \X Threads -> {"user", "create", "configure", "enter", "run",
                                        "refuse", "done", "gone"}]
  <2>1. "configure" \in {"create", "configure"}
    BY Zenon
  <2> QED BY Zenon, <1>1, <2>1, StartCall
<1>3. \A u \in Files \X Threads : u # t => slot'[u] = slot[u]
  BY Zenon, <1>1 DEF TypeInv
<1>4. SlotsExclusive'
  <2>1. "configure" # "create"
    BY Zenon
  <2> QED BY Zenon, <1>1, <1>3, <2>1, OldSlots
<1>5. slot' \in [Files \X Threads -> Slots \cup {None}]
  BY Zenon, <1>1 DEF TypeInv
<1>6. TypeInv'
  BY Zenon, <1>1, <1>2, <1>5 DEF TypeInv
<1> QED BY Zenon, <1>2, <1>4, <1>6

(* Places no thread of a process is in.                                    *)
LEMMA NobodyAt ==
  ASSUME NEW f \in Files, NEW p, NEW L, \A t \in ThreadsOf(f) : p[t] \notin L
  PROVE  NumberAt(f, p, L) = 0
<1>1. At(f, p, L) = {}
  BY Zenon DEF At
<1> QED BY Zenon, <1>1, FS_EmptySet DEF NumberAt

(* A process none of whose threads is in a call counts none, afterwards    *)
(* or before.                                                              *)
LEMMA NoneCounted ==
  ASSUME NEW f \in Files
  PROVE  /\ (\A t \in ThreadsOf(f) : pc[t] \in {"user", "gone"}) =>
              Uncounted(f) = 0 /\ Counted(f) = 0
         /\ (\A t \in ThreadsOf(f) : pc'[t] \in {"user", "gone"}) =>
              Uncounted(f)' = 0 /\ Counted(f)' = 0
<1>1. \A l \in {"user", "gone"} : l \notin UncountedAt /\ l \notin CountedAt
  BY DEF UncountedAt, CountedAt
<1>2. ASSUME \A t \in ThreadsOf(f) : pc[t] \in {"user", "gone"}
      PROVE  Uncounted(f) = 0 /\ Counted(f) = 0
  BY Zenon, <1>1, <1>2, NobodyAt DEF Uncounted, Counted
<1>3. ASSUME \A t \in ThreadsOf(f) : pc'[t] \in {"user", "gone"}
      PROVE  Uncounted(f)' = 0 /\ Counted(f)' = 0
  <2>1. NumberAt(f, pc', UncountedAt) = 0 /\ NumberAt(f, pc', CountedAt) = 0
    BY Zenon, <1>1, <1>3, NobodyAt
  <2> QED BY Zenon, <2>1
          DEF Uncounted, Counted, NumberAt, At, ThreadsOf, UncountedAt, CountedAt
<1> QED BY Zenon, <1>2, <1>3

LEMMA OpenInv ==
  ASSUME InstanceInv, NEW f \in Files, Open(f)
  PROVE  InstanceInv'
<1> USE DEF InstanceInv
<1> DEFINE i == FirstFree(instances_bitmap, Ids)
<1>1. /\ file[f] = "closed" /\ ~alive[f] /\ instances_bitmap # Ids
      /\ instances_bitmap' = instances_bitmap \cup {i}
      /\ UNCHANGED <<vcpu_bitmap, vcpus, running_vcpus, slot, reclaim_list, force_release>>
  BY Zenon DEF Open, reclaimVars
<1>2. i \in Ids \ instances_bitmap
  <2>1. INSTANCES_MAX_NUM \in Nat
    BY SizesAssumption
  <2>2. instances_bitmap \in SUBSET (0 .. INSTANCES_MAX_NUM - 1)
    BY Zenon DEF TypeInv, Ids
  <2> QED BY Zenon, <1>1, <2>1, <2>2, FirstFreeIsFree DEF Ids
<1>3. \/ /\ file' = [file EXCEPT ![f] = "open"] /\ refs' = [refs EXCEPT ![f] = 1]
         /\ fd' = [fd EXCEPT ![f] = TRUE] /\ id' = [id EXCEPT ![f] = i]
         /\ alive' = [alive EXCEPT ![f] = TRUE]
         /\ pc' = [t \in Files \X Threads |-> IF t[1] = f THEN "user" ELSE pc[t]]
      \/ UNCHANGED <<file, refs, fd, id, alive, pc>>
  BY Zenon DEF Open
<1> HIDE DEF i
<1>4. instances_bitmap' \subseteq Ids
  BY Zenon, <1>1, <1>2 DEF TypeInv
<1>5. CASE UNCHANGED <<file, refs, fd, id, alive, pc>>
  <2>1. TypeInv'
    BY Zenon, <1>1, <1>4, <1>5 DEF TypeInv
  <2>2. \A g \in Files : CountInv(g)'
    BY Zenon, <1>1, <1>5, OtherFile
  <2>3. IdsExclusive'
    BY Zenon, <1>1, <1>5 DEF IdsExclusive, Live
  <2>4. SlotsExclusive' /\ ListInv'
    BY Zenon, <1>1, <1>5, SameSlots, SameLists
  <2> QED BY Zenon, <2>1, <2>2, <2>3, <2>4
<1>6. CASE /\ file' = [file EXCEPT ![f] = "open"] /\ refs' = [refs EXCEPT ![f] = 1]
           /\ fd' = [fd EXCEPT ![f] = TRUE] /\ id' = [id EXCEPT ![f] = i]
           /\ alive' = [alive EXCEPT ![f] = TRUE]
           /\ pc' = [t \in Files \X Threads |-> IF t[1] = f THEN "user" ELSE pc[t]]
  <2>1. /\ file'[f] = "open" /\ refs'[f] = 1 /\ fd'[f] /\ id'[f] = i /\ alive'[f]
        /\ \A g \in Files \ {f} : /\ file'[g] = file[g] /\ refs'[g] = refs[g]
                                   /\ fd'[g] = fd[g] /\ id'[g] = id[g]
                                   /\ alive'[g] = alive[g]
    BY Zenon, <1>6 DEF TypeInv
  <2>2. /\ \A t \in ThreadsOf(f) : pc'[t] = "user"
        /\ \A g \in Files \ {f} : \A t \in ThreadsOf(g) : pc'[t] = pc[t]
        /\ \A t \in Files \X Threads : pc'[t] \in {"user", pc[t]}
    BY Zenon, <1>6, ThreadFacts
  <2>3. TypeInv'
    <3>1. /\ file' \in [Files -> {"closed", "open", "shutdown", "synced"}]
          /\ fd' \in [Files -> BOOLEAN] /\ alive' \in [Files -> BOOLEAN]
      BY Zenon, <1>6 DEF TypeInv
    <3>2. refs' \in [Files -> Nat]
      BY <1>6 DEF TypeInv
    <3>3. id' \in [Files -> Ids \cup {None}]
      BY Zenon, <1>2, <1>6 DEF TypeInv
    <3>4. pc' \in [Files \X Threads -> {"user", "create", "configure", "enter", "run",
                                         "refuse", "done", "gone"}]
      BY Zenon, <1>6 DEF TypeInv
    <3> QED BY Zenon, <1>1, <1>4, <3>1, <3>2, <3>3, <3>4 DEF TypeInv
  <2>4. CountInv(f)'
    <3>1. running_vcpus'[f] = 0
      BY Zenon, <1>1 DEF CountInv
    <3>2. Uncounted(f)' = 0 /\ Counted(f)' = 0
      <4>1. \A t \in ThreadsOf(f) : pc'[t] \in {"user", "gone"}
        BY Zenon, <2>2
      <4> QED BY Zenon, <4>1, NoneCounted
    <3>3. Descriptors(f)' = 1
      BY Zenon, <2>1 DEF Descriptors
    <3>4. /\ refs'[f] > 0 /\ Counted(f)' <= running_vcpus'[f]
          /\ refs'[f] = running_vcpus'[f] + Descriptors(f)' + Uncounted(f)'
      BY SMTT(30), <2>1, <3>1, <3>2, <3>3
    <3> QED BY Zenon, <2>1, <3>4 DEF CountInv
  <2>5. \A g \in Files : CountInv(g)'
    <3>1. \A g \in Files \ {f} : SameFile(g)
      BY Zenon, <1>1, <2>1, <2>2 DEF SameFile
    <3> QED BY Zenon, <2>4, <3>1, OneFile
  <2>6. IdsExclusive'
    <3>1. ASSUME NEW g \in Files \ {f}, file'[g] # "closed"
          PROVE  id'[g] = id[g] /\ id[g] \in instances_bitmap /\ id[g] # i
      BY Zenon, <1>2, <2>1, <3>1 DEF IdsExclusive, Live
    <3>2. ASSUME NEW g \in Files, file'[g] # "closed" PROVE id'[g] \in instances_bitmap'
      BY Zenon, <1>1, <2>1, <3>1, <3>2
    <3>3. ASSUME NEW g \in Files, NEW h \in Files, g # h,
                 file'[g] # "closed", file'[h] # "closed"
          PROVE  id'[g] # id'[h]
      <4>1. CASE g = f
        BY Zenon, <2>1, <3>1, <3>3, <4>1
      <4>2. CASE h = f
        BY Zenon, <2>1, <3>1, <3>3, <4>2
      <4>3. CASE g # f /\ h # f
        <5>1. file[g] # "closed" /\ file[h] # "closed"
          BY Zenon, <2>1, <3>3, <4>3
        <5>2. id[g] # id[h]
          BY Zenon, <3>3, <5>1 DEF IdsExclusive, Live
        <5> QED BY Zenon, <2>1, <4>3, <5>2
      <4> QED BY Zenon, <4>1, <4>2, <4>3
    <3> QED BY Zenon, <3>2, <3>3 DEF IdsExclusive, Live
  <2>7. SlotsExclusive'
    <3>1. \A t \in Files \X Threads : pc'[t] = "create" => pc[t] = "create"
      BY <2>2
    <3> QED BY Zenon, <1>1, <3>1, SameSlots
  <2>8. ListInv'
    <3>1. \A g \in Files : file[g] = "open" => g # f
      BY <1>1
    <3> QED BY Zenon, <1>1, <2>1, <3>1, SameLists
  <2> QED BY Zenon, <2>3, <2>5, <2>6, <2>7, <2>8
<1> QED BY Zenon, <1>3, <1>5, <1>6

LEMMA CloseInv ==
  ASSUME InstanceInv, NEW f \in Files, Close(f)
  PROVE  InstanceInv'
<1> USE DEF InstanceInv
<1>1. /\ fd[f] /\ fd' = [fd EXCEPT ![f] = FALSE] /\ Fput(f, 1)
      /\ UNCHANGED <<alive, instances_bitmap, id, vcpu_bitmap, vcpus, running_vcpus,
                     reclaim_list, force_release, pc, slot>>
  BY Zenon DEF Close, reclaimVars
<1>2. file[f] = "open" /\ alive[f]
  BY Zenon, <1>1 DEF CountInv
<1>3. /\ refs[f] > 0 /\ refs[f] = running_vcpus[f] + Descriptors(f) + Uncounted(f)
      /\ Counted(f) <= running_vcpus[f]
  BY Zenon, <1>2 DEF CountInv
<1>4. /\ ~fd'[f] /\ \A g \in Files \ {f} : fd'[g] = fd[g]
      /\ fd' \in [Files -> BOOLEAN]
  BY Zenon, <1>1 DEF TypeInv
<1>5. Descriptors(f) = 1 /\ Descriptors(f)' = 0
  BY Zenon, <1>1, <1>4 DEF Descriptors
<1>6. Uncounted(f) \in Nat /\ Counted(f) \in Nat
  <2>1. At(f, pc, UncountedAt) \in SUBSET ThreadsOf(f)
        /\ At(f, pc, CountedAt) \in SUBSET ThreadsOf(f)
    BY Zenon DEF At
  <2> QED BY Zenon, <2>1, FiniteThreads DEF Uncounted, Counted, NumberAt
<1>7. Uncounted(f)' = Uncounted(f) /\ Counted(f)' = Counted(f)
  BY Zenon, <1>1
     DEF Uncounted, Counted, NumberAt, At, ThreadsOf, UncountedAt, CountedAt
<1>8. refs[f] \in Nat /\ running_vcpus[f] \in Nat
  BY Zenon DEF TypeInv
<1>9. CountInv(f)'
  <2>1. running_vcpus'[f] = running_vcpus[f] /\ alive'[f]
    BY Zenon, <1>1, <1>2
  <2>2. running_vcpus'[f] + Descriptors(f)' + Uncounted(f)' = refs[f] - 1
    BY <1>3, <1>5, <1>6, <1>7, <1>8, <2>1
  <2>3. pc' \in [Files \X Threads -> {"user", "create", "configure", "enter", "run",
                                       "refuse", "done", "gone"}]
    BY Zenon, <1>1 DEF TypeInv
  <2>4. Uncounted(f)' \in Nat /\ Counted(f)' \in Nat /\ Counted(f)' <= running_vcpus'[f]
    BY Zenon, <1>3, <1>6, <1>7, <2>1
  <2> QED BY Zenon, <1>1, <1>2, <1>3, <1>8, <2>1, <2>2, <2>3, <2>4, PutOne
<1>10. 1 <= refs[f]
  BY <1>3, <1>8
<1>11. /\ refs' \in [Files -> Nat]
       /\ file' \in [Files -> {"closed", "open", "shutdown", "synced"}]
       /\ file'[f] \in {"shutdown", "open"}
       /\ \A g \in Files \ {f} : refs'[g] = refs[g] /\ file'[g] = file[g]
  BY <1>1, <1>2, <1>10, FputFacts
<1>12. \A g \in Files : CountInv(g)'
  <2>1. \A g \in Files \ {f} : SameFile(g)
    BY Zenon, <1>1, <1>4, <1>11 DEF SameFile
  <2> QED BY Zenon, <1>9, <2>1, OneFile
<1>13. IdsExclusive'
  <2>1. \A g \in Files : file'[g] # "closed" => file[g] # "closed"
    BY <1>2, <1>11
  <2> QED BY Zenon, <1>1, <2>1, SameIds
<1>14. SlotsExclusive'
  BY Zenon, <1>1, SameSlots
<1>15. ListInv'
  BY Zenon, <1>1, <1>2, <1>11, SameLists
<1>16. TypeInv'
  BY Zenon, <1>1, <1>4, <1>11 DEF TypeInv
<1> QED BY Zenon, <1>12, <1>13, <1>14, <1>15, <1>16

LEMMA ProcessExitsInv ==
  ASSUME InstanceInv, NEW f \in Files, ProcessExits(f)
  PROVE  InstanceInv'
<1> USE DEF InstanceInv
<1>1. /\ alive[f] /\ ~fd[f] /\ file[f] \in {"closed", "open"}
      /\ \A t \in ThreadsOf(f) : ~InCall(t)
      /\ alive' = [alive EXCEPT ![f] = FALSE]
      /\ pc' = [t \in Files \X Threads |-> IF t[1] = f THEN "gone" ELSE pc[t]]
      /\ UNCHANGED <<file, refs, fd, instances_bitmap, id, vcpu_bitmap, vcpus,
                     running_vcpus, reclaim_list, force_release, slot>>
  BY Zenon DEF ProcessExits, instVars, reclaimVars
<1>2. /\ ~alive'[f] /\ \A g \in Files \ {f} : alive'[g] = alive[g]
      /\ alive' \in [Files -> BOOLEAN]
  BY Zenon, <1>1 DEF TypeInv
<1>3. /\ \A t \in ThreadsOf(f) : pc'[t] = "gone"
      /\ \A g \in Files \ {f} : \A t \in ThreadsOf(g) : pc'[t] = pc[t]
      /\ \A t \in Files \X Threads : pc'[t] \in {"gone", pc[t]}
  BY Zenon, <1>1, ThreadFacts
<1>4. pc' \in [Files \X Threads -> {"user", "create", "configure", "enter", "run",
                                     "refuse", "done", "gone"}]
  BY Zenon, <1>1 DEF TypeInv
<1>5. Uncounted(f) = 0 /\ Counted(f) = 0 /\ Uncounted(f)' = 0 /\ Counted(f)' = 0
  <2>1. \A t \in ThreadsOf(f) : pc[t] \in {"user", "gone"}
    BY Zenon, <1>1 DEF InCall
  <2>2. \A t \in ThreadsOf(f) : pc'[t] \in {"user", "gone"}
    BY Zenon, <1>3
  <2> QED BY Zenon, <2>1, <2>2, NoneCounted
<1>6. CountInv(f)'
  <2>1. /\ file'[f] = file[f] /\ refs'[f] = refs[f] /\ fd'[f] = fd[f]
        /\ running_vcpus'[f] = running_vcpus[f] /\ force_release'[f] = force_release[f]
        /\ Descriptors(f)' = Descriptors(f) /\ ThreadsOf(f)' = ThreadsOf(f)
    BY Zenon, <1>1 DEF Descriptors, ThreadsOf
  <2>2. \A t \in ThreadsOf(f) : pc'[t] \in {"user", "gone"}
    BY Zenon, <1>3
  <2>3. file[f] \notin {"shutdown", "synced"}
    BY <1>1
  <2>4. file'[f] = "open" =>
          refs'[f] > 0 /\ refs'[f] = running_vcpus'[f] + Descriptors(f)' + Uncounted(f)'
    BY Zenon, <1>5, <2>1 DEF CountInv
  <2>5. Counted(f)' <= running_vcpus'[f] /\ ~fd'[f] /\ file'[f] \notin {"shutdown", "synced"}
    BY Zenon, <1>1, <1>5, <2>1, <2>3 DEF CountInv
  <2>6. file'[f] # "open" => refs'[f] = 0
    BY Zenon, <2>1 DEF CountInv
  <2>7. file'[f] = "closed" => running_vcpus'[f] = 0 /\ ~force_release'[f]
    BY Zenon, <2>1 DEF CountInv
  <2>8. \A t \in ThreadsOf(f)' : pc'[t] = "gone" /\ pc'[t] \in {"user", "gone"}
    BY Zenon, <1>3, <2>1, <2>2
  <2> QED BY Zenon, <2>4, <2>5, <2>6, <2>7, <2>8 DEF CountInv
<1>7. \A g \in Files : CountInv(g)'
  <2>1. \A g \in Files \ {f} : SameFile(g)
    BY Zenon, <1>1, <1>2, <1>3 DEF SameFile
  <2> QED BY Zenon, <1>6, <2>1, OneFile
<1>8. IdsExclusive'
  BY Zenon, <1>1, SameIds
<1>9. SlotsExclusive'
  <2>1. \A t \in Files \X Threads : pc'[t] = "create" => pc[t] = "create"
    BY <1>3
  <2> QED BY Zenon, <1>1, <2>1, SameSlots
<1>10. ListInv'
  BY Zenon, <1>1, <1>2, SameLists
<1>11. TypeInv'
  BY Zenon, <1>1, <1>2, <1>4 DEF TypeInv
<1> QED BY Zenon, <1>7, <1>8, <1>9, <1>10, <1>11

LEMMA SyncAllVcpusInv ==
  ASSUME InstanceInv, NEW f \in Files, SyncAllVcpus(f)
  PROVE  InstanceInv'
<1> USE DEF InstanceInv
<1>1. /\ file[f] = "shutdown" /\ file' = [file EXCEPT ![f] = "synced"]
      /\ UNCHANGED <<refs, fd, alive, instances_bitmap, id, vcpu_bitmap, vcpus,
                     running_vcpus, reclaim_list, force_release, pc, slot>>
  BY Zenon DEF SyncAllVcpus, instVars, reclaimVars
<1>2. /\ file'[f] = "synced" /\ \A g \in Files \ {f} : file'[g] = file[g]
      /\ file' \in [Files -> {"closed", "open", "shutdown", "synced"}]
  BY Zenon, <1>1 DEF TypeInv
<1>3. CountInv(f)'
  <2>1. /\ Counted(f)' = Counted(f) /\ ThreadsOf(f)' = ThreadsOf(f)
    BY Zenon, <1>1 DEF Counted, NumberAt, At, ThreadsOf, CountedAt
  <2>2. /\ refs[f] = 0 /\ ~fd[f] /\ \A t \in ThreadsOf(f) : pc[t] \in {"user", "gone"}
    BY <1>1 DEF CountInv
  <2>3. /\ alive[f] \/ force_release[f]
        /\ ~alive[f] => \A t \in ThreadsOf(f) : pc[t] = "gone"
        /\ Counted(f) <= running_vcpus[f]
    BY Zenon, <1>1 DEF CountInv
  <2>4. file'[f] # "open" /\ file'[f] # "closed"
    BY <1>2
  <2> QED BY Zenon, <1>1, <2>1, <2>2, <2>3, <2>4 DEF CountInv
<1>4. \A g \in Files : CountInv(g)'
  <2>1. \A g \in Files \ {f} : SameFile(g)
    BY Zenon, <1>1, <1>2 DEF SameFile
  <2> QED BY Zenon, <1>3, <2>1, OneFile
<1>5. \A g \in Files : (file'[g] # "closed" => file[g] # "closed")
                       /\ (file[g] = "open" => file'[g] = "open")
  BY <1>1, <1>2
<1>6. IdsExclusive' /\ SlotsExclusive' /\ ListInv'
  BY Zenon, <1>1, <1>5, SameIds, SameSlots, SameLists
<1>7. TypeInv'
  BY Zenon, <1>1, <1>2 DEF TypeInv
<1> QED BY Zenon, <1>4, <1>6, <1>7

LEMMA FreeInstanceInv ==
  ASSUME InstanceInv, NEW f \in Files, FreeInstance(f)
  PROVE  InstanceInv'
<1> USE DEF InstanceInv
<1>1. /\ file[f] = "synced" /\ file' = [file EXCEPT ![f] = "closed"]
      /\ instances_bitmap' = instances_bitmap \ {id[f]}
      /\ id' = [id EXCEPT ![f] = None]
      /\ vcpu_bitmap' = [vcpu_bitmap EXCEPT ![f] = {}]
      /\ vcpus' = [vcpus EXCEPT ![f] = {}]
      /\ running_vcpus' = [running_vcpus EXCEPT ![f] = 0]
      /\ force_release' = [force_release EXCEPT ![f] = FALSE]
      /\ UNCHANGED <<refs, fd, alive, reclaim_list, pc, slot>>
  BY Zenon DEF FreeInstance
<1>2. /\ file'[f] = "closed" /\ running_vcpus'[f] = 0 /\ ~force_release'[f]
      /\ vcpus'[f] = {} /\ vcpu_bitmap'[f] = {}
      /\ \A g \in Files \ {f} :
           /\ file'[g] = file[g] /\ running_vcpus'[g] = running_vcpus[g]
           /\ force_release'[g] = force_release[g] /\ id'[g] = id[g]
           /\ vcpus'[g] = vcpus[g] /\ vcpu_bitmap'[g] = vcpu_bitmap[g]
  BY Zenon, <1>1 DEF TypeInv
<1>3. TypeInv'
  <2>1. /\ file' \in [Files -> {"closed", "open", "shutdown", "synced"}]
        /\ force_release' \in [Files -> BOOLEAN]
        /\ id' \in [Files -> Ids \cup {None}] /\ instances_bitmap' \subseteq Ids
    BY Zenon, <1>1 DEF TypeInv
  <2>2. vcpu_bitmap' \in [Files -> SUBSET Slots] /\ vcpus' \in [Files -> SUBSET Slots]
    BY Zenon, <1>1 DEF TypeInv
  <2>3. running_vcpus' \in [Files -> Nat]
    BY <1>1 DEF TypeInv
  <2> QED BY Zenon, <1>1, <2>1, <2>2, <2>3 DEF TypeInv
<1>4. /\ refs[f] = 0 /\ ~fd[f] /\ \A t \in ThreadsOf(f) : pc[t] \in {"user", "gone"}
  BY <1>1 DEF CountInv
<1>5. CountInv(f)'
  <2>1. ~alive[f] => \A t \in ThreadsOf(f) : pc[t] = "gone"
    BY Zenon DEF CountInv
  <2>2. Counted(f)' = 0 /\ ThreadsOf(f)' = ThreadsOf(f)
    <3>1. \A t \in ThreadsOf(f) : pc'[t] \in {"user", "gone"}
      BY Zenon, <1>1, <1>4
    <3> QED BY Zenon, <3>1, NoneCounted DEF ThreadsOf
  <2>3. file'[f] # "open" /\ file'[f] \notin {"shutdown", "synced"}
        /\ Counted(f)' <= running_vcpus'[f]
    BY <1>2, <2>2
  <2> QED BY Zenon, <1>1, <1>2, <1>4, <2>1, <2>2, <2>3 DEF CountInv
<1>6. \A g \in Files : CountInv(g)'
  <2>1. \A g \in Files \ {f} : SameFile(g)
    BY Zenon, <1>1, <1>2 DEF SameFile
  <2> QED BY Zenon, <1>5, <2>1, OneFile
<1>7. IdsExclusive'
  <2>1. f \in Live
    BY <1>1 DEF Live
  <2>2. ASSUME NEW g \in Files, file'[g] # "closed"
        PROVE  g # f /\ g \in Live /\ id'[g] = id[g]
    BY Zenon, <1>2, <2>2 DEF Live
  <2>3. ASSUME NEW g \in Files, file'[g] # "closed" PROVE id'[g] \in instances_bitmap'
    <3>1. id[g] \in instances_bitmap /\ id[g] # id[f]
      BY Zenon, <2>1, <2>2, <2>3 DEF IdsExclusive
    <3>2. id'[g] = id[g] /\ instances_bitmap' = instances_bitmap \ {id[f]}
      BY Zenon, <1>1, <2>2, <2>3
    <3> QED BY Zenon, <3>1, <3>2
  <2>4. ASSUME NEW g \in Files, NEW h \in Files, g # h,
               file'[g] # "closed", file'[h] # "closed"
        PROVE  id'[g] # id'[h]
    <3>1. id[g] # id[h]
      BY Zenon, <2>2, <2>4 DEF IdsExclusive
    <3> QED BY Zenon, <2>2, <2>4, <3>1
  <2> QED BY Zenon, <2>3, <2>4 DEF IdsExclusive, Live
<1>8. SlotsExclusive'
  <2>1. \A g \in Files : vcpus[g] \subseteq vcpu_bitmap[g] /\ ThreadsOf(g)' = ThreadsOf(g)
    BY Zenon DEF SlotsExclusive, ThreadsOf
  <2>2. \A g \in Files : vcpus'[g] \subseteq vcpu_bitmap'[g]
    BY Zenon, <1>2, <2>1
  <2>3. ASSUME NEW g \in Files, NEW u \in ThreadsOf(g), pc[u] = "create"
        PROVE  /\ slot[u] \in vcpu_bitmap'[g] \ vcpus'[g]
               /\ \A w \in ThreadsOf(g) : w # u /\ pc[w] = "create" => slot[w] # slot[u]
    <3>1. g # f
      BY <1>4, <2>3
    <3>2. slot[u] \in vcpu_bitmap[g] \ vcpus[g]
      BY Zenon, <2>3 DEF SlotsExclusive
    <3>3. \A w \in ThreadsOf(g) : w # u /\ pc[w] = "create" => slot[w] # slot[u]
      BY Zenon, <2>3 DEF SlotsExclusive
    <3> QED BY Zenon, <1>2, <3>1, <3>2, <3>3
  <2>4. pc' = pc /\ slot' = slot
    BY Zenon, <1>1
  <2> QED BY ZenonT(30), <2>1, <2>2, <2>3, <2>4 DEF SlotsExclusive
<1>9. ListInv'
  <2>1. \A g \in Files : file[g] = "open" => g # f
    BY <1>1
  <2>2. \A g \in Files : force_release[g] /\ file[g] = "open" /\ ~alive[g] =>
                          force_release'[g] /\ file'[g] = "open" /\ ~alive'[g]
    <3>1. alive' = alive
      BY Zenon, <1>1
    <3>2. \A g \in Files \ {f} : file'[g] = file[g] /\ force_release'[g] = force_release[g]
      BY Zenon, <1>2
    <3> QED BY Zenon, <2>1, <3>1, <3>2
  <2>3. reclaim_list' = reclaim_list
    BY Zenon, <1>1
  <2> QED BY Zenon, <2>2, <2>3, SameLists
<1> QED BY Zenon, <1>3, <1>6, <1>7, <1>8, <1>9

LEMMA CollectLeakedInv ==
  ASSUME InstanceInv, NEW r \in Reclaimers, CollectLeaked(r)
  PROVE  InstanceInv'
<1> USE DEF InstanceInv
<1> DEFINE leaked == {f \in Files : Leaked(f)}
<1>1. /\ reclaim_list' = [reclaim_list EXCEPT ![r] = leaked]
      /\ force_release' = [f \in Files |-> force_release[f] \/ f \in leaked]
      /\ UNCHANGED <<file, refs, fd, alive, instances_bitmap, id, vcpu_bitmap, vcpus,
                     running_vcpus, pc, slot>>
  BY Zenon DEF CollectLeaked, fileVars, instVars
<1>2. ASSUME NEW f \in leaked
      PROVE  f \in Files /\ file[f] = "open" /\ ~alive[f] /\ ~force_release[f]
  <2>1. f \in Files /\ file[f] # "closed" /\ ~alive[f] /\ ~force_release[f]
    BY Zenon DEF Leaked, Live
  <2>2. file[f] \in {"closed", "open", "shutdown", "synced"}
    BY Zenon, <2>1 DEF TypeInv
  <2>3. file[f] \notin {"shutdown", "synced"}
    BY Zenon, <2>1 DEF CountInv
  <2> QED BY <2>1, <2>2, <2>3
<1> HIDE DEF leaked
<1>3. \A f \in Files : force_release'[f] = (force_release[f] \/ f \in leaked)
  BY Zenon, <1>1
<1>4. /\ reclaim_list'[r] = leaked
      /\ \A q \in Reclaimers \ {r} : reclaim_list'[q] = reclaim_list[q]
  BY Zenon, <1>1 DEF TypeInv
<1>5. TypeInv'
  <2>1. force_release' \in [Files -> BOOLEAN]
    <3>1. \A f \in Files : (force_release[f] \/ f \in leaked) \in BOOLEAN
      BY Zenon
    <3> QED BY Zenon, <1>1, <3>1
  <2>2. reclaim_list' \in [Reclaimers -> SUBSET Files]
    <3>1. leaked \in SUBSET Files
      BY Zenon, <1>2
    <3> QED BY Zenon, <1>1, <3>1 DEF TypeInv
  <2> QED BY Zenon, <1>1, <2>1, <2>2 DEF TypeInv
<1>6. ASSUME NEW f \in Files PROVE CountInv(f)'
  <2>1. /\ file'[f] = file[f] /\ refs'[f] = refs[f] /\ fd'[f] = fd[f]
        /\ alive'[f] = alive[f] /\ running_vcpus'[f] = running_vcpus[f] /\ pc' = pc
        /\ Uncounted(f)' = Uncounted(f) /\ Counted(f)' = Counted(f)
        /\ Descriptors(f)' = Descriptors(f) /\ ThreadsOf(f)' = ThreadsOf(f)
    BY Zenon, <1>1 DEF Uncounted, Counted, NumberAt, At, ThreadsOf, UncountedAt,
                       CountedAt, Descriptors
  <2>2. file[f] = "closed" => f \notin leaked
    BY <1>2
  <2>3. file'[f] = "closed" => running_vcpus'[f] = 0 /\ ~force_release'[f]
    BY Zenon, <1>3, <2>1, <2>2 DEF CountInv
  <2>4. file'[f] \in {"shutdown", "synced"} => alive'[f] \/ force_release'[f]
    BY Zenon, <1>3, <2>1 DEF CountInv
  <2>5. /\ file[f] = "open" =>
            /\ refs[f] > 0
            /\ refs[f] = running_vcpus[f] + Descriptors(f) + Uncounted(f)
        /\ Counted(f) <= running_vcpus[f]
        /\ file[f] # "open" => /\ refs[f] = 0 /\ ~fd[f]
                               /\ \A t \in ThreadsOf(f) : pc[t] \in {"user", "gone"}
        /\ ~alive[f] => ~fd[f] /\ \A t \in ThreadsOf(f) : pc[t] = "gone"
    BY Zenon DEF CountInv
  <2> QED BY Zenon, <2>1, <2>3, <2>4, <2>5 DEF CountInv
<1>7. IdsExclusive' /\ SlotsExclusive'
  BY Zenon, <1>1, SameIds, SameSlots
<1>8. ASSUME NEW q \in Reclaimers \ {r}, NEW f \in reclaim_list[q]
      PROVE  /\ force_release[f] /\ file[f] = "open" /\ ~alive[f] /\ f \in Files
             /\ f \notin leaked
             /\ \A p \in Reclaimers : f \in reclaim_list[p] => p = q
  <2>1. f \in Files
    BY Zenon DEF TypeInv
  <2>2. /\ force_release[f] /\ file[f] = "open" /\ ~alive[f]
        /\ \A p \in Reclaimers : f \in reclaim_list[p] => p = q
    BY Zenon DEF ListInv
  <2> QED BY Zenon, <1>2, <2>1, <2>2
<1>9. ListInv'
  <2> SUFFICES ASSUME NEW q \in Reclaimers, NEW f \in reclaim_list'[q]
               PROVE  /\ force_release'[f] /\ file'[f] = "open" /\ ~alive'[f]
                      /\ \A p \in Reclaimers : f \in reclaim_list'[p] => p = q
    BY Zenon DEF ListInv
  <2>1. file' = file /\ alive' = alive
    BY Zenon, <1>1
  <2>2. CASE q = r
    <3>1. f \in leaked
      BY Zenon, <1>4, <2>2
    <3>2. force_release'[f] /\ file'[f] = "open" /\ ~alive'[f]
      BY Zenon, <1>2, <1>3, <2>1, <3>1
    <3>3. \A p \in Reclaimers \ {r} : f \notin reclaim_list'[p]
      BY Zenon, <1>4, <1>8, <3>1
    <3> QED BY Zenon, <2>2, <3>2, <3>3
  <2>3. CASE q # r
    <3>1. f \in reclaim_list[q] /\ q \in Reclaimers \ {r}
      BY Zenon, <1>4, <2>3
    <3>2. force_release'[f] /\ file'[f] = "open" /\ ~alive'[f]
      BY Zenon, <1>3, <1>8, <2>1, <3>1
    <3>3. \A p \in Reclaimers : f \in reclaim_list'[p] => p = q
      BY Zenon, <1>4, <1>8, <3>1
    <3> QED BY Zenon, <3>2, <3>3
  <2> QED BY Zenon, <2>2, <2>3
<1> QED BY Zenon, <1>5, <1>6, <1>7, <1>9

LEMMA PutLeakedInv ==
  ASSUME InstanceInv, NEW r \in Reclaimers, NEW f \in Files, PutLeaked(r, f)
  PROVE  InstanceInv'
<1> USE DEF InstanceInv
<1>1. /\ f \in reclaim_list[r] /\ Fput(f, running_vcpus[f])
      /\ reclaim_list' = [reclaim_list EXCEPT ![r] = @ \ {f}]
      /\ UNCHANGED <<fd, alive, instances_bitmap, id, vcpu_bitmap, vcpus, running_vcpus,
                     force_release, pc, slot>>
  BY Zenon DEF PutLeaked
<1>2. /\ force_release[f] /\ file[f] = "open" /\ ~alive[f]
      /\ \A q \in Reclaimers : f \in reclaim_list[q] => q = r
  BY Zenon, <1>1 DEF ListInv
<1>3. ~fd[f] /\ \A t \in ThreadsOf(f) : pc[t] = "gone"
  BY Zenon, <1>2 DEF CountInv
<1>4. refs[f] > 0 /\ refs[f] = running_vcpus[f]
  <2>1. refs[f] > 0 /\ refs[f] = running_vcpus[f] + Descriptors(f) + Uncounted(f)
    BY Zenon, <1>2 DEF CountInv
  <2>2. Uncounted(f) = 0
    <3>1. \A t \in ThreadsOf(f) : pc[t] \in {"user", "gone"}
      BY Zenon, <1>3
    <3> QED BY Zenon, <3>1, NoneCounted
  <2>3. Descriptors(f) = 0 /\ running_vcpus[f] \in Nat
    BY Zenon, <1>3 DEF Descriptors, TypeInv
  <2> QED BY <2>1, <2>2, <2>3
<1>5. running_vcpus[f] \in Nat
  BY Zenon DEF TypeInv
<1>6. /\ refs' \in [Files -> Nat] /\ refs'[f] = 0
      /\ file' \in [Files -> {"closed", "open", "shutdown", "synced"}]
      /\ file'[f] = "shutdown"
      /\ \A g \in Files \ {f} : refs'[g] = refs[g] /\ file'[g] = file[g]
  BY SMTT(30), <1>1, <1>4, <1>5, FputFacts
<1>7. CountInv(f)'
  <2>1. Counted(f)' = Counted(f) /\ ThreadsOf(f)' = ThreadsOf(f)
    BY Zenon, <1>1 DEF Counted, NumberAt, At, ThreadsOf, CountedAt
  <2>2. Counted(f)' <= running_vcpus'[f]
    BY Zenon, <1>1, <2>1 DEF CountInv
  <2>3. \A t \in ThreadsOf(f)' : pc'[t] = "gone" /\ pc'[t] \in {"user", "gone"}
    BY Zenon, <1>1, <1>3, <2>1
  <2>4. ~fd'[f] /\ force_release'[f] /\ file'[f] # "open" /\ file'[f] # "closed"
    BY <1>1, <1>2, <1>3, <1>6
  <2> QED BY Zenon, <1>6, <2>2, <2>3, <2>4 DEF CountInv
<1>8. \A g \in Files : CountInv(g)'
  <2>1. \A g \in Files \ {f} : SameFile(g)
    BY Zenon, <1>1, <1>6 DEF SameFile
  <2> QED BY Zenon, <1>7, <2>1, OneFile
<1>9. IdsExclusive' /\ SlotsExclusive'
  <2>1. \A g \in Files : file'[g] # "closed" => file[g] # "closed"
    BY <1>2, <1>6
  <2> QED BY Zenon, <1>1, <2>1, SameIds, SameSlots
<1>10. reclaim_list'[r] = reclaim_list[r] \ {f}
       /\ \A q \in Reclaimers \ {r} : reclaim_list'[q] = reclaim_list[q]
  BY Zenon, <1>1 DEF TypeInv
<1>11. TypeInv'
  <2>1. reclaim_list' \in [Reclaimers -> SUBSET Files]
    <3>1. reclaim_list[r] \ {f} \in SUBSET Files
      BY Zenon DEF TypeInv
    <3> QED BY Zenon, <1>1, <3>1 DEF TypeInv
  <2> QED BY Zenon, <1>1, <1>6, <2>1 DEF TypeInv
<1>12. ListInv'
  <2>1. ASSUME NEW q \in Reclaimers, NEW g \in reclaim_list'[q]
        PROVE  g \in reclaim_list[q] /\ g # f /\ g \in Files
    <3>1. g \in reclaim_list[q] /\ (q = r => g # f)
      BY Zenon, <1>10
    <3>2. g # f
      BY Zenon, <1>2, <3>1
    <3> QED BY Zenon, <3>1, <3>2 DEF TypeInv
  <2>2. ASSUME NEW q \in Reclaimers, NEW g \in reclaim_list'[q]
        PROVE  /\ force_release'[g] /\ file'[g] = "open" /\ ~alive'[g]
               /\ \A p \in Reclaimers : g \in reclaim_list'[p] => p = q
    <3>1. /\ force_release[g] /\ file[g] = "open" /\ ~alive[g]
          /\ \A p \in Reclaimers : g \in reclaim_list[p] => p = q
      BY Zenon, <2>1 DEF ListInv
    <3>2. file'[g] = file[g]
      BY Zenon, <1>6, <2>1
    <3>3. \A p \in Reclaimers : g \in reclaim_list'[p] => g \in reclaim_list[p]
      BY Zenon, <2>1
    <3> QED BY Zenon, <1>1, <3>1, <3>2, <3>3
  <2> QED BY Zenon, <2>2 DEF ListInv
<1> QED BY Zenon, <1>8, <1>9, <1>11, <1>12

(* What touches none of the variables the invariant is about keeps it: a   *)
(* stuttering step, and an open that fails for want of an id.              *)
LEMMA UnchangedInv ==
  ASSUME InstanceInv,
         UNCHANGED <<file, refs, fd, alive, instances_bitmap, id, vcpu_bitmap, vcpus,
                     running_vcpus, reclaim_list, force_release, pc, slot>>
  PROVE  InstanceInv'
<1> USE DEF InstanceInv
<1>1. TypeInv'
  BY Zenon DEF TypeInv
<1>2. \A g \in Files : CountInv(g)'
  BY Zenon, OtherFile
<1>3. IdsExclusive' /\ SlotsExclusive' /\ ListInv'
  BY Zenon, SameIds, SameSlots, SameLists
<1> QED BY Zenon, <1>1, <1>2, <1>3

(* Before the device is first opened there is nothing to count.            *)
LEMMA InitInv ==
  ASSUME Init
  PROVE  InstanceInv
<1> USE DEF Init, Const
<1>1. TypeInv
  <2>1. /\ refs \in [Files -> Nat] /\ running_vcpus \in [Files -> Nat]
    BY DEF TypeInv
  <2> QED BY <2>1 DEF TypeInv
<1>2. \A f \in Files : \A t \in ThreadsOf(f) : pc[t] = "gone"
  BY Zenon, ThreadFacts
<1>3. ASSUME NEW f \in Files PROVE CountInv(f)
  <2>1. /\ file[f] = "closed" /\ refs[f] = 0 /\ ~fd[f] /\ running_vcpus[f] = 0
        /\ ~force_release[f]
    BY Zenon
  <2>2. Counted(f) = 0
    <3>1. \A t \in ThreadsOf(f) : pc[t] \in {"user", "gone"}
      BY Zenon, <1>2
    <3> QED BY Zenon, <3>1, NoneCounted
  <2>3. Counted(f) <= running_vcpus[f] /\ file[f] # "open"
        /\ file[f] \notin {"shutdown", "synced"}
    BY <2>1, <2>2
  <2>4. \A t \in ThreadsOf(f) : pc[t] = "gone" /\ pc[t] \in {"user", "gone"}
    BY Zenon, <1>2
  <2> QED BY Zenon, <2>1, <2>3, <2>4 DEF CountInv
<1>4. IdsExclusive
  BY Zenon DEF IdsExclusive, Live
<1>5. SlotsExclusive
  <2>1. \A f \in Files : vcpus[f] = {} /\ \A t \in ThreadsOf(f) : pc[t] # "create"
    BY Zenon, <1>2
  <2> QED BY Zenon, <2>1 DEF SlotsExclusive
<1>6. ListInv
  BY Zenon DEF ListInv
<1> QED BY Zenon, <1>1, <1>3, <1>4, <1>5, <1>6 DEF InstanceInv

LEMMA StepInv ==
  ASSUME InstanceInv, [Next]_vars
  PROVE  InstanceInv'
<1>1. CASE UNCHANGED vars
  BY Zenon, <1>1, UnchangedInv DEF vars, fileVars, instVars, reclaimVars
<1>2. ASSUME NEW f \in Files, OpenFull(f) PROVE InstanceInv'
  BY Zenon, <1>2, UnchangedInv DEF OpenFull, instVars, reclaimVars
<1>3. ASSUME NEW f \in Files,
             Open(f) \/ Close(f) \/ ProcessExits(f) \/ SyncAllVcpus(f) \/ FreeInstance(f)
      PROVE  InstanceInv'
  BY Zenon, <1>3, OpenInv, CloseInv, ProcessExitsInv, SyncAllVcpusInv, FreeInstanceInv
<1>4. ASSUME NEW t \in Files \X Threads,
             \/ CreateVcpu(t) \/ Configure(t) \/ Enter(t) \/ LeaveRun(t)
             \/ ShutdownVcpus(t) \/ ShutdownInstance(t) \/ ExitThread(t) \/ ThreadDies(t)
      PROVE  InstanceInv'
  BY Zenon, <1>4, CreateVcpuInv, ConfigureInv, EnterInv, LeaveRunInv, ShutdownInv,
     ThreadEndsInv
<1>5. ASSUME NEW t \in Files \X Threads, NEW created \in BOOLEAN, PublishVcpu(t, created)
      PROVE  InstanceInv'
  BY Zenon, <1>5, PublishInv
<1>6. ASSUME NEW t \in Files \X Threads, NEW s \in Slots, ReleaseVcpu(t, s) \/ RunVcpu(t, s)
      PROVE  InstanceInv'
  BY Zenon, <1>6, ReleaseVcpuInv, RunVcpuInv
<1>7. ASSUME NEW r \in Reclaimers, CollectLeaked(r) PROVE InstanceInv'
  BY Zenon, <1>7, CollectLeakedInv
<1>8. ASSUME NEW r \in Reclaimers, NEW f \in Files, PutLeaked(r, f) PROVE InstanceInv'
  BY Zenon, <1>8, PutLeakedInv
<1> QED BY Zenon, <1>1, <1>2, <1>3, <1>4, <1>5, <1>6, <1>7, <1>8 DEF Next

LEMMA Invariance == Spec => []InstanceInv
<1>1. Init => InstanceInv
  BY Zenon, InitInv
<1>2. InstanceInv /\ [Next]_vars => InstanceInv'
  BY Zenon, StepInv
<1> QED BY <1>1, <1>2, PTL DEF Spec

(***************************************************************************)
(* The theorems.                                                           *)
(***************************************************************************)

(* Two instances never have the same id, though an id whose instance could *)
(* not be created stays set for ever: alloc_inst_id takes a clear bit, and *)
(* only instance_release clears one, the instance's own.                   *)
THEOREM IdsStayExclusive == Spec => []IdsExclusive
<1>1. InstanceInv => IdsExclusive
  BY Zenon DEF InstanceInv
<1> QED BY <1>1, Invariance, PTL

(* A vcpu number belongs to one vcpu or to one CREATE_VCPU in progress,    *)
(* also while RELEASE_VCPU names numbers that are being created.           *)
THEOREM SlotsStayExclusive == Spec => []SlotsExclusive
<1>1. InstanceInv => SlotsExclusive
  BY Zenon DEF InstanceInv
<1> QED BY <1>1, Invariance, PTL

(* Once the process is gone, the references left are as many as            *)
(* running_vcpus says, so that slimvm_reclaim_leaked_instances puts every  *)
(* one of them and no more.                                                *)
THEOREM LeaksAreCounted == Spec => []LeakIsCounted
<1>1. InstanceInv => LeakIsCounted
  <2> SUFFICES ASSUME InstanceInv, NEW f \in Files, ~alive[f], file[f] = "open"
               PROVE  refs[f] = running_vcpus[f]
    BY Zenon DEF LeakIsCounted
  <2>1. CountInv(f) /\ running_vcpus[f] \in Nat
    BY Zenon DEF InstanceInv, TypeInv
  <2>2. ~fd[f] /\ \A t \in ThreadsOf(f) : pc[t] = "gone"
    BY Zenon, <2>1 DEF CountInv
  <2>3. refs[f] = running_vcpus[f] + Descriptors(f) + Uncounted(f)
    BY Zenon, <2>1 DEF CountInv
  <2>4. Uncounted(f) = 0
    <3>1. \A t \in ThreadsOf(f) : pc[t] \in {"user", "gone"}
      BY Zenon, <2>2
    <3> QED BY Zenon, <3>1, NoneCounted
  <2>5. Descriptors(f) = 0
    BY Zenon, <2>2 DEF Descriptors
  <2> QED BY <2>1, <2>3, <2>4, <2>5
<1> QED BY <1>1, Invariance, PTL

(* However many tasks reclaim at once, a leaked instance is on one list    *)
(* only, and its release has not begun while it is there.                  *)
THEOREM LeaksAreReclaimedOnce == Spec => []ReclaimedOnce
<1>1. InstanceInv => ReclaimedOnce
  BY Zenon DEF InstanceInv, ListInv, ReclaimedOnce
<1> QED BY <1>1, Invariance, PTL

(* The last reference is never put while a thread is in a call, so that    *)
(* instance_release has the instance for itself.                           *)
THEOREM ReleaseIsAlone == Spec => []NoCallDuringRelease
<1>1. InstanceInv => NoCallDuringRelease
  BY Zenon DEF InstanceInv, CountInv, NoCallDuringRelease, InCall
<1> QED BY <1>1, Invariance, PTL
=============================================================================

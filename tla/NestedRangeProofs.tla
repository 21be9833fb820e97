------------------------- MODULE NestedRangeProofs -------------------------
(***************************************************************************)
(* The safety properties of NestedRange hold for blocks, regions and       *)
(* address spaces of any size, any number of host threads, and ranges of   *)
(* any length.  The passes over a range are recursive functions; that they *)
(* exist, and what they leave, is proved from the least element at which   *)
(* it would fail.                                                          *)
(***************************************************************************)
EXTENDS NestedRange, FiniteSetTheorems, WellFoundedInduction, TLAPS

(* b is the first page of a 2M block.                                      *)
Aligned(b) == align_down(b) = b

(* What a directory slot may hold.                                         *)
Dirs == {None, Table} \cup {<<"huge", b>> : b \in HBlocks}

(* The guest block at b is backed, page by page, by the host block at hb.  *)
Backs(b, hb) ==
  \A k \in 0 .. H - 1 : b + k \in Gpas /\ gpa_to_hva(regions, b + k) = hb + k

(* The tables and counters as one record.                                  *)
Shape(E) ==
  /\ E = [pmd |-> E.pmd, pte |-> E.pte, n4k |-> E.n4k, n2m |-> E.n2m,
          dropped |-> E.dropped]
  /\ E.pmd \in [GBlocks -> Dirs]
  /\ E.pte = [g \in Gpas |-> E.pte[g]]

(* Tables that faults and callbacks can make, whatever the host has:       *)
(* entries only under a page table and for pages of a region, and 2M       *)
(* entries only for blocks that lie in one region.                         *)
TableInv(E) ==
  /\ Shape(E)
  /\ \A g \in Gpas : E.pte[g] # None =>
       E.pmd[align_down(g)] = Table /\ gpa_to_hva(regions, g) # ADDR_INVAL
  /\ \A b \in GBlocks, hb \in HBlocks : E.pmd[b] = <<"huge", hb>> => Backs(b, hb)

(* The host page h has no 4K entry.                                        *)
Cleared(E, h) ==
  hva_to_gpa(regions, h) # ADDR_INVAL => E.pte[hva_to_gpa(regions, h)] = None

(* The host block at hb has no 2M entry.                                   *)
Dropped(E, hb) == \A b \in GBlocks : E.pmd[b] # <<"huge", hb>>

(* F is E with some entries cleared.                                       *)
Below(F, E) ==
  /\ \A b \in GBlocks : F.pmd[b] = E.pmd[b] \/ F.pmd[b] = None
  /\ \A g \in Gpas : F.pte[g] = E.pte[g] \/ F.pte[g] = None

(* What a callback has cleared: the pages up to pos, and when it is done   *)
(* the 2M entries of the blocks inside the range.                          *)
Call(o, E) ==
  /\ o \in [s : Nat, e : Nat, pos : Nat] /\ o.s <= o.pos /\ o.pos <= o.e
  /\ engine = "ept" => o.pos = o.e
  /\ \A h \in o.s .. (o.pos - 1) : Cleared(E, h)
  /\ o.pos = o.e => \A hb \in HBlocks :
       Block(hb) \subseteq o.s .. (o.e - 1) => Dropped(E, hb)

(* It stays so until the invalidation ends.                                *)
CallInv ==
  /\ open = [t \in Callers |-> open[t]]
  /\ \A t \in Callers : Call(open[t], Ept)

(* While the notifier is registered, entries are what the host has.        *)
MapInv ==
  registered =>
    /\ \A g \in Gpas : pte[g] # None => pte[g] = HostFrame(gpa_to_hva(regions, g))
    /\ \A b \in GBlocks, hb \in HBlocks : pmd[b] = <<"huge", hb>> => hb \in thp

(* The counters agree with the entries.                                    *)
StatInv(E) ==
  /\ E.dropped \in Nat
  /\ E.n4k = Plus(Cardinality({g \in Gpas : Count(E.pte[g]) = 1}), -E.dropped)
  /\ E.n2m = Cardinality({b \in GBlocks : is_epte_huge(E.pmd[b])})

LifeInv ==
  /\ engine \in {"ept", "npt"} /\ regions \in RegionLists
  /\ registered \in BOOLEAN /\ freed \in BOOLEAN /\ thp \subseteq HBlocks
  /\ freed => /\ \A b \in GBlocks : pmd[b] = None
              /\ \A g \in Gpas : pte[g] = None
  /\ engine = "npt" => /\ freed => ~registered
                       /\ ~registered => ~InCallback

RangeInv ==
  /\ LifeInv /\ TableInv(Ept) /\ CallInv /\ MapInv
  /\ ~freed => StatInv(Ept)

(***************************************************************************)
(* Blocks.                                                                 *)
(***************************************************************************)

(* H is a positive number.                                                 *)
LEMMA Sizes == H \in Nat /\ H > 0
BY SizeAssumption

(* Pages are numbers.                                                      *)
LEMMA Pages == (\A g \in Gpas : g \in Int) /\ (\A h \in Hvas : h \in Int /\ h \in Nat)
BY SizeAssumption

(* align_down returns the number before x that x exceeds by less than H.   *)
LEMMA AlignDown ==
  ASSUME NEW x \in Int
  PROVE  /\ align_down(x) \in Int /\ align_down(x) <= x /\ x < align_down(x) + H
         /\ x % H = x - align_down(x) /\ x % H \in 0 .. H - 1
<1>1. x % H \in Int /\ 0 <= x % H /\ x % H < H
  BY Sizes
<1> QED BY <1>1, Sizes DEF align_down

(* It returns a multiple of H.                                             *)
LEMMA AlignMultiple ==
  ASSUME NEW x \in Int
  PROVE  x \div H \in Int /\ align_down(x) = H * (x \div H)
<1>1. x \div H \in Int
  BY Sizes
<1>2. x = H * (x \div H) + (x % H)
  BY Sizes
<1> QED BY <1>1, <1>2, Sizes DEF align_down

(* No other multiple of H is as near below x.                              *)
LEMMA AlignUnique ==
  ASSUME NEW q \in Int, NEW x \in Int, H * q <= x, x < H * q + H
  PROVE  align_down(x) = H * q
<1> DEFINE p == x \div H
<1>1. p \in Int /\ x = H * p + (x % H) /\ x % H \in Int /\ 0 <= x % H /\ x % H < H
  BY Sizes
<1>2. H * q \in Int /\ H * p \in Int
  BY Sizes, <1>1
<1> HIDE DEF p
<1>3. ~ (p < q)
  <2> SUFFICES ASSUME p + 1 <= q PROVE FALSE
    BY <1>1
  <2>1. H * (p + 1) <= H * q
    BY Sizes, <1>1
  <2>2. H * (p + 1) = H * p + H
    BY Sizes, <1>1
  <2> QED BY Sizes, <1>1, <1>2, <2>1, <2>2
<1>4. ~ (q < p)
  <2> SUFFICES ASSUME q + 1 <= p PROVE FALSE
    BY <1>1
  <2>1. H * (q + 1) <= H * p
    BY Sizes, <1>1
  <2>2. H * (q + 1) = H * q + H
    BY Sizes, <1>1
  <2> QED BY Sizes, <1>1, <1>2, <2>1, <2>2
<1>5. p = q
  BY <1>1, <1>3, <1>4
<1> QED BY <1>5, AlignMultiple DEF p

(* The multiples of H are aligned, and only they are.                      *)
LEMMA AlignedMultiple ==
  /\ \A q \in Int : H * q \in Int /\ Aligned(H * q)
  /\ \A b \in Int : Aligned(b) => \E q \in Int : b = H * q
<1>1. ASSUME NEW q \in Int PROVE H * q \in Int /\ Aligned(H * q)
  <2>1. H * q \in Int /\ H * q < H * q + H
    BY Sizes
  <2> QED BY <2>1, AlignUnique DEF Aligned
<1>2. ASSUME NEW b \in Int, Aligned(b) PROVE \E q \in Int : b = H * q
  BY <1>2, AlignMultiple DEF Aligned
<1> QED BY <1>1, <1>2

(* The pages of a block, and only they, are aligned down to its first.     *)
LEMMA InBlock ==
  ASSUME NEW b \in Int, Aligned(b), NEW x \in Int
  PROVE  align_down(x) = b <=> b <= x /\ x < b + H
<1>1. PICK q \in Int : b = H * q
  BY AlignedMultiple
<1>2. b <= x /\ x < b + H => align_down(x) = b
  BY <1>1, AlignUnique
<1> QED BY <1>2, AlignDown

(* align_down and align_up return the beginnings of blocks.                *)
LEMMA AlignedDown ==
  ASSUME NEW x \in Int
  PROVE  /\ align_down(x) \in Int /\ Aligned(align_down(x))
         /\ align_up(x) \in Int /\ Aligned(align_up(x))
         /\ x <= align_up(x) /\ align_up(x) < x + H
<1>1. ASSUME NEW y \in Int PROVE align_down(y) \in Int /\ Aligned(align_down(y))
  BY AlignMultiple, AlignedMultiple
<1>2. x + H - 1 \in Int
  BY Sizes
<1>3. x <= align_up(x) /\ align_up(x) < x + H
  <2> DEFINE y == x + H - 1
  <2>1. align_down(y) \in Int /\ align_down(y) <= y /\ y < align_down(y) + H
    BY <1>2, AlignDown
  <2> QED BY <2>1, Sizes DEF align_up
<1> QED BY <1>1, <1>2, <1>3 DEF align_up

(* Blocks do not overlap: the next one begins H pages on at the earliest.  *)
LEMMA BlocksApart ==
  ASSUME NEW b \in Int, Aligned(b), NEW c \in Int, Aligned(c), b < c
  PROVE  b + H <= c
<1>1. align_down(c) # b
  BY Sizes DEF Aligned
<1> QED BY <1>1, InBlock, Sizes

(* Sums and differences of aligned numbers are aligned.                    *)
LEMMA AlignedSum ==
  ASSUME NEW b \in Int, Aligned(b), NEW c \in Int, Aligned(c)
  PROVE  Aligned(b + c) /\ Aligned(b - c) /\ Aligned(b + H)
<1>1. PICK p \in Int : b = H * p
  BY AlignedMultiple
<1>2. PICK q \in Int : c = H * q
  BY AlignedMultiple
<1>3. b + c = H * (p + q) /\ b - c = H * (p - q) /\ b + H = H * (p + 1)
  BY <1>1, <1>2, Sizes
<1> QED BY <1>3, AlignedMultiple

(***************************************************************************)
(* Regions.                                                                *)
(***************************************************************************)

(* The fields of a region are numbers.                                     *)
LEMMA RegionFields ==
  ASSUME NEW R, WellPlaced(R), NEW i \in DOMAIN R
  PROVE  /\ i \in Nat /\ i # 0
         /\ R[i].gpa \in Nat /\ R[i].hva \in Nat /\ R[i].size \in Nat
         /\ R[i].gpa \in Int /\ R[i].hva \in Int /\ R[i].size \in Int
         /\ Aligned(R[i].gpa) /\ Aligned(R[i].hva)
<1> DEFINE S == [gpa : Nat, hva : Nat, size : Nat]
<1>1. R \in Seq(S)
  BY Zenon DEF WellPlaced
<1>2. i \in Nat /\ i # 0 /\ R[i] \in S
  <2> HIDE DEF S
  <2> QED BY <1>1
<1>3. Aligned(R[i].gpa) /\ Aligned(R[i].hva)
  BY Zenon DEF WellPlaced, Aligned
<1> QED BY <1>2, <1>3

(* The region that has a guest page converts it.                           *)
LEMMA GpaInRegion ==
  ASSUME NEW R, WellPlaced(R), NEW g \in Int, NEW i \in DOMAIN R,
         R[i].gpa <= g, g < R[i].gpa + R[i].size
  PROVE  gpa_to_hva(R, g) = R[i].hva + (g - R[i].gpa) /\ g \in Gpas
<1> DEFINE hit == {j \in DOMAIN R : R[j].gpa <= g /\ g < R[j].gpa + R[j].size}
<1>1. ASSUME NEW j \in hit PROVE j = i
  <2>1. j # i => \/ R[i].gpa + R[i].size <= R[j].gpa
                 \/ R[j].gpa + R[j].size <= R[i].gpa
    BY DEF WellPlaced
  <2> QED BY <2>1, RegionFields
<1>2. hit = {i}
  BY <1>1
<1>3. Min(hit) = i
  BY <1>2, RegionFields DEF Min
<1>4. FirstGpa(R, g) = i
  BY <1>2, <1>3 DEF FirstGpa
<1>5. R[i].gpa .. (R[i].gpa + R[i].size - 1) \subseteq Gpas
  BY DEF WellPlaced
<1> QED BY <1>4, <1>5, RegionFields DEF gpa_to_hva

(* The region that has a host page converts it.                            *)
LEMMA HvaInRegion ==
  ASSUME NEW R, WellPlaced(R), NEW h \in Int, NEW i \in DOMAIN R,
         R[i].hva <= h, h < R[i].hva + R[i].size
  PROVE  hva_to_gpa(R, h) = R[i].gpa + (h - R[i].hva)
<1> DEFINE hit == {j \in DOMAIN R : R[j].hva <= h /\ h < R[j].hva + R[j].size}
<1>1. ASSUME NEW j \in hit PROVE j = i
  <2>1. j # i => \/ R[i].hva + R[i].size <= R[j].hva
                 \/ R[j].hva + R[j].size <= R[i].hva
    BY DEF WellPlaced
  <2> QED BY <2>1, RegionFields
<1>2. hit = {i}
  BY <1>1
<1>3. Min(hit) = i
  BY <1>2, RegionFields DEF Min
<1>4. FirstHva(R, h) = i
  BY <1>2, <1>3 DEF FirstHva
<1> QED BY <1>4, RegionFields DEF hva_to_gpa

(* A page that is converted is in a region.                                *)
LEMMA RegionOf ==
  ASSUME NEW R, NEW x \in Int
  PROVE  /\ gpa_to_hva(R, x) # ADDR_INVAL =>
              \E i \in DOMAIN R : R[i].gpa <= x /\ x < R[i].gpa + R[i].size
         /\ hva_to_gpa(R, x) # ADDR_INVAL =>
              \E i \in DOMAIN R : R[i].hva <= x /\ x < R[i].hva + R[i].size
<1>1. ASSUME gpa_to_hva(R, x) # ADDR_INVAL
      PROVE  \E i \in DOMAIN R : R[i].gpa <= x /\ x < R[i].gpa + R[i].size
  BY Zenon, <1>1 DEF gpa_to_hva, FirstGpa
<1>2. ASSUME hva_to_gpa(R, x) # ADDR_INVAL
      PROVE  \E i \in DOMAIN R : R[i].hva <= x /\ x < R[i].hva + R[i].size
  BY Zenon, <1>2 DEF hva_to_gpa, FirstHva
<1> QED BY Zenon, <1>1, <1>2

(* gpa_to_hva and hva_to_gpa are inverse.                                  *)
LEMMA GpaHva ==
  ASSUME NEW R, WellPlaced(R), NEW g \in Int, gpa_to_hva(R, g) # ADDR_INVAL
  PROVE  /\ g \in Gpas /\ gpa_to_hva(R, g) \in Nat
         /\ hva_to_gpa(R, gpa_to_hva(R, g)) = g
<1>1. PICK i \in DOMAIN R : R[i].gpa <= g /\ g < R[i].gpa + R[i].size
  BY Zenon, RegionOf
<1> DEFINE h == R[i].hva + (g - R[i].gpa)
<1>2. gpa_to_hva(R, g) = h /\ g \in Gpas
  BY <1>1, GpaInRegion
<1>3. h \in Nat /\ R[i].hva <= h /\ h < R[i].hva + R[i].size
  BY <1>1, RegionFields
<1>4. hva_to_gpa(R, h) = R[i].gpa + (h - R[i].hva)
  BY <1>3, HvaInRegion
<1>5. hva_to_gpa(R, h) = g
  BY <1>4, RegionFields
<1> QED BY Zenon, <1>2, <1>3, <1>5

LEMMA HvaGpa ==
  ASSUME NEW R, WellPlaced(R), NEW h \in Int, hva_to_gpa(R, h) # ADDR_INVAL
  PROVE  /\ hva_to_gpa(R, h) \in Gpas
         /\ gpa_to_hva(R, hva_to_gpa(R, h)) = h
<1>1. PICK i \in DOMAIN R : R[i].hva <= h /\ h < R[i].hva + R[i].size
  BY Zenon, RegionOf
<1> DEFINE g == R[i].gpa + (h - R[i].hva)
<1>2. hva_to_gpa(R, h) = g
  BY <1>1, HvaInRegion
<1>3. g \in Int /\ R[i].gpa <= g /\ g < R[i].gpa + R[i].size
  BY <1>1, RegionFields
<1>4. gpa_to_hva(R, g) = R[i].hva + (g - R[i].gpa) /\ g \in Gpas
  BY <1>3, GpaInRegion
<1>5. gpa_to_hva(R, g) = h
  BY <1>4, RegionFields
<1> QED BY Zenon, <1>2, <1>4, <1>5

(* The region of the first page of a block has all the pages of it that    *)
(* any region has: the next region begins on a boundary.                   *)
LEMMA OneRegion ==
  ASSUME NEW R, WellPlaced(R), NEW b \in Int, Aligned(b), NEW i \in DOMAIN R,
         R[i].gpa <= b, b < R[i].gpa + R[i].size,
         NEW p \in Int, b <= p, p < b + H, gpa_to_hva(R, p) # ADDR_INVAL
  PROVE  p < R[i].gpa + R[i].size
<1>1. PICK j \in DOMAIN R : R[j].gpa <= p /\ p < R[j].gpa + R[j].size
  BY Zenon, RegionOf
<1>2. CASE j = i
  BY <1>1, <1>2
<1>3. CASE j # i
  <2>1. \/ R[i].gpa + R[i].size <= R[j].gpa \/ R[j].gpa + R[j].size <= R[i].gpa
    BY <1>3 DEF WellPlaced
  <2>2. b < R[j].gpa
    BY <1>1, <2>1, RegionFields
  <2>3. b + H <= R[j].gpa
    BY <2>2, RegionFields, BlocksApart
  <2> QED BY <1>1, <2>3, RegionFields, Sizes
<1> QED BY <1>2, <1>3

(* A block that check_hugepage_consistency admits is backed by one block   *)
(* of the host.                                                            *)
LEMMA ConsistentBlock ==
  ASSUME WellPlaced(regions), NEW g \in Gpas, check_hugepage_consistency(g)
  PROVE  LET b == align_down(g)
         IN /\ b \in Int /\ Aligned(b) /\ gpa_to_hva(regions, b) \in Nat
            /\ Aligned(gpa_to_hva(regions, b)) /\ Backs(b, gpa_to_hva(regions, b))
<1> DEFINE R == regions
           b == align_down(g)
           s == gpa_to_hva(R, b)
           e == gpa_to_hva(R, b + H)
<1>1. g \in Int /\ b \in Int /\ Aligned(b) /\ b + H \in Int /\ Aligned(b + H)
  BY SizeAssumption, Sizes, AlignedDown, AlignedSum
<1>2. align_down(g + H) = b + H
  <2>1. g + H \in Int /\ b + H <= g + H /\ g + H < (b + H) + H
    <3>1. b <= g /\ g < b + H
      BY <1>1, AlignDown
    <3> QED BY <1>1, <3>1, Sizes
  <2> QED BY <1>1, <2>1, InBlock
<1>3. s # ADDR_INVAL /\ e # ADDR_INVAL /\ e - s = H
  BY <1>2 DEF check_hugepage_consistency
<1> HIDE DEF b
<1>4. PICK i \in DOMAIN R : R[i].gpa <= b /\ b < R[i].gpa + R[i].size
  BY <1>1, <1>3, RegionOf
<1>5. PICK j \in DOMAIN R : R[j].gpa <= b + H /\ b + H < R[j].gpa + R[j].size
  BY <1>1, <1>3, RegionOf
<1>6. s = R[i].hva + (b - R[i].gpa) /\ e = R[j].hva + ((b + H) - R[j].gpa)
  BY <1>1, <1>4, <1>5, GpaInRegion
<1>7. /\ R[i].gpa \in Nat /\ R[i].hva \in Nat /\ R[i].size \in Nat
      /\ R[i].gpa \in Int /\ R[i].hva \in Int /\ R[i].size \in Int
      /\ R[j].gpa \in Nat /\ R[j].hva \in Nat /\ R[j].size \in Nat
      /\ Aligned(R[i].gpa) /\ Aligned(R[i].hva) /\ Aligned(R[j].gpa)
  BY RegionFields
<1>8. s \in Nat /\ Aligned(s)
  <2>1. b - R[i].gpa \in Int /\ Aligned(b - R[i].gpa)
    <3>1. Aligned(b - R[i].gpa)
      BY Zenon, <1>1, <1>7, AlignedSum
    <3> QED BY <1>1, <1>7, <3>1
  <2>2. Aligned(R[i].hva + (b - R[i].gpa))
    BY Zenon, <1>7, <2>1, AlignedSum
  <2> QED BY <1>1, <1>4, <1>6, <1>7, <2>2
<1>9. b + H <= R[i].gpa + R[i].size
  <2> SUFFICES ASSUME R[i].gpa + R[i].size < b + H PROVE FALSE
    BY <1>1, <1>7
  <2>1. j # i
    BY <1>1, <1>5, <1>7
  <2>2. \/ R[i].gpa + R[i].size <= R[j].gpa \/ R[j].gpa + R[j].size <= R[i].gpa
    BY <2>1 DEF WellPlaced
  <2>3. b < R[j].gpa
    BY <1>1, <1>4, <1>5, <1>7, <2>2, Sizes
  <2>4. b + H <= R[j].gpa
    BY <1>1, <1>7, <2>3, BlocksApart
  <2>5. R[j].gpa = b + H
    BY <1>1, <1>5, <1>7, <2>4
  <2>6. R[i].gpa < R[j].gpa /\ R[j].gpa - R[i].gpa = R[j].hva - R[i].hva
    BY <1>1, <1>3, <1>4, <1>6, <1>7, <2>5, Sizes
  <2>7. Aligned(R[i].size)
    BY <2>1, <2>6 DEF WellPlaced, Aligned
  <2>8. Aligned(R[i].gpa + R[i].size)
    BY Zenon, <1>7, <2>7, AlignedSum
  <2>9. b + H <= R[i].gpa + R[i].size
    BY <1>1, <1>4, <1>7, <2>8, BlocksApart
  <2> QED BY <1>1, <1>7, <2>9
<1>10. ASSUME NEW k \in 0 .. H - 1
       PROVE  b + k \in Gpas /\ gpa_to_hva(R, b + k) = s + k
  <2>1. b + k \in Int /\ R[i].gpa <= b + k /\ b + k < R[i].gpa + R[i].size
    BY <1>1, <1>4, <1>7, <1>9, Sizes
  <2>2. gpa_to_hva(R, b + k) = R[i].hva + ((b + k) - R[i].gpa) /\ b + k \in Gpas
    BY <2>1, GpaInRegion
  <2> QED BY <1>1, <1>6, <1>7, <2>2
<1> QED BY <1>1, <1>8, <1>10 DEF Backs, b

(* The host block at h backs no page outside the guest block it is found   *)
(* in, and that guest block has no pages of another.                       *)
LEMMA BlockInRegion ==
  ASSUME WellPlaced(regions), NEW h \in Int, Aligned(h),
         hva_to_gpa(regions, h) # ADDR_INVAL
  PROVE  LET g == hva_to_gpa(regions, h)
         IN /\ g \in Gpas /\ Aligned(g)
            /\ \A p \in Block(g) : gpa_to_hva(regions, p) # ADDR_INVAL =>
                 gpa_to_hva(regions, p) = h + (p - g)
<1> DEFINE R == regions
           g == hva_to_gpa(R, h)
<1>1. g \in Gpas /\ g \in Int /\ gpa_to_hva(R, g) = h
  <2>1. g \in Gpas /\ gpa_to_hva(R, g) = h
    BY Zenon, HvaGpa
  <2> QED BY Zenon, <2>1, Pages
<1>2. PICK i \in DOMAIN R : R[i].hva <= h /\ h < R[i].hva + R[i].size
  BY RegionOf
<1>3. g = R[i].gpa + (h - R[i].hva)
  BY <1>2, HvaInRegion
<1>4. /\ R[i].gpa \in Nat /\ R[i].hva \in Nat /\ R[i].size \in Nat
      /\ R[i].gpa \in Int /\ R[i].hva \in Int /\ R[i].size \in Int
      /\ Aligned(R[i].gpa) /\ Aligned(R[i].hva)
  BY RegionFields
<1> HIDE DEF g
<1>5. Aligned(g)
  <2>1. h - R[i].hva \in Int /\ Aligned(h - R[i].hva)
    <3>1. Aligned(h - R[i].hva)
      BY Zenon, <1>4, AlignedSum
    <3> QED BY <1>4, <3>1
  <2> QED BY Zenon, <1>3, <1>4, <2>1, AlignedSum
<1>6. R[i].gpa <= g /\ g < R[i].gpa + R[i].size
  BY <1>2, <1>3, <1>4
<1>7. ASSUME NEW p \in Block(g), gpa_to_hva(R, p) # ADDR_INVAL
      PROVE  gpa_to_hva(R, p) = h + (p - g)
  <2>1. p \in Int /\ g <= p /\ p < g + H
    BY <1>1, Sizes DEF Block
  <2>2. p < R[i].gpa + R[i].size
    BY <1>1, <1>5, <1>6, <1>7, <2>1, OneRegion
  <2>3. R[i].gpa <= p
    BY <1>1, <1>4, <1>6, <2>1
  <2>4. gpa_to_hva(R, p) = R[i].hva + (p - R[i].gpa)
    BY Zenon, <2>1, <2>2, <2>3, GpaInRegion
  <2> QED BY <1>1, <1>3, <1>4, <2>1, <2>4
<1> QED BY <1>1, <1>5, <1>7 DEF g

(***************************************************************************)
(* Tables.                                                                 *)
(***************************************************************************)

(* The entries of a directory can be told apart.                           *)
LEMMA DirFacts ==
  /\ None # Table /\ ~is_epte_huge(None) /\ ~is_epte_huge(Table) /\ Count(None) = 0
  /\ \A b : is_epte_huge(<<"huge", b>>) /\ <<"huge", b>> # None /\ <<"huge", b>> # Table
  /\ \A b, c : <<"huge", b>> = <<"huge", c>> => b = c
  /\ \A b : <<"huge", b>>[2] = b
  /\ \A d \in Dirs : is_epte_huge(d) => \E hb \in HBlocks : d = <<"huge", hb>>
BY DEF Dirs, None, Table, is_epte_huge, Count

(* Guest blocks and host blocks begin on boundaries.                       *)
LEMMA BlockTypes ==
  /\ \A g \in Gpas : align_down(g) \in GBlocks
  /\ \A b \in GBlocks : b \in Int /\ Aligned(b)
  /\ \A hb \in HBlocks : hb \in Nat /\ hb \in Int /\ Aligned(hb) /\ Block(hb) \subseteq Hvas
<1>1. \A g \in Gpas : align_down(g) \in GBlocks
  BY Zenon DEF GBlocks
<1>2. \A b \in GBlocks : b \in Int /\ Aligned(b)
  BY Zenon, Pages, AlignedDown DEF GBlocks
<1>3. \A hb \in HBlocks : hb \in Int /\ Aligned(hb) /\ Block(hb) \subseteq Hvas
  BY Zenon, Pages, AlignedDown DEF HBlocks
<1>4. ASSUME NEW hb \in HBlocks PROVE hb \in Nat
  <2>1. hb \in Block(hb)
    BY <1>3, Sizes DEF Block
  <2> QED BY Zenon, <1>3, <2>1, Pages
<1> QED BY Zenon, <1>1, <1>2, <1>3, <1>4

(* Page by page, a backed block and the host's are each other's images.    *)
LEMMA BackedPages ==
  ASSUME WellPlaced(regions), NEW b \in Int, Aligned(b), NEW hb \in Nat, Aligned(hb),
         Backs(b, hb)
  PROVE  /\ \A h \in Int : align_down(h) = hb =>
              /\ hva_to_gpa(regions, h) # ADDR_INVAL
              /\ align_down(hva_to_gpa(regions, h)) = b
         /\ \A p \in Int : align_down(p) = b =>
              /\ p \in Gpas /\ gpa_to_hva(regions, p) = hb + (p - b)
              /\ align_down(gpa_to_hva(regions, p)) = hb
<1>1. ASSUME NEW p \in Int, align_down(p) = b
      PROVE  p \in Gpas /\ gpa_to_hva(regions, p) = hb + (p - b)
  <2>1. p - b \in 0 .. H - 1 /\ b + (p - b) = p
    BY <1>1, InBlock, Sizes
  <2>2. b + (p - b) \in Gpas /\ gpa_to_hva(regions, b + (p - b)) = hb + (p - b)
    BY Zenon, <2>1 DEF Backs
  <2> QED BY Zenon, <2>1, <2>2
<1>2. ASSUME NEW p \in Int, align_down(p) = b
      PROVE  align_down(gpa_to_hva(regions, p)) = hb
  <2>1. b <= p /\ p < b + H
    BY <1>2, InBlock
  <2>2. hb + (p - b) \in Int /\ hb <= hb + (p - b) /\ hb + (p - b) < hb + H
    BY <2>1, Sizes
  <2>3. align_down(hb + (p - b)) = hb
    BY <2>2, InBlock
  <2> QED BY <1>1, <1>2, <2>3
<1>3. ASSUME NEW h \in Int, align_down(h) = hb
      PROVE  /\ hva_to_gpa(regions, h) # ADDR_INVAL
             /\ align_down(hva_to_gpa(regions, h)) = b
  <2> DEFINE p == b + (h - hb)
  <2>1. hb <= h /\ h < hb + H
    BY <1>3, InBlock
  <2>2. p \in Int /\ b <= p /\ p < b + H
    BY <2>1, Sizes
  <2>3. align_down(p) = b
    BY <2>2, InBlock
  <2>4. p \in Gpas /\ gpa_to_hva(regions, p) = hb + (p - b)
    BY <1>1, <2>2, <2>3
  <2>5. hb + (p - b) = h /\ h # ADDR_INVAL
    BY <2>1 DEF ADDR_INVAL
  <2> HIDE DEF p
  <2>6. hva_to_gpa(regions, h) = p
    BY <2>2, <2>4, <2>5, GpaHva
  <2>7. p # ADDR_INVAL
    BY <2>4, SizeAssumption DEF ADDR_INVAL
  <2> QED BY <2>3, <2>6, <2>7
<1> QED BY <1>1, <1>2, <1>3

(* Clearing entries is an order.                                           *)
LEMMA BelowOrder ==
  /\ \A E : Below(E, E)
  /\ \A D, E, F : Below(F, E) /\ Below(E, D) => Below(F, D)
<1>1. \A E : Below(E, E)
  BY Zenon DEF Below
<1>2. ASSUME NEW D, NEW E, NEW F, Below(F, E), Below(E, D) PROVE Below(F, D)
  BY Zenon, <1>2 DEF Below
<1> QED BY Zenon, <1>1, <1>2

(* What is cleared stays so in tables with fewer entries.                  *)
LEMMA BelowKeeps ==
  ASSUME WellPlaced(regions), NEW E, NEW F, Below(F, E)
  PROVE  /\ \A h \in Int : Cleared(E, h) => Cleared(F, h)
         /\ \A hb : Dropped(E, hb) => Dropped(F, hb)
<1>1. ASSUME NEW h \in Int, Cleared(E, h) PROVE Cleared(F, h)
  BY Zenon, <1>1, HvaGpa DEF Cleared, Below
<1>2. ASSUME NEW hb, Dropped(E, hb) PROVE Dropped(F, hb)
  BY Zenon, <1>2, DirFacts DEF Dropped, Below
<1> QED BY Zenon, <1>1, <1>2

(* Clearing entries keeps the tables in order, when no entries are left    *)
(* under a slot that is cleared.                                           *)
LEMMA BelowTable ==
  ASSUME NEW E, TableInv(E), NEW F, Shape(F), Below(F, E),
         \A g \in Gpas : F.pmd[align_down(g)] = None => F.pte[g] = None
  PROVE  TableInv(F)
<1>1. ASSUME NEW g \in Gpas, F.pte[g] # None
      PROVE  F.pmd[align_down(g)] = Table /\ gpa_to_hva(regions, g) # ADDR_INVAL
  <2>1. E.pte[g] # None /\ align_down(g) \in GBlocks
    BY Zenon, <1>1, BlockTypes DEF Below
  <2>2. E.pmd[align_down(g)] = Table /\ gpa_to_hva(regions, g) # ADDR_INVAL
    BY Zenon, <2>1 DEF TableInv
  <2> QED BY Zenon, <1>1, <2>1, <2>2 DEF Below
<1>2. ASSUME NEW b \in GBlocks, NEW hb \in HBlocks, F.pmd[b] = <<"huge", hb>>
      PROVE  Backs(b, hb)
  <2>1. E.pmd[b] = <<"huge", hb>>
    BY Zenon, <1>2, DirFacts DEF Below
  <2> QED BY Zenon, <2>1 DEF TableInv
<1> QED BY Zenon, <1>1, <1>2 DEF TableInv

(* The number of 4K entries once the slot of g is empty.                   *)
Less(E, g) == Plus(E.n4k, -Count(E.pte[g]))

(* The fields of the record ClearLeaf returns.                             *)
LEMMA ClearLeafFields ==
  ASSUME NEW E, Shape(E), NEW g \in Gpas
  PROVE  LET F == ClearLeaf(E, g)
             b == align_down(g)
         IN /\ Shape(F) /\ F.dropped = E.dropped
            /\ is_epte_huge(E.pmd[b]) =>
                 /\ F.pmd = [E.pmd EXCEPT ![b] = None] /\ F.pte = E.pte
                 /\ F.n2m = Plus(E.n2m, -1) /\ F.n4k = E.n4k
            /\ ~is_epte_huge(E.pmd[b]) =>
                 /\ F.pmd = E.pmd /\ F.pte = [E.pte EXCEPT ![g] = None]
                 /\ F.n2m = E.n2m /\ F.n4k = Less(E, g)
<1> DEFINE F == ClearLeaf(E, g)
           b == align_down(g)
<1>1. CASE is_epte_huge(E.pmd[b])
  <2>1. F = [pmd |-> [E.pmd EXCEPT ![b] = None], pte |-> E.pte, n4k |-> E.n4k,
             n2m |-> Plus(E.n2m, -1), dropped |-> E.dropped]
    BY Zenon, <1>1 DEF ClearLeaf, Shape
  <2>2. [E.pmd EXCEPT ![b] = None] \in [GBlocks -> Dirs]
    BY Zenon DEF Shape, Dirs
  <2>3. Shape(F)
    BY <2>1, <2>2 DEF Shape
  <2> QED BY <1>1, <2>1, <2>3
<1>2. CASE ~is_epte_huge(E.pmd[b])
  <2> DEFINE pt == [E.pte EXCEPT ![g] = None]
  <2>1. F = [pmd |-> E.pmd, pte |-> pt, n4k |-> Less(E, g),
             n2m |-> E.n2m, dropped |-> E.dropped]
    BY Zenon, <1>2 DEF ClearLeaf, Shape, Less
  <2>2. pt = [p \in Gpas |-> pt[p]]
    BY DEF Shape
  <2> HIDE DEF pt
  <2>3. Shape(F)
    BY <2>1, <2>2 DEF Shape
  <2> QED BY <1>2, <2>1, <2>3 DEF pt
<1> QED BY <1>1, <1>2

(* ClearLeaf takes at most the leaf of g away, and that.                   *)
LEMMA ClearLeafBelow ==
  ASSUME NEW E, TableInv(E), NEW g \in Gpas
  PROVE  LET F == ClearLeaf(E, g)
         IN TableInv(F) /\ Below(F, E) /\ F.pte[g] = None
<1> DEFINE F == ClearLeaf(E, g)
           b == align_down(g)
<1>1. b \in GBlocks /\ Shape(E) /\ Shape(F)
  BY Zenon, BlockTypes, ClearLeafFields DEF TableInv
<1> HIDE DEF F, b
<1>2. /\ \A p \in Gpas : E.pmd[align_down(p)] # Table => E.pte[p] = None
      /\ \A c \in GBlocks : E.pmd[c] \in Dirs
  BY Zenon DEF TableInv, Shape
<1>3. CASE is_epte_huge(E.pmd[b])
  <2>1. F.pmd = [E.pmd EXCEPT ![b] = None] /\ F.pte = E.pte
    BY Zenon, <1>1, <1>3, ClearLeafFields DEF F, b
  <2>2. F.pmd[b] = None /\ \A c \in GBlocks : c # b => F.pmd[c] = E.pmd[c]
    BY Zenon, <1>1, <2>1 DEF Shape
  <2>3. Below(F, E)
    BY Zenon, <2>1, <2>2 DEF Below
  <2>4. E.pmd[b] # Table /\ E.pmd[b] # None
    BY Zenon, <1>3, DirFacts
  <2>5. ASSUME NEW p \in Gpas, F.pmd[align_down(p)] = None PROVE F.pte[p] = None
    <3>1. align_down(p) \in GBlocks
      BY Zenon, BlockTypes
    <3>2. CASE align_down(p) = b
      BY Zenon, <1>2, <2>1, <2>4, <3>2
    <3>3. CASE align_down(p) # b
      BY Zenon, <1>2, <2>1, <2>2, <2>5, <3>1, <3>3, DirFacts
    <3> QED BY Zenon, <3>2, <3>3
  <2>6. F.pte[g] = None
    BY Zenon, <1>2, <2>1, <2>4 DEF b
  <2> QED BY Zenon, <1>1, <2>3, <2>5, <2>6, BelowTable DEF F
<1>4. CASE ~is_epte_huge(E.pmd[b])
  <2>1. F.pmd = E.pmd /\ F.pte = [E.pte EXCEPT ![g] = None]
    BY Zenon, <1>1, <1>4, ClearLeafFields DEF F, b
  <2>2. F.pte[g] = None /\ \A p \in Gpas : p # g => F.pte[p] = E.pte[p]
    BY <1>1, <2>1 DEF Shape
  <2>3. Below(F, E)
    BY Zenon, <2>1, <2>2 DEF Below
  <2>4. ASSUME NEW p \in Gpas, F.pmd[align_down(p)] = None PROVE F.pte[p] = None
    BY Zenon, <1>2, <2>1, <2>2, <2>4, DirFacts
  <2> QED BY Zenon, <1>1, <2>2, <2>3, <2>4, BelowTable DEF F
<1> QED BY Zenon, <1>3, <1>4 DEF F

(* The page tables an NPT counts off when it drops the slot at b.          *)
Tables(E, b) == IF engine = "npt" /\ E.pmd[b] = Table THEN 1 ELSE 0

(* The counter of 2M entries without the slot at b.                        *)
Less2M(E, b) == Plus(E.n2m, IF is_epte_huge(E.pmd[b]) THEN -1 ELSE 0)

(* F is E without the slot at b and the page table under it.               *)
DirCleared(F, E, b) ==
  /\ F.pmd = [E.pmd EXCEPT ![b] = None]
  /\ F.pte = [p \in Gpas |-> IF p \in Block(b) THEN None ELSE E.pte[p]]
  /\ F.n2m = Less2M(E, b)
  /\ F.n4k = Plus(E.n4k, -Tables(E, b))
  /\ F.dropped = E.dropped + Tables(E, b)

(* The fields of the record ClearDir returns.                              *)
LEMMA ClearDirFields ==
  ASSUME NEW E, Shape(E), NEW h, hva_to_gpa(regions, h) \in Gpas,
         hva_to_gpa(regions, h) # ADDR_INVAL
  PROVE  /\ Shape(ClearDir(E, h))
         /\ DirCleared(ClearDir(E, h), E, align_down(hva_to_gpa(regions, h)))
<1> DEFINE F == ClearDir(E, h)
           b == align_down(hva_to_gpa(regions, h))
           d == [E.pmd EXCEPT ![b] = None]
           pt == [p \in Gpas |-> IF p \in Block(b) THEN None ELSE E.pte[p]]
<1>1. F = [pmd |-> d, pte |-> pt, n4k |-> Plus(E.n4k, -Tables(E, b)),
           n2m |-> Less2M(E, b), dropped |-> E.dropped + Tables(E, b)]
  BY Zenon DEF ClearDir, Shape, Tables, Less2M
<1>2. d \in [GBlocks -> Dirs]
  BY Zenon DEF Shape, Dirs
<1>3. pt = [p \in Gpas |-> pt[p]]
  BY Zenon
<1> HIDE DEF d, pt
<1>4. Shape(F)
  BY <1>1, <1>2, <1>3 DEF Shape
<1> QED BY <1>1, <1>4 DEF d, pt, DirCleared

(* ClearDir takes the slot of the block away that h is found in, if any.   *)
LEMMA ClearDirBelow ==
  ASSUME WellPlaced(regions), NEW E, TableInv(E), NEW h \in Int
  PROVE  LET F == ClearDir(E, h)
         IN /\ TableInv(F) /\ Below(F, E)
            /\ hva_to_gpa(regions, h) # ADDR_INVAL =>
                 F.pmd[align_down(hva_to_gpa(regions, h))] = None
<1> DEFINE F == ClearDir(E, h)
           b == align_down(hva_to_gpa(regions, h))
<1>1. CASE hva_to_gpa(regions, h) = ADDR_INVAL
  <2>1. F = E
    BY Zenon, <1>1 DEF ClearDir
  <2> QED BY Zenon, <1>1, <2>1, BelowOrder
<1>2. CASE hva_to_gpa(regions, h) # ADDR_INVAL
  <2>1. hva_to_gpa(regions, h) \in Gpas /\ b \in GBlocks /\ Shape(E)
    BY Zenon, <1>2, HvaGpa, BlockTypes DEF TableInv
  <2>2. /\ Shape(F) /\ F.pmd = [E.pmd EXCEPT ![b] = None]
        /\ F.pte = [p \in Gpas |-> IF p \in Block(b) THEN None ELSE E.pte[p]]
    <3>1. Shape(F) /\ DirCleared(F, E, b)
      BY Zenon, <1>2, <2>1, ClearDirFields
    <3> QED BY Zenon, <3>1 DEF DirCleared
  <2> HIDE DEF F, b
  <2>3. F.pmd[b] = None /\ \A c \in GBlocks : c # b => F.pmd[c] = E.pmd[c]
    BY Zenon, <2>1, <2>2 DEF Shape
  <2>4. Below(F, E)
    BY Zenon, <2>2, <2>3 DEF Below
  <2>5. ASSUME NEW p \in Gpas, F.pmd[align_down(p)] = None PROVE F.pte[p] = None
    <3>1. align_down(p) \in GBlocks /\ p \in Int
      BY Zenon, BlockTypes, Pages
    <3>2. CASE align_down(p) = b
      <4>1. p \in Block(b)
        <5>1. b \in Int /\ b <= p /\ p < b + H
          BY <3>1, <3>2, AlignDown
        <5> QED BY <3>1, <5>1, Sizes DEF Block
      <4> QED BY Zenon, <2>2, <4>1
    <3>3. CASE align_down(p) # b
      <4>1. E.pmd[align_down(p)] = None
        BY Zenon, <2>3, <2>5, <3>1, <3>3
      <4>2. E.pte[p] = None
        BY Zenon, <4>1, DirFacts DEF TableInv
      <4> QED BY Zenon, <2>2, <4>2
    <3> QED BY Zenon, <3>2, <3>3
  <2>6. TableInv(F)
    BY Zenon, <2>2, <2>4, <2>5, BelowTable
  <2> QED BY Zenon, <2>3, <2>4, <2>6 DEF F, b
<1> QED BY Zenon, <1>1, <1>2

(***************************************************************************)
(* Counters.                                                               *)
(***************************************************************************)

(* The remainder of x is the only number below Word that differs from x by *)
(* a multiple of Word.                                                     *)
LEMMA ModUnique ==
  ASSUME NEW q \in Int, NEW r \in 0 .. Word - 1
  PROVE  (Word * q + r) % Word = r
<1>1. Word \in Nat /\ Word > 0
  BY SizeAssumption, FS_CardinalityType
<1> DEFINE x == Word * q + r
           p == x \div Word
           m == x % Word
<1>2. x \in Int /\ p \in Int /\ m \in Int /\ x = Word * p + m /\ 0 <= m /\ m < Word
  BY <1>1
<1>3. Word * q \in Int /\ Word * p \in Int /\ x = Word * q + r
  BY <1>1, <1>2
<1> HIDE DEF p, m, x
<1>4. ~ (p < q)
  <2> SUFFICES ASSUME p + 1 <= q PROVE FALSE
    BY <1>2
  <2>1. Word * (p + 1) <= Word * q
    BY <1>1, <1>2
  <2>2. Word * (p + 1) = Word * p + Word
    BY <1>1, <1>2
  <2> QED BY <1>1, <1>2, <1>3, <2>1, <2>2
<1>5. ~ (q < p)
  <2> SUFFICES ASSUME q + 1 <= p PROVE FALSE
    BY <1>2
  <2>1. Word * (q + 1) <= Word * p
    BY <1>1, <1>2
  <2>2. Word * (q + 1) = Word * q + Word
    BY <1>1, <1>2
  <2> QED BY <1>1, <1>2, <1>3, <2>1, <2>2
<1>6. p = q
  BY <1>2, <1>4, <1>5
<1>7. m = r
  BY <1>2, <1>3, <1>6
<1> QED BY <1>7 DEF m, x

(* Two changes of a counter add up, and one that stays in range is exact.  *)
LEMMA PlusFacts ==
  /\ \A a, j, k \in Int : Plus(Plus(a, j), k) = Plus(a + j, k)
  /\ \A a, k \in Int : a + k \in 0 .. Word - 1 => Plus(a, k) = a + k
  /\ \A a, b, j, k \in Int : a + j = b + k => Plus(a, j) = Plus(b, k)
<1>1. Word \in Nat /\ Word > 0
  BY SizeAssumption, FS_CardinalityType
<1>2. ASSUME NEW a \in Int, NEW j \in Int, NEW k \in Int
      PROVE  Plus(Plus(a, j), k) = Plus(a + j, k)
  <2> DEFINE x == a + j
             m == x % Word
             q == x \div Word
             y == m + k
             n == y % Word
             p == y \div Word
  <2>1. x \in Int /\ m \in Int /\ q \in Int /\ x = Word * q + m
    BY <1>1
  <2>2. y \in Int /\ n \in 0 .. Word - 1 /\ p \in Int /\ y = Word * p + n
    BY <1>1, <2>1
  <2> HIDE DEF x, m, q, n, p
  <2>3. x + k = Word * (q + p) + n
    BY <1>1, <2>1, <2>2
  <2>4. (x + k) % Word = n
    BY <2>1, <2>2, <2>3, ModUnique
  <2> QED BY <2>4 DEF Plus, x, m, n
<1>3. ASSUME NEW a \in Int, NEW k \in Int, a + k \in 0 .. Word - 1
      PROVE  Plus(a, k) = a + k
  <2>1. Word * 0 + (a + k) = a + k
    BY <1>1
  <2> QED BY <1>3, <2>1, ModUnique DEF Plus
<1>4. ASSUME NEW a \in Int, NEW b \in Int, NEW j \in Int, NEW k \in Int, a + j = b + k
      PROVE  Plus(a, j) = Plus(b, k)
  BY <1>4 DEF Plus
<1> QED BY <1>2, <1>3, <1>4

(* Two changes in one.                                                     *)
LEMMA PlusTwice ==
  ASSUME NEW a \in Int, NEW j \in Int, NEW k \in Int, NEW b \in Int, NEW i \in Int,
         a + j + k = b + i
  PROVE  Plus(Plus(a, j), k) = Plus(b, i)
<1>1. Plus(Plus(a, j), k) = Plus(a + j, k)
  BY PlusFacts
<1>2. Plus(a + j, k) = Plus(b, i)
  BY DEF Plus
<1> QED BY Zenon, <1>1, <1>2

(* The counted entries are finitely many, fewer than Word.                 *)
LEMMA CountedFinite ==
  /\ \A S \in SUBSET Gpas : IsFiniteSet(S) /\ Cardinality(S) \in Nat
  /\ \A S \in SUBSET GBlocks :
       IsFiniteSet(S) /\ Cardinality(S) \in Nat /\ Cardinality(S) < Word
<1>1. \A S \in SUBSET Gpas : IsFiniteSet(S) /\ Cardinality(S) \in Nat
  BY SizeAssumption, FS_Subset, FS_CardinalityType
<1> DEFINE f == [g \in Gpas |-> align_down(g)]
<1>2. f \in Surjection(Gpas, GBlocks)
  BY DEF GBlocks, Surjection
<1>3. IsFiniteSet(GBlocks) /\ Cardinality(GBlocks) <= Cardinality(Gpas)
  BY <1>2, SizeAssumption, FS_Surjection
<1>4. ASSUME NEW S \in SUBSET GBlocks
      PROVE  IsFiniteSet(S) /\ Cardinality(S) \in Nat /\ Cardinality(S) < Word
  <2>1. IsFiniteSet(S) /\ Cardinality(S) <= Cardinality(GBlocks)
    BY <1>3, FS_Subset
  <2>2. Cardinality(S) \in Nat /\ Cardinality(GBlocks) \in Nat /\ Cardinality(Gpas) \in Nat
    BY <1>3, <2>1, SizeAssumption, FS_CardinalityType
  <2> QED BY <1>3, <2>1, <2>2, SizeAssumption
<1> QED BY <1>1, <1>4

(* The counted 4K entries, and the 2M entries.                             *)
Entries(E) == {g \in Gpas : Count(E.pte[g]) = 1}
HugeEntries(E) == {b \in GBlocks : is_epte_huge(E.pmd[b])}

(* F is E with d in the slot at b, and E has its 2M entries counted.       *)
SlotSet(F, E, b, d) ==
  /\ b \in GBlocks /\ E.pmd[b] \in Dirs /\ E.n2m = Cardinality(HugeEntries(E))
  /\ F.pmd[b] = d /\ \A c \in GBlocks : c # b => F.pmd[c] = E.pmd[c]

(* Emptying the slot at b takes one 2M entry away, or none.                *)
LEMMA HugeLess ==
  ASSUME NEW E, NEW F, NEW b, SlotSet(F, E, b, None)
  PROVE  Cardinality(HugeEntries(F)) = Less2M(E, b)
<1> DEFINE S == HugeEntries(E)
           T == HugeEntries(F)
<1>1. /\ IsFiniteSet(S) /\ Cardinality(S) \in Nat /\ Cardinality(S) < Word
      /\ Cardinality(T) \in Nat /\ Cardinality(T) < Word
  BY Zenon, CountedFinite DEF HugeEntries
<1>2. b \in GBlocks /\ E.n2m = Cardinality(S)
  BY Zenon DEF SlotSet
<1>3. T = S \ {b}
  BY Zenon, DirFacts DEF HugeEntries, SlotSet
<1>4. is_epte_huge(E.pmd[b]) <=> b \in S
  BY Zenon, <1>2 DEF HugeEntries
<1> HIDE DEF S, T
<1>5. Word \in Nat
  BY SizeAssumption
<1>6. CASE b \in S
  <2>1. Cardinality(T) = Cardinality(S) - 1
    BY Zenon, <1>1, <1>3, <1>6, FS_RemoveElement
  <2>2. Cardinality(S) \in Int /\ -1 \in Int /\ Cardinality(S) + -1 \in 0 .. Word - 1
    BY <1>1, <1>5, <2>1
  <2>3. Plus(Cardinality(S), -1) = Cardinality(S) + -1
    BY Zenon, <2>2, PlusFacts
  <2>4. Cardinality(S) + -1 = Cardinality(S) - 1
    BY <1>1
  <2> QED BY Zenon, <1>2, <1>4, <1>6, <2>1, <2>3, <2>4 DEF T, Less2M
<1>7. CASE b \notin S
  <2>1. T = S
    BY Zenon, <1>3, <1>7
  <2>2. Cardinality(S) \in Int /\ 0 \in Int /\ Cardinality(S) + 0 \in 0 .. Word - 1
    BY <1>1, <1>5
  <2>3. Plus(Cardinality(S), 0) = Cardinality(S) + 0
    BY Zenon, <2>2, PlusFacts
  <2>4. Cardinality(S) + 0 = Cardinality(S)
    BY <1>1
  <2> QED BY Zenon, <1>2, <1>4, <1>7, <2>1, <2>3, <2>4 DEF T, Less2M
<1> QED BY Zenon, <1>6, <1>7

(* ClearLeaf keeps the counters right.                                     *)
LEMMA ClearLeafStat ==
  ASSUME NEW E, Shape(E), StatInv(E), NEW g \in Gpas
  PROVE  StatInv(ClearLeaf(E, g))
<1> DEFINE F == ClearLeaf(E, g)
           b == align_down(g)
           S == Entries(E)
           T == Entries(F)
           c == -Count(E.pte[g])
<1>1. /\ E.dropped \in Nat /\ E.n4k = Plus(Cardinality(S), -E.dropped)
      /\ E.n2m = Cardinality(HugeEntries(E))
  BY Zenon DEF StatInv, Entries, HugeEntries
<1>2. b \in GBlocks /\ F.dropped = E.dropped
  BY Zenon, BlockTypes, ClearLeafFields
<1>3. IsFiniteSet(S) /\ Cardinality(S) \in Nat /\ Cardinality(S) \in Int /\ -E.dropped \in Int
  <2>1. IsFiniteSet(S) /\ Cardinality(S) \in Nat
    BY Zenon, CountedFinite DEF Entries
  <2> QED BY <1>1, <2>1
<1>4. CASE is_epte_huge(E.pmd[b])
  <2>1. /\ F.pmd = [E.pmd EXCEPT ![b] = None] /\ F.pte = E.pte
        /\ F.n2m = Plus(E.n2m, -1) /\ F.n4k = E.n4k
    BY Zenon, <1>4, ClearLeafFields
  <2> HIDE DEF F, b
  <2>2. F.n2m = Cardinality(HugeEntries(F))
    <3>1. Cardinality(HugeEntries(F)) = Less2M(E, b)
      <4>1. F.pmd[b] = None /\ \A x \in GBlocks : x # b => F.pmd[x] = E.pmd[x]
        BY Zenon, <1>2, <2>1 DEF Shape
      <4>2. SlotSet(F, E, b, None)
        BY Zenon, <1>1, <1>2, <4>1 DEF SlotSet, Shape
      <4> QED BY Zenon, <4>2, HugeLess
    <3> QED BY Zenon, <1>4, <2>1, <3>1 DEF Less2M
  <2>3. T = S
    BY Zenon, <2>1 DEF Entries
  <2>4. StatInv(F)
    BY Zenon, <1>1, <1>2, <2>1, <2>2, <2>3 DEF StatInv, Entries, HugeEntries
  <2> QED BY Zenon, <2>4 DEF F
<1>5. CASE ~is_epte_huge(E.pmd[b])
  <2>1. /\ F.pmd = E.pmd /\ F.pte = [E.pte EXCEPT ![g] = None]
        /\ F.n2m = E.n2m /\ F.n4k = Plus(E.n4k, c)
    <3>1. F.pmd = E.pmd /\ F.pte = [E.pte EXCEPT ![g] = None] /\ F.n2m = E.n2m
      BY Zenon, <1>5, ClearLeafFields
    <3>2. F.n4k = Less(E, g)
      BY Zenon, <1>5, ClearLeafFields
    <3> QED BY Zenon, <3>1, <3>2 DEF Less
  <2> HIDE DEF F, b
  <2>2. F.pte[g] = None /\ \A p \in Gpas : p # g => F.pte[p] = E.pte[p]
    BY <2>1 DEF Shape
  <2>3. T = S \ {g}
    <3>1. Count(None) # 1
      BY DirFacts
    <3> QED BY Zenon, <2>2, <3>1 DEF Entries
  <2>4. F.n2m = Cardinality(HugeEntries(F))
    BY Zenon, <1>1, <2>1 DEF HugeEntries
  <2>5. F.n4k = Plus(Cardinality(T), -E.dropped)
    <3>1. CASE g \in S
      <4>1. Count(E.pte[g]) = 1
        BY Zenon, <3>1 DEF Entries
      <4>2. Cardinality(T) = Cardinality(S) - 1
        BY Zenon, <1>3, <2>3, <3>1, FS_RemoveElement
      <4> HIDE DEF S, T
      <4>3. Cardinality(S) + -E.dropped + -1 = Cardinality(T) + -E.dropped
        BY <1>1, <1>3, <4>2
      <4>4. Cardinality(T) \in Int /\ -1 \in Int
        BY <1>3, <4>2
      <4>5. Plus(Plus(Cardinality(S), -E.dropped), -1) = Plus(Cardinality(T), -E.dropped)
        BY <1>3, <4>3, <4>4, PlusTwice
      <4> QED BY Zenon, <1>1, <2>1, <4>1, <4>5
    <3>2. CASE g \notin S
      <4>1. Count(E.pte[g]) = 0
        BY Zenon, <3>2 DEF Entries, Count
      <4>2. T = S
        BY Zenon, <2>3, <3>2
      <4> HIDE DEF S, T
      <4>3. Cardinality(S) + -E.dropped + -0 = Cardinality(S) + -E.dropped /\ -0 \in Int
        BY <1>1, <1>3
      <4>4. Plus(Plus(Cardinality(S), -E.dropped), -0) = Plus(Cardinality(S), -E.dropped)
        BY <1>3, <4>3, PlusTwice
      <4> QED BY Zenon, <1>1, <2>1, <4>1, <4>2, <4>4
    <3> QED BY Zenon, <3>1, <3>2
  <2>6. StatInv(F)
    BY Zenon, <1>1, <1>2, <2>4, <2>5 DEF StatInv, Entries, HugeEntries
  <2> QED BY Zenon, <2>6 DEF F
<1> QED BY Zenon, <1>4, <1>5

(* So does ClearDir on a block whose 4K entries are gone, once a page      *)
(* table that an NPT counts off is set against them.                       *)
LEMMA ClearDirStat ==
  ASSUME NEW E, Shape(E), StatInv(E), NEW h, hva_to_gpa(regions, h) \in Gpas,
         hva_to_gpa(regions, h) # ADDR_INVAL,
         \A p \in Gpas : p \in Block(align_down(hva_to_gpa(regions, h))) => E.pte[p] = None
  PROVE  StatInv(ClearDir(E, h))
<1> DEFINE F == ClearDir(E, h)
           b == align_down(hva_to_gpa(regions, h))
           S == Entries(E)
<1>1. /\ E.dropped \in Nat /\ E.n4k = Plus(Cardinality(S), -E.dropped)
      /\ E.n2m = Cardinality(HugeEntries(E)) /\ b \in GBlocks
  BY Zenon, BlockTypes DEF StatInv, Entries, HugeEntries
<1>2. /\ F.pmd = [E.pmd EXCEPT ![b] = None]
      /\ F.pte = [p \in Gpas |-> IF p \in Block(b) THEN None ELSE E.pte[p]]
      /\ F.n2m = Less2M(E, b) /\ F.n4k = Plus(E.n4k, -Tables(E, b))
      /\ F.dropped = E.dropped + Tables(E, b)
  <2>1. DirCleared(F, E, b)
    BY Zenon, ClearDirFields
  <2> QED BY Zenon, <2>1 DEF DirCleared
<1>3. \A p \in Gpas : F.pte[p] = E.pte[p]
  BY Zenon, <1>2
<1> HIDE DEF F, b
<1>4. F.n2m = Cardinality(HugeEntries(F))
  <2>1. F.pmd[b] = None /\ \A c \in GBlocks : c # b => F.pmd[c] = E.pmd[c]
    BY Zenon, <1>1, <1>2 DEF Shape
  <2>2. SlotSet(F, E, b, None)
    BY Zenon, <1>1, <2>1 DEF SlotSet, Shape
  <2>3. Cardinality(HugeEntries(F)) = Less2M(E, b)
    BY Zenon, <2>2, HugeLess
  <2> QED BY Zenon, <1>2, <2>3
<1>5. Entries(F) = S
  BY Zenon, <1>3 DEF Entries
<1>6. Cardinality(S) \in Int /\ -E.dropped \in Int
  <2>1. Cardinality(S) \in Nat
    BY Zenon, CountedFinite DEF Entries
  <2> QED BY <1>1, <2>1
<1>7. Tables(E, b) \in Nat /\ -Tables(E, b) \in Int
  BY DEF Tables
<1> HIDE DEF S
<1> DEFINE t == Tables(E, b)
<1>8. /\ F.dropped \in Nat /\ -F.dropped \in Int
      /\ Cardinality(S) + -E.dropped + -t = Cardinality(S) + -F.dropped
  <2> DEFINE c == Cardinality(S)
             old == E.dropped
             new == F.dropped
  <2>1. old \in Nat /\ t \in Nat /\ c \in Int /\ new = old + t
    BY Zenon, <1>1, <1>2, <1>6, <1>7
  <2> HIDE DEF c, old, new, t
  <2>2. new \in Nat /\ -new \in Int /\ c + -old + -t = c + -new
    BY SMT, <2>1
  <2> QED BY Zenon, <2>2 DEF c, old, new
<1> HIDE DEF t
<1>9. Plus(Plus(Cardinality(S), -E.dropped), -t) = Plus(Cardinality(S), -F.dropped)
  <2>1. -t \in Int
    BY <1>7 DEF t
  <2> QED BY <1>6, <1>8, <2>1, PlusTwice
<1>10. F.n4k = Plus(Cardinality(S), -F.dropped)
  BY Zenon, <1>1, <1>2, <1>9 DEF t
<1>11. StatInv(F)
  BY Zenon, <1>4, <1>5, <1>8, <1>10 DEF StatInv, Entries, HugeEntries
<1> QED BY Zenon, <1>11 DEF F

(***************************************************************************)
(* The passes over a range.                                                *)
(***************************************************************************)

(* Induction, for a set of numbers.                                        *)
LEMMA Induction ==
  ASSUME NEW S, 0 \in S, \A n \in Nat : n \in S => n + 1 \in S
  PROVE  Nat \subseteq S
<1> DEFINE out == Nat \ S
           below == {p \in Nat \X Nat : p[1] < p[2]}
<1> SUFFICES ASSUME out # {} PROVE FALSE
  BY Zenon
<1>1. IsWellFoundedOn(below, Nat)
  BY NatLessThanWellFounded DEF OpToRel
<1>2. PICK n \in out : \A m \in out : ~(<<m, n>> \in below)
  <2>1. out \subseteq Nat
    BY Zenon
  <2> HIDE DEF out, below
  <2> QED BY Zenon, <1>1, <2>1, WFMin
<1>3. n \in Nat /\ n \notin S /\ n # 0
  BY Zenon, <1>2
<1>4. n - 1 \in Nat /\ (n - 1) + 1 = n /\ <<n - 1, n>> \in below
  BY <1>3
<1>5. n - 1 \in S
  BY Zenon, <1>2, <1>4
<1> QED BY Zenon, <1>3, <1>4, <1>5

(* f is the pass of clear_page_table over the pages from s to n.           *)
IsPass(f, E, s, n, e) ==
  f = [x \in s .. n |-> IF x = s THEN [next |-> s, ept |-> E]
                         ELSE ClearPage(f[x - 1], x - 1, e)]

(* The recursion of clear_page_table defines a function.                   *)
LEMMA PassExists ==
  ASSUME NEW E, NEW s \in Int, NEW e, NEW k \in Nat
  PROVE  \E f : IsPass(f, E, s, s + k, e)
<1> DEFINE base == [next |-> s, ept |-> E]
           Is(f, n) == f = [x \in s .. s + n |-> IF x = s THEN base
                                                 ELSE ClearPage(f[x - 1], x - 1, e)]
           S == {n \in Nat : \E f : Is(f, n)}
<1>1. 0 \in S
  <2> DEFINE f == [x \in s .. s + 0 |-> base]
  <2>1. \A x \in s .. s + 0 : x = s
    OBVIOUS
  <2> HIDE DEF base
  <2>2. Is(f, 0)
    BY Zenon, <2>1
  <2>3. 0 \in Nat
    OBVIOUS
  <2> QED BY Zenon, <2>2, <2>3
<1>2. ASSUME NEW n \in Nat, n \in S PROVE n + 1 \in S
  <2>1. PICK f : Is(f, n)
    BY Zenon, <1>2
  <2> DEFINE y == s + (n + 1)
             g == [x \in s .. y |-> IF x = y THEN ClearPage(f[x - 1], x - 1, e) ELSE f[x]]
  <2> HIDE DEF base
  <2>2. ASSUME NEW x \in s .. y
        PROVE  g[x] = IF x = s THEN base ELSE ClearPage(g[x - 1], x - 1, e)
    <3>0. y \in Int /\ y # s /\ x \in Int
      OBVIOUS
    <3>1. CASE x = s
      <4>1. s \in s .. s + n /\ x # y
        BY <3>0, <3>1
      <4>2. g[x] = f[x]
        BY Zenon, <4>1
      <4>3. f[x] = base
        BY Zenon, <2>1, <3>1, <4>1
      <4> QED BY Zenon, <3>1, <4>2, <4>3
    <3>2. CASE x # s /\ x # y
      <4>1. x \in s .. s + n /\ x - 1 \in s .. y /\ x - 1 # y
        BY <3>0, <3>2
      <4> HIDE DEF y
      <4>2. g[x] = f[x] /\ g[x - 1] = f[x - 1]
        BY Zenon, <3>2, <4>1
      <4>3. f[x] = ClearPage(f[x - 1], x - 1, e)
        BY Zenon, <2>1, <3>2, <4>1
      <4> QED BY Zenon, <3>2, <4>2, <4>3
    <3>3. CASE x = y
      <4>1. x - 1 \in s .. y /\ x - 1 # y
        BY <3>0, <3>3
      <4> HIDE DEF y
      <4>2. g[x] = ClearPage(f[x - 1], x - 1, e) /\ g[x - 1] = f[x - 1]
        BY Zenon, <3>3, <4>1
      <4> QED BY Zenon, <3>0, <3>3, <4>2
    <3> QED BY Zenon, <3>1, <3>2, <3>3
  <2> HIDE DEF y
  <2>3. g = [x \in s .. y |-> IF x = s THEN base ELSE ClearPage(g[x - 1], x - 1, e)]
    BY Zenon, <2>2
  <2>4. Is(g, n + 1)
    BY Zenon, <2>3 DEF y
  <2>5. n + 1 \in Nat
    OBVIOUS
  <2> QED BY Zenon, <2>4, <2>5
<1>3. k \in S
  <2> HIDE DEF S
  <2> QED BY Zenon, <1>1, <1>2, Induction
<1>4. PICK f : Is(f, k)
  BY Zenon, <1>3
<1>5. IsPass(f, E, s, s + k, e)
  BY Zenon, <1>4 DEF IsPass
<1> QED BY Zenon, <1>5

(* What f[x] is when the loop is at page x.                                *)
Rounds(f, E, s, n, e) ==
  /\ f[s] = [next |-> s, ept |-> E]
  /\ \A x \in s .. n - 1 : f[x + 1] = ClearPage(f[x], x, e)

(* The result is that of the last round.                                   *)
LEMMA PassRounds ==
  ASSUME NEW E, NEW s \in Int, NEW n \in Int, s <= n, NEW e
  PROVE  \E f : clear_page_table(E, s, n, e) = f[n].ept /\ Rounds(f, E, s, n, e)
<1> DEFINE base == [next |-> s, ept |-> E]
           pass[x \in s .. n] == IF x = s THEN base ELSE ClearPage(pass[x - 1], x - 1, e)
<1>1. clear_page_table(E, s, n, e) = pass[n].ept
  BY Zenon DEF clear_page_table
<1>2. n - s \in Nat /\ s + (n - s) = n
  OBVIOUS
<1>3. PICK f : IsPass(f, E, s, n, e)
  BY <1>2, PassExists
<1>4. f = [x \in s .. n |-> IF x = s THEN base ELSE ClearPage(f[x - 1], x - 1, e)]
  BY Zenon, <1>3 DEF IsPass
<1> HIDE DEF base
<1>5. pass = [x \in s .. n |-> IF x = s THEN base ELSE ClearPage(pass[x - 1], x - 1, e)]
  BY Zenon, <1>4
<1> HIDE DEF pass
<1>6. s \in s .. n
  OBVIOUS
<1>7. pass[s] = base
  BY Zenon, <1>5, <1>6
<1>8. ASSUME NEW x \in s .. n - 1 PROVE pass[x + 1] = ClearPage(pass[x], x, e)
  <2>1. x + 1 \in s .. n /\ x + 1 # s /\ (x + 1) - 1 = x
    OBVIOUS
  <2>2. pass[x + 1] = ClearPage(pass[(x + 1) - 1], (x + 1) - 1, e)
    BY Zenon, <1>5, <2>1
  <2> QED BY Zenon, <2>1, <2>2
<1> QED BY Zenon, <1>1, <1>7, <1>8 DEF base, Rounds

(***************************************************************************)
(* What a pass has done when the loop's s is acc.next: tables that began   *)
(* as E have nothing left for the pages from s on.                         *)
(***************************************************************************)
Passed(acc, E, s, x) ==
  /\ acc = [next |-> acc.next, ept |-> acc.ept]
  /\ acc.next \in Int /\ x <= acc.next
  /\ TableInv(acc.ept) /\ Below(acc.ept, E)
  /\ \A h \in s .. acc.next - 1 : Cleared(acc.ept, h)
  /\ StatInv(E) => StatInv(acc.ept)

(* A round of the loop takes the pass one page on.                         *)
LEMMA Round ==
  ASSUME WellPlaced(regions), NEW acc, NEW E, NEW s \in Int, NEW x \in Int, s <= x,
         Passed(acc, E, s, x), NEW e
  PROVE  Passed(ClearPage(acc, x, e), E, s, x + 1)
<1> DEFINE g == hva_to_gpa(regions, x)
           b == align_down(g)
           D == acc.ept
           found == LookupLeaf(D, x)
           huge == found /\ is_epte_huge(D.pmd[b])
           F == IF found /\ (huge => DropsHuge(x, e)) THEN ClearLeaf(D, g) ELSE D
           n == IF huge THEN align_down(x) + H ELSE x + 1
<1>1. /\ acc.next \in Int /\ x <= acc.next
      /\ TableInv(D) /\ Below(D, E) /\ Shape(D)
      /\ \A h \in s .. acc.next - 1 : Cleared(D, h)
      /\ StatInv(E) => StatInv(D)
  BY Zenon DEF Passed, TableInv
<1>2. CASE x # acc.next
  <2>1. ClearPage(acc, x, e) = acc
    BY Zenon, <1>2 DEF ClearPage
  <2>2. x + 1 <= acc.next
    BY <1>1, <1>2
  <2> QED BY Zenon, <2>1, <2>2 DEF Passed
<1>3. CASE x = acc.next
  <2>1. ClearPage(acc, x, e) = [next |-> n, ept |-> F]
    BY Zenon, <1>3 DEF ClearPage
  <2>2. found => g # ADDR_INVAL /\ g \in Gpas /\ b \in GBlocks /\ D.pmd[b] # None
    BY Zenon, HvaGpa, BlockTypes DEF LookupLeaf
  <2>3. TableInv(F) /\ Below(F, D) /\ (StatInv(D) => StatInv(F))
    <3> HIDE DEF D, g
    <3>1. CASE found /\ (huge => DropsHuge(x, e))
      <4>1. F = ClearLeaf(D, g) /\ g \in Gpas
        BY Zenon, <2>2, <3>1
      <4>2. TableInv(ClearLeaf(D, g)) /\ Below(ClearLeaf(D, g), D)
        BY Zenon, <1>1, <4>1, ClearLeafBelow
      <4>3. StatInv(D) => StatInv(ClearLeaf(D, g))
        BY Zenon, <1>1, <4>1, ClearLeafStat
      <4> QED BY Zenon, <4>1, <4>2, <4>3
    <3>2. CASE ~ (found /\ (huge => DropsHuge(x, e)))
      <4>1. F = D
        BY Zenon, <3>2
      <4> QED BY Zenon, <1>1, <4>1, BelowOrder
    <3> QED BY Zenon, <3>1, <3>2
  <2>4. Below(F, E)
    <3> HIDE DEF F, D
    <3> QED BY Zenon, <1>1, <2>3, BelowOrder
  <2>5. n \in Int /\ x + 1 <= n
    <3>1. align_down(x) \in Int /\ x < align_down(x) + H
      BY AlignDown
    <3> HIDE DEF huge
    <3> QED BY <3>1, Sizes
  <2>6. ASSUME NEW h \in s .. n - 1 PROVE Cleared(F, h)
    <3>1. h \in Int
      BY <2>5
    <3>2. CASE h < x
      <4>1. h \in s .. acc.next - 1
        BY <1>3, <3>1, <3>2
      <4>2. Cleared(D, h)
        BY Zenon, <1>1, <4>1
      <4> HIDE DEF F, D
      <4> QED BY Zenon, <2>3, <3>1, <4>2, BelowKeeps
    <3>3. CASE ~ (h < x) /\ huge
      <4>1. PICK hb \in HBlocks : D.pmd[b] = <<"huge", hb>>
        BY Zenon, <1>1, <2>2, <3>3, DirFacts DEF Shape
      <4>2. Backs(b, hb) /\ b \in Int /\ Aligned(b) /\ hb \in Nat /\ Aligned(hb)
        BY Zenon, <1>1, <2>2, <3>3, <4>1, BlockTypes DEF TableInv
      <4>3. g \in Int /\ gpa_to_hva(regions, g) = x
        BY Zenon, <2>2, <3>3, HvaGpa, Pages
      <4>4. align_down(x) = hb
        BY <4>2, <4>3, BackedPages
      <4>5. align_down(h) = hb
        <5>1. hb <= x /\ n = hb + H /\ hb \in Int
          BY <3>3, <4>4, AlignDown
        <5>2. hb <= h /\ h < hb + H
          BY <3>1, <3>3, <5>1, Sizes
        <5> QED BY <3>1, <4>2, <5>1, <5>2, InBlock
      <4>6. hva_to_gpa(regions, h) # ADDR_INVAL /\ align_down(hva_to_gpa(regions, h)) = b
        BY <3>1, <4>2, <4>5, BackedPages
      <4>7. hva_to_gpa(regions, h) \in Gpas
        BY Zenon, <3>1, <4>6, HvaGpa
      <4>8. D.pte[hva_to_gpa(regions, h)] = None
        BY Zenon, <1>1, <4>1, <4>6, <4>7, DirFacts DEF TableInv
      <4>9. Cleared(D, h)
        BY Zenon, <4>8 DEF Cleared
      <4> HIDE DEF F, D
      <4> QED BY Zenon, <2>3, <3>1, <4>9, BelowKeeps
    <3>4. CASE ~ (h < x) /\ ~huge
      <4>1. h = x
        BY <3>1, <3>4
      <4>2. CASE found
        <5>1. F = ClearLeaf(D, g) /\ g \in Gpas
          BY Zenon, <2>2, <3>4, <4>2
        <5>2. ClearLeaf(D, g).pte[g] = None
          BY Zenon, <1>1, <5>1, ClearLeafBelow
        <5> QED BY Zenon, <4>1, <5>1, <5>2 DEF Cleared
      <4>3. CASE ~found
        <5>1. F = D
          BY Zenon, <4>3
        <5>2. g = ADDR_INVAL \/ D.pmd[b] = None
          BY Zenon, <4>3 DEF LookupLeaf
        <5>3. g # ADDR_INVAL => g \in Gpas
          BY Zenon, HvaGpa
        <5>4. g # ADDR_INVAL => D.pte[g] = None
          BY Zenon, <1>1, <5>2, <5>3, DirFacts DEF TableInv
        <5> QED BY Zenon, <4>1, <5>1, <5>4 DEF Cleared
      <4> QED BY Zenon, <4>2, <4>3
    <3> QED BY Zenon, <3>2, <3>3, <3>4
  <2> HIDE DEF F, n, D
  <2>7. Passed([next |-> n, ept |-> F], E, s, x + 1)
    <3> DEFINE a == [next |-> n, ept |-> F]
    <3>1. a.next = n /\ a.ept = F /\ a = [next |-> a.next, ept |-> a.ept]
      BY Zenon
    <3> HIDE DEF a
    <3>2. Passed(a, E, s, x + 1)
      BY Zenon, <1>1, <2>3, <2>4, <2>5, <2>6, <3>1 DEF Passed
    <3> QED BY Zenon, <3>2 DEF a
  <2> QED BY Zenon, <2>1, <2>7
<1> QED BY Zenon, <1>2, <1>3

(* clear_page_table clears the pages it is given, and nothing comes back.  *)
LEMMA ClearPages ==
  ASSUME WellPlaced(regions), NEW E, TableInv(E), NEW s \in Int, NEW n \in Int, s <= n, NEW e
  PROVE  LET F == clear_page_table(E, s, n, e)
         IN /\ TableInv(F) /\ Below(F, E) /\ (StatInv(E) => StatInv(F))
            /\ \A h \in s .. n - 1 : Cleared(F, h)
<1>1. PICK f : clear_page_table(E, s, n, e) = f[n].ept /\ Rounds(f, E, s, n, e)
  BY Zenon, PassRounds
<1> DEFINE S == {k \in Nat : s + k <= n => Passed(f[s + k], E, s, s + k)}
<1>2. 0 \in S
  <2>1. f[s].next = s /\ f[s].ept = E /\ f[s] = [next |-> f[s].next, ept |-> f[s].ept]
    BY SMTT(30), <1>1 DEF Rounds
  <2>2. s + 0 = s /\ s <= s /\ 0 \in Nat
    OBVIOUS
  <2>3. \A h \in s .. s - 1 : Cleared(E, h)
    OBVIOUS
  <2>4. Passed(f[s], E, s, s)
    BY Zenon, <2>1, <2>2, <2>3, BelowOrder DEF Passed
  <2> QED BY Zenon, <2>2, <2>4
<1>3. ASSUME NEW k \in Nat, k \in S PROVE k + 1 \in S
  <2> SUFFICES ASSUME s + (k + 1) <= n PROVE Passed(f[s + (k + 1)], E, s, s + (k + 1))
    OBVIOUS
  <2> DEFINE x == s + k
  <2>1. x \in Int /\ s <= x /\ x \in s .. n - 1 /\ s + (k + 1) = x + 1 /\ x <= n
    OBVIOUS
  <2>2. Passed(f[x], E, s, x)
    BY Zenon, <1>3, <2>1
  <2> HIDE DEF x
  <2>3. f[x + 1] = ClearPage(f[x], x, e)
    BY Zenon, <1>1, <2>1 DEF Rounds
  <2>4. Passed(ClearPage(f[x], x, e), E, s, x + 1)
    BY Zenon, <2>1, <2>2, Round
  <2> QED BY Zenon, <2>1, <2>3, <2>4
<1>4. Passed(f[n], E, s, n)
  <2>1. n - s \in Nat /\ s + (n - s) = n /\ n <= n
    OBVIOUS
  <2>2. n - s \in S
    <3> HIDE DEF S
    <3> QED BY Zenon, <1>2, <1>3, <2>1, Induction
  <2> QED BY Zenon, <2>1, <2>2
<1>5. \A h \in s .. n - 1 : Cleared(f[n].ept, h)
  <2> DEFINE m == f[n].next
  <2>0. m \in Int /\ n <= m
    BY Zenon, <1>4 DEF Passed
  <2> HIDE DEF m
  <2>1. \A h \in s .. n - 1 : h \in s .. m - 1
    BY SMT, <2>0
  <2> QED BY Zenon, <1>4, <2>1 DEF Passed, m
<1> QED BY Zenon, <1>1, <1>4, <1>5 DEF Passed

(* f is the pass of clear_page_directory over n blocks from u on.          *)
IsDirPass(f, E, u, n) ==
  f = [i \in 0 .. n |-> IF i = 0 THEN E ELSE ClearDir(f[i - 1], u + (i - 1) * H)]

(* The recursion of clear_page_directory defines a function.               *)
LEMMA DirPassExists ==
  ASSUME NEW E, NEW u, NEW k \in Nat
  PROVE  \E f : IsDirPass(f, E, u, k)
<1> DEFINE S == {n \in Nat : \E f : IsDirPass(f, E, u, n)}
<1>1. 0 \in S
  <2> DEFINE f == [i \in 0 .. 0 |-> E]
  <2>1. \A i \in 0 .. 0 : i = 0
    OBVIOUS
  <2>2. IsDirPass(f, E, u, 0)
    BY Zenon, <2>1 DEF IsDirPass
  <2>3. 0 \in Nat
    OBVIOUS
  <2> QED BY Zenon, <2>2, <2>3
<1>2. ASSUME NEW n \in Nat, n \in S PROVE n + 1 \in S
  <2>1. PICK f : IsDirPass(f, E, u, n)
    BY Zenon, <1>2
  <2> DEFINE y == n + 1
             Slot(i) == u + (i - 1) * H
             g == [i \in 0 .. y |-> IF i = y THEN ClearDir(f[i - 1], Slot(i)) ELSE f[i]]
  <2>2. \A i \in 0 .. n : f[i] = IF i = 0 THEN E ELSE ClearDir(f[i - 1], Slot(i))
    BY Zenon, <2>1 DEF IsDirPass
  <2> HIDE DEF Slot
  <2>3. ASSUME NEW i \in 0 .. y
        PROVE  g[i] = IF i = 0 THEN E ELSE ClearDir(g[i - 1], Slot(i))
    <3>0. y # 0 /\ i \in Int
      OBVIOUS
    <3>1. CASE i = 0
      <4>1. 0 \in 0 .. n /\ i # y
        BY <3>1
      <4>2. g[i] = f[i] /\ f[i] = E
        BY Zenon, <2>2, <3>1, <4>1
      <4> QED BY Zenon, <3>1, <4>2
    <3>2. CASE i # 0 /\ i # y
      <4>1. i \in 0 .. n /\ i - 1 \in 0 .. y /\ i - 1 # y
        BY <3>2
      <4> HIDE DEF y
      <4>2. g[i] = f[i] /\ g[i - 1] = f[i - 1]
        BY Zenon, <3>2, <4>1
      <4>3. f[i] = ClearDir(f[i - 1], Slot(i))
        BY Zenon, <2>2, <3>2, <4>1
      <4> QED BY Zenon, <3>2, <4>2, <4>3
    <3>3. CASE i = y
      <4>1. i - 1 \in 0 .. y /\ i - 1 # y
        BY <3>0, <3>3
      <4> HIDE DEF y
      <4>2. g[i] = ClearDir(f[i - 1], Slot(i)) /\ g[i - 1] = f[i - 1]
        BY Zenon, <3>3, <4>1
      <4> QED BY Zenon, <3>0, <3>3, <4>2
    <3> QED BY Zenon, <3>1, <3>2, <3>3
  <2> HIDE DEF y
  <2>4. g = [i \in 0 .. y |-> IF i = 0 THEN E ELSE ClearDir(g[i - 1], Slot(i))]
    BY Zenon, <2>3
  <2> HIDE DEF g
  <2>5. IsDirPass(g, E, u, n + 1)
    BY Zenon, <2>4 DEF y, Slot, IsDirPass
  <2>6. n + 1 \in Nat
    OBVIOUS
  <2> QED BY Zenon, <2>5, <2>6
<1>3. k \in S
  <2> HIDE DEF S
  <2> QED BY Zenon, <1>1, <1>2, Induction
<1> QED BY Zenon, <1>3

(* What f[i] is after i blocks.                                            *)
DirRounds(f, E, u, n) ==
  f[0] = E /\ \A i \in 0 .. n - 1 : f[i + 1] = ClearDir(f[i], u + i * H)

(* The result is that of the last round.                                   *)
LEMMA DirPassRounds ==
  ASSUME NEW E, NEW s, NEW e, NEW n, n = (align_down(e) - align_up(s)) \div H,
         n \in Nat, n > 0
  PROVE  \E f : clear_page_directory(E, s, e) = f[n] /\ DirRounds(f, E, align_up(s), n)
<1> DEFINE u == align_up(s)
           pass[i \in 0 .. n] ==
             IF i = 0 THEN E ELSE ClearDir(pass[i - 1], u + (i - 1) * H)
<1>1. clear_page_directory(E, s, e) = pass[n]
  BY Zenon DEF clear_page_directory
<1>2. PICK f : IsDirPass(f, E, u, n)
  <2> HIDE DEF u
  <2> QED BY Zenon, DirPassExists
<1> HIDE DEF u
<1>3. f = [i \in 0 .. n |-> IF i = 0 THEN E ELSE ClearDir(f[i - 1], u + (i - 1) * H)]
  BY Zenon, <1>2 DEF IsDirPass
<1>4. pass = [i \in 0 .. n |-> IF i = 0 THEN E ELSE ClearDir(pass[i - 1], u + (i - 1) * H)]
  BY Zenon, <1>3
<1> HIDE DEF pass
<1>5. 0 \in 0 .. n
  OBVIOUS
<1>6. pass[0] = E
  BY Zenon, <1>4, <1>5
<1>7. ASSUME NEW i \in 0 .. n - 1 PROVE pass[i + 1] = ClearDir(pass[i], u + i * H)
  <2>1. i + 1 \in 0 .. n /\ i + 1 # 0 /\ (i + 1) - 1 = i
    OBVIOUS
  <2>2. pass[i + 1] = ClearDir(pass[(i + 1) - 1], u + ((i + 1) - 1) * H)
    BY Zenon, <1>4, <2>1
  <2> QED BY Zenon, <2>1, <2>2
<1> QED BY Zenon, <1>1, <1>6, <1>7 DEF u, DirRounds

(* Tables whose slot for the host block at hb is empty have no 2M entry    *)
(* for it.                                                                 *)
LEMMA EmptySlot ==
  ASSUME WellPlaced(regions), NEW F, TableInv(F), NEW hb \in Int, Aligned(hb),
         hva_to_gpa(regions, hb) # ADDR_INVAL =>
           F.pmd[align_down(hva_to_gpa(regions, hb))] = None
  PROVE  Dropped(F, hb)
<1> SUFFICES ASSUME NEW b \in GBlocks, F.pmd[b] = <<"huge", hb>> PROVE FALSE
  BY Zenon DEF Dropped
<1>1. PICK c \in HBlocks : F.pmd[b] = <<"huge", c>>
  BY Zenon, DirFacts DEF TableInv, Shape
<1>2. c = hb
  BY Zenon, <1>1, DirFacts
<1>3. hb \in Nat /\ b \in Int /\ Aligned(b) /\ Backs(b, hb)
  BY Zenon, <1>1, <1>2, BlockTypes DEF TableInv
<1>4. align_down(hb) = hb
  BY Zenon DEF Aligned
<1>5. hva_to_gpa(regions, hb) # ADDR_INVAL /\ align_down(hva_to_gpa(regions, hb)) = b
  BY <1>3, <1>4, BackedPages
<1> QED BY Zenon, <1>5, DirFacts

(* What the pass over the directory has done after i blocks from u on, of  *)
(* which the 4K entries up to v had been cleared before.                   *)
DirPassed(F, E, u, v, i) ==
  /\ TableInv(F) /\ Below(F, E)
  /\ \A j \in 0 .. i - 1 : Dropped(F, u + j * H)
  /\ StatInv(E) /\ (\A h \in u .. v - 1 : Cleared(E, h)) => StatInv(F)

(* A round takes it one block on.                                          *)
LEMMA DirRound ==
  ASSUME WellPlaced(regions), NEW E, NEW F, NEW u \in Int, Aligned(u), NEW v \in Int,
         NEW i \in Nat, u + i * H + H <= v, DirPassed(F, E, u, v, i)
  PROVE  DirPassed(ClearDir(F, u + i * H), E, u, v, i + 1)
<1> DEFINE h == u + i * H
           g == hva_to_gpa(regions, h)
           D == ClearDir(F, h)
<1>1. h \in Int /\ Aligned(h) /\ h + H <= v /\ u <= h
  <2>1. i * H \in Int /\ i * H = H * i /\ i \in Int /\ 0 <= i * H
    BY Sizes
  <2>2. Aligned(i * H)
    BY Zenon, <2>1, AlignedMultiple
  <2>3. Aligned(h)
    BY Zenon, <2>1, <2>2, AlignedSum
  <2> QED BY <2>1, <2>3, Sizes
<1>2. TableInv(F) /\ Below(F, E) /\ \A j \in 0 .. i - 1 : Dropped(F, u + j * H)
  BY Zenon DEF DirPassed
<1> HIDE DEF h
<1>3. TableInv(D) /\ Below(D, F) /\ (g # ADDR_INVAL => D.pmd[align_down(g)] = None)
  BY Zenon, <1>1, <1>2, ClearDirBelow
<1>4. Below(D, E)
  <2> HIDE DEF D
  <2> QED BY Zenon, <1>2, <1>3, BelowOrder
<1>5. Dropped(D, h)
  <2> HIDE DEF D
  <2> QED BY Zenon, <1>1, <1>3, EmptySlot
<1>6. ASSUME NEW j \in 0 .. (i + 1) - 1 PROVE Dropped(D, u + j * H)
  <2> HIDE DEF D
  <2>1. CASE j = i
    BY Zenon, <1>5, <2>1 DEF h
  <2>2. CASE j # i
    <3>1. j \in 0 .. i - 1
      BY <2>2
    <3> QED BY Zenon, <1>2, <1>3, <3>1, BelowKeeps
  <2> QED BY Zenon, <2>1, <2>2
<1>7. ASSUME StatInv(E), \A x \in u .. v - 1 : Cleared(E, x) PROVE StatInv(D)
  <2>1. StatInv(F) /\ Shape(F)
    BY Zenon, <1>2, <1>7 DEF DirPassed, TableInv
  <2>2. CASE g = ADDR_INVAL
    <3>1. D = F
      BY Zenon, <2>2 DEF ClearDir
    <3> QED BY Zenon, <2>1, <3>1
  <2>3. CASE g # ADDR_INVAL
    <3>1. /\ g \in Gpas /\ Aligned(g)
          /\ \A p \in Block(g) : gpa_to_hva(regions, p) # ADDR_INVAL =>
               gpa_to_hva(regions, p) = h + (p - g)
      BY <1>1, <2>3, BlockInRegion
    <3>2. align_down(g) = g /\ g \in Int
      BY Zenon, <3>1, Pages DEF Aligned
    <3> HIDE DEF g
    <3>3. ASSUME NEW p \in Gpas, p \in Block(g), F.pte[p] # None PROVE FALSE
      <4>1. p \in Int /\ E.pte[p] # None /\ gpa_to_hva(regions, p) # ADDR_INVAL
        BY Zenon, <1>2, <3>3, Pages DEF Below, TableInv
      <4>2. gpa_to_hva(regions, p) = h + (p - g)
        BY Zenon, <3>1, <3>3, <4>1
      <4>3. hva_to_gpa(regions, gpa_to_hva(regions, p)) = p
        BY Zenon, <4>1, GpaHva
      <4>4. h + (p - g) \in u .. v - 1
        BY SMTT(30), <1>1, <3>2, <3>3, <4>1, Sizes DEF Block
      <4>5. Cleared(E, gpa_to_hva(regions, p))
        BY Zenon, <1>7, <4>2, <4>4
      <4>6. p # ADDR_INVAL
        BY SizeAssumption DEF ADDR_INVAL
      <4> QED BY Zenon, <4>1, <4>3, <4>5, <4>6 DEF Cleared
    <3>4. \A p \in Gpas : p \in Block(align_down(g)) => F.pte[p] = None
      BY Zenon, <3>2, <3>3
    <3> QED BY Zenon, <2>1, <2>3, <3>1, <3>4, ClearDirStat DEF g
  <2> QED BY Zenon, <2>2, <2>3
<1> QED BY Zenon, <1>3, <1>4, <1>6, <1>7 DEF DirPassed, h

(* A host block inside [s, e) is one of the blocks the pass goes through.  *)
LEMMA BlockSlot ==
  ASSUME NEW s \in Int, NEW e \in Int, NEW hb \in Int, Aligned(hb), s <= hb, hb + H <= e,
         NEW n, n = (align_down(e) - align_up(s)) \div H
  PROVE  \E j \in 0 .. n - 1 : hb = align_up(s) + j * H
<1> DEFINE u == align_up(s)
           v == align_down(e)
<1>1. /\ u \in Int /\ Aligned(u) /\ s <= u /\ u < s + H
      /\ v \in Int /\ Aligned(v) /\ v <= e /\ e < v + H
  BY AlignedDown, AlignDown
<1> HIDE DEF u, v
<1>2. u <= hb
  <2> SUFFICES ASSUME hb < u PROVE FALSE
    BY <1>1
  <2>1. hb + H <= u
    BY <1>1, BlocksApart
  <2> QED BY <1>1, <2>1, Sizes
<1>3. hb + H <= v
  <2> SUFFICES ASSUME v < hb + H PROVE FALSE
    BY <1>1, Sizes
  <2>1. hb + H \in Int /\ Aligned(hb + H)
    BY AlignedSum, Sizes
  <2>2. v + H <= hb + H
    BY <1>1, <2>1, BlocksApart
  <2> QED BY <1>1, <2>2, Sizes
<1>4. v - u \in Int /\ Aligned(v - u) /\ hb - u \in Int /\ Aligned(hb - u)
  BY <1>1, AlignedSum
<1>5. n \in Int /\ v - u = H * n
  <2>1. n = (v - u) \div H
    BY Zenon DEF u, v
  <2> QED BY <1>4, <2>1, AlignMultiple DEF Aligned
<1>6. PICK j \in Int : hb - u = H * j
  BY Zenon, <1>4, AlignedMultiple
<1>7. 0 <= j
  <2> SUFFICES ASSUME j <= -1 PROVE FALSE
    BY <1>6
  <2>1. H * j <= H * (-1)
    BY Sizes
  <2> QED BY <1>1, <1>2, <1>6, <2>1, Sizes
<1>8. j < n
  <2> SUFFICES ASSUME n <= j PROVE FALSE
    BY <1>5, <1>6
  <2>1. H * n <= H * j
    BY <1>5, Sizes
  <2> QED BY <1>1, <1>3, <1>5, <1>6, <2>1, Sizes
<1>9. j \in 0 .. n - 1 /\ hb = u + j * H
  BY <1>1, <1>5, <1>6, <1>7, <1>8, Sizes
<1> QED BY Zenon, <1>9 DEF u

(* clear_page_directory drops the 2M entries of the blocks inside [s, e).  *)
LEMMA ClearDirs ==
  ASSUME WellPlaced(regions), NEW E, TableInv(E), NEW s \in Int, NEW e \in Int
  PROVE  LET F == clear_page_directory(E, s, e)
         IN /\ TableInv(F) /\ Below(F, E)
            /\ \A hb \in Int : Aligned(hb) /\ s <= hb /\ hb + H <= e => Dropped(F, hb)
            /\ StatInv(E) /\ (\A h \in s .. e - 1 : Cleared(E, h)) => StatInv(F)
<1> DEFINE u == align_up(s)
           v == align_down(e)
           n == (v - u) \div H
           F == clear_page_directory(E, s, e)
<1>1. /\ u \in Int /\ Aligned(u) /\ s <= u /\ v \in Int /\ Aligned(v) /\ v <= e
      /\ n \in Int
  <2>1. u \in Int /\ Aligned(u) /\ s <= u /\ v \in Int /\ Aligned(v) /\ v <= e
    BY AlignedDown, AlignDown
  <2> HIDE DEF u, v
  <2> QED BY <2>1, Sizes
<1>2. v - u = H * n
  <2>1. v - u \in Int /\ Aligned(v - u)
    <3> HIDE DEF u, v
    <3> QED BY <1>1, AlignedSum
  <2> HIDE DEF u, v
  <2> QED BY <2>1, AlignMultiple DEF Aligned
<1>3. \A hb \in Int : Aligned(hb) /\ s <= hb /\ hb + H <= e =>
        \E j \in 0 .. n - 1 : hb = u + j * H
  <2> SUFFICES ASSUME NEW hb \in Int, Aligned(hb), s <= hb, hb + H <= e
               PROVE  \E j \in 0 .. n - 1 : hb = u + j * H
    BY Zenon
  <2>1. n = (align_down(e) - align_up(s)) \div H
    BY Zenon
  <2> HIDE DEF n
  <2>2. \E j \in 0 .. n - 1 : hb = align_up(s) + j * H
    BY SMTT(30), <2>1, BlockSlot
  <2> QED BY Zenon, <2>2
<1>4. CASE ~ (n > 0)
  <2>1. F = E
    BY Zenon, <1>4 DEF clear_page_directory
  <2>2. \A j \in 0 .. n - 1 : FALSE
    <3> HIDE DEF n
    <3> QED BY <1>1, <1>4
  <2> HIDE DEF F, u, n
  <2>3. \A hb \in Int : Aligned(hb) /\ s <= hb /\ hb + H <= e => Dropped(F, hb)
    BY Zenon, <1>3, <2>2
  <2> QED BY Zenon, <2>1, <2>3, BelowOrder DEF F
<1>5. CASE n > 0
  <2> HIDE DEF F
  <2>1. n \in Nat
    <3> HIDE DEF n
    <3> QED BY <1>1, <1>5
  <2>2. PICK f : F = f[n] /\ DirRounds(f, E, u, n)
    BY Zenon, <1>5, <2>1, DirPassRounds DEF F
  <2> HIDE DEF u, n, v
  <2> DEFINE S == {k \in Nat : k <= n => DirPassed(f[k], E, u, v, k)}
  <2>3. 0 \in S
    <3>1. \A j \in 0 .. 0 - 1 : FALSE
      OBVIOUS
    <3>2. 0 \in Nat
      OBVIOUS
    <3>3. f[0] = E
      BY Zenon, <2>2 DEF DirRounds
    <3>4. DirPassed(E, E, u, v, 0)
      BY Zenon, <3>1, BelowOrder DEF DirPassed
    <3> QED BY Zenon, <3>2, <3>3, <3>4
  <2>4. ASSUME NEW k \in Nat, k \in S PROVE k + 1 \in S
    <3> SUFFICES ASSUME k + 1 <= n PROVE DirPassed(f[k + 1], E, u, v, k + 1)
      OBVIOUS
    <3>1. k \in 0 .. n - 1 /\ k <= n
      BY <2>1
    <3>2. f[k + 1] = ClearDir(f[k], u + k * H) /\ DirPassed(f[k], E, u, v, k)
      BY Zenon, <2>2, <2>4, <3>1 DEF DirRounds
    <3>3. u + k * H + H <= v
      <4>1. H * (k + 1) <= H * n
        BY <2>1, Sizes
      <4>2. H * (k + 1) = k * H + H /\ k * H \in Int
        BY Sizes
      <4> QED BY <1>1, <1>2, <2>1, <4>1, <4>2, Sizes
    <3>4. DirPassed(ClearDir(f[k], u + k * H), E, u, v, k + 1)
      BY Zenon, <1>1, <3>2, <3>3, DirRound
    <3> QED BY Zenon, <3>2, <3>4
  <2>5. DirPassed(F, E, u, v, n)
    <3>1. n \in S
      <4> HIDE DEF S
      <4> QED BY Zenon, <2>1, <2>3, <2>4, Induction
    <3>2. n <= n
      BY <1>1
    <3> QED BY Zenon, <2>2, <3>1, <3>2
  <2>6. \A hb \in Int : Aligned(hb) /\ s <= hb /\ hb + H <= e => Dropped(F, hb)
    BY Zenon, <1>3, <2>5 DEF DirPassed
  <2>7. ASSUME \A h \in s .. e - 1 : Cleared(E, h) PROVE \A h \in u .. v - 1 : Cleared(E, h)
    <3>1. \A h \in u .. v - 1 : h \in s .. e - 1
      BY <1>1
    <3> QED BY Zenon, <2>7, <3>1
  <2> QED BY Zenon, <2>5, <2>6, <2>7 DEF DirPassed, F
<1> QED BY Zenon, <1>4, <1>5

(***************************************************************************)
(* A callback, from one 1G boundary to the next.                           *)
(***************************************************************************)

(* pdpe_addr_end is further on, at the end for an EPT.                     *)
LEMMA AddrEnd ==
  ASSUME NEW pos \in Int, NEW e \in Int, pos < e
  PROVE  LET n == pdpe_addr_end(pos, e)
         IN n \in Int /\ pos < n /\ n <= e /\ (engine # "npt" => n = e)
<1>1. G \in Nat /\ G > 0
  <2>1. PICK k \in 1 .. G : G = k * H
    BY SizeAssumption
  <2>2. H \in Nat
    BY Sizes
  <2>3. k * H \in Int /\ k \in Int /\ 1 <= k
    <3>1. k \in Int /\ 1 <= k
      OBVIOUS
    <3> QED BY <2>2, <3>1
  <2>4. k * H > 0
    BY <2>3, Sizes
  <2> QED BY <2>1, <2>3, <2>4
<1> DEFINE r == (pos + G) % G
           boundary == (pos + G) - r
<1>2. r \in Int /\ 0 <= r /\ r < G
  BY <1>1
<1> HIDE DEF r
<1>3. boundary \in Int /\ pos < boundary
  BY <1>1, <1>2
<1>4. pdpe_addr_end(pos, e) = IF engine = "npt" /\ boundary < e THEN boundary ELSE e
  BY Zenon DEF pdpe_addr_end, r
<1> HIDE DEF boundary
<1> QED BY <1>3, <1>4

(* A host block inside the range lies between its ends.                    *)
LEMMA BlockBetween ==
  ASSUME NEW s \in Int, NEW e \in Int, NEW hb \in Int, Block(hb) \subseteq s .. (e - 1)
  PROVE  s <= hb /\ hb + H <= e
<1>1. hb \in Block(hb) /\ hb + H - 1 \in Block(hb)
  BY Sizes DEF Block
<1>2. hb \in s .. (e - 1) /\ hb + H - 1 \in s .. (e - 1)
  BY Zenon, <1>1
<1> QED BY <1>2, Sizes

(* What the callback for [s, e) has done when it stops after pos.          *)
LEMMA ClearFromFacts ==
  ASSUME WellPlaced(regions), TableInv(Ept), NEW s \in Nat, NEW pos \in Nat, NEW e \in Nat,
         s <= pos, pos < e, \A h \in s .. pos - 1 : Cleared(Ept, h), engine \in {"ept", "npt"}
  PROVE  LET F == ClearFrom(pos, s, e)
         IN /\ TableInv(F) /\ Below(F, Ept) /\ (StatInv(Ept) => StatInv(F))
            /\ Call([s |-> s, e |-> e, pos |-> pdpe_addr_end(pos, e)], F)
<1> DEFINE n == pdpe_addr_end(pos, e)
           P == clear_page_table(Ept, pos, n, e)
           D == clear_page_directory(P, s, e)
           F == ClearFrom(pos, s, e)
<1>1. s \in Int /\ pos \in Int /\ e \in Int
  OBVIOUS
<1>2. n \in Int /\ pos < n /\ n <= e /\ (engine # "npt" => n = e)
  BY Zenon, <1>1, AddrEnd
<1>3. n \in Nat /\ s <= n /\ pos <= n
  <2> HIDE DEF n
  <2> QED BY <1>2
<1>4. F = IF n = e THEN D ELSE P
  BY Zenon DEF ClearFrom
<1> HIDE DEF n, F
<1>5. /\ TableInv(P) /\ Below(P, Ept) /\ (StatInv(Ept) => StatInv(P))
      /\ \A h \in pos .. n - 1 : Cleared(P, h)
  BY Zenon, <1>1, <1>2, <1>3, ClearPages
<1> HIDE DEF P
<1>6. ASSUME NEW h \in s .. n - 1 PROVE Cleared(P, h)
  <2>1. h \in Int
    OBVIOUS
  <2>2. CASE h < pos
    <3>1. h \in s .. pos - 1
      BY <2>2
    <3> QED BY Zenon, <1>5, <2>1, <3>1, BelowKeeps
  <2>3. CASE ~ (h < pos)
    <3>1. h \in pos .. n - 1
      BY <1>2, <2>3
    <3> QED BY Zenon, <1>5, <3>1
  <2> QED BY Zenon, <2>2, <2>3
<1>7. /\ TableInv(D) /\ Below(D, P)
      /\ \A hb \in Int : Aligned(hb) /\ s <= hb /\ hb + H <= e => Dropped(D, hb)
      /\ StatInv(P) /\ (\A h \in s .. e - 1 : Cleared(P, h)) => StatInv(D)
  BY Zenon, <1>1, <1>5, ClearDirs
<1> HIDE DEF D
<1>8. TableInv(F) /\ Below(F, P) /\ Below(F, Ept) /\ (StatInv(Ept) => StatInv(F))
  <2>1. CASE n = e
    <3>1. F = D
      BY Zenon, <1>4, <2>1
    <3>2. Below(D, Ept)
      BY Zenon, <1>5, <1>7, BelowOrder
    <3> QED BY Zenon, <1>5, <1>6, <1>7, <2>1, <3>1, <3>2
  <2>2. CASE n # e
    <3>1. F = P
      BY Zenon, <1>4, <2>2
    <3> QED BY Zenon, <1>5, <3>1, BelowOrder
  <2> QED BY Zenon, <2>1, <2>2
<1>9. \A h \in s .. n - 1 : h \in Int /\ Cleared(F, h)
  <2>1. \A h \in s .. n - 1 : h \in Int
    OBVIOUS
  <2> QED BY Zenon, <1>6, <1>8, <2>1, BelowKeeps
<1>10. ASSUME n = e, NEW hb \in HBlocks, Block(hb) \subseteq s .. (e - 1)
       PROVE  Dropped(F, hb)
  <2>1. hb \in Int /\ Aligned(hb)
    BY Zenon, BlockTypes
  <2>2. s <= hb /\ hb + H <= e
    BY Zenon, <1>1, <1>10, <2>1, BlockBetween
  <2> QED BY Zenon, <1>4, <1>7, <1>10, <2>1, <2>2
<1>11. Call([s |-> s, e |-> e, pos |-> n], F)
  <2> DEFINE o == [s |-> s, e |-> e, pos |-> n]
  <2>1. o.s = s /\ o.e = e /\ o.pos = n /\ o \in [s : Nat, e : Nat, pos : Nat]
    BY <1>3
  <2>2. engine = "ept" => n = e
    BY Zenon, <1>2
  <2> HIDE DEF o
  <2>3. Call(o, F)
    BY Zenon, <1>2, <1>3, <1>9, <1>10, <2>1, <2>2 DEF Call
  <2> QED BY Zenon, <2>3 DEF o
<1> QED BY Zenon, <1>8, <1>11 DEF n, F

(* What a callback has cleared stays so with fewer entries; an invalidation *)
(* that is not open claims nothing; and nothing is left in empty tables.   *)
LEMMA CallFacts ==
  ASSUME WellPlaced(regions), NEW o, NEW F
  PROVE  /\ \A E : Call(o, E) /\ Below(F, E) => Call(o, F)
         /\ Call(Idle, F)
<1>1. ASSUME NEW E, Call(o, E), Below(F, E) PROVE Call(o, F)
  <2>1. \A h \in o.s .. (o.pos - 1) : h \in Int
    BY <1>1 DEF Call
  <2>2. \A h \in o.s .. (o.pos - 1) : Cleared(F, h)
    BY Zenon, <1>1, <2>1, BelowKeeps DEF Call
  <2>3. \A hb : Dropped(E, hb) => Dropped(F, hb)
    BY Zenon, <1>1, BelowKeeps
  <2> QED BY Zenon, <1>1, <2>2, <2>3 DEF Call
<1>2. Call(Idle, F)
  <2>1. /\ Idle.s = 0 /\ Idle.e = 0 /\ Idle.pos = 0 /\ Idle \in [s : Nat, e : Nat, pos : Nat]
        /\ 0 <= 0
    BY DEF Idle
  <2>2. \A h \in 0 .. (0 - 1) : FALSE
    OBVIOUS
  <2>3. ASSUME NEW hb \in HBlocks, Block(hb) \subseteq 0 .. (0 - 1) PROVE FALSE
    <3>1. hb \in Block(hb)
      BY BlockTypes, Sizes DEF Block
    <3> QED BY Zenon, <2>2, <2>3, <3>1
  <2> QED BY Zenon, <2>1, <2>2, <2>3 DEF Call
<1> QED BY Zenon, <1>1, <1>2

(***************************************************************************)
(* Steps.                                                                  *)
(***************************************************************************)

(* What SetEpt assigns.                                                    *)
LEMMA SetEptFields ==
  ASSUME NEW F, Shape(F), SetEpt(F)
  PROVE  Ept' = F
BY Zenon DEF SetEpt, Shape, Ept

(* The invariants of the next state, from those of its tables.             *)
LEMMA NextTables ==
  ASSUME regions' = regions, NEW F, Ept' = F
  PROVE  /\ pmd' = F.pmd /\ pte' = F.pte /\ n4k' = F.n4k /\ n2m' = F.n2m
         /\ dropped' = F.dropped
         /\ TableInv(F) => TableInv(Ept)'
         /\ StatInv(F) => StatInv(Ept)'
<1>1. F = [pmd |-> pmd', pte |-> pte', n4k |-> n4k', n2m |-> n2m', dropped |-> dropped']
  BY Zenon DEF Ept
<1>2. pmd' = F.pmd /\ pte' = F.pte /\ n4k' = F.n4k /\ n2m' = F.n2m /\ dropped' = F.dropped
  BY Zenon, <1>1
<1>3. TableInv(F) => TableInv(Ept)'
  BY Zenon, <1>1 DEF TableInv, Shape, Backs, Ept
<1>4. StatInv(F) => StatInv(Ept)'
  BY Zenon, <1>1 DEF StatInv, Ept
<1> QED BY Zenon, <1>2, <1>3, <1>4

(* The invariant of the callbacks in the next state.                       *)
LEMMA NextCalls ==
  ASSUME regions' = regions, engine' = engine, NEW F, Ept' = F,
         NEW f, open' = f, f = [t \in Callers |-> f[t]],
         \A t \in Callers : Call(f[t], F)
  PROVE  CallInv'
<1>1. F = [pmd |-> pmd', pte |-> pte', n4k |-> n4k', n2m |-> n2m', dropped |-> dropped']
  BY Zenon DEF Ept
<1>2. ASSUME NEW t \in Callers PROVE Call(open[t], Ept)'
  <2>1. Call(f[t], F)
    BY Zenon
  <2> QED BY Zenon, <1>1, <2>1 DEF Call, Cleared, Dropped, Ept
<1> QED BY Zenon, <1>2 DEF CallInv

(* Fewer entries, while the host's page table is unchanged, are still what *)
(* the host has.                                                           *)
LEMMA NextMap ==
  ASSUME regions' = regions, thp' = thp, small' = small, registered' => registered,
         NEW F, Ept' = F, Below(F, Ept), TableInv(Ept), MapInv
  PROVE  MapInv'
<1>1. pmd' = F.pmd /\ pte' = F.pte
  BY Zenon, NextTables
<1>2. Ept.pmd = pmd /\ Ept.pte = pte
  BY Zenon DEF Ept
<1>3. \A h : HostFrame(h)' = HostFrame(h)
  BY Zenon DEF HostFrame, InThp
<1>4. ASSUME registered', NEW g \in Gpas, pte'[g] # None
      PROVE  pte'[g] = HostFrame(gpa_to_hva(regions, g))'
  <2>1. pte'[g] = pte[g]
    BY Zenon, <1>1, <1>2, <1>4 DEF Below
  <2>2. pte[g] = HostFrame(gpa_to_hva(regions, g))
    BY Zenon, <1>4, <2>1 DEF MapInv
  <2> QED BY Zenon, <2>1, <2>2 DEF HostFrame, InThp
<1>5. ASSUME registered', NEW b \in GBlocks, NEW hb \in HBlocks, pmd'[b] = <<"huge", hb>>
      PROVE  hb \in thp'
  <2>1. pmd[b] = <<"huge", hb>>
    BY Zenon, <1>1, <1>2, <1>5, DirFacts DEF Below
  <2> QED BY Zenon, <1>5, <2>1 DEF MapInv
<1> QED BY Zenon, <1>4, <1>5 DEF MapInv

(* A callback or invalidate_page: entries go, and the claims of open       *)
(* invalidations hold again.                                               *)
LEMMA ClearStep ==
  ASSUME RangeInv, WellPlaced(regions), ~freed,
         UNCHANGED <<engine, regions, thp, small, life>>,
         NEW F, TableInv(F), Below(F, Ept), StatInv(Ept) => StatInv(F), Ept' = F,
         NEW f, open' = f, f = [t \in Callers |-> f[t]],
         \A t \in Callers : Call(f[t], F),
         engine = "npt" /\ ~registered => \A t \in Callers : f[t].pos = f[t].e
  PROVE  RangeInv'
<1>1. /\ LifeInv /\ TableInv(Ept) /\ CallInv /\ MapInv /\ StatInv(Ept)
      /\ engine' = engine /\ regions' = regions /\ thp' = thp /\ small' = small
      /\ registered' = registered /\ freed' = freed
  BY Zenon DEF RangeInv, life
<1>2. TableInv(Ept)' /\ StatInv(Ept)'
  BY Zenon, <1>1, NextTables
<1>3. CallInv'
  BY Zenon, <1>1, NextCalls
<1>4. MapInv'
  BY Zenon, <1>1, NextMap
<1>5. LifeInv'
  BY Zenon, <1>1 DEF LifeInv, InCallback
<1> QED BY Zenon, <1>2, <1>3, <1>4, <1>5 DEF RangeInv

(* invalidate_range_start keeps the invariant.                             *)
LEMMA StartStep ==
  ASSUME RangeInv, WellPlaced(regions), NEW t \in Callers, NEW s \in Nat, NEW e \in Nat, s < e,
         invalidate_range_start(t, s, e)
  PROVE  RangeInv'
<1> DEFINE F == ClearFrom(s, s, e)
           o == [s |-> s, e |-> e, pos |-> pdpe_addr_end(s, e)]
           f == [open EXCEPT ![t] = o]
<1>1. /\ registered /\ ~freed /\ SetEpt(F) /\ open' = f
      /\ UNCHANGED <<engine, regions, thp, small, life>>
  BY Zenon DEF invalidate_range_start
<1>2. /\ TableInv(Ept) /\ engine \in {"ept", "npt"}
      /\ open = [u \in Callers |-> open[u]] /\ \A u \in Callers : Call(open[u], Ept)
  BY Zenon DEF RangeInv, LifeInv, CallInv
<1>3. s <= s /\ \A h \in s .. s - 1 : Cleared(Ept, h)
  OBVIOUS
<1>4. TableInv(F) /\ Below(F, Ept) /\ (StatInv(Ept) => StatInv(F)) /\ Call(o, F)
  BY Zenon, <1>2, <1>3, ClearFromFacts
<1> HIDE DEF F, o
<1>5. Ept' = F
  BY Zenon, <1>1, <1>4, SetEptFields DEF TableInv
<1>6. f = [u \in Callers |-> f[u]] /\ f[t] = o /\ \A u \in Callers : u # t => f[u] = open[u]
  BY Zenon, <1>2
<1> HIDE DEF f
<1>7. ASSUME NEW u \in Callers PROVE Call(f[u], F)
  <2>1. CASE u = t
    BY Zenon, <1>4, <1>6, <2>1
  <2>2. CASE u # t
    <3>1. Call(open[u], F)
      BY Zenon, <1>2, <1>4, CallFacts
    <3> QED BY Zenon, <1>6, <2>2, <3>1
  <2> QED BY Zenon, <2>1, <2>2
<1> QED BY Zenon, <1>1, <1>4, <1>5, <1>6, <1>7, ClearStep

(* npt_clear_page_table goes on only over tables that are there.           *)
LEMMA ReschedStep ==
  ASSUME RangeInv, WellPlaced(regions), NEW t \in Callers, cond_resched_lock(t)
  PROVE  RangeInv'
<1> DEFINE o == open[t]
           F == ClearFrom(o.pos, o.s, o.e)
           n == pdpe_addr_end(o.pos, o.e)
           r == [s |-> o.s, e |-> o.e, pos |-> n]
           f == [open EXCEPT ![t].pos = n]
<1>1. /\ TableInv(Ept) /\ engine \in {"ept", "npt"}
      /\ open = [u \in Callers |-> open[u]] /\ \A u \in Callers : Call(open[u], Ept)
  BY Zenon DEF RangeInv, LifeInv, CallInv
<1>2. o.pos # o.e /\ InCallback
  BY Zenon DEF cond_resched_lock, InCallback
<1>3. engine = "npt" /\ registered /\ ~freed
  <2>1. engine # "ept"
    BY Zenon, <1>1, <1>2 DEF Call
  <2>2. engine = "npt"
    BY Zenon, <1>1, <2>1
  <2> QED BY Zenon, <1>2, <2>2 DEF RangeInv, LifeInv
<1>4. /\ SetEpt(F) /\ open' = f
      /\ UNCHANGED <<engine, regions, thp, small, life>>
  BY Zenon, <1>3 DEF cond_resched_lock
<1>5. /\ o \in [s : Nat, e : Nat, pos : Nat] /\ o.s <= o.pos /\ o.pos <= o.e
      /\ \A h \in o.s .. (o.pos - 1) : Cleared(Ept, h)
  BY Zenon, <1>1 DEF Call
<1>6. o.s \in Nat /\ o.e \in Nat /\ o.pos \in Nat /\ o.pos < o.e
  BY <1>2, <1>5
<1>7. TableInv(F) /\ Below(F, Ept) /\ (StatInv(Ept) => StatInv(F)) /\ Call(r, F)
  <2> HIDE DEF o
  <2> QED BY Zenon, <1>1, <1>5, <1>6, ClearFromFacts
<1>8. f = [u \in Callers |-> f[u]] /\ f[t] = r /\ \A u \in Callers : u # t => f[u] = open[u]
  <2> HIDE DEF n
  <2>1. f = [u \in Callers |-> f[u]] /\ f[t] = [o EXCEPT !.pos = n]
    BY Zenon, <1>1
  <2>2. [o EXCEPT !.pos = n] = r
    BY <1>5
  <2>3. \A u \in Callers : u # t => f[u] = open[u]
    BY Zenon, <1>1
  <2> QED BY Zenon, <2>1, <2>2, <2>3
<1> HIDE DEF F, r, f, o, n
<1>9. Ept' = F
  BY Zenon, <1>4, <1>7, SetEptFields DEF TableInv
<1>10. ASSUME NEW u \in Callers PROVE Call(f[u], F)
  <2>1. CASE u = t
    BY Zenon, <1>7, <1>8, <2>1
  <2>2. CASE u # t
    <3>1. Call(open[u], F)
      BY Zenon, <1>1, <1>7, CallFacts
    <3> QED BY Zenon, <1>8, <2>2, <3>1
  <2> QED BY Zenon, <2>1, <2>2
<1> QED BY Zenon, <1>3, <1>4, <1>7, <1>8, <1>9, <1>10, ClearStep

(* invalidate_range_end keeps the invariant.                               *)
LEMMA EndStep ==
  ASSUME RangeInv, WellPlaced(regions), NEW t \in Callers, invalidate_range_end(t)
  PROVE  RangeInv'
<1> DEFINE f == [open EXCEPT ![t] = Idle]
<1>1. /\ TableInv(Ept) /\ CallInv /\ MapInv /\ LifeInv
      /\ open = [u \in Callers |-> open[u]] /\ \A u \in Callers : Call(open[u], Ept)
  BY Zenon DEF RangeInv, CallInv
<1>2. /\ registered /\ open' = f /\ UNCHANGED <<engine, regions, thp, small, life>>
      /\ engine' = engine /\ regions' = regions /\ thp' = thp /\ small' = small
      /\ registered' = registered /\ freed' = freed
  BY Zenon DEF invalidate_range_end, life
<1>3. Ept' = Ept
  BY Zenon DEF invalidate_range_end, tables, Ept
<1>4. f = [u \in Callers |-> f[u]] /\ f[t] = Idle /\ \A u \in Callers : u # t => f[u] = open[u]
  BY Zenon, <1>1
<1> HIDE DEF f
<1>5. \A u \in Callers : Call(f[u], Ept)
  BY Zenon, <1>1, <1>4, CallFacts
<1>6. CallInv'
  BY Zenon, <1>2, <1>3, <1>4, <1>5, NextCalls
<1>7. TableInv(Ept)' /\ (StatInv(Ept) => StatInv(Ept)')
  BY Zenon, <1>1, <1>2, <1>3, NextTables
<1>8. MapInv'
  BY Zenon, <1>1, <1>2, <1>3, BelowOrder, NextMap
<1>9. pmd' = pmd /\ pte' = pte
  BY Zenon DEF invalidate_range_end, tables
<1>10. LifeInv'
  BY Zenon, <1>1, <1>2, <1>9 DEF LifeInv, InCallback
<1> QED BY Zenon, <1>2, <1>6, <1>7, <1>8, <1>10 DEF RangeInv

(* invalidate_page keeps the invariant.                                    *)
LEMMA PageStep ==
  ASSUME RangeInv, WellPlaced(regions), NEW h \in Int, invalidate_page(h)
  PROVE  RangeInv'
<1> DEFINE g == hva_to_gpa(regions, h)
           F == ClearLeaf(Ept, g)
<1>1. /\ registered /\ ~freed /\ LookupLeaf(Ept, h) /\ SetEpt(F) /\ open' = open
      /\ UNCHANGED <<engine, regions, thp, small, life>>
  BY Zenon DEF invalidate_page
<1>2. g \in Gpas
  BY Zenon, <1>1, HvaGpa DEF LookupLeaf
<1>3. /\ TableInv(Ept) /\ Shape(Ept)
      /\ open = [u \in Callers |-> open[u]] /\ \A u \in Callers : Call(open[u], Ept)
  BY Zenon DEF RangeInv, CallInv, TableInv
<1>4. TableInv(F) /\ Below(F, Ept) /\ (StatInv(Ept) => StatInv(F))
  <2> HIDE DEF g
  <2> QED BY Zenon, <1>2, <1>3, ClearLeafBelow, ClearLeafStat
<1> HIDE DEF F
<1>5. Ept' = F
  BY Zenon, <1>1, <1>4, SetEptFields DEF TableInv
<1>6. \A u \in Callers : Call(open[u], F)
  BY Zenon, <1>3, <1>4, CallFacts
<1> QED BY Zenon, <1>1, <1>3, <1>4, <1>5, <1>6, ClearStep

(* The counters with a 2M entry in the slot at b, and with fr in that of g.*)
More2M(E, b) == Plus(E.n2m, 1 - Count(E.pmd[b]))
More4K(E, g, fr) == Plus(E.n4k, IF E.pte[g] = None THEN Count(fr) ELSE 0)

(* Setting the slot at b adds one 2M entry, takes one away, or neither.    *)
LEMMA HugeMore ==
  ASSUME NEW E, NEW F, NEW b, NEW hb, SlotSet(F, E, b, <<"huge", hb>>), E.pmd[b] # Table
  PROVE  Cardinality(HugeEntries(F)) = More2M(E, b)
<1> DEFINE S == HugeEntries(E)
           T == HugeEntries(F)
<1>1. /\ IsFiniteSet(S) /\ Cardinality(S) \in Nat /\ Cardinality(S) < Word
      /\ Cardinality(T) \in Nat /\ Cardinality(T) < Word
  BY Zenon, CountedFinite DEF HugeEntries
<1>2. b \in GBlocks /\ E.n2m = Cardinality(S)
  BY Zenon DEF SlotSet
<1>3. T = S \cup {b}
  <2>1. is_epte_huge(F.pmd[b])
    BY Zenon, DirFacts DEF SlotSet
  <2> QED BY Zenon, <1>2, <2>1 DEF HugeEntries, SlotSet
<1>4. is_epte_huge(E.pmd[b]) <=> b \in S
  BY Zenon, <1>2 DEF HugeEntries
<1>5. E.pmd[b] = None \/ is_epte_huge(E.pmd[b])
  <2>1. E.pmd[b] \in Dirs
    BY Zenon DEF SlotSet
  <2>2. \A d \in Dirs : d = None \/ d = Table \/ is_epte_huge(d)
    BY SMT DEF Dirs, is_epte_huge
  <2> QED BY Zenon, <2>1, <2>2
<1>6. Count(None) = 0 /\ (is_epte_huge(E.pmd[b]) => Count(E.pmd[b]) = 1)
  BY DEF Count, None, is_epte_huge
<1> HIDE DEF S, T
<1>7. Word \in Nat /\ Cardinality(S) \in Int
  BY SMTT(30), <1>1, SizeAssumption
<1>8. CASE b \in S
  <2>1. T = S
    BY Zenon, <1>3, <1>8
  <2>2. 1 - Count(E.pmd[b]) = 0
    <3>1. Count(E.pmd[b]) = 1
      BY Zenon, <1>4, <1>6, <1>8
    <3> QED BY <3>1
  <2>3. 0 \in Int /\ Cardinality(S) + 0 \in 0 .. Word - 1 /\ Cardinality(S) + 0 = Cardinality(S)
    BY <1>1, <1>7
  <2>4. Plus(Cardinality(S), 0) = Cardinality(S) + 0
    BY Zenon, <1>7, <2>3, PlusFacts
  <2> QED BY Zenon, <1>2, <2>1, <2>2, <2>3, <2>4 DEF T, More2M
<1>9. CASE b \notin S
  <2>1. Cardinality(T) = Cardinality(S) + 1
    BY Zenon, <1>1, <1>3, <1>9, FS_AddElement
  <2>2. 1 - Count(E.pmd[b]) = 1
    <3>1. Count(E.pmd[b]) = 0
      BY Zenon, <1>4, <1>5, <1>6, <1>9
    <3> QED BY <3>1
  <2>3. 1 \in Int /\ Cardinality(S) + 1 \in 0 .. Word - 1
    BY <1>1, <1>7, <2>1
  <2>4. Plus(Cardinality(S), 1) = Cardinality(S) + 1
    BY Zenon, <1>7, <2>3, PlusFacts
  <2> QED BY Zenon, <1>2, <2>1, <2>2, <2>4 DEF T, More2M
<1> QED BY Zenon, <1>8, <1>9

(* The counter of 4K entries when there are those of S and d tables have   *)
(* been dropped.                                                           *)
Off(S, d) == Plus(Cardinality(S), -d)

(* F is E with fr in the slot of page g, which was empty or held fr, and E *)
(* has its 4K entries counted.                                             *)
EntrySet(F, E, g, fr) ==
  /\ g \in Gpas /\ F.pte[g] = fr /\ \A p \in Gpas : p # g => F.pte[p] = E.pte[p]
  /\ E.pte[g] = None \/ E.pte[g] = fr
  /\ E.dropped \in Nat /\ E.n4k = Off(Entries(E), E.dropped)

(* Installing a 4K entry is counted when the slot was empty and the entry  *)
(* is not one of a VM_PFNMAP area.                                         *)
LEMMA EntryMore ==
  ASSUME NEW E, NEW F, NEW g, NEW fr, EntrySet(F, E, g, fr)
  PROVE  Off(Entries(F), E.dropped) = More4K(E, g, fr)
<1> DEFINE d == E.dropped
           S == Entries(E)
           T == Entries(F)
           k == IF E.pte[g] = None THEN Count(fr) ELSE 0
<1>1. IsFiniteSet(S) /\ Cardinality(S) \in Nat /\ Cardinality(T) \in Nat
  BY Zenon, CountedFinite DEF Entries
<1>3. Count(None) = 0 /\ (Count(fr) = 0 \/ Count(fr) = 1)
  BY DEF Count, None
<1>4. Cardinality(T) = Cardinality(S) + k
  <2>1. CASE E.pte[g] = None /\ Count(fr) = 1
    <3>1. 0 # 1
      OBVIOUS
    <3>2. g \notin S /\ T = S \cup {g}
      BY Zenon, <1>3, <2>1, <3>1 DEF Entries, EntrySet
    <3>3. k = 1
      BY Zenon, <2>1
    <3> HIDE DEF S, T, k
    <3> QED BY Zenon, <1>1, <3>2, <3>3, FS_AddElement
  <2>2. CASE ~ (E.pte[g] = None /\ Count(fr) = 1)
    <3>1. Count(E.pte[g]) = 1 <=> Count(fr) = 1
      <4>1. 0 # 1
        OBVIOUS
      <4> QED BY Zenon, <1>3, <2>2, <4>1 DEF EntrySet
    <3>2. T = S
      BY Zenon, <3>1 DEF Entries, EntrySet
    <3>3. k = 0
      BY Zenon, <1>3, <2>2
    <3> HIDE DEF S, T, k
    <3> QED BY <1>1, <3>2, <3>3
  <2> QED BY Zenon, <2>1, <2>2
<1>2. d \in Nat /\ E.n4k = Plus(Cardinality(S), -d)
  BY Zenon DEF EntrySet, Off
<1> HIDE DEF d
<1>5. k \in Int /\ -d \in Int /\ Cardinality(S) \in Int /\ Cardinality(T) \in Int
  <2>1. k = 0 \/ k = 1
    BY Zenon, <1>3
  <2> HIDE DEF k, S, T
  <2> QED BY <1>1, <1>2, <2>1
<1> HIDE DEF S, T, k
<1>6. Cardinality(S) + -d + k = Cardinality(T) + -d
  BY <1>1, <1>4, <1>5
<1>7. Plus(Plus(Cardinality(S), -d), k) = Plus(Cardinality(T), -d)
  BY SMTT(30), <1>5, <1>6, PlusTwice
<1> QED BY Zenon, <1>2, <1>7 DEF T, k, d, More4K, Off

(* A fault, whatever it has installed, once the tables are known.          *)
LEMMA FaultStep ==
  ASSUME RangeInv, WellPlaced(regions), NEW g, set_epte(g),
         NEW F, TableInv(F), StatInv(F), Ept' = F,
         \A p \in Gpas : F.pte[p] # None => F.pte[p] = HostFrame(gpa_to_hva(regions, p)),
         \A b \in GBlocks, hb \in HBlocks : F.pmd[b] = <<"huge", hb>> => hb \in thp
  PROVE  RangeInv'
<1>1. /\ engine' = engine /\ regions' = regions /\ thp' = thp /\ small' = small
      /\ registered' = registered /\ freed' = freed /\ open' = open /\ ~freed /\ Open = {}
  BY Zenon DEF set_epte, life, mmu_notifier_retry
<1>2. \A t \in Callers : Call(open[t], F)
  BY Zenon, <1>1, CallFacts DEF Open
<1>3. CallInv'
  BY Zenon, <1>1, <1>2, NextCalls DEF RangeInv, CallInv
<1>4. TableInv(Ept)' /\ StatInv(Ept)' /\ pmd' = F.pmd /\ pte' = F.pte
  BY Zenon, <1>1, NextTables
<1>5. MapInv'
  BY Zenon, <1>1, <1>4 DEF MapInv, HostFrame, InThp
<1>6. LifeInv'
  BY Zenon, <1>1 DEF RangeInv, LifeInv, InCallback
<1> QED BY Zenon, <1>3, <1>4, <1>5, <1>6 DEF RangeInv

(* ept_set_epte (npt_set_npte) installs a 2M entry.                        *)
LEMMA InstallHuge ==
  ASSUME RangeInv, WellPlaced(regions), NEW g \in Gpas, set_epte(g),
         NEW h, h = gpa_to_hva(regions, g), InThp(h), mapping_level_is_directory(g),
         pmd' = [pmd EXCEPT ![align_down(g)] = <<"huge", align_down(h)>>],
         n2m' = Plus(n2m, 1 - Count(pmd[align_down(g)])),
         UNCHANGED <<pte, n4k, dropped>>
  PROVE  RangeInv'
<1> DEFINE b == align_down(g)
           hb == align_down(h)
           F == [pmd |-> pmd', pte |-> pte', n4k |-> n4k', n2m |-> n2m', dropped |-> dropped']
<1>1. /\ LifeInv /\ TableInv(Ept) /\ Shape(Ept) /\ StatInv(Ept) /\ MapInv
      /\ registered /\ regions' = regions
  BY Zenon DEF RangeInv, set_epte, TableInv
<1>2. b \in GBlocks /\ b \in Int /\ Aligned(b) /\ g \in Int
  BY Zenon, BlockTypes, Pages
<1>3. hb \in thp /\ hb \in HBlocks /\ pmd[b] # Table /\ check_hugepage_consistency(g)
  BY Zenon, <1>1 DEF InThp, mapping_level_is_directory, LifeInv
<1>4. Backs(b, hb)
  <2> DEFINE s == gpa_to_hva(regions, b)
  <2>1. s \in Nat /\ Aligned(s) /\ Backs(b, s)
    BY Zenon, <1>3, ConsistentBlock
  <2> HIDE DEF s
  <2>2. align_down(gpa_to_hva(regions, g)) = s
    BY <1>2, <2>1, BackedPages
  <2> QED BY Zenon, <2>1, <2>2
<1>5. /\ F.pmd = [Ept.pmd EXCEPT ![b] = <<"huge", hb>>] /\ F.pte = Ept.pte
      /\ F.n4k = Ept.n4k /\ F.n2m = Plus(Ept.n2m, 1 - Count(Ept.pmd[b]))
      /\ F.dropped = Ept.dropped /\ Ept' = F
      /\ Ept.pmd = pmd /\ Ept.pte = pte
      /\ F = [pmd |-> F.pmd, pte |-> F.pte, n4k |-> F.n4k, n2m |-> F.n2m,
              dropped |-> F.dropped]
  BY Zenon DEF Ept
<1> HIDE DEF F, b, hb
<1>6. F.pmd[b] = <<"huge", hb>> /\ \A c \in GBlocks : c # b => F.pmd[c] = Ept.pmd[c]
  BY Zenon, <1>1, <1>2, <1>5 DEF Shape
<1>7. Shape(F)
  <2>1. Ept.pmd \in [GBlocks -> Dirs] /\ Ept.pte = [p \in Gpas |-> Ept.pte[p]]
    BY Zenon, <1>1 DEF Shape
  <2>2. <<"huge", hb>> \in Dirs
    BY Zenon, <1>3 DEF Dirs
  <2>3. F.pmd \in [GBlocks -> Dirs]
    BY Zenon, <1>5, <2>1, <2>2
  <2>4. F.pte = [p \in Gpas |-> F.pte[p]]
    BY Zenon, <1>5, <2>1
  <2> QED BY Zenon, <1>5, <2>3, <2>4 DEF Shape
<1>8. TableInv(F)
  <2>1. ASSUME NEW p \in Gpas, F.pte[p] # None
        PROVE  F.pmd[align_down(p)] = Table /\ gpa_to_hva(regions, p) # ADDR_INVAL
    <3>1. Ept.pmd[align_down(p)] = Table /\ gpa_to_hva(regions, p) # ADDR_INVAL
      BY Zenon, <1>1, <1>5, <2>1 DEF TableInv
    <3>2. align_down(p) # b /\ align_down(p) \in GBlocks
      BY Zenon, <1>3, <1>5, <3>1, BlockTypes
    <3> QED BY Zenon, <1>6, <3>1, <3>2
  <2>2. ASSUME NEW c \in GBlocks, NEW k \in HBlocks, F.pmd[c] = <<"huge", k>> PROVE Backs(c, k)
    <3>1. CASE c = b
      BY Zenon, <1>4, <1>6, <2>2, <3>1, DirFacts
    <3>2. CASE c # b
      <4>1. Ept.pmd[c] = <<"huge", k>>
        BY Zenon, <1>6, <2>2, <3>2
      <4> QED BY Zenon, <1>1, <4>1 DEF TableInv
    <3> QED BY Zenon, <3>1, <3>2
  <2> QED BY Zenon, <1>7, <2>1, <2>2 DEF TableInv
<1>9. StatInv(F)
  <2>1. Ept.n2m = Cardinality(HugeEntries(Ept))
    BY Zenon, <1>1 DEF StatInv, HugeEntries
  <2>2. F.n2m = Cardinality(HugeEntries(F))
    <3>1. Ept.pmd[b] # Table
      BY Zenon, <1>3, <1>5
    <3>2. Cardinality(HugeEntries(F)) = More2M(Ept, b)
      <4>1. SlotSet(F, Ept, b, <<"huge", hb>>)
        BY Zenon, <1>1, <1>2, <1>6, <2>1 DEF SlotSet, Shape
      <4> QED BY Zenon, <3>1, <4>1, HugeMore
    <3> QED BY Zenon, <1>5, <3>2 DEF More2M
  <2>3. F.dropped \in Nat /\ F.n4k = Plus(Cardinality(Entries(F)), -F.dropped)
    BY Zenon, <1>1, <1>5 DEF StatInv, Entries
  <2> QED BY Zenon, <2>2, <2>3 DEF StatInv, HugeEntries, Entries
<1>10. \A p \in Gpas : F.pte[p] # None => F.pte[p] = HostFrame(gpa_to_hva(regions, p))
  BY Zenon, <1>1, <1>5 DEF MapInv
<1>11. ASSUME NEW c \in GBlocks, NEW k \in HBlocks, F.pmd[c] = <<"huge", k>> PROVE k \in thp
  <2>1. CASE c = b
    BY Zenon, <1>3, <1>6, <1>11, <2>1, DirFacts
  <2>2. CASE c # b
    BY Zenon, <1>1, <1>5, <1>6, <1>11, <2>2 DEF MapInv
  <2> QED BY Zenon, <2>1, <2>2
<1> QED BY Zenon, <1>5, <1>8, <1>9, <1>10, <1>11, FaultStep

(* It installs a 4K entry.                                                 *)
LEMMA InstallSmall ==
  ASSUME RangeInv, WellPlaced(regions), NEW g \in Gpas, set_epte(g),
         NEW h, h = gpa_to_hva(regions, g), ~is_epte_huge(pmd[align_down(g)]),
         pmd' = [pmd EXCEPT ![align_down(g)] = Table],
         pte' = [pte EXCEPT ![g] = HostFrame(h)],
         n4k' = Plus(n4k, IF pte[g] = None THEN Count(HostFrame(h)) ELSE 0),
         UNCHANGED <<n2m, dropped>>
  PROVE  RangeInv'
<1> DEFINE b == align_down(g)
           fr == HostFrame(h)
           F == [pmd |-> pmd', pte |-> pte', n4k |-> n4k', n2m |-> n2m', dropped |-> dropped']
<1>1. /\ LifeInv /\ TableInv(Ept) /\ Shape(Ept) /\ StatInv(Ept) /\ MapInv
      /\ registered /\ regions' = regions /\ h # ADDR_INVAL /\ fr # None
  BY Zenon DEF RangeInv, set_epte, TableInv
<1>2. b \in GBlocks
  BY Zenon, BlockTypes
<1>3. /\ F.pmd = [Ept.pmd EXCEPT ![b] = Table] /\ F.pte = [Ept.pte EXCEPT ![g] = fr]
      /\ F.n4k = Plus(Ept.n4k, IF Ept.pte[g] = None THEN Count(fr) ELSE 0)
      /\ F.n2m = Ept.n2m /\ F.dropped = Ept.dropped /\ Ept' = F
      /\ Ept.pmd = pmd /\ Ept.pte = pte
      /\ F = [pmd |-> F.pmd, pte |-> F.pte, n4k |-> F.n4k, n2m |-> F.n2m,
              dropped |-> F.dropped]
  BY Zenon DEF Ept
<1> HIDE DEF F, b, fr
<1>4. Ept.pmd \in [GBlocks -> Dirs] /\ Ept.pte = [p \in Gpas |-> Ept.pte[p]]
  BY Zenon, <1>1 DEF Shape
<1>5. F.pmd[b] = Table /\ \A c \in GBlocks : c # b => F.pmd[c] = Ept.pmd[c]
  BY Zenon, <1>2, <1>3, <1>4
<1>6. F.pte[g] = fr /\ \A p \in Gpas : p # g => F.pte[p] = Ept.pte[p]
  BY Zenon, <1>3, <1>4
<1>7. Shape(F)
  <2>1. Table \in Dirs
    BY Zenon DEF Dirs
  <2>2. F.pmd \in [GBlocks -> Dirs]
    BY Zenon, <1>3, <1>4, <2>1
  <2>3. F.pte = [p \in Gpas |-> F.pte[p]]
    <3> DEFINE pt == [Ept.pte EXCEPT ![g] = fr]
    <3>1. pt = [p \in Gpas |-> pt[p]]
      BY <1>4
    <3> QED BY Zenon, <1>3, <3>1
  <2> QED BY Zenon, <1>3, <2>2, <2>3 DEF Shape
<1>8. TableInv(F)
  <2>1. ASSUME NEW p \in Gpas, F.pte[p] # None
        PROVE  F.pmd[align_down(p)] = Table /\ gpa_to_hva(regions, p) # ADDR_INVAL
    <3>1. align_down(p) \in GBlocks
      BY Zenon, BlockTypes
    <3>2. CASE p = g
      BY Zenon, <1>1, <1>5, <3>2 DEF b
    <3>3. CASE p # g
      <4>1. Ept.pmd[align_down(p)] = Table /\ gpa_to_hva(regions, p) # ADDR_INVAL
        BY Zenon, <1>1, <1>6, <2>1, <3>3 DEF TableInv
      <4> QED BY Zenon, <1>5, <3>1, <4>1
    <3> QED BY Zenon, <3>2, <3>3
  <2>2. ASSUME NEW c \in GBlocks, NEW k \in HBlocks, F.pmd[c] = <<"huge", k>> PROVE Backs(c, k)
    <3>1. c # b
      BY Zenon, <1>5, <2>2, DirFacts
    <3>2. Ept.pmd[c] = <<"huge", k>>
      BY Zenon, <1>5, <2>2, <3>1
    <3> QED BY Zenon, <1>1, <3>2 DEF TableInv
  <2> QED BY Zenon, <1>7, <2>1, <2>2 DEF TableInv
<1>9. Ept.pte[g] = None \/ Ept.pte[g] = fr
  BY Zenon, <1>1, <1>3 DEF MapInv, fr
<1>10. StatInv(F)
  <2>1. Ept.dropped \in Nat /\ Ept.n4k = Off(Entries(Ept), Ept.dropped)
    BY Zenon, <1>1 DEF StatInv, Entries, Off
  <2>2. Off(Entries(F), Ept.dropped) = More4K(Ept, g, fr)
    <3>1. EntrySet(F, Ept, g, fr)
      BY Zenon, <1>6, <1>9, <2>1 DEF EntrySet
    <3> QED BY Zenon, <3>1, EntryMore
  <2>3. F.dropped \in Nat /\ F.n4k = Plus(Cardinality(Entries(F)), -F.dropped)
    BY Zenon, <1>3, <2>1, <2>2 DEF More4K, Off
  <2>4. \A c \in GBlocks : is_epte_huge(F.pmd[c]) <=> is_epte_huge(Ept.pmd[c])
    BY Zenon, <1>3, <1>5, DirFacts DEF b
  <2>5. HugeEntries(F) = HugeEntries(Ept)
    BY Zenon, <2>4 DEF HugeEntries
  <2>6. F.n2m = Cardinality(HugeEntries(F))
    BY Zenon, <1>1, <1>3, <2>5 DEF StatInv, HugeEntries
  <2> QED BY Zenon, <2>3, <2>6 DEF StatInv, HugeEntries, Entries
<1>11. ASSUME NEW p \in Gpas, F.pte[p] # None
       PROVE  F.pte[p] = HostFrame(gpa_to_hva(regions, p))
  <2>1. CASE p = g
    BY Zenon, <1>6, <2>1 DEF fr
  <2>2. CASE p # g
    BY Zenon, <1>1, <1>3, <1>6, <1>11, <2>2 DEF MapInv
  <2> QED BY Zenon, <2>1, <2>2
<1>12. ASSUME NEW c \in GBlocks, NEW k \in HBlocks, F.pmd[c] = <<"huge", k>> PROVE k \in thp
  BY Zenon, <1>1, <1>3, <1>5, <1>12, DirFacts DEF MapInv
<1> QED BY Zenon, <1>3, <1>8, <1>10, <1>11, <1>12, FaultStep

(* ept_set_epte (npt_set_npte) keeps the invariant.                        *)
LEMMA SetEpteStep ==
  ASSUME RangeInv, WellPlaced(regions), NEW g \in Gpas, set_epte(g)
  PROVE  RangeInv'
<1> DEFINE h == gpa_to_hva(regions, g)
           b == align_down(g)
           directory == InThp(h) /\ mapping_level_is_directory(g)
<1>1. Install(g, h)
  BY Zenon DEF set_epte
<1>2. CASE /\ directory
           /\ pmd' = [pmd EXCEPT ![b] = <<"huge", align_down(h)>>]
           /\ n2m' = Plus(n2m, 1 - Count(pmd[b]))
           /\ UNCHANGED <<pte, n4k, dropped>>
  <2> HIDE DEF h
  <2>1. h = gpa_to_hva(regions, g)
    BY Zenon DEF h
  <2> QED BY Zenon, <1>2, <2>1, InstallHuge
<1>3. CASE UNCHANGED tables
  <2>1. Ept' = Ept
    BY Zenon, <1>3 DEF tables, Ept
  <2>2. TableInv(Ept) /\ StatInv(Ept) /\ MapInv /\ registered
    BY Zenon DEF RangeInv, set_epte
  <2>3. Ept.pmd = pmd /\ Ept.pte = pte
    BY Zenon DEF Ept
  <2>4. /\ \A p \in Gpas : Ept.pte[p] # None => Ept.pte[p] = HostFrame(gpa_to_hva(regions, p))
        /\ \A c \in GBlocks, k \in HBlocks : Ept.pmd[c] = <<"huge", k>> => k \in thp
    BY Zenon, <2>2, <2>3 DEF MapInv
  <2> QED BY Zenon, <2>1, <2>2, <2>4, FaultStep
<1>4. CASE /\ ~is_epte_huge(pmd[b])
           /\ pmd' = [pmd EXCEPT ![b] = Table]
           /\ pte' = [pte EXCEPT ![g] = HostFrame(h)]
           /\ n4k' = Plus(n4k, IF pte[g] = None THEN Count(HostFrame(h)) ELSE 0)
           /\ UNCHANGED <<n2m, dropped>>
  <2> HIDE DEF h
  <2>1. h = gpa_to_hva(regions, g)
    BY Zenon DEF h
  <2> QED BY Zenon, <1>4, <2>1, InstallSmall
<1> QED BY Zenon, <1>1, <1>2, <1>3, <1>4 DEF Install

(* A step of the host that changes the mapping of the pages X, for which   *)
(* there are no 4K entries, and of blocks for which there is no 2M entry.  *)
LEMMA HostStep ==
  ASSUME RangeInv, WellPlaced(regions), NEW blocks, NEW pages, Host(blocks, pages),
         blocks \subseteq HBlocks, NEW X,
         \A h \in Int : h \notin X => /\ h \in pages <=> h \in small
                                      /\ align_down(h) \in blocks <=> align_down(h) \in thp,
         \A g \in Gpas : pte[g] # None => gpa_to_hva(regions, g) \notin X,
         \A b \in GBlocks, hb \in HBlocks : pmd[b] = <<"huge", hb>> => hb \in blocks
  PROVE  RangeInv'
<1>1. /\ LifeInv /\ TableInv(Ept) /\ CallInv /\ MapInv /\ StatInv(Ept)
      /\ registered /\ ~freed /\ thp' = blocks /\ small' = pages
      /\ engine' = engine /\ regions' = regions /\ open' = open
      /\ registered' = registered /\ freed' = freed
      /\ pmd' = pmd /\ pte' = pte
  BY Zenon DEF RangeInv, Host, life, tables
<1>2. Ept' = Ept
  BY Zenon DEF Host, tables, Ept
<1>3. CallInv'
  BY Zenon, <1>1, <1>2, NextCalls DEF CallInv
<1>4. TableInv(Ept)' /\ StatInv(Ept)'
  BY Zenon, <1>1, <1>2, NextTables
<1>5. ASSUME NEW g \in Gpas, pte'[g] # None
      PROVE  pte'[g] = HostFrame(gpa_to_hva(regions, g))'
  <2> DEFINE h == gpa_to_hva(regions, g)
  <2>1. pte[g] = HostFrame(h) /\ h \notin X /\ g \in Int
    BY Zenon, <1>1, <1>5, Pages DEF MapInv
  <2>2. h # ADDR_INVAL
    <3>1. Ept.pte = pte
      BY Zenon DEF Ept
    <3> QED BY Zenon, <1>1, <1>5, <3>1 DEF TableInv
  <2>3. h \in Int
    <3>1. h \in Nat
      BY Zenon, <2>1, <2>2, GpaHva
    <3> HIDE DEF h
    <3> QED BY <3>1
  <2>4. (h \in pages <=> h \in small) /\ (align_down(h) \in blocks <=> align_down(h) \in thp)
    BY Zenon, <2>1, <2>3
  <2> QED BY Zenon, <1>1, <2>1, <2>4 DEF HostFrame, InThp
<1>6. MapInv'
  BY Zenon, <1>1, <1>5 DEF MapInv
<1>7. LifeInv'
  BY Zenon, <1>1 DEF LifeInv, InCallback
<1> QED BY Zenon, <1>3, <1>4, <1>6, <1>7 DEF RangeInv

(* Pages of an invalidation whose callback is done have no 4K entries.     *)
LEMMA CoveredPages ==
  ASSUME RangeInv, WellPlaced(regions), NEW X, Covered(X), NEW g \in Gpas, pte[g] # None
  PROVE  gpa_to_hva(regions, g) \notin X
<1> DEFINE h == gpa_to_hva(regions, g)
<1> SUFFICES ASSUME h \in X PROVE FALSE
  BY Zenon
<1>1. PICK t \in Callers : open[t].pos = open[t].e /\ X \subseteq open[t].s .. (open[t].e - 1)
  BY Zenon DEF Covered
<1>2. Cleared(Ept, h)
  BY Zenon, <1>1 DEF RangeInv, CallInv, Call
<1>3. Ept.pte = pte /\ g \in Int
  BY Zenon, Pages DEF Ept
<1>4. h # ADDR_INVAL
  BY Zenon, <1>3 DEF RangeInv, TableInv
<1>5. hva_to_gpa(regions, h) = g
  BY Zenon, <1>3, <1>4, GpaHva
<1>6. g # ADDR_INVAL
  BY SizeAssumption DEF ADDR_INVAL
<1> QED BY Zenon, <1>2, <1>3, <1>5, <1>6 DEF Cleared

(* Blocks of such an invalidation have no 2M entry.                        *)
LEMMA CoveredBlock ==
  ASSUME RangeInv, NEW hb \in HBlocks, Covered(Block(hb)), NEW b \in GBlocks
  PROVE  pmd[b] # <<"huge", hb>>
<1>1. PICK t \in Callers :
        open[t].pos = open[t].e /\ Block(hb) \subseteq open[t].s .. (open[t].e - 1)
  BY Zenon DEF Covered
<1>2. Dropped(Ept, hb)
  BY Zenon, <1>1 DEF RangeInv, CallInv, Call
<1>3. Ept.pmd = pmd
  BY Zenon DEF Ept
<1> QED BY Zenon, <1>2, <1>3 DEF Dropped

(* A page lies in a block when it is aligned down to its beginning.        *)
LEMMA PageOfBlock ==
  ASSUME NEW hb \in HBlocks, NEW h \in Int
  PROVE  h \in Block(hb) <=> align_down(h) = hb
<1>1. hb \in Int /\ Aligned(hb)
  BY Zenon, BlockTypes
<1>2. align_down(h) = hb <=> hb <= h /\ h < hb + H
  BY Zenon, <1>1, InBlock
<1>3. h \in Block(hb) <=> hb <= h /\ h < hb + H
  BY <1>1, Sizes DEF Block
<1> QED BY Zenon, <1>2, <1>3

(* The host maps one more page.                                            *)
LEMMA FaultSmallStep ==
  ASSUME RangeInv, WellPlaced(regions), NEW x, HostFaultSmall(x)
  PROVE  RangeInv'
<1>1. ~InThp(x) /\ x \notin small /\ Host(thp, small \cup {x}) /\ registered
  BY Zenon DEF HostFaultSmall, Host
<1>2. HostFrame(x) = None
  BY Zenon, <1>1 DEF HostFrame
<1>3. MapInv /\ thp \subseteq HBlocks
  BY Zenon DEF RangeInv, LifeInv
<1>4. \A g \in Gpas : pte[g] # None => gpa_to_hva(regions, g) \notin {x}
  BY Zenon, <1>1, <1>2, <1>3 DEF MapInv
<1>5. \A b \in GBlocks, hb \in HBlocks : pmd[b] = <<"huge", hb>> => hb \in thp
  BY Zenon, <1>1, <1>3 DEF MapInv
<1>6. \A h \in Int : h \notin {x} => (h \in small \cup {x} <=> h \in small)
  BY Zenon
<1> QED BY Zenon, <1>1, <1>3, <1>4, <1>5, <1>6, HostStep

(* The host maps one more huge page.                                       *)
LEMMA FaultHugeStep ==
  ASSUME RangeInv, WellPlaced(regions), NEW x \in HBlocks, HostFaultHuge(x)
  PROVE  RangeInv'
<1>1. x \notin thp /\ Block(x) \cap small = {} /\ Host(thp \cup {x}, small) /\ registered
  BY Zenon DEF HostFaultHuge, Host
<1>2. MapInv /\ thp \subseteq HBlocks /\ TableInv(Ept)
  BY Zenon DEF RangeInv, LifeInv
<1>3. ASSUME NEW g \in Gpas, pte[g] # None PROVE gpa_to_hva(regions, g) \notin Block(x)
  <2> DEFINE h == gpa_to_hva(regions, g)
  <2> SUFFICES ASSUME h \in Block(x) PROVE FALSE
    BY Zenon
  <2>1. h \in Int
    BY BlockTypes, Sizes DEF Block
  <2>2. align_down(h) = x /\ h \notin small
    BY Zenon, <1>1, <2>1, PageOfBlock
  <2>3. HostFrame(h) = None
    BY Zenon, <1>1, <2>2 DEF HostFrame, InThp
  <2> QED BY Zenon, <1>1, <1>2, <1>3, <2>3 DEF MapInv
<1>4. \A b \in GBlocks, hb \in HBlocks : pmd[b] = <<"huge", hb>> => hb \in thp \cup {x}
  BY Zenon, <1>1, <1>2 DEF MapInv
<1>5. \A h \in Int : h \notin Block(x) => (align_down(h) \in thp \cup {x} <=> align_down(h) \in thp)
  BY Zenon, PageOfBlock
<1>6. thp \cup {x} \subseteq HBlocks
  BY Zenon, <1>2
<1> QED BY Zenon, <1>1, <1>3, <1>4, <1>5, <1>6, HostStep

(* The host unmaps a page under an invalidation.                           *)
LEMMA UnmapStep ==
  ASSUME RangeInv, WellPlaced(regions), NEW x, HostUnmap(x)
  PROVE  RangeInv'
<1>1. Covered({x}) /\ Host(thp, small \ {x}) /\ registered
  BY Zenon DEF HostUnmap, Host
<1>2. MapInv /\ thp \subseteq HBlocks
  BY Zenon DEF RangeInv, LifeInv
<1>3. \A g \in Gpas : pte[g] # None => gpa_to_hva(regions, g) \notin {x}
  BY Zenon, <1>1, CoveredPages
<1>4. \A b \in GBlocks, hb \in HBlocks : pmd[b] = <<"huge", hb>> => hb \in thp
  BY Zenon, <1>1, <1>2 DEF MapInv
<1>5. \A h \in Int : h \notin {x} => (h \in small \ {x} <=> h \in small)
  BY Zenon
<1> QED BY Zenon, <1>1, <1>2, <1>3, <1>4, <1>5, HostStep

(* The host splits, unmaps or makes a huge page under an invalidation of   *)
(* its whole block.                                                        *)
LEMMA BlockStep ==
  ASSUME RangeInv, WellPlaced(regions), NEW x \in HBlocks,
         HostSplit(x) \/ HostUnmapHuge(x) \/ HostCollapse(x)
  PROVE  RangeInv'
<1>1. PICK blocks \in {thp \ {x}, thp \cup {x}},
           pages \in {small \cup Block(x), small, small \ Block(x)} : Host(blocks, pages)
  BY Zenon DEF HostSplit, HostUnmapHuge, HostCollapse
<1>2. Covered(Block(x)) /\ registered
  BY Zenon DEF HostSplit, HostUnmapHuge, HostCollapse, Host
<1>3. MapInv /\ thp \subseteq HBlocks
  BY Zenon DEF RangeInv, LifeInv
<1>4. blocks \subseteq HBlocks
  BY Zenon, <1>1, <1>3
<1>5. \A g \in Gpas : pte[g] # None => gpa_to_hva(regions, g) \notin Block(x)
  BY Zenon, <1>2, CoveredPages
<1>6. ASSUME NEW b \in GBlocks, NEW hb \in HBlocks, pmd[b] = <<"huge", hb>> PROVE hb \in blocks
  <2>1. hb # x
    BY Zenon, <1>2, <1>6, CoveredBlock
  <2>2. hb \in thp
    BY Zenon, <1>2, <1>3, <1>6 DEF MapInv
  <2> QED BY Zenon, <1>1, <2>1, <2>2
<1>7. ASSUME NEW h \in Int, h \notin Block(x)
      PROVE  (h \in pages <=> h \in small) /\ (align_down(h) \in blocks <=> align_down(h) \in thp)
  <2>1. align_down(h) # x
    BY Zenon, <1>7, PageOfBlock
  <2> QED BY Zenon, <1>1, <1>7, <2>1
<1> QED BY ZenonT(30), <1>1, <1>4, <1>5, <1>6, <1>7, HostStep

(* The notifier is unregistered.                                           *)
LEMMA UnregisterStep ==
  ASSUME RangeInv, WellPlaced(regions), Unregister
  PROVE  RangeInv'
<1>1. /\ LifeInv /\ TableInv(Ept) /\ CallInv /\ ~InCallback
      /\ registered' = FALSE /\ thp' = {} /\ freed' = freed
      /\ engine' = engine /\ regions' = regions /\ open' = open
      /\ pmd' = pmd /\ pte' = pte
  BY Zenon DEF RangeInv, Unregister, ForgetHost, tables
<1>2. Ept' = Ept
  BY Zenon DEF Unregister, tables, Ept
<1>3. CallInv'
  BY Zenon, <1>1, <1>2, NextCalls DEF CallInv
<1>4. TableInv(Ept)' /\ (StatInv(Ept) => StatInv(Ept)')
  BY Zenon, <1>1, <1>2, NextTables
<1>5. MapInv'
  BY Zenon, <1>1 DEF MapInv
<1>6. {} \subseteq HBlocks /\ FALSE \in BOOLEAN
  BY Zenon
<1>7. LifeInv'
  BY Zenon, <1>1, <1>6 DEF LifeInv, InCallback
<1> QED BY Zenon, <1>1, <1>3, <1>4, <1>5, <1>7 DEF RangeInv

(* The tables are freed.                                                   *)
LEMMA FreeStep ==
  ASSUME RangeInv, WellPlaced(regions), FreeTables,
         engine = "npt" => ~registered /\ ~InCallback
  PROVE  RangeInv'
<1> DEFINE F == [pmd |-> [b \in GBlocks |-> None], pte |-> [g \in Gpas |-> None],
                 n4k |-> n4k, n2m |-> n2m, dropped |-> dropped]
<1>1. /\ LifeInv /\ TableInv(Ept) /\ CallInv
      /\ registered' = registered /\ thp' = {} /\ freed' = TRUE
      /\ engine' = engine /\ regions' = regions /\ open' = open
      /\ pmd' = [b \in GBlocks |-> None] /\ pte' = [g \in Gpas |-> None]
  BY Zenon DEF RangeInv, FreeTables, ForgetHost
<1>2. Ept' = F
  BY Zenon, <1>1 DEF FreeTables, Ept
<1>3. /\ F.pmd = [b \in GBlocks |-> None] /\ F.pte = [g \in Gpas |-> None]
      /\ F = [pmd |-> F.pmd, pte |-> F.pte, n4k |-> F.n4k, n2m |-> F.n2m,
              dropped |-> F.dropped]
  BY Zenon
<1> HIDE DEF F
<1>4. Shape(F)
  <2>1. F.pmd \in [GBlocks -> Dirs]
    BY Zenon, <1>3 DEF Dirs
  <2>2. F.pte = [g \in Gpas |-> F.pte[g]]
    BY Zenon, <1>3
  <2> QED BY Zenon, <1>3, <2>1, <2>2 DEF Shape
<1>5. (\A b \in GBlocks : F.pmd[b] = None) /\ (\A g \in Gpas : F.pte[g] = None)
  BY Zenon, <1>3
<1>6. Below(F, Ept)
  BY Zenon, <1>5 DEF Below
<1>7. TableInv(F)
  BY Zenon, <1>1, <1>4, <1>5, <1>6, BelowTable
<1>8. TableInv(Ept)' /\ pmd' = F.pmd /\ pte' = F.pte
  BY Zenon, <1>1, <1>2, <1>7, NextTables
<1>9. \A t \in Callers : Call(open[t], F)
  BY Zenon, <1>1, <1>6, CallFacts DEF CallInv
<1>10. CallInv'
  BY Zenon, <1>1, <1>2, <1>9, NextCalls DEF CallInv
<1>11. MapInv'
  BY Zenon, <1>5, <1>8, DirFacts DEF MapInv
<1>12. {} \subseteq HBlocks /\ TRUE \in BOOLEAN
  BY Zenon
<1>13. LifeInv'
  BY Zenon, <1>1, <1>5, <1>8, <1>12 DEF LifeInv, InCallback
<1> QED BY Zenon, <1>1, <1>8, <1>10, <1>11, <1>13 DEF RangeInv

(***************************************************************************)
(* The inductive invariant.                                                *)
(***************************************************************************)

(* It holds initially.                                                     *)
LEMMA RangeInit ==
  ASSUME Init, \A R \in RegionLists : WellPlaced(R)
  PROVE  RangeInv
<1>1. /\ engine \in {"ept", "npt"} /\ regions \in RegionLists /\ thp = {}
      /\ pmd = [b \in GBlocks |-> None] /\ pte = [g \in Gpas |-> None]
      /\ n4k = 0 /\ n2m = 0 /\ dropped = 0 /\ open = [t \in Callers |-> Idle]
      /\ registered = TRUE /\ freed = FALSE
  BY Zenon DEF Init
<1>2. WellPlaced(regions)
  BY Zenon, <1>1
<1>3. /\ Ept.pmd = pmd /\ Ept.pte = pte /\ Ept.n4k = 0 /\ Ept.n2m = 0 /\ Ept.dropped = 0
      /\ Ept = [pmd |-> Ept.pmd, pte |-> Ept.pte, n4k |-> Ept.n4k, n2m |-> Ept.n2m,
                dropped |-> Ept.dropped]
  BY Zenon, <1>1 DEF Ept
<1>4. (\A b \in GBlocks : pmd[b] = None) /\ (\A g \in Gpas : pte[g] = None)
  BY Zenon, <1>1
<1>5. TableInv(Ept)
  <2>1. Ept.pmd \in [GBlocks -> Dirs]
    BY Zenon, <1>1, <1>3 DEF Dirs
  <2>2. Ept.pte = [g \in Gpas |-> Ept.pte[g]]
    BY Zenon, <1>1, <1>3
  <2>3. Shape(Ept)
    BY Zenon, <1>3, <2>1, <2>2 DEF Shape
  <2> QED BY Zenon, <1>3, <1>4, <2>3, DirFacts DEF TableInv
<1>6. CallInv
  BY Zenon, <1>1, <1>2, CallFacts DEF CallInv
<1>7. MapInv
  BY Zenon, <1>4, DirFacts DEF MapInv
<1>8. StatInv(Ept)
  <2>1. Entries(Ept) = {} /\ HugeEntries(Ept) = {}
    <3>1. 0 # 1
      OBVIOUS
    <3> QED BY Zenon, <1>3, <1>4, <3>1, DirFacts DEF Entries, HugeEntries
  <2>2. Cardinality({}) = 0
    BY FS_EmptySet
  <2>3. Plus(0, -0) = 0 /\ 0 \in Nat
    <3>1. 0 + -0 \in 0 .. Word - 1 /\ -0 \in Int /\ 0 \in Int /\ 0 + -0 = 0
      BY SizeAssumption, FS_CardinalityType
    <3> QED BY <3>1, PlusFacts
  <2> QED BY Zenon, <1>3, <2>1, <2>2, <2>3 DEF StatInv, Entries, HugeEntries
<1>9. LifeInv
  <2>1. {} \subseteq HBlocks /\ TRUE \in BOOLEAN /\ FALSE \in BOOLEAN
    BY Zenon
  <2> QED BY Zenon, <1>1, <2>1 DEF LifeInv
<1> QED BY Zenon, <1>5, <1>6, <1>7, <1>8, <1>9 DEF RangeInv

(* Every step keeps it.                                                    *)
LEMMA RangeStep ==
  ASSUME RangeInv, [Next]_vars, \A R \in RegionLists : WellPlaced(R)
  PROVE  RangeInv'
<1>1. WellPlaced(regions)
  BY Zenon DEF RangeInv, LifeInv
<1>2. CASE \E g \in Gpas : set_epte(g)
  BY Zenon, <1>1, <1>2, SetEpteStep
<1>3. CASE \E t \in Callers, s \in Hvas, e \in {h + 1 : h \in Hvas} :
             s < e /\ invalidate_range_start(t, s, e)
  <2>1. PICK t \in Callers, s \in Hvas, e \in {h + 1 : h \in Hvas} :
          s < e /\ invalidate_range_start(t, s, e)
    BY Zenon, <1>3
  <2>2. s \in Nat
    BY Zenon, Pages
  <2>3. e \in Nat
    BY Pages
  <2> QED BY Zenon, <1>1, <2>1, <2>2, <2>3, StartStep
<1>4. CASE \E t \in Callers : cond_resched_lock(t) \/ invalidate_range_end(t)
  BY Zenon, <1>1, <1>4, ReschedStep, EndStep
<1>5. CASE instance_destroy_ept
  <2>1. engine # "npt"
    BY <1>5 DEF instance_destroy_ept
  <2> QED BY Zenon, <1>1, <1>5, <2>1, FreeStep, UnregisterStep DEF instance_destroy_ept
<1>6. CASE instance_destroy_npt
  BY Zenon, <1>1, <1>6, FreeStep, UnregisterStep DEF instance_destroy_npt
<1>7. CASE \E h \in Hvas : invalidate_page(h) \/ HostFaultSmall(h) \/ HostUnmap(h)
  BY Zenon, <1>1, <1>7, Pages, PageStep, FaultSmallStep, UnmapStep
<1>8. CASE \E b \in HBlocks : \/ HostFaultHuge(b) \/ HostSplit(b)
                              \/ HostUnmapHuge(b) \/ HostCollapse(b)
  BY Zenon, <1>1, <1>8, FaultHugeStep, BlockStep
<1>9. CASE UNCHANGED vars
  <2>1. /\ engine' = engine /\ regions' = regions /\ thp' = thp /\ small' = small
        /\ open' = open /\ registered' = registered /\ freed' = freed
        /\ pmd' = pmd /\ pte' = pte /\ Ept' = Ept
    BY Zenon, <1>9 DEF vars, tables, life, Ept
  <2>2. TableInv(Ept)' /\ (StatInv(Ept) => StatInv(Ept)')
    BY Zenon, <2>1, NextTables DEF RangeInv
  <2>3. CallInv'
    BY Zenon, <2>1, NextCalls DEF RangeInv, CallInv
  <2>4. MapInv'
    BY Zenon, <2>1, NextMap, BelowOrder DEF RangeInv
  <2>5. LifeInv'
    BY Zenon, <2>1 DEF RangeInv, LifeInv, InCallback
  <2> QED BY Zenon, <2>1, <2>2, <2>3, <2>4, <2>5 DEF RangeInv
<1> QED BY Zenon, <1>2, <1>3, <1>4, <1>5, <1>6, <1>7, <1>8, <1>9 DEF Next

(* Under the invariant, what is translated is what the host has.           *)
LEMMA RangeTranslates ==
  ASSUME RangeInv, WellPlaced(regions)
  PROVE  TranslatesAsHost
<1> SUFFICES ASSUME registered, NEW g \in Gpas, NestedFrame(g) # None
             PROVE  NestedFrame(g) = HostFrame(gpa_to_hva(regions, g))
  BY Zenon DEF TranslatesAsHost
<1> DEFINE b == align_down(g)
           h == gpa_to_hva(regions, g)
<1>1. /\ TableInv(Ept) /\ MapInv /\ Ept.pmd = pmd /\ Ept.pte = pte
      /\ b \in GBlocks /\ b \in Int /\ Aligned(b) /\ g \in Int
  BY Zenon, BlockTypes, Pages DEF RangeInv, Ept
<1>2. pmd[b] \in Dirs
  BY Zenon, <1>1 DEF TableInv, Shape
<1>3. CASE is_epte_huge(pmd[b])
  <2>1. PICK hb \in HBlocks : pmd[b] = <<"huge", hb>>
    BY Zenon, <1>2, <1>3, DirFacts
  <2>2. Backs(b, hb) /\ hb \in thp
    BY Zenon, <1>1, <2>1 DEF TableInv, MapInv
  <2>3. hb \in Nat /\ hb \in Int /\ Aligned(hb)
    BY Zenon, BlockTypes
  <2>4. h = hb + (g - b) /\ align_down(h) = hb
    BY <1>1, <2>2, <2>3, BackedPages
  <2>5. NestedFrame(g) = <<"huge", hb, g % H>>
    <3>1. NestedFrame(g) = <<"huge", pmd[b][2], g % H>>
      BY Zenon, <1>3 DEF NestedFrame
    <3>2. pmd[b][2] = hb
      BY Zenon, <2>1, DirFacts
    <3> QED BY Zenon, <3>1, <3>2
  <2>6. HostFrame(h) = <<"huge", hb, h % H>>
    BY Zenon, <2>2, <2>4 DEF HostFrame, InThp
  <2>7. h % H = g % H
    <3>1. g % H = g - b
      BY Zenon, <1>1, AlignDown
    <3>2. h \in Int
      <4> HIDE DEF h, b
      <4> QED BY <1>1, <2>3, <2>4
    <3>3. h % H = h - hb
      BY Zenon, <2>4, <3>2, AlignDown
    <3> HIDE DEF h, b
    <3> QED BY <1>1, <2>3, <2>4, <3>1, <3>3
  <2> QED BY Zenon, <2>5, <2>6, <2>7
<1>4. CASE ~is_epte_huge(pmd[b])
  <2>1. NestedFrame(g) = pte[g]
    BY Zenon, <1>4 DEF NestedFrame
  <2> QED BY Zenon, <1>1, <2>1 DEF MapInv
<1> QED BY Zenon, <1>3, <1>4

(* Under the invariant, the counters agree with the entries.               *)
LEMMA RangeCounts ==
  ASSUME RangeInv
  PROVE  StatsCountEntries
<1> SUFFICES ASSUME ~freed
             PROVE  /\ n4k = Plus(Cardinality({g \in Gpas : /\ pmd[align_down(g)] = Table
                                                            /\ Count(pte[g]) = 1}), -dropped)
                    /\ n2m = Cardinality({b \in GBlocks : is_epte_huge(pmd[b])})
  BY Zenon DEF StatsCountEntries
<1>1. /\ TableInv(Ept) /\ StatInv(Ept)
      /\ Ept.pmd = pmd /\ Ept.pte = pte /\ Ept.n4k = n4k /\ Ept.n2m = n2m
      /\ Ept.dropped = dropped
  BY Zenon DEF RangeInv, Ept
<1>2. \A g \in Gpas : Count(pte[g]) = 1 => pmd[align_down(g)] = Table
  <2>1. 0 # 1
    OBVIOUS
  <2> QED BY Zenon, <1>1, <2>1, DirFacts DEF TableInv
<1>3. {g \in Gpas : pmd[align_down(g)] = Table /\ Count(pte[g]) = 1}
        = {g \in Gpas : Count(pte[g]) = 1}
  BY Zenon, <1>2
<1> QED BY Zenon, <1>1, <1>3 DEF StatInv

(***************************************************************************)
(* Theorems.                                                               *)
(***************************************************************************)

(* Whatever the regions are: instance_destroy_npt frees the tables when no *)
(* callback walks them and none can start.                                 *)
THEOREM OutliveCallbacks == Spec => []TablesOutliveCallbacks
<1> DEFINE Order == engine = "npt" => /\ freed => ~registered
                                      /\ ~registered => ~InCallback
<1>1. Init => Order
  <2> SUFFICES ASSUME Init PROVE Order
    OBVIOUS
  <2> QED BY Zenon DEF Init
<1>2. Order /\ [Next]_vars => Order'
  <2> SUFFICES ASSUME Order, [Next]_vars PROVE Order'
    OBVIOUS
  <2>1. CASE UNCHANGED <<engine, open, registered, freed>>
    BY Zenon, <2>1 DEF InCallback
  <2>2. CASE registered /\ ~freed /\ UNCHANGED life
    BY Zenon, <2>2 DEF life
  <2>3. ASSUME NEW t \in Callers, cond_resched_lock(t) PROVE Order'
    <3>1. InCallback /\ engine' = engine /\ registered' = registered /\ freed' = freed
      BY Zenon, <2>3 DEF cond_resched_lock, InCallback, life
    <3> QED BY Zenon, <3>1
  <2>4. ASSUME NEW t \in Callers, invalidate_range_end(t) PROVE Order'
    <3>1. registered /\ engine' = engine /\ registered' = registered /\ freed' = freed
      BY Zenon, <2>4 DEF invalidate_range_end, life
    <3> QED BY Zenon, <3>1
  <2>5. CASE instance_destroy_ept
    <3>1. engine' # "npt"
      <4>1. engine' = engine /\ engine = "ept"
        BY Zenon, <2>5 DEF instance_destroy_ept, FreeTables, Unregister
      <4> QED BY <4>1
    <3> QED BY Zenon, <3>1
  <2>6. CASE instance_destroy_npt
    BY Zenon, <2>6 DEF instance_destroy_npt, FreeTables, Unregister, InCallback
  <2>7. ASSUME NEW g, set_epte(g) PROVE Order'
    BY Zenon, <2>2, <2>7 DEF set_epte
  <2>8. ASSUME NEW t, NEW s, NEW e, invalidate_range_start(t, s, e) PROVE Order'
    BY Zenon, <2>2, <2>8 DEF invalidate_range_start
  <2>9. ASSUME NEW h, invalidate_page(h) PROVE Order'
    BY Zenon, <2>2, <2>9 DEF invalidate_page
  <2>10. ASSUME NEW blocks, NEW pages, Host(blocks, pages) PROVE Order'
    BY Zenon, <2>2, <2>10 DEF Host
  <2>11. ASSUME NEW h, HostFaultSmall(h) \/ HostUnmap(h) PROVE Order'
    BY Zenon, <2>10, <2>11 DEF HostFaultSmall, HostUnmap
  <2>12. ASSUME NEW b, HostFaultHuge(b) \/ HostSplit(b) \/ HostUnmapHuge(b) \/ HostCollapse(b)
         PROVE  Order'
    BY Zenon, <2>10, <2>12 DEF HostFaultHuge, HostSplit, HostUnmapHuge, HostCollapse
  <2>13. CASE UNCHANGED vars
    BY Zenon, <2>1, <2>13 DEF vars, life
  <2> HIDE DEF Order
  <2> QED BY Zenon, <2>3, <2>4, <2>5, <2>6, <2>7, <2>8, <2>9, <2>11, <2>12, <2>13 DEF Next
<1>3. Order => TablesOutliveCallbacks
  <2> SUFFICES ASSUME Order PROVE TablesOutliveCallbacks
    OBVIOUS
  <2> QED BY Zenon DEF TablesOutliveCallbacks
<1> HIDE DEF Order
<1> QED BY <1>1, <1>2, <1>3, PTL DEF Spec

(* Regions that begin on 2M boundaries, with RangeInv in every state.      *)
THEOREM RangeInvariant ==
  ASSUME \A R \in RegionLists : WellPlaced(R)
  PROVE  Spec => []RangeInv
<1>1. Init => RangeInv
  BY Zenon, RangeInit
<1>2. RangeInv /\ [Next]_vars => RangeInv'
  BY Zenon, RangeStep
<1> QED BY <1>1, <1>2, PTL DEF Spec

(* What the EPT or the NPT translates, it translates as the host does, for *)
(* every size of the blocks and of the address spaces and any number of    *)
(* callbacks at once, when the regions are placed as 2M entries require.   *)
THEOREM Translates ==
  ASSUME \A R \in RegionLists : WellPlaced(R)
  PROVE  Spec => []TranslatesAsHost
<1>1. RangeInv => TranslatesAsHost
  BY Zenon, RangeTranslates DEF RangeInv, LifeInv
<1> QED BY <1>1, RangeInvariant, PTL

(* The statistics count the entries, up to the page tables an NPT counts   *)
(* off as well.                                                            *)
THEOREM StatsCount ==
  ASSUME \A R \in RegionLists : WellPlaced(R)
  PROVE  Spec => []StatsCountEntries
<1>1. RangeInv => StatsCountEntries
  BY Zenon, RangeCounts
<1> QED BY <1>1, RangeInvariant, PTL

=============================================================================

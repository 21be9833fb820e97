---------------------------- MODULE NestedRange ----------------------------
(***************************************************************************)
(* The two leaf levels of the nested page table, EPT (ept.c) or NPT        *)
(* (npt.c): how a fault installs a 4K or a 2M entry, what the notifier     *)
(* callbacks clear, what the statistics count, and how the tables go.      *)
(*                                                                         *)
(* A fault and a callback of the EPT are one step each: they run under     *)
(* ept_lock, and EptSync has the interleavings around it.  The NPT engine  *)
(* lets go of the lock at every 1G boundary while it clears a range, so    *)
(* there a callback is a step per 1G.  Addresses count 4K pages; a 2M      *)
(* block is H pages, 1G is G.  A frame is named after the host page it     *)
(* backs: <<"small", h>>, <<"pfn", h>> in a VM_PFNMAP area, or <<"huge",   *)
(* b, k>> for page k of the transparent huge page of the block at b.       *)
(***************************************************************************)
EXTENDS MemRegion, FiniteSets

CONSTANTS
  H, G,         \* pages in a 2M block, and in 1G
  Gpas, Hvas,   \* page numbers of the guest and of the host process
  RegionLists,  \* the region arrays an instance may be configured with
  PfnHvas,      \* host pages in a VM_PFNMAP area
  Word,         \* the counters wrap at Word (2^64 in the code)
  Callers,      \* host threads, each with at most one invalidation open
  MaxDropped    \* bound: page tables an NPT drops

ASSUME SizeAssumption ==
  /\ H \in Nat \ {0, 1} /\ G \in {k * H : k \in 1 .. G}
  /\ Gpas \subseteq Nat /\ IsFiniteSet(Gpas) /\ Hvas \subseteq Nat
  /\ Word \in Nat /\ Word > Cardinality(Gpas)

VARIABLES
  engine,   \* "ept" or "npt"
  regions,  \* instp->memp, fixed before the first entry
  thp,      \* host blocks (their first page) mapped by a transparent huge page
  small,    \* host pages mapped one by one
  pmd,      \* guest block -> none, a page table, or a 2M entry
  pte,      \* guest page -> none or a frame (meaningful under a table)
  n4k, n2m, \* instp->ept_4k_pages, ept_2m_pages
  dropped,  \* history: page tables of an NPT dropped by a directory pass
  open,     \* thread -> Idle, or [s, e, pos] from invalidate_range_start to
            \* _end: the pages s .. e - 1, cleared up to pos
  registered,  \* the notifier is
  freed        \* the tables are; the NPT engine has reset ept_root before

tables == <<pmd, pte, n4k, n2m, dropped>>
life == <<registered, freed>>
vars == <<engine, regions, thp, small, tables, open, life>>

None == <<"none">>
Table == <<"table">>

Idle == [s |-> 0, e |-> 0, pos |-> 0]
Open == {t \in Callers : open[t] # Idle}

align_down(x) == x - (x % H)
align_up(x) == align_down(x + H - 1)
Block(b) == b .. (b + H - 1)
GBlocks == {align_down(g) : g \in Gpas}
HBlocks == {b \in {align_down(h) : h \in Hvas} : Block(b) \subseteq Hvas}

is_epte_huge(e) == e[1] = "huge"

(* Regions that begin on 2M boundaries in the guest and in the host, that  *)
(* do not overlap, and of which one that ends inside a block is followed   *)
(* by none at the same distance in guest and host.  The code does not      *)
(* check it; without it a 2M entry may cover more than its region.         *)
WellPlaced(R) ==
  /\ R \in Seq([gpa : Nat, hva : Nat, size : Nat])
  /\ \A i \in DOMAIN R :
       /\ align_down(R[i].gpa) = R[i].gpa /\ align_down(R[i].hva) = R[i].hva
       /\ R[i].gpa .. (R[i].gpa + R[i].size - 1) \subseteq Gpas
  /\ \A i, j \in DOMAIN R : i # j =>
       /\ R[i].gpa + R[i].size <= R[j].gpa \/ R[j].gpa + R[j].size <= R[i].gpa
       /\ R[i].hva + R[i].size <= R[j].hva \/ R[j].hva + R[j].size <= R[i].hva
       /\ R[i].gpa < R[j].gpa /\ R[j].gpa - R[i].gpa = R[j].hva - R[i].hva
            => align_down(R[i].size) = R[i].size

(***************************************************************************)
(* The EPT as one value, so that a pass over a range can be folded.        *)
(***************************************************************************)
Ept == [pmd |-> pmd, pte |-> pte, n4k |-> n4k, n2m |-> n2m, dropped |-> dropped]

Plus(n, k) == (n + k) % Word

(* trace_mm_stat_map and _unmap count neither an empty nor a PFNMAP entry. *)
Count(e) == IF e[1] \in {"none", "pfn"} THEN 0 ELSE 1

(* Mutant: whatever is in the slot is counted off.                         *)
ClearLeaf_CountsAll(E, g) ==
  LET b == align_down(g)
  IN IF is_epte_huge(E.pmd[b])
     THEN [E EXCEPT !.pmd[b] = None, !.n2m = Plus(@, -1)]
     ELSE [E EXCEPT !.pte[g] = None, !.n4k = Plus(@, -1)]

(* trace_mm_stat_unmap and clear_epte (clear_npte) on the leaf of page g.  *)
ClearLeaf(E, g) ==
  LET b == align_down(g)
  IN IF is_epte_huge(E.pmd[b])
     THEN [E EXCEPT !.pmd[b] = None, !.n2m = Plus(@, -1)]
     ELSE [E EXCEPT !.pte[g] = None, !.n4k = Plus(@, -Count(E.pte[g]))]

(* lookup_hva(h, PAGE_TABLE, 0) finds a leaf slot: a 2M entry or a slot of *)
(* a page table.                                                           *)
LookupLeaf(E, h) ==
  LET g == hva_to_gpa(regions, h)
  IN g # ADDR_INVAL /\ E.pmd[align_down(g)] # None

(* When the 2M entry found at x goes in the first pass.                    *)
DropsHuge(x, e) == x > align_down(x) \/ e < align_up(x)

(* One round of the loop in clear_page_table; acc.next is the loop's s.    *)
ClearPage(acc, x, e) ==
  LET g == hva_to_gpa(regions, x)
      found == LookupLeaf(acc.ept, x)
      huge == found /\ is_epte_huge(acc.ept.pmd[align_down(g)])
  IN IF x # acc.next THEN acc
     ELSE [next |-> IF huge THEN align_down(x) + H ELSE x + 1,
           ept |-> IF found /\ (huge => DropsHuge(x, e))
                   THEN ClearLeaf(acc.ept, g) ELSE acc.ept]

(* clear_page_table on [s, n) of a range that ends at e.                   *)
clear_page_table(E, s, n, e) ==
  LET pass[x \in s .. n] == IF x = s THEN [next |-> s, ept |-> E]
                            ELSE ClearPage(pass[x - 1], x - 1, e)
  IN pass[n].ept

(* clear_dir on the directory slot of each host block inside [s, e).  The  *)
(* EPT counts off a 2M entry only; npt_clear_dir counts off a page table,  *)
(* too, as a 4K entry.                                                     *)
ClearDir(E, h) ==
  LET g == hva_to_gpa(regions, h)
      b == align_down(g)
      old == E.pmd[b]
      table == IF engine = "npt" /\ old = Table THEN 1 ELSE 0
  IN IF g = ADDR_INVAL THEN E
     ELSE [E EXCEPT !.pmd[b] = None,
                    !.pte = [p \in Gpas |-> IF p \in Block(b) THEN None ELSE @[p]],
                    !.n2m = Plus(@, IF is_epte_huge(old) THEN -1 ELSE 0),
                    !.n4k = Plus(@, -table), !.dropped = @ + table]

clear_page_directory(E, s, e) ==
  LET n == (align_down(e) - align_up(s)) \div H
      pass[i \in 0 .. n] ==
        IF i = 0 THEN E ELSE ClearDir(pass[i - 1], align_up(s) + (i - 1) * H)
  IN IF n > 0 THEN pass[n] ELSE E

(* pdpe_addr_end: where npt_clear_page_table next lets go of the lock.     *)
pdpe_addr_end(s, e) ==
  LET boundary == (s + G) - ((s + G) % G)
  IN IF engine = "npt" /\ boundary < e THEN boundary ELSE e

(* The callback for the pages [s, e) goes on from pos: to a 1G boundary,   *)
(* or to the end, where the pass over the directory follows.               *)
ClearFrom(pos, s, e) ==
  LET n == pdpe_addr_end(pos, e)
      E == clear_page_table(Ept, pos, n, e)
  IN IF n = e THEN clear_page_directory(E, s, e) ELSE E

SetEpt(E) ==
  /\ pmd' = E.pmd /\ pte' = E.pte /\ dropped' = E.dropped
  /\ n4k' = E.n4k /\ n2m' = E.n2m
  /\ dropped' <= MaxDropped

(***************************************************************************)
(* Initial state.                                                          *)
(***************************************************************************)
TypeOK ==
  /\ engine \in {"ept", "npt"}
  /\ regions \in RegionLists
  /\ thp \subseteq HBlocks /\ small \subseteq Hvas
  /\ pmd \in [GBlocks -> {None, Table} \cup {<<"huge", b>> : b \in HBlocks}]
  /\ DOMAIN pte = Gpas
  /\ {n4k, n2m} \subseteq 0 .. (Word - 1) /\ dropped \in 0 .. MaxDropped
  /\ DOMAIN open = Callers
  /\ {registered, freed} \subseteq BOOLEAN

Init ==
  /\ engine \in {"ept", "npt"}
  /\ regions \in RegionLists
  /\ thp = {} /\ small = {}
  /\ pmd = [b \in GBlocks |-> None]
  /\ pte = [g \in Gpas |-> None]
  /\ n4k = 0 /\ n2m = 0 /\ dropped = 0
  /\ open = [t \in Callers |-> Idle]
  /\ registered = TRUE /\ freed = FALSE

(***************************************************************************)
(* A violation at guest page g (ept_set_epte, npt_set_npte).               *)
(***************************************************************************)

(* The 2M block of g and the next one are 2M apart in the host as well.    *)
check_hugepage_consistency(g) ==
  LET s == gpa_to_hva(regions, align_down(g))
      e == gpa_to_hva(regions, align_down(g + H))
  IN s # ADDR_INVAL /\ e # ADDR_INVAL /\ e - s = H

(* A 2M entry is used unless a page table is already in its place.         *)
mapping_level_is_directory(g) ==
  check_hugepage_consistency(g) /\ pmd[align_down(g)] # Table

InThp(h) == align_down(h) \in thp

(* The frame of host page h: pinned, or found by follow_pfn.               *)
HostFrame(h) ==
  IF InThp(h) THEN <<"huge", align_down(h), h % H>>
  ELSE IF h \notin small THEN None
  ELSE IF h \in PfnHvas THEN <<"pfn", h>> ELSE <<"small", h>>

(* Install the leaf for guest page g, backed by host page h.  Nothing is   *)
(* installed over a 2M entry when a 4K one is wanted, and a present leaf   *)
(* is rewritten without being counted again.                               *)
Install(g, h) ==
  LET b == align_down(g)
      directory == InThp(h) /\ mapping_level_is_directory(g)
  IN \/ /\ directory
        /\ pmd' = [pmd EXCEPT ![b] = <<"huge", align_down(h)>>]
        /\ n2m' = Plus(n2m, 1 - Count(pmd[b]))
        /\ UNCHANGED <<pte, n4k, dropped>>
     \/ /\ ~directory /\ is_epte_huge(pmd[b])
        /\ UNCHANGED tables
     \/ /\ ~directory /\ ~is_epte_huge(pmd[b])
        /\ pmd' = [pmd EXCEPT ![b] = Table]
        /\ pte' = [pte EXCEPT ![g] = HostFrame(h)]
        /\ n4k' = Plus(n4k, IF pte[g] = None THEN Count(HostFrame(h)) ELSE 0)
        /\ UNCHANGED <<n2m, dropped>>

(* Mutant: mmu_notifier_count is raised once the range is cleared.         *)
mmu_notifier_retry_CountedLate == \E t \in Open : open[t].pos = open[t].e

(* The fault gives up while an invalidation is open (mmu_notifier_count).  *)
(* What the sequence number is for, EptSync has.                           *)
mmu_notifier_retry == Open # {}

(* The vcpus are gone before the tables are torn down.                     *)
set_epte(g) ==
  LET h == gpa_to_hva(regions, g)
  IN /\ registered /\ ~freed
     /\ h # ADDR_INVAL /\ HostFrame(h) # None
     /\ ~mmu_notifier_retry
     /\ Install(g, h)
     /\ UNCHANGED <<engine, regions, thp, small, open, life>>

(***************************************************************************)
(* The notifier callbacks.  What one does with tables that are freed is    *)
(* not modelled: TablesOutliveCallbacks says when there is none.           *)
(***************************************************************************)
InCallback == \E t \in Callers : open[t].pos # open[t].e

(* invalidate_range_start on the host pages s .. e - 1.                    *)
invalidate_range_start(t, s, e) ==
  /\ registered /\ ~freed /\ t \notin Open
  /\ SetEpt(ClearFrom(s, s, e))
  /\ open' = [open EXCEPT ![t] = [s |-> s, e |-> e, pos |-> pdpe_addr_end(s, e)]]
  /\ UNCHANGED <<engine, regions, thp, small, life>>

(* npt_clear_page_table has got the lock back; without a root it stops.    *)
cond_resched_lock(t) ==
  LET o == open[t]
  IN /\ o.pos # o.e
     /\ IF freed THEN UNCHANGED tables ELSE SetEpt(ClearFrom(o.pos, o.s, o.e))
     /\ open' = [open EXCEPT ![t].pos = IF freed THEN o.e
                                        ELSE pdpe_addr_end(o.pos, o.e)]
     /\ UNCHANGED <<engine, regions, thp, small, life>>

invalidate_range_end(t) ==
  /\ registered /\ t \in Open /\ open[t].pos = open[t].e
  /\ open' = [open EXCEPT ![t] = Idle]
  /\ UNCHANGED <<engine, regions, thp, small, tables, life>>

(* invalidate_page (change_pte, clear_flush_young), when it finds a slot.  *)
invalidate_page(h) ==
  /\ registered /\ ~freed /\ LookupLeaf(Ept, h)
  /\ SetEpt(ClearLeaf(Ept, hva_to_gpa(regions, h)))
  /\ UNCHANGED <<engine, regions, thp, small, open, life>>

(***************************************************************************)
(* Tearing down, when the last file is closed.                             *)
(***************************************************************************)

(* Nobody looks at the host page table any more: the model forgets it.     *)
ForgetHost == thp' = {} /\ small' = {}

(* External: mmu_notifier_unregister waits for the callbacks that run.     *)
Unregister ==
  /\ registered /\ ~InCallback
  /\ registered' = FALSE
  /\ ForgetHost
  /\ UNCHANGED <<engine, regions, tables, open, freed>>

FreeTables ==
  /\ ~freed /\ freed' = TRUE
  /\ pmd' = [b \in GBlocks |-> None] /\ pte' = [g \in Gpas |-> None]
  /\ ForgetHost
  /\ UNCHANGED <<engine, regions, n4k, n2m, dropped, open, registered>>

(* instance_destroy_ept frees, then unregisters.                           *)
instance_destroy_ept ==
  /\ engine = "ept"
  /\ FreeTables \/ (freed /\ Unregister)

(* Mutant: the order of the other engine.                                  *)
instance_destroy_npt_FreesFirst ==
  /\ engine = "npt"
  /\ FreeTables \/ (freed /\ Unregister)

(* instance_destroy_npt unregisters, resets ept_root for callbacks that go *)
(* on (there are none), waits until npt_mmu_users is zero, and frees.      *)
instance_destroy_npt ==
  /\ engine = "npt"
  /\ \/ Unregister
     \/ ~registered /\ ~InCallback /\ FreeTables

(***************************************************************************)
(* External: the memory management of the host.  A mapping changes after   *)
(* the callback of an invalidation that covers it, before its end; a       *)
(* transparent huge page is first split under an invalidation of its whole *)
(* block.  What changes after the teardown concerns nobody.                *)
(***************************************************************************)
Covered(S) ==
  \E t \in Callers :
    open[t].pos = open[t].e /\ S \subseteq open[t].s .. (open[t].e - 1)

Host(blocks, pages) ==
  /\ registered /\ ~freed
  /\ thp' = blocks /\ small' = pages
  /\ UNCHANGED <<engine, regions, tables, open, life>>

(* Host pages outside the regions concern nobody, mapped or not.           *)
InRegion(h) == hva_to_gpa(regions, h) # ADDR_INVAL

HostFaultSmall(h) ==
  InRegion(h) /\ ~InThp(h) /\ h \notin small /\ Host(thp, small \cup {h})

HostFaultHuge(b) ==
  /\ InRegion(b) /\ b \notin thp /\ Block(b) \cap small = {}
  /\ Host(thp \cup {b}, small)

HostUnmap(h) == h \in small /\ Covered({h}) /\ Host(thp, small \ {h})

HostSplit(b) ==
  b \in thp /\ Covered(Block(b)) /\ Host(thp \ {b}, small \cup Block(b))

HostUnmapHuge(b) == b \in thp /\ Covered(Block(b)) /\ Host(thp \ {b}, small)

HostCollapse(b) ==
  /\ Block(b) \subseteq small /\ Covered(Block(b))
  /\ Host(thp \cup {b}, small \ Block(b))

Next ==
  \/ \E g \in Gpas : set_epte(g)
  \/ \E t \in Callers, s \in Hvas, e \in {h + 1 : h \in Hvas} :
       s < e /\ invalidate_range_start(t, s, e)
  \/ \E t \in Callers : cond_resched_lock(t) \/ invalidate_range_end(t)
  \/ instance_destroy_ept \/ instance_destroy_npt
  \/ \E h \in Hvas : \/ invalidate_page(h)
                     \/ HostFaultSmall(h) \/ HostUnmap(h)
  \/ \E b \in HBlocks : \/ HostFaultHuge(b) \/ HostSplit(b)
                        \/ HostUnmapHuge(b) \/ HostCollapse(b)

Spec == Init /\ [][Next]_vars

(***************************************************************************)
(* Properties.                                                             *)
(***************************************************************************)
NestedFrame(g) ==
  LET d == pmd[align_down(g)]
  IN IF is_epte_huge(d) THEN <<"huge", d[2], g % H>>
     ELSE IF d = Table THEN pte[g] ELSE None

(* What the EPT or the NPT translates, through a 4K or a 2M entry, it      *)
(* translates as the host page table does, through faults, partial and     *)
(* overlapping invalidations, splits and collapses of huge pages, also     *)
(* while npt_clear_page_table has let go of the lock.                      *)
TranslatesAsHost ==
  registered => \A g \in Gpas : NestedFrame(g) # None
                  => NestedFrame(g) = HostFrame(gpa_to_hva(regions, g))

(* ept_4k_pages and ept_2m_pages (/proc/slimvm's memory statistics) count  *)
(* the entries, whichever of the two passes clears them, but for the page  *)
(* tables npt_clear_dir counts off as well.                                *)
StatsCountEntries ==
  ~freed =>
    /\ n4k = Plus(Cardinality({g \in Gpas : /\ pmd[align_down(g)] = Table
                                             /\ Count(pte[g]) = 1}), -dropped)
    /\ n2m = Cardinality({b \in GBlocks : is_epte_huge(pmd[b])})

(* The NPT is freed when no callback walks it and none can start any more  *)
(* (instance_destroy_npt).  instance_destroy_ept frees the tables of an    *)
(* EPT while its notifier is still registered.                             *)
TablesOutliveCallbacks == engine = "npt" /\ freed => ~registered /\ ~InCallback

=============================================================================

--------------------------- MODULE MCNestedRange ---------------------------
(* Model checking NestedRange with blocks of two pages and 1G of four.     *)
EXTENDS NestedRange, TLC

CallersSymmetric == Permutations(Callers)

Region(g, h, n) == [gpa |-> g, hva |-> h, size |-> n]

MCGpas == 0 .. 4
MCHvas == (2 .. 5) \cup {8}

(* One region, whose last page the process has not mapped; two regions     *)
(* with a block each and their hosts swapped; a block and a page of a      *)
(* VM_PFNMAP area.                                                         *)
AlignedLists == {<<Region(0, 2, 5)>>,
                 <<Region(0, 4, 2), Region(2, 2, 2)>>,
                 <<Region(0, 2, 2), Region(2, 8, 1)>>}

ASSUME ListsAssumption == \A R \in AlignedLists : WellPlaced(R)

=============================================================================

CONSTANTS
  H = 2
  G = 4
  Gpas <- MCGpas
  Hvas <- MCHvas
  PfnHvas = {8}
  Word = 6
  RegionLists <- AlignedLists
  Callers = {c1, c2}
  MaxDropped = 1
SPECIFICATION Spec
SYMMETRY CallersSymmetric
CHECK_DEADLOCK FALSE
INVARIANTS TranslatesAsHost  

CONSTANTS
  Vcpus = {v1, v2}
  Cpus = {c1, c2}
  None = None
  min_asid = 1
  max_asid = 1
  MaxGeneration = 4
SYMMETRY Symmetry
SPECIFICATION Spec
INVARIANTS AsidInv AsidExclusive NoStaleTranslation

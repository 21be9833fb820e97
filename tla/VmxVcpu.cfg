CONSTANTS
  Vcpus = {v1, v2}
  Cpus = {c1, c2}
  Insts = {i1, i2}
  Roots = {r1}
  NR_VPIDS = 3
  None = None
  Freed = Freed
SYMMETRY Symmetry
SPECIFICATION Spec
INVARIANTS VcpuInv VmcsReady NoForeignTranslation VmcsClearedFirst HardwareBalanced

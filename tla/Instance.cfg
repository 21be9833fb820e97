CONSTANTS
  Files = {f1, f2}
  Threads = {t1, t2, t3}
  VM_MAX_VCPUS = 2
  INSTANCES_MAX_NUM = 1
  Reclaimers = {r1, r2}
  MayFail = {"alloc_ptp", "init_pt"}
  MaxOpens = 2
SPECIFICATION FairSpec
CHECK_DEADLOCK FALSE
INVARIANTS IdsExclusive SlotsExclusive LeakIsCounted ReclaimedOnce NoCallDuringRelease
PROPERTIES  LeakIsReclaimed

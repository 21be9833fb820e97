CONSTANTS
  Pages = {}
  Frames = {f1}
  Vcpus = {v1}
  Cpus = {c1, c2}
  Threads = {t1, t2}
  None = None
  MaxInvl = 3
  MaxAged = 0
SPECIFICATION FairSpec
PROPERTIES FlushReturns

CONSTANTS
  Pages = {p1}
  Frames = {f1}
  Vcpus = {v1}
  Cpus = {c1, c2}
  Threads = {t1}
  None = None
  MaxInvl = 1
  MaxAged = 0
SPECIFICATION TsoSpec
INVARIANTS GuestNeverStale

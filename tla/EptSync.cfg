CONSTANTS
  Pages = {p1}
  Frames = {f1, f2}
  Vcpus = {v1}
  Cpus = {c1, c2, c3}
  Threads = {t1, t2}
  None = None
  MaxInvl = 1
  MaxAged = 1
SPECIFICATION Spec
SYMMETRY Perms
INVARIANTS IInv EptMatchesHost NoPfnMismatch GuestNeverStale
PROPERTIES ImplementsGuestMmu

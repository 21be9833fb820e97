CONSTANTS
  Values = {0, 1}
  Unsupported = {"SYSCALL_MASK", "MISC_FEATURES_ENABLES"}
  Xcr0s = {0, 1, 2}
  HostXcr0 = 1
SPECIFICATION Spec
INVARIANTS HostMsrsRestored GuestMsrsKept HostXcr0Restored

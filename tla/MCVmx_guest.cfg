SPECIFICATION FairSpec
CONSTANTS
  Host = Host
  Images <- MCImages
  GuestEntry <- MCGuestEntry
  GuestPageDir <- MCGuestPageDir
  Caps <- MCCaps
  Failures = {"cpuid", "bios", "vmxon", "mcheck"}
  MaxNmi = 3
CHECK_DEADLOCK FALSE
INVARIANTS
  LaunchedAgrees
  FinishedMeansRan
PROPERTIES
  NativeSpec
  VirtEnableReturns
  ExitsHandled

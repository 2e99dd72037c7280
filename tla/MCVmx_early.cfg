SPECIFICATION Spec
CONSTANTS
  Host = Host
  Images <- MCImages
  GuestEntry <- MCGuestEntry
  GuestPageDir <- MCGuestPageDir
  Caps <- MCCaps
  Failures = {"area"}
  MaxNmi = 0
CHECK_DEADLOCK FALSE
INVARIANTS
  LaunchedAgrees

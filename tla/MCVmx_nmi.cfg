SPECIFICATION FairSpec
CONSTANTS
  Host = Host
  Images <- MCImages
  GuestEntry <- MCGuestEntry
  GuestPageDir <- MCGuestPageDir
  Caps <- MCCaps
  Failures = {}
  MaxNmi = 1
CHECK_DEADLOCK FALSE
PROPERTIES
  EveryExitHandled

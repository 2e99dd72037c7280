SPECIFICATION Spec
CONSTANTS
  Host = Host
  Images <- MCImages
  GuestEntry <- MCGuestEntry
  GuestPageDir <- MCGuestPageDir
  Caps <- MCCaps
  Failures = {"cpuid", "bios", "vmxon", "vmclear", "area", "mcheck"}
  MaxNmi = 2
CHECK_DEADLOCK FALSE
INVARIANTS
  TypeOK
  GprIsolation
  NoHostFault
  RipOnBoundary
  
  GuestCr3Trapped
  HypercallDelivered
PROPERTIES
  WriteNeedsRepair

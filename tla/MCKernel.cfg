SPECIFICATION Spec
CONSTANTS
  Byte = 4
  KernelSector = 27
  KernelCount = 6
  MaxRetries = 2
  MaxRegions = 2
  AfterVirt <- MCAfterVirt
  Address <- MCAddress
  Text <- MCText
  IrqLines <- MCIrqLines
  COLS = 2
  ROWS = 2
  VgaCells = 7
INVARIANTS
  TypeOK
  KernelWhole
  KernelNeverFaults
  OneBusyTask
  LineWhole
  WritesInVga
PROPERTIES
  SerialWhole
  KernelEntered
  TasksAlternate
  LockReleased

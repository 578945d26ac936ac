CONSTANTS
  l1 = l1
  l2 = l2
  Launchers = {l1, l2}
  NoAsk = NoAsk
  NoSlice = NoSlice
  WordMax = 9
  Megabyte = 2
  ReserveFloor = 3
  ReserveCap = 3
  PinFloor = 1
  Rams = {1, 7}
  Loads = {0, 4}
  Asks = {0, 1, 2, 5}
SPECIFICATION Spec
INVARIANTS
  TypeOK
  VerdictIsExact
  RefusedForCause
  NoOvershoot
  HalvesOfOnePartition
SYMMETRY Symmetry

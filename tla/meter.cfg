CONSTANTS
  Shell = Shell
  Pipewire = Pipewire
  Compositor = Compositor
  Audio = Audio
  NoClass = NoClass
  Unknown = Unknown
  r = r
  Paths = {Shell, Pipewire}
  Classes = {Compositor, Audio}
  Class <- ClassOf
  Cap = 1
  RefreshEvery = 2
  MaxCount = 2
  Readers = {}
SPECIFICATION Spec
INVARIANTS
  TypeOK
  NeverOverstates
  MeterIsExact
  WorstIsNamed

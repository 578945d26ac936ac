CONSTANTS
  Shell = Shell
  Pipewire = Pipewire
  Compositor = Compositor
  Audio = Audio
  NoClass = NoClass
  Unknown = Unknown
  Paths = {Shell}
  Classes = {Compositor, Audio}
  Class <- ClassOf
  Cap = 2
  RefreshEvery = 2
  MaxCount = 2
  Readers = {r}
  r = r
SPECIFICATION Spec
INVARIANTS
  ReplyIsConsistent

CONSTANTS
  Browser = Browser
  Editor = Editor
  Pane = Pane
  Agent = Agent
  Compositor = Compositor
  BrowserWin = BrowserWin
  EditorWin = EditorWin
  PaneWin = PaneWin
  h1 = h1
  h2 = h2
  loop = loop
  NoScope = NoScope
  NoWindow = NoWindow
  Scopes = {Browser, Editor, Pane, Agent}
  Spine = {}
  Above <- NoNesting
  Windows = {BrowserWin, EditorWin, PaneWin}
  WindowScope <- ScopeOf
  WindowKin <- NoKin
  Typists = {Pane, Agent}
  Handlers = {h1, h2}
  MaxLive = 1
  TouchTTL = 1
  Apps = {Browser, Editor, Pane}
  Heavy = {}
  Terminals = {}
  Mortal = {}
  Services = {}
  Commanded = {}
  Loop = loop
SYMMETRY Alike
SPECIFICATION HistorySpec
INVARIANTS
  TypeOK
  DroppedIsReleased
  FocusIsFavoured
  OneInFront

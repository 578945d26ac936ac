CONSTANTS
  Browser = Browser
  Editor = Editor
  Pane = Pane
  Agent = Agent
  Compositor = Compositor
  BrowserWin = BrowserWin
  EditorWin = EditorWin
  PaneWin = PaneWin
  h1 = h1
  h2 = h2
  loop = loop
  NoScope = NoScope
  NoWindow = NoWindow
  Scopes = {Browser, Pane, Compositor}
  Spine = {Compositor}
  Above <- NoNesting
  Windows = {BrowserWin, PaneWin}
  WindowScope <- ScopeOf
  WindowKin <- NoKin
  Typists = {}
  Handlers = {h1}
  MaxLive = 1
  TouchTTL = 1
  Apps = {Browser, Pane}
  Heavy = {}
  Terminals = {}
  Mortal = {}
  Services = {Compositor}
  Commanded = {Pane}
  Loop = loop
SPECIFICATION HistorySpec
INVARIANT HandChoiceStands

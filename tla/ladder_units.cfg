CONSTANTS
  Browser = Browser
  Terminal = Terminal
  Pane = Pane
  Compositor = Compositor
  Helper = Helper
  BrowserWin = BrowserWin
  TerminalWin = TerminalWin
  ShellWin = ShellWin
  HelperWin = HelperWin
  h1 = h1
  h2 = h2
  NoScope = NoScope
  NoWindow = NoWindow
  Scopes <- NestedPair
  Spine = {}
  Above <- HelperInBrowser
  Windows = {}
  WindowScope <- ScopeOf
  WindowKin <- NoKin
  Typists = {Browser, Helper}
  Handlers = {h1}
  MaxLive = 1
  TouchTTL = 1
  Size <- Sizes
  FreezeFloor = 1
  KillFloor = 1
  WarnFloor = 1
  Precious = {Helper}
  Servers = {Browser}
  Terminals = {}
  Services = {Browser}
  Mortal = {Helper}
  Commanded = {Browser, Helper}
  Busyness = {0}
  Unmeasured = 9
  MaxFrozen = 2
  MaxKilled = 1
  WarnCount = 1
  Settle = 1
  RecoverAfter = 1
  Stubborn = {Browser, Helper}
  Panes = {Helper}
  TmuxWindows = {}
SPECIFICATION Spec
INVARIANTS
  TypeOK
  HogIsTracked
  PausedIsTracked
PROPERTIES
  KeepsPausingPromise

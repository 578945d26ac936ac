CONSTANTS
  Browser = Browser
  Terminal = Terminal
  Pane = Pane
  Compositor = Compositor
  Helper = Helper
  BrowserWin = BrowserWin
  TerminalWin = TerminalWin
  ShellWin = ShellWin
  HelperWin = HelperWin
  h1 = h1
  h2 = h2
  NoScope = NoScope
  NoWindow = NoWindow
  Scopes <- NoCompositor
  Spine = {}
  Above <- NoNesting
  Windows <- PlainWindows
  WindowScope <- ScopeOf
  WindowKin <- NoKin
  Typists = {}
  Handlers = {h1}
  MaxLive = 1
  TouchTTL = 1
  Size <- Sizes
  FreezeFloor = 1
  KillFloor = 1
  WarnFloor = 1
  Precious = {Pane}
  Servers = {Browser}
  Terminals = {Terminal, Pane}
  Services = {}
  Mortal = {}
  Commanded = {}
  Busyness = {0, 1}
  Unmeasured = 9
  MaxFrozen = 2
  MaxKilled = 1
  WarnCount = 1
  Settle = 1
  RecoverAfter = 1
  Stubborn = {}
  Panes = {Pane}
  TmuxWindows = {TerminalWin}
SPECIFICATION HistoryCrashSpec
PROPERTY WakesEverything

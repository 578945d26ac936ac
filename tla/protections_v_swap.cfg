CONSTANTS
  Root = Root
  Compositor = Compositor
  Terminal = Terminal
  Editor = Editor
  loop = loop
  h1 = h1
  h2 = h2
  Nobody = Nobody
  Keeper = loop
  Cgroups <- AppTree
  Leaves = {Terminal, Editor}
  Up <- Paths
  Values = {1, 2}
  Threads = {loop, h1}
  Kept = {}
  Mortal = {}
  Returning = {}
SPECIFICATION HistorySpec
INVARIANT SwapReopens

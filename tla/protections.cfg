CONSTANTS
  Root = Root
  Compositor = Compositor
  Terminal = Terminal
  Editor = Editor
  loop = loop
  h1 = h1
  h2 = h2
  Nobody = Nobody
  Keeper = loop
  Cgroups <- SharedTree
  Leaves = {Compositor, Terminal}
  Up <- Paths
  Values = {1, 2}
  Threads = {loop, h1}
  Kept = {Compositor}
  Mortal = {Terminal}
  Returning = {Terminal}
SPECIFICATION HistoryFairSpec
INVARIANTS
  TypeOK
  ResidueIsTracked
  ParentsCover
  LoneCallRestores
  AvoidMatchesRegistry
PROPERTIES
  StaleIsRepaired

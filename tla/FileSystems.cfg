SPECIFICATION SystemSpec
CONSTANTS
  Proc = {p1, p2, p3}
  p3 = p3
  Data = {b1, b2}
  Zero = Zero
  NICFREE = 2
  Garbage = {g}
  t1 = t1
  t2 = t2
  t3 = t3
  Task = {t1, t2, t3}
  NoTask = NoTask
  NoNode = NoNode
  Node <- Nodes
  Tree <- Files
  NMOUNT = 3
  Worlds <- AllWorlds
INVARIANTS OnePlace CleanMeansSaved CountsHolders MountsAgree
PROPERTIES ImplementsPool EverySleeperWakes StaysOnPath

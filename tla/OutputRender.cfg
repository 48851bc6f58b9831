CONSTANTS
  Outputs = {o1, o2}
  Moded = {o2}
  Filtered = {o1}
  Main = Main
  NoThread = NoThread
SPECIFICATION FairSpec
INVARIANTS PaintExclusive NoLockNeeded
PROPERTIES RepaintPainted TakingEnds

CONSTANTS
  Outputs = {o1, o2}
  Moded = {o1}
  Filtered = {}
  Main = Main
  NoThread = NoThread
SPECIFICATION Spec
INVARIANT NoOverlap

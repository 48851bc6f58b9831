CONSTANTS
  toplevel = toplevel
  layer = layer
  other = other
  p1 = p1
  p2 = p2
  p3 = p3
  None = None
  Windows <- MCWindows
  Own <- MCOwn
  LayerSurfaces <- MCLayerSurfaces
  Popups <- MCPopups
SYMMETRY Symmetry
SPECIFICATION Spec
INVARIANTS GrabHasFocus MappedOnMapped GrabIsShown

CONSTANTS
  panel = panel
  dock = dock
  None = None
  Layers <- MCLayers
  o1 = o1
  Outputs <- MCOutputs
  Values <- MCValues
  Sizes <- MCSizes
  Asked <- MCAsked
SPECIFICATION LayerShellSpec
INVARIANTS ZonesArranged AtomsAgree MappedOnOutput
PROPERTIES RectIsSent

CONSTANTS
  Toplevels = {t1, t2}
  None = None
  Busy = {t1}
  Hasty = {t1}
  Widths = {1}
  OutputWidth = 1
  Geometries = {2}
  SurfaceWidths = {1}
  MaxSerial = 4
SPECIFICATION Spec
INVARIANTS SlotsAgree SerialTellsPending DeactivationComing ResizeSessionsEnd
PROPERTIES ImplementsProtocol

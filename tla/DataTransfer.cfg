CONSTANTS
  c1 = c1
  c2 = c2
  s1 = s1
  s2 = s2
  text = text
  raw = raw
  None = None
  Clients <- MCClients
  Sources <- MCSources
  Mimes <- MCMimes
  Owner <- MCOwner
  Types <- MCTypes
  Leaving <- MCLeaving
  Persistent <- MCPersistent
SPECIFICATION Spec
INVARIANTS OneSelection DragTarget AnsweredAfterDrag
PROPERTIES ClipboardKept

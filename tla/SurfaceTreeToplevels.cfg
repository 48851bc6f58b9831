CONSTANTS
  Surfaces = {s1, s2, s3}
  None = None
  Requests = {"get_toplevel", "set_parent", "reparent", "attach_null", "close", "bad_buffer", "disconnect"}
SPECIFICATION Spec
SYMMETRY Symmetric
INVARIANTS TypeOK LinksValid
CHECK_DEADLOCK FALSE

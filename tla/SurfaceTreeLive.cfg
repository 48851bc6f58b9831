CONSTANTS
  Surfaces = {s1, s2, s3}
  None = None
  Requests = {"get_toplevel", "attach_null"}
SPECIFICATION FairSpec
PROPERTY RequestsTerminate

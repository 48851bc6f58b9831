CONSTANTS
  Surfaces = {s1, s2, s3}
  None = None
  Requests = {"get_toplevel", "destroy_role", "set_desync"}
SPECIFICATION Spec
SYMMETRY Symmetric
INVARIANTS PendingChildrenExact MappedSubsurfaces MappedHasRole CachesFlushedWithParent
PROPERTY SyncedContentWithParent

---------------------------- MODULE MCSurfaceTree ----------------------------
(* SurfaceTree with the sets the runs use.                                  *)
EXTENDS SurfaceTree, TLC

Symmetric == Permutations(Surfaces)
=============================================================================

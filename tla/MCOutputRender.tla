--------------------------- MODULE MCOutputRender ---------------------------
(* OutputRender with the sets the runs use.                                 *)
EXTENDS OutputRender
=============================================================================

------------------------ MODULE MCToplevelConfigure ------------------------
(* ToplevelConfigure with the sets the runs use.                            *)
EXTENDS ToplevelConfigure
=============================================================================

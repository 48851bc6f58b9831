------------------------------- MODULE MCPopups -------------------------------
(* Three popups of a client with a toplevel and a layer surface, next to the      *)
(* window of another client.                                                      *)
EXTENDS Popups, TLC

CONSTANTS toplevel, layer, other, p1, p2, p3

MCWindows == {toplevel, layer, other}
MCOwn == {toplevel, layer}
MCLayerSurfaces == {layer}
MCPopups == {p1, p2, p3}
Symmetry == Permutations(MCPopups)
=============================================================================

----------------------------- MODULE MCLayerShell -----------------------------
(* A panel in a corner of the output it asks for, and a dock at the bottom of the *)
(* output of the cursor, which may take the keyboard.                             *)
EXTENDS LayerShell, TLC

CONSTANTS panel, dock, o1

MCLayers == {panel, dock}
MCOutputs == {o1}
MCAsked == panel :> {o1} @@ dock :> {None}
MCValues ==
  panel :> {[anchor |-> {"top", "left"}, zone |-> 2, edge |-> "left"], [edge |-> None]}
  @@ dock :> {[anchor |-> {"left", "bottom", "right"}, zone |-> 1, keyboard |-> "none", size |-> None],
              [keyboard |-> "exclusive", zone |-> -1]}
MCSizes == {<<4, 4>>, <<6, 4>>}
=============================================================================

---------------------------- MODULE MCDataTransfer ----------------------------
(* DataTransfer with two clients that own one source each.                     *)
EXTENDS DataTransfer, TLC

CONSTANTS c1, c2, s1, s2, text, raw

MCClients == {c1, c2}
MCSources == {s1, s2}
MCOwner == (s1 :> c1) @@ (s2 :> c2)
MCTypes == (s1 :> {text, raw}) @@ (s2 :> {text})
MCMimes == {text, raw}
MCLeaving == {c2}
MCPersistent == {text}
=============================================================================

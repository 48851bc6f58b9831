---------------------------- MODULE MCInputDevices ----------------------------
(* InputDevices with two clients that have a surface each, two wl_pointers of one *)
(* and one of the other, two constraints and two fingers.                         *)
EXTENDS InputDevices, TLC

CONSTANTS a, b, s1, t1, p1, p2, q1, k1, k2, f1, f2

MCSurfaces == {s1, t1}
MCClients == {a, b}
MCOwner == (s1 :> a) @@ (t1 :> b)
MCPointers == {p1, p2, q1}
MCPointerClient == (p1 :> a) @@ (p2 :> a) @@ (q1 :> b)
MCSwipes == {p1, q1}
MCConstraints == {k1, k2}
MCRequester == [k \in {k1, k2} |-> a]
MCFingers == {f1, f2}
MCSymmetry == Permutations({k1, k2}) \cup Permutations({f1, f2})

Touched == fingers # {} \/ \E f \in Fingers : points[f].exists
Pointed == ptr.focus # None \/ device.left \/ device.dnd \/ pointers # Pointers
ConstraintsUsed == \E k \in Constraints : ptr.constraint[k].exists

(* Bound: the pointer, with all wl_pointers and gestures, or without the second     *)
(* wl_pointer and gestures but with constraints; or the fingers, which share only   *)
(* the surfaces and the lock with it (no handler of one reads the other's state).   *)
OneUse ==
  /\ Touched => ~Pointed /\ ~ConstraintsUsed
  /\ ConstraintsUsed => p2 \notin pointers /\ orphans = {} /\ ~ptr.pending
=============================================================================

----------------------------- MODULE InputSurfaces -----------------------------
(* What the pointer and the touch screen share: the surfaces of the clients and   *)
(* the session lock, which decides whose surfaces get input.                      *)
(*                                                                                *)
(* Abstraction: where the cursor or a finger is, and so which of the shown        *)
(* surfaces is found there, is any of them; a surface that is unmapped and one    *)
(* that is minimized are both hidden.                                             *)

CONSTANTS Surfaces, Clients,
          Owner,       \* Owner[s]: the client of surface s
          None

ASSUME InputAssumption ==
  /\ Owner \in [Surfaces -> Clients]
  /\ None \notin Surfaces \cup Clients

VARIABLES surfaces,   \* the state of each surface
          lock,       \* the client of the session lock, None without a lock
          overtaken   \* clients whose lock another one's took the session from

sessionLock == <<lock, overtaken>>
inputSurfaces == <<surfaces, sessionLock>>

Alive == {s \in Surfaces : surfaces[s] # "none"}

InputSurfacesTypeOK ==
  /\ surfaces \in [Surfaces -> {"none", "hidden", "shown"}]
  /\ lock \in Clients \cup {None, "dead"} /\ overtaken \subseteq Clients

InputSurfacesInit ==
  /\ surfaces = [s \in Surfaces |-> "hidden"]
  /\ lock = None /\ overtaken = {}

(* The surfaces that LPointer::surfaceAt() can return. *)
SurfaceAt == {s \in Surfaces : surfaces[s] = "shown"} \cup {None}

\* Mutant: only the client of the lock is asked for, not whether it lives.
AllowedOnDeadLock(s) == lock \in {None, "dead", Owner[s]}

(* The guard of the default handlers: a locked session gives input to its client only. *)
Allowed(s) == lock \in {None, Owner[s]}

=============================================================================

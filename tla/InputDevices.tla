------------------------------ MODULE InputDevices ------------------------------
(* The pointer and the touch screen of the seat over the surfaces of the clients,  *)
(* which are created, shown, hidden and destroyed, and the session lock, which     *)
(* takes the input from whoever has it.                                            *)
EXTENDS Pointer, Touch

vars == <<inputSurfaces, pointerVars, touchVars>>

TypeOK == InputSurfacesTypeOK /\ PointerTypeOK /\ TouchTypeOK

Init == InputSurfacesInit /\ PointerInit /\ TouchInit

-----------------------------------------------------------------------------

CreateSurface(s) ==
  /\ surfaces[s] = "none"
  /\ surfaces' = [surfaces EXCEPT ![s] = "hidden"]
  /\ UNCHANGED <<sessionLock, pointerVars, touchVars>>

(* The surface is mapped, or no longer minimized. *)
Show(s) ==
  /\ surfaces[s] = "hidden"
  /\ surfaces' = [surfaces EXCEPT ![s] = "shown"]
  /\ UNCHANGED <<sessionLock, pointerVars, touchVars>>

(* setMapped(false): the pointer and the fingers stay where they are. *)
Unmap(s) ==
  /\ surfaces[s] = "shown"
  /\ surfaces' = [surfaces EXCEPT ![s] = "hidden"]
  /\ UNCHANGED <<sessionLock, pointerVars, touchVars>>

(* setMinimizedRequest() *)
Minimize(s) ==
  /\ surfaces[s] = "shown"
  /\ surfaces' = [surfaces EXCEPT ![s] = "hidden"]
  /\ ptr' = IF ptr.focus = s THEN SetFocus(ptr, None) ELSE ptr
  /\ UNCHANGED <<sessionLock, seatPointers, device, touchVars>>

DestroySurface(s) ==
  /\ surfaces[s] # "none"
  /\ surfaces' = [surfaces EXCEPT ![s] = "none"]
  /\ ptr' = Without(ptr, {s})
  /\ TouchWithout({s})
  /\ UNCHANGED <<sessionLock, seatPointers, device>>

(* The client goes, by itself or with an error; a lock of it stays, without client. *)
Disconnect(c) ==
  LET ss == {s \in Surfaces : Owner[s] = c}
      rs == {r \in Pointers : PointerClient[r] = c}
      rest == Released(Without(ptr, ss), rs)
  IN /\ surfaces' = [s \in Surfaces |-> IF s \in ss THEN "none" ELSE surfaces[s]]
     /\ pointers' = pointers \ rs /\ orphans' = orphans \ rs
     /\ ptr' = [rest EXCEPT !.constraint =
                  [k \in Constraints |-> IF Requester[k] = c THEN NoConstraint ELSE @[k]]]
     /\ lock' = IF lock = c THEN "dead" ELSE lock
     /\ overtaken' = overtaken \ {c}
     /\ TouchWithout(ss)
     /\ UNCHANGED device

(* stateChanged() with Locked: the drag and the touches are cancelled, and the lock
   surface s of the output with the cursor gets the pointer.  The timer that grants
   the lock does not look at the state, so another client may hold the session; an
   output for which c has no lock surface then still has the one of that client. *)
LockSession(c, s) ==
  /\ overtaken' = overtaken \cup ({lock} \cap (Clients \ {c}))
  /\ s \in Alive \cup {None}
  /\ s # None => Owner[s] \in {c} \cup overtaken'
  /\ lock' = c
  /\ device' = [device EXCEPT !.dnd = FALSE]
  /\ ptr' = SetFocus([ptr EXCEPT !.dragging = None], s)
  /\ CancelTouches
  /\ UNCHANGED <<surfaces, seatPointers, fingers>>

(* unlock_and_destroy() of the client of the lock, or forceUnlock() *)
UnlockSession ==
  /\ lock # None
  /\ lock' = None
  /\ UNCHANGED <<surfaces, overtaken, pointerVars, touchVars>>

PointerNext ==
  \/ \E r \in Pointers : \/ GetPointer(r) /\ UNCHANGED touchVars
                         \/ ReleasePointer(r) /\ UNCHANGED touchVars
  \/ \E c \in Clients, rs \in SUBSET Pointers : ReleaseSeat(c, rs) /\ UNCHANGED touchVars
  \/ \E k \in Constraints :
       \/ \E s \in Surfaces, oneshot \in BOOLEAN :
            Constrain(k, s, oneshot) /\ UNCHANGED touchVars
       \/ DestroyConstraint(k) /\ UNCHANGED touchVars
  \/ StartDrag /\ UNCHANGED touchVars
  \/ CancelDrag /\ UNCHANGED touchVars
  \/ \E s \in SurfaceAt :
       \/ OtherButton(s) /\ UNCHANGED touchVars
       \/ Press(s) /\ UNCHANGED touchVars
       \/ \E inside \in BOOLEAN : \/ Move(s, inside) /\ UNCHANGED touchVars
                                  \/ Release(s, inside) /\ UNCHANGED touchVars
  \/ SwipeBegin /\ UNCHANGED touchVars
  \/ SwipeEnd /\ UNCHANGED touchVars

TouchNext ==
  \/ \E f \in Fingers : \/ \E s \in SurfaceAt :
                             TouchDown(f, s) /\ UNCHANGED pointerVars
                        \/ TouchDownNowhere(f) /\ UNCHANGED pointerVars
                        \/ TouchUp(f) /\ UNCHANGED pointerVars
  \/ TouchFrame /\ UNCHANGED pointerVars
  \/ TouchCancel /\ UNCHANGED pointerVars

Next ==
  \/ \E s \in Surfaces : \/ CreateSurface(s)
                         \/ Show(s)
                         \/ Unmap(s)
                         \/ Minimize(s)
                         \/ DestroySurface(s)
  \/ \E c \in Clients : \/ Disconnect(c)
                        \/ \E s \in Surfaces \cup {None} : LockSession(c, s)
  \/ UnlockSession
  \/ PointerNext
  \/ TouchNext

Spec == Init /\ [][Next]_vars

-----------------------------------------------------------------------------

(* While the session is locked, pointer and fingers are on surfaces of the client
   of the lock only, on none when it is gone (the guards of pointerMoveEvent,
   pointerButtonEvent and touchDownEvent; stateChanged); the pointer may also have
   been given to a lock surface of a client whose lock was overtaken. *)
InputOfLock ==
  lock # None => /\ ptr.focus # None => Owner[ptr.focus] \in {lock} \cup overtaken
                 /\ \A f \in Fingers : points[f].surface # None => Owner[points[f].surface] = lock
=============================================================================

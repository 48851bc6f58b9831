-------------------------------- MODULE Pointer --------------------------------
(* The pointer (LPointer): its focus, the surface that the left button holds, the *)
(* gesture in progress and the constraints (RLockedPointer, RConfinedPointer) of  *)
(* the surfaces, with what the clients were told of each.                         *)
(*                                                                                *)
(* Abstractions: of the three kinds of gesture, whose code is the same, only the  *)
(* swipe is here, and a pointer resource has at most one object for it; locking   *)
(* and confining change the same state; move and resize sessions are left out.    *)
EXTENDS InputSurfaces, Naturals

CONSTANTS Pointers,       \* the names of RPointer resources
          PointerClient,  \* PointerClient[r]: the client of r
          Swipes,         \* the pointers with a gesture object
          Constraints,    \* the names of constraint resources
          Requester       \* Requester[k]: the client of k

ASSUME PointerAssumption ==
  /\ PointerClient \in [Pointers -> Clients]
  /\ Swipes \subseteq Pointers
  /\ Requester \in [Constraints -> Clients]
  /\ None \notin Pointers

VARIABLES pointers,   \* the pointer resources of a wl_seat
          orphans,    \* those that outlive their wl_seat
          ptr,        \* the focus, and what follows it
          device      \* the left button and the drag that it started

seatPointers == <<pointers, orphans>>
pointerVars == <<seatPointers, ptr, device>>

(* A constraint applies to surface, None once it is defunct; active: the client was
   told that it is locked or confined; times: how often, of a oneshot one. *)
NoConstraint == [exists |-> FALSE, surface |-> None, oneshot |-> FALSE, active |-> FALSE, times |-> 0]

(* pending: PendingSwipeEndEvent; entered and swiping: the surface that each pointer
   was told it entered and has not left, and that its gesture began on. *)
PointerTypeOK ==
  LET some == Alive \cup {None} IN
  /\ pointers \subseteq Pointers /\ orphans \subseteq Pointers \ pointers
  /\ ptr \in [focus : some, dragging : some, pending : BOOLEAN,
              entered : [Pointers -> some], swiping : [Pointers -> some],
              constraint : [Constraints -> [exists : BOOLEAN, surface : some,
                                            oneshot : BOOLEAN, active : BOOLEAN, times : 0..2]]]
  /\ device \in [left : BOOLEAN, dnd : BOOLEAN]

PointerInit ==
  /\ pointers = Pointers /\ orphans = {}
  /\ ptr = [focus |-> None, dragging |-> None, pending |-> FALSE,
            entered |-> [r \in Pointers |-> None], swiping |-> [r \in Pointers |-> None],
            constraint |-> [k \in Constraints |-> NoConstraint]]
  /\ device = [left |-> FALSE, dnd |-> FALSE]

-----------------------------------------------------------------------------
(* Steps of the handlers: each maps the state of the pointer to the next one. *)

(* The pointer resources found through the seats of the client of surface s. *)
PointersOf(s) == {r \in pointers : PointerClient[r] = Owner[s]}

Tell(told, rs, s) == [r \in Pointers |-> IF r \in rs THEN s ELSE told[r]]

Constrained(p) == \E k \in Constraints :
  p.focus # None /\ p.constraint[k].surface = p.focus /\ p.constraint[k].active

(* LSurface::enablePointerConstraint(true) on the focus *)
Activate(p) ==
  [p EXCEPT !.constraint = [k \in Constraints |->
     LET c == p.constraint[k] IN
     IF p.focus # None /\ c.surface = p.focus /\ ~c.active
     THEN [c EXCEPT !.active = TRUE, !.times = IF c.oneshot /\ @ < 2 THEN @ + 1 ELSE @] ELSE c]]

(* LSurface::enablePointerConstraint(false) on the focus: a oneshot constraint that
   was active is defunct. *)
Deactivate(p) ==
  [p EXCEPT !.constraint = [k \in Constraints |->
     LET c == p.constraint[k] IN
     IF c.surface # p.focus \/ ~c.active THEN c
     ELSE [c EXCEPT !.active = FALSE, !.surface = IF c.oneshot THEN None ELSE @]]]

(* sendSwipeEndEvent() *)
EndSwipe(p) ==
  IF p.focus = None \/ ~p.pending THEN p
  ELSE [p EXCEPT !.pending = FALSE, !.swiping = Tell(@, PointersOf(p.focus), None)]

\* Mutant: the constraint of the surface is left as it is.
LeaveConstrained(p) ==
  IF p.focus = None THEN p
  ELSE [p EXCEPT !.entered = Tell(@, PointersOf(p.focus), None), !.focus = None]

(* sendLeaveEvent() of the focus, which is then reset. *)
Leave(p) ==
  IF p.focus = None THEN p
  ELSE [Deactivate(p) EXCEPT !.entered = Tell(@, PointersOf(p.focus), None), !.focus = None]

\* Mutant: the gesture goes on.
SetFocusSwiping(p, s) ==
  IF s = None THEN Leave(p)
  ELSE IF s = p.focus THEN p
  ELSE IF PointersOf(s) = {} THEN Leave(p)
  ELSE [Leave(p) EXCEPT !.entered = Tell(@, PointersOf(s), s), !.focus = s]

(* LPointer::setFocus(): a surface whose client has no pointer does not get it. *)
SetFocus(p, s) ==
  IF s = None THEN Leave(EndSwipe(p))
  ELSE IF s = p.focus THEN p
  ELSE IF PointersOf(s) = {} THEN Leave(EndSwipe(p))
  ELSE [Leave(EndSwipe(p)) EXCEPT !.entered = Tell(@, PointersOf(s), s), !.focus = s]

(* The weak references to the surfaces ss, which are destroyed: no event is sent,
   and the gesture that began on one of them is still pending. *)
Without(p, ss) ==
  LET rest(x) == IF x \in ss THEN None ELSE x IN
  [p EXCEPT !.focus = rest(@), !.dragging = rest(@),
            !.entered = [r \in Pointers |-> rest(@[r])], !.swiping = [r \in Pointers |-> rest(@[r])],
            !.constraint = [k \in Constraints |-> [p.constraint[k] EXCEPT !.surface = rest(@)]]]

(* Resources rs are released: their gesture objects are told nothing any more. *)
Released(p, rs) == [p EXCEPT !.entered = Tell(@, rs, None), !.swiping = Tell(@, rs, None)]

-----------------------------------------------------------------------------
(* Requests *)

GetPointer(r) ==
  /\ r \notin pointers \cup orphans
  /\ pointers' = pointers \cup {r}
  /\ UNCHANGED <<inputSurfaces, orphans, ptr, device>>

ReleasePointer(r) ==
  /\ r \in pointers \cup orphans
  /\ pointers' = pointers \ {r} /\ orphans' = orphans \ {r}
  /\ ptr' = Released(ptr, {r})
  /\ UNCHANGED <<inputSurfaces, device>>

(* Pointers rs are those of a wl_seat of a client, which releases the seat and keeps
   them: no event finds them any more, and they are told nothing of it. *)
ReleaseSeat(c, rs) ==
  /\ rs # {} /\ rs \subseteq {r \in pointers : PointerClient[r] = c}
  /\ pointers' = pointers \ rs /\ orphans' = orphans \cup rs
  /\ UNCHANGED <<inputSurfaces, ptr, device>>

(* lock_pointer() or confine_pointer(); with another constraint on the surface it is
   an error of the client, see Disconnect. *)
Constrain(k, s, oneshot) ==
  /\ ptr.constraint[k] = NoConstraint
  /\ s \in Alive /\ Owner[s] = Requester[k]
  /\ \A j \in Constraints : ptr.constraint[j].surface # s
  /\ ptr' = [ptr EXCEPT !.constraint[k] =
               [NoConstraint EXCEPT !.exists = TRUE, !.surface = s, !.oneshot = oneshot]]
  /\ UNCHANGED <<inputSurfaces, seatPointers, device>>

DestroyConstraint(k) ==
  /\ ptr.constraint[k] # NoConstraint
  /\ ptr' = [ptr EXCEPT !.constraint[k] = NoConstraint]
  /\ UNCHANGED <<inputSurfaces, seatPointers, device>>

(* startDragRequest() of the focus while the left button is pressed *)
StartDrag ==
  /\ ptr.focus # None /\ device.left /\ ~device.dnd
  /\ Allowed(ptr.focus)
  /\ device' = [device EXCEPT !.dnd = TRUE]
  /\ ptr' = [ptr EXCEPT !.dragging = None]
  /\ UNCHANGED <<inputSurfaces, seatPointers>>

(* The drag ends by itself: the source or its client goes. *)
CancelDrag ==
  /\ device.dnd
  /\ device' = [device EXCEPT !.dnd = FALSE]
  /\ UNCHANGED <<inputSurfaces, seatPointers, ptr>>

-----------------------------------------------------------------------------
(* Default handlers *)

\* Mutant: the surface under the cursor gets the focus while another is held.
FocusOverHeld(p, s) ==
  IF s # None /\ ~Allowed(s) THEN p ELSE SetFocus(p, s)

(* The end of pointerMoveEvent() over surface s. *)
FocusUnderCursor(p, s) ==
  IF p.dragging # None THEN p
  ELSE LET target == IF Constrained(p) THEN p.focus ELSE s IN
       IF target # None /\ ~Allowed(target) THEN p ELSE SetFocus(p, target)

(* pointerMoveEvent(): inside, the cursor is in the region of a constraint of the
   focus; while something is dragged nothing has the focus. *)
Move(s, inside) ==
  /\ LET p == IF inside THEN Activate(ptr) ELSE ptr IN
     ptr' = IF device.dnd THEN SetFocus([p EXCEPT !.dragging = None], None)
            ELSE FocusUnderCursor(p, s)
  /\ UNCHANGED <<inputSurfaces, seatPointers, device>>

(* Without a focus pointerButtonEvent() gives it to the surface under the cursor,
   whether a button is pressed or released. *)
FocusForButton(s) ==
  /\ ptr.focus = None
  /\ s # None => Allowed(s)
  /\ ptr' = IF s = None THEN ptr ELSE SetFocus(ptr, s)

Press(s) ==
  /\ ~device.left
  /\ device' = [device EXCEPT !.left = TRUE]
  /\ \/ device.dnd /\ ptr' = [SetFocus(ptr, None) EXCEPT !.dragging = None]
     \/ ~device.dnd /\ FocusForButton(s)
     \/ ~device.dnd /\ ptr.focus # None /\ ptr' = [ptr EXCEPT !.dragging = ptr.focus]
  /\ UNCHANGED <<inputSurfaces, seatPointers>>

(* inside: the cursor is in the input region of the focus *)
Release(s, inside) ==
  /\ device.left
  /\ device' = [left |-> FALSE, dnd |-> FALSE]
  /\ \/ device.dnd /\ ptr' = [SetFocus(ptr, None) EXCEPT !.dragging = None]
     \/ ~device.dnd /\ FocusForButton(s)
     \/ /\ ~device.dnd /\ ptr.focus # None
        /\ LET p == [ptr EXCEPT !.dragging = None] IN
           ptr' = IF inside \/ Constrained(p) THEN p ELSE SetFocus(p, None)
  /\ UNCHANGED <<inputSurfaces, seatPointers>>

OtherButton(s) ==
  /\ \/ device.dnd /\ ptr' = [SetFocus(ptr, None) EXCEPT !.dragging = None]
     \/ ~device.dnd /\ FocusForButton(s)
  /\ UNCHANGED <<inputSurfaces, seatPointers, device>>

(* sendSwipeBeginEvent() *)
SwipeBegin ==
  LET told == PointersOf(ptr.focus) \cap Swipes IN
  /\ ptr.focus # None /\ ~ptr.pending
  /\ told # {}
  /\ ptr' = [ptr EXCEPT !.pending = TRUE, !.swiping = Tell(@, told, ptr.focus)]
  /\ UNCHANGED <<inputSurfaces, seatPointers, device>>

SwipeEnd ==
  /\ ptr.focus # None /\ ptr.pending
  /\ ptr' = EndSwipe(ptr)
  /\ UNCHANGED <<inputSurfaces, seatPointers, device>>

-----------------------------------------------------------------------------

(* A pointer that was told it entered a surface is on the surface that has the
   focus: every surface is left before another is entered, whatever is bound,
   released and destroyed meanwhile (LPointer::setFocus).  It does not hold of the
   pointers whose wl_seat was released, see LeaveIsSent. *)
EnteredIsFocus == \A r \in pointers : ptr.entered[r] # None => ptr.entered[r] = ptr.focus

(* A client that was told its surface has the pointer locked or confined knows when
   the pointer goes elsewhere: the surface of an active constraint has the focus
   (sendLeaveEvent, enablePointerConstraint). *)
ConstrainedIsFocus == \A k \in Constraints :
  ptr.constraint[k].active /\ ptr.constraint[k].surface # None
    => ptr.constraint[k].surface = ptr.focus

(* The pointer has one constraint at most, although each is created, activated and
   destroyed by a request of its own (lock_pointer, confine_pointer). *)
OneActive == \A j, k \in Constraints :
  /\ ptr.constraint[j].surface # None /\ ptr.constraint[j].active
  /\ ptr.constraint[k].surface # None /\ ptr.constraint[k].active
  => j = k

(* A oneshot constraint is activated once, also when the focus leaves its surface
   and returns (RLockedPointer::unlocked, RConfinedPointer::unconfined). *)
OneshotOnce == \A k \in Constraints : ptr.constraint[k].oneshot => ptr.constraint[k].times <= 1

(* The constraints of the pointer: one, of the focus, and a oneshot one is not used
   again. *)
ConstraintsOfFocus == ConstrainedIsFocus /\ OneActive /\ OneshotOnce

(* A gesture that a client was told began on a surface is ended there before the
   pointer is elsewhere, or will be by the event that ends it (setFocus,
   sendSwipeEndEvent), to the pointers that a seat of the client still has. *)
SwipeIsEnded == \A r \in pointers :
  ptr.swiping[r] # None => ptr.pending /\ ptr.swiping[r] = ptr.focus

(* What a client was told of the pointer is of the surface with the focus, as long
   as the client keeps the wl_seat that it was told through. *)
ToldOfFocus == EnteredIsFocus /\ SwipeIsEnded

(* wl_pointer.leave: "The leave notification is sent before the enter notification
   for the new focus."  The events go through the wl_seats that the client has, so
   a wl_pointer whose wl_seat was released is never told that the pointer left. *)
LeaveIsSent == \A r \in pointers \cup orphans :
  ptr.entered[r] # None => ptr.entered[r] = ptr.focus

(* A surface that the left button holds keeps the pointer while it is shown and held,
   over whatever the cursor moves (draggingSurface in pointerMoveEvent). *)
HeldKeepsFocus ==
  [][ \A s \in Surfaces :
        /\ ptr.focus = s /\ ptr.dragging = s /\ ptr'.dragging = s
        /\ surfaces'[s] = "shown"
        => ptr'.focus = s ]_<<inputSurfaces, pointerVars>>
=============================================================================

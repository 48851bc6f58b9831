--------------------------------- MODULE Touch ---------------------------------
(* The touch screen (LTouch, LTouchPoint): the points that fingers make, and the  *)
(* touches that the clients were told of.                                         *)
(*                                                                                *)
(* Abstraction: every client has one touch resource; drags and move sessions by   *)
(* touch are left out.                                                            *)
EXTENDS InputSurfaces

CONSTANT Fingers

VARIABLES fingers,   \* the fingers that touch the screen
          points,    \* the touch point of each finger
          touches    \* the surface on which the client was told of each finger

touchVars == <<fingers, points, touches>>

NoPoint == [exists |-> FALSE, surface |-> None, pressed |-> FALSE]

TouchTypeOK ==
  LET some == Alive \cup {None} IN
  /\ fingers \subseteq Fingers
  /\ points \in [Fingers -> [exists : BOOLEAN, surface : some, pressed : BOOLEAN]]
  /\ touches \in [Fingers -> some]

TouchInit ==
  /\ fingers = {}
  /\ points = [f \in Fingers |-> NoPoint]
  /\ touches = [f \in Fingers |-> None]

(* createOrGetTouchPoint(); a new point counts as pressed. *)
Get(f) == IF points[f].exists THEN points[f] ELSE [NoPoint EXCEPT !.exists = TRUE, !.pressed = TRUE]

(* touchDownEvent() on surface s or on none: a point still on another surface goes up
   there first.  Nothing is done without an output. *)
TouchDown(f, s) ==
  /\ f \notin fingers
  /\ fingers' = fingers \cup {f}
  /\ IF s # None /\ ~Allowed(s)
     THEN points' = [points EXCEPT ![f] = Get(f)] /\ UNCHANGED touches
     ELSE /\ points' = [points EXCEPT ![f] = [exists |-> TRUE, surface |-> s, pressed |-> TRUE]]
          /\ touches' = [touches EXCEPT ![f] = s]
  /\ UNCHANGED inputSurfaces

TouchDownNowhere(f) ==
  /\ f \notin fingers
  /\ fingers' = fingers \cup {f}
  /\ UNCHANGED <<inputSurfaces, points, touches>>

(* touchUpEvent() *)
TouchUp(f) ==
  /\ f \in fingers
  /\ fingers' = fingers \ {f}
  /\ IF points[f].exists
     THEN /\ points' = [points EXCEPT ![f].pressed = FALSE]
          /\ touches' = [touches EXCEPT ![f] = IF points[f].surface = None THEN @ ELSE None]
     ELSE UNCHANGED <<points, touches>>
  /\ UNCHANGED inputSurfaces

(* sendFrameEvent(): the points that are not pressed are deleted. *)
TouchFrame ==
  /\ points' = [f \in Fingers |-> IF points[f].pressed THEN points[f] ELSE NoPoint]
  /\ UNCHANGED <<inputSurfaces, fingers, touches>>

\* Mutant: the points go and nobody is told.
CancelTouchesSilently ==
  /\ points' = [f \in Fingers |-> NoPoint]
  /\ UNCHANGED touches

(* sendCancelEvent(), which also ends the touches of a session that is locked. *)
CancelTouches ==
  /\ points' = [f \in Fingers |-> NoPoint]
  /\ touches' = [f \in Fingers |->
       IF \E g \in Fingers : points[g].surface # None /\ touches[f] # None
                              /\ Owner[points[g].surface] = Owner[touches[f]]
       THEN None ELSE touches[f]]

TouchCancel ==
  /\ CancelTouches
  /\ UNCHANGED <<inputSurfaces, fingers>>

(* The surfaces ss are destroyed. *)
TouchWithout(ss) ==
  /\ points' = [f \in Fingers |-> [points[f] EXCEPT !.surface = IF @ \in ss THEN None ELSE @]]
  /\ touches' = [f \in Fingers |-> IF touches[f] \in ss THEN None ELSE touches[f]]
  /\ UNCHANGED fingers

-----------------------------------------------------------------------------

(* Every touch that a client was told of is of a point that will end it: the finger
   is down on that surface, so that an up, a frame or a cancel of the session lock
   finds it (LTouchPoint::sendDownEvent, sendUpEvent, LTouch::sendCancelEvent). *)
TouchIsEnded == \A f \in Fingers :
  touches[f] # None => f \in fingers /\ points[f].pressed /\ points[f].surface = touches[f]
=============================================================================

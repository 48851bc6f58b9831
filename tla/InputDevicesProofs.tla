--------------------------- MODULE InputDevicesProofs ---------------------------
(* The safety properties of InputDevices, for any surfaces, clients, pointers,     *)
(* constraints and fingers.                                                        *)
EXTENDS InputDevices, TLAPS

(* The types of a constraint and of the state of the pointer, when the surfaces al exist. *)
ConstraintType(al) ==
  [exists : BOOLEAN, surface : al \cup {None}, oneshot : BOOLEAN, active : BOOLEAN, times : 0..2]

PtrType(al) ==
  [focus : al \cup {None}, dragging : al \cup {None}, pending : BOOLEAN,
   entered : [Pointers -> al \cup {None}], swiping : [Pointers -> al \cup {None}],
   constraint : [Constraints -> ConstraintType(al)]]

(* What the pointers rs of the seats were told of is of the focus, which their client
   owns; pointers that do not exist were told nothing. *)
ToldOK(p, rs, os) ==
  \A r \in Pointers \ os :
    /\ p.entered[r] # None => p.entered[r] = p.focus /\ r \in rs /\ PointerClient[r] = Owner[p.focus]
    /\ p.swiping[r] # None => /\ p.swiping[r] = p.focus /\ p.pending
                              /\ r \in rs /\ PointerClient[r] = Owner[p.focus]

(* A surface has one constraint, which is active on the focus only; a oneshot one
   that may still be activated never was. *)
ConstraintsOK(p) ==
  /\ \A k \in Constraints :
       LET c == p.constraint[k] IN
       /\ c.active /\ c.surface # None => c.surface = p.focus
       /\ c.oneshot => c.times <= 1
       /\ c.oneshot /\ ~c.active /\ c.surface # None => c.times = 0
  /\ \A j, k \in Constraints :
       p.constraint[j].surface # None /\ p.constraint[j].surface = p.constraint[k].surface => j = k

PtrOK(p, rs, os, al) == p \in PtrType(al) /\ ToldOK(p, rs, os) /\ ConstraintsOK(p)

(* A point that does not exist is on no surface. *)
PointsOK == \A f \in Fingers : ~points[f].exists => points[f].surface = None

(* The inductive invariant. *)
IInv == TypeOK /\ PtrOK(ptr, pointers, orphans, Alive) /\ PointsOK /\ TouchIsEnded /\ InputOfLock

USE InputAssumption, PointerAssumption DEF sessionLock, seatPointers

-----------------------------------------------------------------------------
(* What the steps of the handlers of the pointer preserve. *)

(* No pointer of a seat was told of a gesture that has not ended. *)
Quiet(p) == \A r \in Pointers \ orphans : p.swiping[r] = None

(* No pointer of a seat was told of anything that has not ended. *)
Idle(p) == \A r \in Pointers \ orphans : p.entered[r] = None /\ p.swiping[r] = None

(* The pending gesture ends for every pointer that was told of it. *)
LEMMA EndSwipeOK ==
  ASSUME NEW al \in SUBSET Surfaces, NEW p, PtrOK(p, pointers, orphans, al)
  PROVE  /\ PtrOK(EndSwipe(p), pointers, orphans, al)
         /\ EndSwipe(p).focus = p.focus /\ EndSwipe(p).dragging = p.dragging
         /\ Quiet(EndSwipe(p))
<1> USE DEF PtrOK, PtrType, Quiet
<1>1. CASE p.focus = None \/ ~p.pending
  BY <1>1 DEF EndSwipe, ToldOK
<1>2. CASE p.focus # None /\ p.pending
  <2> DEFINE q == EndSwipe(p)
  <2>1. q = [p EXCEPT !.pending = FALSE, !.swiping = Tell(p.swiping, PointersOf(p.focus), None)]
    BY <1>2 DEF EndSwipe
  <2>2. /\ q.focus = p.focus /\ q.dragging = p.dragging /\ q.entered = p.entered
        /\ q.constraint = p.constraint
        /\ q.swiping = [r \in Pointers |-> IF r \in PointersOf(p.focus) THEN None ELSE p.swiping[r]]
    BY <2>1 DEF Tell
  <2>3. q \in PtrType(al)
    <3>1. Tell(p.swiping, PointersOf(p.focus), None) \in [Pointers -> al \cup {None}]
      BY DEF Tell
    <3> QED  BY <2>1, <3>1
  <2>4. \A r \in Pointers \ orphans : q.swiping[r] = None
    BY <2>2 DEF ToldOK, PointersOf
  <2>5. ToldOK(q, pointers, orphans) /\ ConstraintsOK(q)
    BY <2>2, <2>4 DEF ToldOK, ConstraintsOK
  <2> QED  BY <2>2, <2>3, <2>4, <2>5
<1> QED  BY <1>1, <1>2

(* After the leave event nothing has the focus, and no constraint is active. *)
LEMMA LeaveOK ==
  ASSUME NEW al \in SUBSET Surfaces, NEW p, PtrOK(p, pointers, orphans, al), Quiet(p)
  PROVE  /\ PtrOK(Leave(p), pointers, orphans, al)
         /\ Leave(p).focus = None /\ Leave(p).dragging = p.dragging
         /\ Idle(Leave(p))
         /\ \A k \in Constraints :
              Leave(p).constraint[k].active => Leave(p).constraint[k].surface = None
<1> USE DEF PtrOK, PtrType, Quiet, Idle
<1>1. CASE p.focus = None
  BY <1>1 DEF Leave, ToldOK, ConstraintsOK
<1>2. CASE p.focus # None
  <2> DEFINE q == Leave(p)
             d == Deactivate(p)
  <2>1. /\ d.focus = p.focus /\ d.dragging = p.dragging /\ d.pending = p.pending
        /\ d.entered = p.entered /\ d.swiping = p.swiping
        /\ d = [p EXCEPT !.constraint = d.constraint]
    BY DEF Deactivate
  <2>2. \A k \in Constraints :
          d.constraint[k] = IF p.constraint[k].surface # p.focus \/ ~p.constraint[k].active
                            THEN p.constraint[k]
                            ELSE [p.constraint[k] EXCEPT !.active = FALSE,
                                    !.surface = IF p.constraint[k].oneshot THEN None ELSE p.constraint[k].surface]
    BY DEF Deactivate
  <2>3. d \in PtrType(al)
    <3>1. \A k \in Constraints : d.constraint[k] \in ConstraintType(al)
      <4> TAKE k \in Constraints
      <4> DEFINE c == p.constraint[k]
      <4>1. c \in ConstraintType(al)
        OBVIOUS
      <4>2. (IF c.oneshot THEN None ELSE c.surface) \in al \cup {None}
        BY <4>1 DEF ConstraintType
      <4>3. d.constraint[k] = c \/ d.constraint[k] =
              [c EXCEPT !.active = FALSE, !.surface = IF c.oneshot THEN None ELSE c.surface]
        BY <2>2
      <4> HIDE DEF c, d, PtrOK, PtrType, Quiet, Idle
      <4> QED  BY <4>1, <4>2, <4>3 DEF ConstraintType
    <3>2. d.constraint = [k \in Constraints |-> d.constraint[k]]
      BY DEF Deactivate
    <3> QED  BY <2>1, <3>1, <3>2
  <2>4. q = [d EXCEPT !.entered = Tell(d.entered, PointersOf(p.focus), None), !.focus = None]
    BY <1>2 DEF Leave
  <2> HIDE DEF d
  <2>5. /\ q.focus = None /\ q.dragging = p.dragging /\ q.pending = p.pending /\ q.swiping = p.swiping
        /\ q.entered = [r \in Pointers |-> IF r \in PointersOf(p.focus) THEN None ELSE p.entered[r]]
        /\ q.constraint = d.constraint /\ q \in PtrType(al)
    <3>1. Tell(d.entered, PointersOf(p.focus), None)
            = [r \in Pointers |-> IF r \in PointersOf(p.focus) THEN None ELSE p.entered[r]]
      BY <2>1 DEF Tell
    <3>2. Tell(d.entered, PointersOf(p.focus), None) \in [Pointers -> al \cup {None}]
      BY <3>1
    <3> QED  BY <2>1, <2>3, <2>4, <3>1, <3>2
  <2> HIDE DEF q
  <2>6. \A r \in Pointers \ orphans : q.entered[r] = None /\ q.swiping[r] = None
    BY <2>5 DEF ToldOK, PointersOf
  <2>7. \A k \in Constraints :
          /\ q.constraint[k].active => q.constraint[k].surface = None
          /\ q.constraint[k].oneshot = p.constraint[k].oneshot
          /\ q.constraint[k].times = p.constraint[k].times
          /\ q.constraint[k].surface # None => q.constraint[k].surface = p.constraint[k].surface
          /\ q.constraint[k].oneshot /\ q.constraint[k].surface # None /\ ~q.constraint[k].active
               => ~p.constraint[k].active
    <3> TAKE k \in Constraints
    <3> DEFINE c == p.constraint[k]
    <3>1. c \in ConstraintType(al)
      OBVIOUS
    <3>2. c.surface # p.focus \/ ~c.active => q.constraint[k] = c
      BY <2>2, <2>5
    <3>3. CASE c.surface = p.focus /\ c.active
      <4> DEFINE e == [c EXCEPT !.active = FALSE, !.surface = IF c.oneshot THEN None ELSE c.surface]
      <4>1. q.constraint[k] = e
        BY <2>2, <2>5, <3>3
      <4>2. /\ e.active = FALSE /\ e.surface = IF c.oneshot THEN None ELSE c.surface
            /\ e.oneshot = c.oneshot /\ e.times = c.times
        <5> HIDE DEF c
        <5> QED  BY <3>1 DEF ConstraintType
      <4> QED  BY <3>3, <4>1, <4>2
    <3> QED  BY <3>2, <3>3 DEF ConstraintsOK
  <2>8. ToldOK(q, pointers, orphans)
    BY <2>6 DEF ToldOK
  <2>9. ConstraintsOK(q)
    BY <2>7 DEF ConstraintsOK
  <2> QED  BY <2>5, <2>6, <2>7, <2>8, <2>9 DEF q
<1> QED  BY <1>1, <1>2

(* A change of focus: everything told is taken back before the enter. *)
LEMMA SetFocusOK ==
  ASSUME NEW al \in SUBSET Surfaces, NEW p, PtrOK(p, pointers, orphans, al), NEW s \in al \cup {None}
  PROVE  /\ PtrOK(SetFocus(p, s), pointers, orphans, al)
         /\ SetFocus(p, s).focus \in {s, None}
         /\ SetFocus(p, s).dragging = p.dragging
<1> DEFINE l == Leave(EndSwipe(p))
<1>1. /\ PtrOK(l, pointers, orphans, al) /\ l.focus = None /\ l.dragging = p.dragging
      /\ Idle(l)
      /\ \A k \in Constraints : l.constraint[k].active => l.constraint[k].surface = None
  <2> DEFINE e == EndSwipe(p)
  <2>1. /\ PtrOK(e, pointers, orphans, al) /\ e.focus = p.focus /\ e.dragging = p.dragging
        /\ Quiet(e)
    BY EndSwipeOK
  <2> HIDE DEF e
  <2>2. /\ PtrOK(Leave(e), pointers, orphans, al)
        /\ Leave(e).focus = None /\ Leave(e).dragging = e.dragging
        /\ Idle(Leave(e))
        /\ \A k \in Constraints :
              Leave(e).constraint[k].active => Leave(e).constraint[k].surface = None
    BY <2>1, LeaveOK
  <2> QED  BY <2>1, <2>2 DEF e
<1> HIDE DEF l
<1>2. CASE s = None \/ PointersOf(s) = {} \/ s = p.focus
  BY <1>1, <1>2 DEF SetFocus, l
<1>3. CASE s # None /\ s # p.focus /\ PointersOf(s) # {}
  <2> DEFINE q == SetFocus(p, s)
  <2>1. q = [l EXCEPT !.entered = Tell(l.entered, PointersOf(s), s), !.focus = s]
    BY <1>3 DEF SetFocus, l
  <2>2. /\ q.focus = s /\ q.dragging = p.dragging /\ q.pending = l.pending /\ q.swiping = l.swiping
        /\ q.constraint = l.constraint
        /\ q.entered = [r \in Pointers |-> IF r \in PointersOf(s) THEN s ELSE l.entered[r]]
        /\ q \in PtrType(al)
    <3>1. /\ Tell(l.entered, PointersOf(s), s)
               = [r \in Pointers |-> IF r \in PointersOf(s) THEN s ELSE l.entered[r]]
          /\ l \in PtrType(al)
      BY <1>1 DEF Tell, PtrOK
    <3>2. Tell(l.entered, PointersOf(s), s) \in [Pointers -> al \cup {None}]
      BY <3>1 DEF PtrType
    <3> QED  BY <1>1, <2>1, <3>1, <3>2 DEF PtrType
  <2> HIDE DEF q
  <2>3. ToldOK(q, pointers, orphans)
    BY <1>1, <2>2 DEF ToldOK, Idle, PointersOf
  <2>4. ConstraintsOK(q)
    BY <1>1, <2>2 DEF ConstraintsOK, PtrOK
  <2> QED  BY <2>2, <2>3, <2>4 DEF q, PtrOK
<1> QED  BY <1>2, <1>3

(* The constraint of the focus is activated, a oneshot one for the first time. *)
LEMMA ActivateOK ==
  ASSUME NEW al \in SUBSET Surfaces, NEW p, PtrOK(p, pointers, orphans, al)
  PROVE  /\ PtrOK(Activate(p), pointers, orphans, al)
         /\ Activate(p).focus = p.focus /\ Activate(p).dragging = p.dragging
<1> USE DEF PtrOK, PtrType
<1> DEFINE q == Activate(p)
<1>1. /\ q.focus = p.focus /\ q.dragging = p.dragging /\ q.pending = p.pending
      /\ q.entered = p.entered /\ q.swiping = p.swiping
  BY DEF Activate
<1>2. \A k \in Constraints :
        q.constraint[k] = IF p.focus # None /\ p.constraint[k].surface = p.focus /\ ~p.constraint[k].active
          THEN [p.constraint[k] EXCEPT !.active = TRUE,
                  !.times = IF p.constraint[k].oneshot /\ p.constraint[k].times < 2
                            THEN p.constraint[k].times + 1 ELSE p.constraint[k].times]
          ELSE p.constraint[k]
  BY DEF Activate
<1>3. q \in PtrType(al)
  <2>1. \A k \in Constraints : p.constraint[k] \in ConstraintType(al)
    OBVIOUS
  <2>2. \A k \in Constraints : q.constraint[k] \in ConstraintType(al)
    <3> TAKE k \in Constraints
    <3> DEFINE c == p.constraint[k]
    <3>1. c \in ConstraintType(al) /\ c.times \in 0..2
      BY <2>1 DEF ConstraintType
    <3>2. (IF c.oneshot /\ c.times < 2 THEN c.times + 1 ELSE c.times) \in 0..2
      BY <3>1
    <3>3. q.constraint[k] = c \/ q.constraint[k] =
            [c EXCEPT !.active = TRUE, !.times = IF c.oneshot /\ c.times < 2 THEN c.times + 1 ELSE c.times]
      BY <1>2
    <3> HIDE DEF c, q
    <3> QED  BY <3>1, <3>2, <3>3 DEF ConstraintType
  <2>3. q = [p EXCEPT !.constraint = q.constraint] /\ q.constraint = [k \in Constraints |-> q.constraint[k]]
    BY DEF Activate
  <2> QED  BY <1>1, <2>2, <2>3
<1> HIDE DEF q
<1>4. ToldOK(q, pointers, orphans)
  BY <1>1 DEF ToldOK
<1>5. \A k \in Constraints :
        /\ q.constraint[k].surface = p.constraint[k].surface
        /\ q.constraint[k].oneshot = p.constraint[k].oneshot
        /\ q.constraint[k].active => p.constraint[k].active \/ p.constraint[k].surface = p.focus
        /\ q.constraint[k].oneshot => q.constraint[k].times <= 1
        /\ ~q.constraint[k].active => q.constraint[k] = p.constraint[k]
  <2> TAKE k \in Constraints
  <2> DEFINE c == p.constraint[k]
             t == IF c.oneshot /\ c.times < 2 THEN c.times + 1 ELSE c.times
  <2>1. c \in ConstraintType(al) /\ c.times \in 0..2 /\ t \in 0..2
    BY DEF ConstraintType
  <2>2. CASE p.focus # None /\ c.surface = p.focus /\ ~c.active
    <3>1. q.constraint[k] = [c EXCEPT !.active = TRUE, !.times = t]
      BY <1>2, <2>2
    <3>2. /\ q.constraint[k].surface = c.surface /\ q.constraint[k].oneshot = c.oneshot
          /\ q.constraint[k].active /\ q.constraint[k].times = t
      <4> HIDE DEF c, t
      <4> QED  BY <2>1, <3>1 DEF ConstraintType
    <3>3. c.oneshot => t <= 1
      BY <2>2 DEF ConstraintsOK
    <3> QED  BY <2>2, <3>2, <3>3
  <2>3. CASE ~(p.focus # None /\ c.surface = p.focus /\ ~c.active)
    BY <1>2, <2>3 DEF ConstraintsOK
  <2> QED  BY <2>2, <2>3
<1>6. ConstraintsOK(q)
  BY <1>1, <1>5 DEF ConstraintsOK
<1> QED  BY <1>1, <1>3, <1>4, <1>6 DEF q

(* Surfaces are destroyed, and with them what referred to them. *)
LEMMA WithoutOK ==
  ASSUME NEW al \in SUBSET Surfaces, NEW ss \in SUBSET Surfaces, NEW p, PtrOK(p, pointers, orphans, al)
  PROVE  /\ PtrOK(Without(p, ss), pointers, orphans, al \ ss)
         /\ Without(p, ss).focus \in {p.focus, None} \ ss
         /\ Without(p, ss).dragging \in {p.dragging, None} \ ss
<1> USE DEF PtrOK, PtrType
<1> DEFINE q == Without(p, ss)
           rest(x) == IF x \in ss THEN None ELSE x
<1>0. q = [p EXCEPT
             !.focus = rest(p.focus), !.dragging = rest(p.dragging),
             !.entered = [r \in Pointers |-> rest(p.entered[r])],
             !.swiping = [r \in Pointers |-> rest(p.swiping[r])],
             !.constraint = [k \in Constraints |->
                               [p.constraint[k] EXCEPT !.surface = rest(p.constraint[k].surface)]]]
  BY DEF Without
<1>1. /\ q.focus = rest(p.focus) /\ q.dragging = rest(p.dragging) /\ q.pending = p.pending
      /\ q.entered = [r \in Pointers |-> rest(p.entered[r])]
      /\ q.swiping = [r \in Pointers |-> rest(p.swiping[r])]
      /\ q.constraint = [k \in Constraints |->
                           [p.constraint[k] EXCEPT !.surface = rest(p.constraint[k].surface)]]
  <2> HIDE DEF q
  <2> QED  BY <1>0
<1>2. \A k \in Constraints :
        q.constraint[k] = [p.constraint[k] EXCEPT !.surface = rest(p.constraint[k].surface)]
  BY <1>1
<1>3. q \in PtrType(al \ ss)
  <2>1. \A k \in Constraints : p.constraint[k] \in ConstraintType(al)
    OBVIOUS
  <2>2. \A k \in Constraints : q.constraint[k] \in ConstraintType(al \ ss)
    <3> TAKE k \in Constraints
    <3>1. rest(p.constraint[k].surface) \in (al \ ss) \cup {None}
      BY <2>1 DEF ConstraintType
    <3>2. p.constraint[k] \in ConstraintType(al)
      BY <2>1
    <3> HIDE DEF rest
    <3> QED  BY <1>2, <3>1, <3>2 DEF ConstraintType
  <2>3. /\ q.focus \in (al \ ss) \cup {None} /\ q.dragging \in (al \ ss) \cup {None} /\ q.pending \in BOOLEAN
        /\ q.entered \in [Pointers -> (al \ ss) \cup {None}]
        /\ q.swiping \in [Pointers -> (al \ ss) \cup {None}]
        /\ q.constraint \in [Constraints -> ConstraintType(al \ ss)]
    BY <1>1, <2>2
  <2>4. q = [focus |-> q.focus, dragging |-> q.dragging, pending |-> q.pending, entered |-> q.entered,
             swiping |-> q.swiping, constraint |-> q.constraint]
    BY <1>0
  <2> HIDE DEF q
  <2> QED  BY <2>3, <2>4
<1> HIDE DEF q
<1>4. ToldOK(q, pointers, orphans)
  BY <1>1 DEF ToldOK
<1>5. \A k \in Constraints :
        /\ q.constraint[k].surface = rest(p.constraint[k].surface)
        /\ q.constraint[k].active = p.constraint[k].active
        /\ q.constraint[k].oneshot = p.constraint[k].oneshot
        /\ q.constraint[k].times = p.constraint[k].times
  <2> TAKE k \in Constraints
  <2> p.constraint[k] \in ConstraintType(al)
    OBVIOUS
  <2> QED  BY <1>2 DEF ConstraintType
<1>6. ConstraintsOK(q)
  BY <1>1, <1>5 DEF ConstraintsOK
<1> QED  BY <1>1, <1>3, <1>4, <1>6 DEF q

(* Pointers are released: they are told nothing any more. *)
LEMMA ReleasedOK ==
  ASSUME NEW al \in SUBSET Surfaces, NEW rs, NEW p, PtrOK(p, pointers, orphans, al)
  PROVE  /\ PtrOK(Released(p, rs), pointers \ rs, orphans \ rs, al)
         /\ Released(p, rs).focus = p.focus /\ Released(p, rs).dragging = p.dragging
<1> USE DEF PtrOK, PtrType
<1> DEFINE q == Released(p, rs)
<1>1. /\ q.focus = p.focus /\ q.dragging = p.dragging /\ q.pending = p.pending
      /\ q.constraint = p.constraint
      /\ \A r \in Pointers :
           /\ q.entered[r] = IF r \in rs THEN None ELSE p.entered[r]
           /\ q.swiping[r] = IF r \in rs THEN None ELSE p.swiping[r]
  BY DEF Released, Tell
<1>2. q \in PtrType(al)
  BY DEF Released, Tell
<1> HIDE DEF q
<1>3. ToldOK(q, pointers \ rs, orphans \ rs) /\ ConstraintsOK(q)
  BY <1>1 DEF ToldOK, ConstraintsOK
<1> QED  BY <1>1, <1>2, <1>3 DEF q

(* The constraints K are destroyed. *)
Cleared(p, K) ==
  [p EXCEPT !.constraint = [k \in Constraints |-> IF k \in K THEN NoConstraint ELSE p.constraint[k]]]

LEMMA ClearedOK ==
  ASSUME NEW al \in SUBSET Surfaces, NEW rs, NEW os, NEW K, NEW p, PtrOK(p, rs, os, al)
  PROVE  /\ PtrOK(Cleared(p, K), rs, os, al)
         /\ Cleared(p, K).focus = p.focus /\ Cleared(p, K).dragging = p.dragging
<1> USE DEF PtrOK, PtrType
<1> DEFINE q == Cleared(p, K)
<1>1. NoConstraint \in ConstraintType(al) /\ NoConstraint.surface = None /\ NoConstraint.oneshot = FALSE
  BY DEF NoConstraint, ConstraintType
<1>2. /\ q.focus = p.focus /\ q.dragging = p.dragging /\ q.pending = p.pending
      /\ q.entered = p.entered /\ q.swiping = p.swiping
      /\ q.constraint = [k \in Constraints |-> IF k \in K THEN NoConstraint ELSE p.constraint[k]]
  BY DEF Cleared
<1>3. q \in PtrType(al)
  <2>1. [k \in Constraints |-> IF k \in K THEN NoConstraint ELSE p.constraint[k]]
          \in [Constraints -> ConstraintType(al)]
    BY <1>1
  <2> QED  BY <2>1 DEF Cleared
<1> HIDE DEF q
<1>4. ToldOK(q, rs, os)
  BY <1>2 DEF ToldOK
<1>5. ConstraintsOK(q)
  BY <1>1, <1>2 DEF ConstraintsOK
<1> QED  BY <1>2, <1>3, <1>4, <1>5 DEF q

(* The surface that is dragged is none of what the invariant speaks of. *)
LEMMA DraggingOK ==
  ASSUME NEW al \in SUBSET Surfaces, NEW rs, NEW os, NEW p, PtrOK(p, rs, os, al), NEW s \in al \cup {None}
  PROVE  /\ PtrOK([p EXCEPT !.dragging = s], rs, os, al)
         /\ [p EXCEPT !.dragging = s].focus = p.focus
         /\ [p EXCEPT !.dragging = s].dragging = s
BY DEF PtrOK, PtrType, ToldOK, ConstraintsOK

-----------------------------------------------------------------------------
(* The invariant holds initially and is kept by every step. *)

LEMMA InitIInv == Init => IInv
<1> SUFFICES ASSUME Init PROVE IInv
  OBVIOUS
<1> USE DEF Init, InputSurfacesInit, PointerInit, TouchInit
<1>1. TypeOK
  BY DEF TypeOK, InputSurfacesTypeOK, PointerTypeOK, TouchTypeOK, NoConstraint, NoPoint
<1>2. PtrOK(ptr, pointers, orphans, Alive)
  BY <1>1 DEF TypeOK, PointerTypeOK, PtrOK, PtrType, ConstraintType, ToldOK, ConstraintsOK, NoConstraint
<1>3. PointsOK /\ TouchIsEnded /\ InputOfLock
  BY DEF PointsOK, TouchIsEnded, InputOfLock, NoPoint
<1> QED  BY <1>1, <1>2, <1>3 DEF IInv

(* A step of the pointer keeps the invariant when what it makes of the pointer does. *)
LEMMA PointerStep ==
  ASSUME IInv, UNCHANGED <<inputSurfaces, touchVars>>,
         pointers' \subseteq Pointers, orphans' \subseteq Pointers \ pointers', device' \in [left : BOOLEAN, dnd : BOOLEAN],
         PtrOK(ptr', pointers', orphans', Alive),
         lock # None /\ ptr'.focus # None => Owner[ptr'.focus] \in {lock} \cup overtaken
  PROVE  IInv'
<1>1. Alive' = Alive
  BY DEF Alive, inputSurfaces
<1>2. PtrOK(ptr, pointers, orphans, Alive)' /\ TypeOK'
  BY <1>1 DEF IInv, TypeOK, InputSurfacesTypeOK, PointerTypeOK, TouchTypeOK, PtrOK, PtrType,
              ConstraintType, inputSurfaces, touchVars
<1>3. PointsOK' /\ TouchIsEnded' /\ InputOfLock'
  BY DEF IInv, PointsOK, TouchIsEnded, InputOfLock, inputSurfaces, touchVars
<1> QED  BY <1>2, <1>3 DEF IInv

(* A step of the touch screen keeps the invariant when it keeps that of the points. *)
LEMMA TouchStep ==
  ASSUME IInv, UNCHANGED <<inputSurfaces, pointerVars>>, TouchTypeOK',
         PointsOK', TouchIsEnded',
         lock # None => \A f \in Fingers : points'[f].surface # None => Owner[points'[f].surface] = lock
  PROVE  IInv'
<1>1. Alive' = Alive
  BY DEF Alive, inputSurfaces
<1>2. PtrOK(ptr, pointers, orphans, Alive)' /\ TypeOK'
  BY <1>1 DEF IInv, TypeOK, InputSurfacesTypeOK, PointerTypeOK, inputSurfaces, pointerVars
<1>3. InputOfLock'
  BY DEF IInv, InputOfLock, inputSurfaces, pointerVars
<1> QED  BY <1>2, <1>3 DEF IInv

(* A surface found under the cursor exists. *)
LEMMA SurfaceAtAlive == SurfaceAt \subseteq Alive \cup {None} /\ Alive \in SUBSET Surfaces
BY DEF SurfaceAt, Alive

(* The requests about pointers and constraints. *)
LEMMA RequestsIInv ==
  ASSUME IInv, UNCHANGED touchVars,
         \/ \E c \in Clients, rs \in SUBSET Pointers : ReleaseSeat(c, rs)
         \/ \E r \in Pointers : GetPointer(r) \/ ReleasePointer(r)
         \/ \E k \in Constraints : \/ \E s \in Surfaces, oneshot \in BOOLEAN : Constrain(k, s, oneshot)
                                   \/ DestroyConstraint(k)
  PROVE  IInv'
<1> USE SurfaceAtAlive
<1>0. /\ PtrOK(ptr, pointers, orphans, Alive) /\ pointers \subseteq Pointers /\ orphans \subseteq Pointers \ pointers
      /\ device \in [left : BOOLEAN, dnd : BOOLEAN]
      /\ lock # None /\ ptr.focus # None => Owner[ptr.focus] \in {lock} \cup overtaken
  BY DEF IInv, TypeOK, PointerTypeOK, InputOfLock
<1>1. ASSUME NEW r \in Pointers, GetPointer(r)  PROVE IInv'
  <2>1. PtrOK(ptr', pointers', orphans', Alive)
    BY <1>0, <1>1 DEF GetPointer, PtrOK, ToldOK
  <2> QED  BY <1>0, <1>1, <2>1, PointerStep DEF GetPointer
<1>2. ASSUME NEW r \in Pointers, ReleasePointer(r)  PROVE IInv'
  <2>1. PtrOK(ptr', pointers', orphans', Alive) /\ ptr'.focus = ptr.focus
    BY <1>0, <1>2, ReleasedOK DEF ReleasePointer
  <2> QED  BY <1>0, <1>2, <2>1, PointerStep DEF ReleasePointer
<1>3. ASSUME NEW k \in Constraints, NEW s \in Surfaces, NEW oneshot \in BOOLEAN, Constrain(k, s, oneshot)
      PROVE  IInv'
  <2> DEFINE new == [NoConstraint EXCEPT !.exists = TRUE, !.surface = s, !.oneshot = oneshot]
  <2>1. /\ new \in ConstraintType(Alive) /\ new.surface = s /\ new.active = FALSE
        /\ new.oneshot = oneshot /\ new.times = 0
    <3>1. NoConstraint \in ConstraintType(Alive) /\ NoConstraint.active = FALSE /\ NoConstraint.times = 0
      BY DEF NoConstraint, ConstraintType
    <3>2. s \in Alive
      BY <1>3 DEF Constrain
    <3> QED  BY <3>1, <3>2 DEF ConstraintType
  <2>2. ptr' = [ptr EXCEPT !.constraint = [ptr.constraint EXCEPT ![k] = new]]
    BY <1>3 DEF Constrain
  <2> HIDE DEF new
  <2>3. /\ ptr' \in PtrType(Alive)
        /\ ptr'.focus = ptr.focus /\ ptr'.pending = ptr.pending
        /\ ptr'.entered = ptr.entered /\ ptr'.swiping = ptr.swiping
        /\ ptr'.constraint = [ptr.constraint EXCEPT ![k] = new]
    <3>1. [ptr.constraint EXCEPT ![k] = new] \in [Constraints -> ConstraintType(Alive)]
      BY <1>0, <2>1 DEF PtrOK, PtrType
    <3> QED  BY <1>0, <2>2, <3>1 DEF PtrOK, PtrType
  <2>4. ptr.constraint \in [Constraints -> ConstraintType(Alive)]
    BY <1>0 DEF PtrOK, PtrType
  <2>5. \A j \in Constraints : ptr'.constraint[j] = IF j = k THEN new ELSE ptr.constraint[j]
    BY <2>3, <2>4
  <2>6. ToldOK(ptr', pointers, orphans)
    BY <1>0, <2>3 DEF PtrOK, ToldOK
  <2>7. ConstraintsOK(ptr')
    <3>1. \A j \in Constraints : ptr.constraint[j].surface # s
      BY <1>3 DEF Constrain
    <3> QED  BY <1>0, <2>1, <2>3, <2>5, <3>1 DEF PtrOK, ConstraintsOK
  <2> QED  BY <1>0, <1>3, <2>3, <2>6, <2>7, PointerStep DEF Constrain, PtrOK
<1>4. ASSUME NEW k \in Constraints, DestroyConstraint(k)  PROVE IInv'
  <2>1. ptr' = Cleared(ptr, {k})
    BY <1>0, <1>4 DEF DestroyConstraint, PtrOK, PtrType, Cleared
  <2>2. PtrOK(ptr', pointers, orphans, Alive) /\ ptr'.focus = ptr.focus
    BY <1>0, <2>1, ClearedOK
  <2> QED  BY <1>0, <1>4, <2>2, PointerStep DEF DestroyConstraint
<1>5. ASSUME NEW c \in Clients, NEW rs \in SUBSET Pointers, ReleaseSeat(c, rs)  PROVE IInv'
  <2>1. PtrOK(ptr', pointers', orphans', Alive)
    BY <1>0, <1>5 DEF ReleaseSeat, PtrOK, ToldOK
  <2> QED  BY <1>0, <1>5, <2>1, PointerStep DEF ReleaseSeat
<1> QED  BY <1>1, <1>2, <1>3, <1>4, <1>5

(* The focus given to a surface that may have it. *)
LEMMA FocusAllowed ==
  ASSUME NEW p, PtrOK(p, pointers, orphans, Alive), NEW s \in Alive \cup {None}, s # None => Allowed(s)
  PROVE  /\ PtrOK(SetFocus(p, s), pointers, orphans, Alive)
         /\ lock # None /\ SetFocus(p, s).focus # None => Owner[SetFocus(p, s).focus] \in {lock} \cup overtaken
BY SetFocusOK, SurfaceAtAlive DEF Allowed

(* The default handlers of the pointer. *)
LEMMA HandlersIInv ==
  ASSUME IInv, UNCHANGED touchVars,
         \/ StartDrag \/ CancelDrag
         \/ \E s \in SurfaceAt : \/ OtherButton(s) \/ Press(s)
                                 \/ \E inside \in BOOLEAN : Move(s, inside) \/ Release(s, inside)
         \/ SwipeBegin \/ SwipeEnd
  PROVE  IInv'
<1> USE SurfaceAtAlive
<1>0. /\ PtrOK(ptr, pointers, orphans, Alive) /\ pointers \subseteq Pointers /\ orphans \subseteq Pointers \ pointers
      /\ device \in [left : BOOLEAN, dnd : BOOLEAN] /\ ptr.focus \in Alive \cup {None}
      /\ lock # None /\ ptr.focus # None => Owner[ptr.focus] \in {lock} \cup overtaken
  BY DEF IInv, TypeOK, PointerTypeOK, InputOfLock, PtrOK, PtrType
<1> DEFINE good == /\ PtrOK(ptr', pointers, orphans, Alive)
                   /\ lock # None /\ ptr'.focus # None => Owner[ptr'.focus] \in {lock} \cup overtaken
<1>1. ASSUME StartDrag  PROVE IInv'
  <2>1. good
    BY <1>0, <1>1, DraggingOK DEF StartDrag
  <2> QED  BY <1>0, <1>1, <2>1, PointerStep DEF StartDrag
<1>2. ASSUME CancelDrag  PROVE IInv'
  BY <1>0, <1>2, PointerStep DEF CancelDrag
<1>3. SetFocus(ptr, None).focus = None /\ PtrOK(SetFocus(ptr, None), pointers, orphans, Alive)
  BY <1>0, SetFocusOK
<1>4. LET q == [SetFocus(ptr, None) EXCEPT !.dragging = None]
      IN PtrOK(q, pointers, orphans, Alive) /\ q.focus = None
  BY <1>3, DraggingOK
<1>5. ASSUME NEW s \in SurfaceAt, FocusForButton(s)  PROVE good
  BY <1>0, <1>5, FocusAllowed DEF FocusForButton
<1>6. ASSUME NEW s \in SurfaceAt, OtherButton(s)  PROVE IInv'
  <2>1. good
    BY <1>4, <1>5, <1>6 DEF OtherButton
  <2> QED  BY <1>0, <1>6, <2>1, PointerStep DEF OtherButton
<1>7. ASSUME NEW s \in SurfaceAt, Press(s)  PROVE IInv'
  <2>1. ptr' = [ptr EXCEPT !.dragging = ptr.focus] => good
    BY <1>0, DraggingOK
  <2>2. good
    BY <1>4, <1>5, <1>7, <2>1 DEF Press
  <2> QED  BY <1>0, <1>7, <2>2, PointerStep DEF Press
<1>8. LET q == [ptr EXCEPT !.dragging = None]
      IN PtrOK(q, pointers, orphans, Alive) /\ q.focus = ptr.focus /\ PtrOK(SetFocus(q, None), pointers, orphans, Alive)
         /\ SetFocus(q, None).focus = None
  <2>1. LET q == [ptr EXCEPT !.dragging = None] IN PtrOK(q, pointers, orphans, Alive) /\ q.focus = ptr.focus
    BY <1>0, DraggingOK
  <2> QED  BY <2>1, SetFocusOK
<1>9. ASSUME NEW s \in SurfaceAt, NEW inside \in BOOLEAN, Release(s, inside)  PROVE IInv'
  <2>1. good
    <3>1. CASE device.dnd
      BY <1>4, <1>9, <3>1 DEF Release
    <3>2. CASE ~device.dnd /\ ptr.focus = None
      BY <1>5, <1>9, <3>2 DEF Release
    <3>3. CASE ~device.dnd /\ ptr.focus # None
      BY <1>0, <1>8, <1>9, <3>3 DEF Release, FocusForButton
    <3> QED  BY <3>1, <3>2, <3>3
  <2> QED  BY <1>0, <1>9, <2>1, PointerStep DEF Release
<1>10. ASSUME NEW s \in SurfaceAt, NEW inside \in BOOLEAN, Move(s, inside)  PROVE IInv'
  <2> DEFINE p == IF inside THEN Activate(ptr) ELSE ptr
             d == [p EXCEPT !.dragging = None]
  <2>1. PtrOK(p, pointers, orphans, Alive) /\ p.focus = ptr.focus
    BY <1>0, ActivateOK
  <2>2. ptr' = IF device.dnd THEN SetFocus(d, None) ELSE FocusUnderCursor(p, s)
    BY <1>10 DEF Move
  <2> HIDE DEF p
  <2>3. PtrOK(SetFocus(d, None), pointers, orphans, Alive) /\ SetFocus(d, None).focus = None
    <3>1. PtrOK(d, pointers, orphans, Alive)
      BY <2>1, DraggingOK
    <3> HIDE DEF d
    <3> QED  BY <3>1, SetFocusOK
  <2>4. LET q == FocusUnderCursor(p, s) IN
        PtrOK(q, pointers, orphans, Alive) /\ (lock # None /\ q.focus # None => Owner[q.focus] \in {lock} \cup overtaken)
    <3>1. ASSUME NEW t \in Alive \cup {None}
          PROVE  LET q == IF t # None /\ ~Allowed(t) THEN p ELSE SetFocus(p, t) IN
                 PtrOK(q, pointers, orphans, Alive) /\ (lock # None /\ q.focus # None => Owner[q.focus] \in {lock} \cup overtaken)
      BY <1>0, <2>1, FocusAllowed
    <3>2. (IF Constrained(p) THEN p.focus ELSE s) \in Alive \cup {None}
      BY <1>0, <2>1
    <3> QED  BY <1>0, <2>1, <3>1, <3>2 DEF FocusUnderCursor
  <2>5. good
    BY <2>2, <2>3, <2>4
  <2> QED  BY <1>0, <1>10, <2>5, PointerStep DEF Move
<1>11. ASSUME SwipeBegin  PROVE IInv'
  <2> DEFINE told == PointersOf(ptr.focus) \cap Swipes
  <2>1. /\ ptr'.focus = ptr.focus /\ ptr'.pending = TRUE /\ ptr'.entered = ptr.entered
        /\ ptr'.constraint = ptr.constraint
        /\ \A r \in Pointers : ptr'.swiping[r] = IF r \in told THEN ptr.focus ELSE ptr.swiping[r]
        /\ ptr' \in PtrType(Alive)
    <3>1. Tell(ptr.swiping, told, ptr.focus) \in [Pointers -> Alive \cup {None}]
      BY <1>0 DEF Tell, PtrOK, PtrType
    <3>2. /\ ptr' = [ptr EXCEPT !.pending = TRUE, !.swiping = Tell(ptr.swiping, told, ptr.focus)]
          /\ \A r \in Pointers :
               Tell(ptr.swiping, told, ptr.focus)[r] = IF r \in told THEN ptr.focus ELSE ptr.swiping[r]
      BY <1>11 DEF SwipeBegin, Tell
    <3> QED  BY <1>0, <3>1, <3>2 DEF PtrOK, PtrType
  <2>2. ToldOK(ptr', pointers, orphans)
    BY <1>0, <1>11, <2>1 DEF PtrOK, ToldOK, PointersOf
  <2>3. ConstraintsOK(ptr')
    BY <1>0, <2>1 DEF PtrOK, ConstraintsOK
  <2> QED  BY <1>0, <1>11, <2>1, <2>2, <2>3, PointerStep DEF SwipeBegin, PtrOK
<1>12. ASSUME SwipeEnd  PROVE IInv'
  <2>1. good
    BY <1>0, <1>12, EndSwipeOK DEF SwipeEnd
  <2> QED  BY <1>0, <1>12, <2>1, PointerStep DEF SwipeEnd
<1> QED  BY <1>1, <1>2, <1>6, <1>7, <1>9, <1>10, <1>11, <1>12

(* Surfaces, clients and the session lock: an action that leaves the pointer and the
   fingers alone, or takes them from surfaces that go. *)
LEMMA SurfaceStep ==
  ASSUME IInv, InputSurfacesTypeOK', Alive \subseteq Alive', lock' \in {lock, None}, overtaken' = overtaken,
         PtrOK(ptr', pointers, orphans, Alive), ptr'.focus \in {ptr.focus, None},
         UNCHANGED <<seatPointers, device, touchVars>>
  PROVE  IInv'
<1>1. TypeOK'
  BY DEF IInv, TypeOK, PointerTypeOK, TouchTypeOK, PtrOK, PtrType, ConstraintType, touchVars
<1>2. PtrOK(ptr, pointers, orphans, Alive)'
  <2>1. PtrOK(ptr', pointers, orphans, Alive')
    BY DEF PtrOK, PtrType, ConstraintType
  <2> QED  BY <2>1
<1>3. PointsOK' /\ TouchIsEnded' /\ InputOfLock'
  BY DEF IInv, PointsOK, TouchIsEnded, InputOfLock, touchVars
<1> QED  BY <1>1, <1>2, <1>3 DEF IInv

LEMMA SurfacesIInv ==
  ASSUME IInv,
         \/ \E s \in Surfaces : CreateSurface(s) \/ Show(s) \/ Unmap(s) \/ Minimize(s)
         \/ UnlockSession
  PROVE  IInv'
<1> USE SurfaceAtAlive
<1>0. /\ PtrOK(ptr, pointers, orphans, Alive) /\ surfaces \in [Surfaces -> {"none", "hidden", "shown"}]
      /\ lock \in Clients \cup {None, "dead"} /\ overtaken \subseteq Clients
  BY DEF IInv, TypeOK, InputSurfacesTypeOK
<1>1. ASSUME NEW s \in Surfaces, CreateSurface(s) \/ Show(s) \/ Unmap(s)  PROVE IInv'
  <2>1. InputSurfacesTypeOK' /\ Alive \subseteq Alive'
    BY <1>0, <1>1 DEF CreateSurface, Show, Unmap, InputSurfacesTypeOK, Alive
  <2> QED  BY <1>0, <1>1, <2>1, SurfaceStep DEF CreateSurface, Show, Unmap, pointerVars
<1>2. ASSUME NEW s \in Surfaces, Minimize(s)  PROVE IInv'
  <2>1. InputSurfacesTypeOK' /\ Alive \subseteq Alive'
    BY <1>0, <1>2 DEF Minimize, InputSurfacesTypeOK, Alive
  <2>2. PtrOK(ptr', pointers, orphans, Alive) /\ ptr'.focus \in {ptr.focus, None}
    BY <1>0, <1>2, SetFocusOK DEF Minimize
  <2> QED  BY <1>0, <1>2, <2>1, <2>2, SurfaceStep DEF Minimize
<1>3. ASSUME UnlockSession  PROVE IInv'
  <2>1. InputSurfacesTypeOK' /\ Alive \subseteq Alive'
    BY <1>0, <1>3 DEF UnlockSession, InputSurfacesTypeOK, Alive
  <2> QED  BY <1>0, <1>3, <2>1, SurfaceStep DEF UnlockSession, pointerVars
<1> QED  BY <1>1, <1>2, <1>3

(* What the touch screen keeps when surfaces are destroyed. *)
LEMMA TouchWithoutOK ==
  ASSUME IInv, NEW ss \in SUBSET Surfaces, TouchWithout(ss), Alive' = Alive \ ss
  PROVE  /\ TouchTypeOK' /\ PointsOK' /\ TouchIsEnded'
         /\ \A f \in Fingers : points'[f].surface \in {points[f].surface, None}
<1>0. TouchTypeOK /\ PointsOK /\ TouchIsEnded
  BY DEF IInv, TypeOK
<1> DEFINE pt(f) == [points[f] EXCEPT !.surface = IF points[f].surface \in ss THEN None ELSE points[f].surface]
<1>1. /\ points' = [f \in Fingers |-> pt(f)] /\ fingers' = fingers
      /\ touches' = [f \in Fingers |-> IF touches[f] \in ss THEN None ELSE touches[f]]
  BY DEF TouchWithout
<1>2. \A f \in Fingers :
        /\ points[f] \in [exists : BOOLEAN, surface : Alive \cup {None}, pressed : BOOLEAN]
        /\ touches[f] \in Alive \cup {None}
  BY <1>0 DEF TouchTypeOK
<1>3. \A f \in Fingers :
        /\ pt(f) \in [exists : BOOLEAN, surface : Alive' \cup {None}, pressed : BOOLEAN]
        /\ pt(f).exists = points[f].exists /\ pt(f).pressed = points[f].pressed
        /\ pt(f).surface = IF points[f].surface \in ss THEN None ELSE points[f].surface
  <2> TAKE f \in Fingers
  <2> DEFINE u == IF points[f].surface \in ss THEN None ELSE points[f].surface
  <2>1. u \in Alive' \cup {None}
    BY <1>2
  <2> HIDE DEF u
  <2>2. pt(f) = [points[f] EXCEPT !.surface = u]
    BY DEF u
  <2> HIDE DEF pt
  <2>3. /\ pt(f) \in [exists : BOOLEAN, surface : Alive' \cup {None}, pressed : BOOLEAN]
        /\ pt(f).exists = points[f].exists /\ pt(f).pressed = points[f].pressed
        /\ pt(f).surface = u
    BY <1>2, <2>1, <2>2
  <2> QED  BY <2>3 DEF u
<1> HIDE DEF pt
<1>4. TouchTypeOK'
  BY <1>0, <1>1, <1>2, <1>3 DEF TouchTypeOK
<1>5. PointsOK' /\ TouchIsEnded' /\ \A f \in Fingers : points'[f].surface \in {points[f].surface, None}
  BY <1>0, <1>1, <1>3 DEF PointsOK, TouchIsEnded
<1> QED  BY <1>4, <1>5

(* Surfaces and clients go. *)
LEMMA GoneIInv ==
  ASSUME IInv,
         \/ \E s \in Surfaces : DestroySurface(s)
         \/ \E c \in Clients : Disconnect(c)
  PROVE  IInv'
<1> USE SurfaceAtAlive
<1>0. /\ PtrOK(ptr, pointers, orphans, Alive) /\ surfaces \in [Surfaces -> {"none", "hidden", "shown"}]
      /\ lock \in Clients \cup {None, "dead"} /\ overtaken \subseteq Clients /\ pointers \subseteq Pointers /\ orphans \subseteq Pointers \ pointers
      /\ device \in [left : BOOLEAN, dnd : BOOLEAN] /\ InputOfLock
      /\ ptr.focus \in Alive \cup {None}
      /\ \A f \in Fingers : points[f].surface \in Alive \cup {None}
  BY DEF IInv, TypeOK, InputSurfacesTypeOK, PointerTypeOK, TouchTypeOK, PtrOK, PtrType
<1>1. ASSUME NEW s \in Surfaces, DestroySurface(s)  PROVE IInv'
  <2>1. InputSurfacesTypeOK' /\ Alive' = Alive \ {s}
    BY <1>0, <1>1 DEF DestroySurface, InputSurfacesTypeOK, Alive
  <2>2. /\ PtrOK(ptr', pointers', orphans', Alive') /\ ptr'.focus \in {ptr.focus, None}
        /\ lock' = lock /\ overtaken' = overtaken
    <3>1. /\ PtrOK(Without(ptr, {s}), pointers, orphans, Alive \ {s})
          /\ Without(ptr, {s}).focus \in {ptr.focus, None} \ {s}
      <4>1. {s} \in SUBSET Surfaces
        OBVIOUS
      <4> DEFINE ss == {s}
      <4> HIDE DEF ss
      <4>2. PtrOK(Without(ptr, ss), pointers, orphans, Alive \ ss) /\ Without(ptr, ss).focus \in {ptr.focus, None} \ ss
        BY <1>0, <4>1, WithoutOK DEF ss
      <4> QED  BY <4>2 DEF ss
    <3>2. ptr' = Without(ptr, {s}) /\ UNCHANGED <<pointers, orphans, lock, overtaken>>
      BY <1>1 DEF DestroySurface
    <3> QED  BY <2>1, <3>1, <3>2
  <2>3. /\ TouchTypeOK' /\ PointsOK' /\ TouchIsEnded'
        /\ \A f \in Fingers : points'[f].surface \in {points[f].surface, None}
    BY <1>1, <2>1, TouchWithoutOK DEF DestroySurface
  <2>4. InputOfLock'
    BY <1>0, <2>2, <2>3 DEF InputOfLock
  <2>5. TypeOK'
    BY <1>0, <1>1, <2>1, <2>2, <2>3
       DEF DestroySurface, TypeOK, PointerTypeOK, PtrOK, PtrType, ConstraintType
  <2> QED  BY <2>2, <2>3, <2>4, <2>5 DEF IInv
<1>2. ASSUME NEW c \in Clients, Disconnect(c)  PROVE IInv'
  <2> DEFINE ss == {s \in Surfaces : Owner[s] = c}
             rs == {r \in Pointers : PointerClient[r] = c}
             w == Without(ptr, ss)
             rest == Released(w, rs)
             K == {k \in Constraints : Requester[k] = c}
  <2>1. InputSurfacesTypeOK' /\ Alive' = Alive \ ss
    BY <1>0, <1>2 DEF Disconnect, InputSurfacesTypeOK, Alive
  <2>2. PtrOK(w, pointers, orphans, Alive') /\ w.focus \in {ptr.focus, None} \ ss
    BY <1>0, <2>1, WithoutOK
  <2>3. PtrOK(rest, pointers \ rs, orphans \ rs, Alive') /\ rest.focus = w.focus
    <3> HIDE DEF w, rs
    <3>1. Alive' \in SUBSET Surfaces
      BY <2>1
    <3> QED  BY <2>2, <3>1, ReleasedOK
  <2>4. ptr' = Cleared(rest, K)
    <3>1. ptr' = [rest EXCEPT !.constraint =
                    [k \in Constraints |-> IF Requester[k] = c THEN NoConstraint ELSE rest.constraint[k]]]
      BY <1>2 DEF Disconnect
    <3> HIDE DEF rest
    <3> QED  BY <3>1 DEF Cleared
  <2>5. PtrOK(ptr', pointers', orphans', Alive') /\ ptr'.focus \in {ptr.focus, None} \ ss
    <3>1. pointers' = pointers \ rs /\ orphans' = orphans \ rs /\ Alive' \in SUBSET Surfaces
      BY <1>2, <2>1 DEF Disconnect
    <3> HIDE DEF rest, K, rs, w, ss
    <3> QED  BY <2>2, <2>3, <2>4, <3>1, ClearedOK
  <2>6. /\ TouchTypeOK' /\ PointsOK' /\ TouchIsEnded'
        /\ \A f \in Fingers : points'[f].surface \in {points[f].surface, None} \ ss
    <3>1. TouchWithout(ss)
      BY <1>2 DEF Disconnect
    <3>2. \A f \in Fingers : points'[f].surface \in Alive' \cup {None}
      BY <2>1, <3>1, TouchWithoutOK DEF TouchTypeOK
    <3> QED  BY <2>1, <3>1, <3>2, TouchWithoutOK
  <2>7. InputOfLock'
    <3>1. /\ lock' # None => lock # None /\ (lock' = lock \/ lock = c)
          /\ overtaken' = overtaken \ {c}
      BY <1>2 DEF Disconnect
    <3>2. ptr'.focus # None => ptr'.focus \in Surfaces /\ Owner[ptr'.focus] # c
      BY <1>0, <2>5
    <3> QED  BY <1>0, <2>5, <2>6, <3>1, <3>2 DEF InputOfLock
  <2>8. TypeOK'
    BY <1>0, <1>2, <2>1, <2>5, <2>6
       DEF Disconnect, TypeOK, PointerTypeOK, PtrOK, PtrType, ConstraintType
  <2> QED  BY <2>5, <2>6, <2>7, <2>8 DEF IInv
<1> QED  BY <1>1, <1>2

(* The session is locked: the drag, the touches and the focus are taken. *)
LEMMA LockIInv ==
  ASSUME IInv, NEW c \in Clients, NEW s \in Surfaces \cup {None}, LockSession(c, s)
  PROVE  IInv'
<1> USE SurfaceAtAlive
<1>0. /\ PtrOK(ptr, pointers, orphans, Alive) /\ pointers \subseteq Pointers
      /\ orphans \subseteq Pointers \ pointers /\ TouchTypeOK /\ TouchIsEnded
      /\ device \in [left : BOOLEAN, dnd : BOOLEAN] /\ InputSurfacesTypeOK
  BY DEF IInv, TypeOK, PointerTypeOK
<1>1. InputSurfacesTypeOK' /\ Alive' = Alive /\ lock' = c /\ c # None
  BY <1>0 DEF LockSession, InputSurfacesTypeOK, Alive
<1>2. PtrOK(ptr', pointers, orphans, Alive) /\ (ptr'.focus # None => Owner[ptr'.focus] \in {c} \cup overtaken')
  <2>1. PtrOK([ptr EXCEPT !.dragging = None], pointers, orphans, Alive)
    BY <1>0, DraggingOK
  <2>2. s \in Alive \cup {None} /\ (s # None => Owner[s] \in {c} \cup overtaken')
        /\ ptr' = SetFocus([ptr EXCEPT !.dragging = None], s)
    BY DEF LockSession
  <2> QED  BY <2>1, <2>2, SetFocusOK
<1>3. /\ points' = [f \in Fingers |-> NoPoint] /\ fingers' = fingers
      /\ touches' = [f \in Fingers |->
           IF \E g \in Fingers : points[g].surface # None /\ touches[f] # None
                                  /\ Owner[points[g].surface] = Owner[touches[f]]
           THEN None ELSE touches[f]]
  BY DEF LockSession, CancelTouches
<1>4. /\ NoPoint \in [exists : BOOLEAN, surface : Alive \cup {None}, pressed : BOOLEAN]
      /\ NoPoint.surface = None
  BY DEF NoPoint
<1>5. TouchTypeOK' /\ PointsOK'
  BY <1>0, <1>1, <1>3, <1>4 DEF TouchTypeOK, PointsOK
<1>6. TouchIsEnded'
  BY <1>0, <1>3 DEF TouchIsEnded
<1>7. InputOfLock'
  BY <1>1, <1>2, <1>3, <1>4 DEF InputOfLock
<1>8. TypeOK' /\ PtrOK(ptr, pointers, orphans, Alive)'
  <2>1. UNCHANGED <<pointers, orphans>> /\ device' = [device EXCEPT !.dnd = FALSE]
    BY DEF LockSession
  <2>2. PtrOK(ptr, pointers, orphans, Alive)'
    BY <1>1, <1>2, <2>1
  <2>3. PointerTypeOK'
    <3>1. ptr' \in PtrType(Alive')
      BY <2>2 DEF PtrOK
    <3>2. device' \in [left : BOOLEAN, dnd : BOOLEAN]
      BY <1>0, <2>1
    <3> QED  BY <1>0, <2>1, <3>1, <3>2 DEF PointerTypeOK, PtrType, ConstraintType
  <2> QED  BY <1>1, <1>5, <2>2, <2>3 DEF TypeOK
<1> QED  BY <1>5, <1>6, <1>7, <1>8 DEF IInv

(* The touch screen. *)
LEMMA TouchIInv ==
  ASSUME IInv, TouchNext
  PROVE  IInv'
<1> USE SurfaceAtAlive
<1> DEFINE PointType == [exists : BOOLEAN, surface : Alive \cup {None}, pressed : BOOLEAN]
<1>0. /\ fingers \subseteq Fingers /\ points \in [Fingers -> PointType]
      /\ touches \in [Fingers -> Alive \cup {None}] /\ PointsOK /\ TouchIsEnded /\ InputOfLock
  BY DEF IInv, TypeOK, TouchTypeOK
<1>1. /\ NoPoint \in PointType /\ NoPoint.surface = None /\ NoPoint.exists = FALSE
      /\ NoPoint.pressed = FALSE
  BY DEF NoPoint
<1>2. ASSUME NEW f \in Fingers, NEW s \in SurfaceAt, TouchDown(f, s), UNCHANGED pointerVars
      PROVE  IInv'
  <2> DEFINE down == [exists |-> TRUE, surface |-> s, pressed |-> TRUE]
  <2>1. Get(f) \in PointType /\ Get(f).exists /\ Get(f).surface = points[f].surface
    <3>1. CASE points[f].exists
      BY <1>0, <3>1 DEF Get
    <3>2. CASE ~points[f].exists
      BY <1>0, <1>1, <3>2 DEF Get, PointsOK
    <3> QED  BY <3>1, <3>2
  <2>2. touches[f] = None
    BY <1>0, <1>2 DEF TouchDown, TouchIsEnded
  <2>3. down \in PointType /\ down.exists /\ down.surface = s /\ down.pressed /\ s \in Alive \cup {None}
    OBVIOUS
  <2> HIDE DEF down, PointType
  <2>4. CASE s # None /\ ~Allowed(s)
    <3>1. /\ points' = [points EXCEPT ![f] = Get(f)] /\ touches' = touches
          /\ fingers' = fingers \cup {f} /\ UNCHANGED inputSurfaces
      BY <1>2, <2>4 DEF TouchDown
    <3>2. TouchTypeOK'
      BY <1>0, <2>1, <3>1 DEF TouchTypeOK, PointType, inputSurfaces, Alive
    <3>3. PointsOK' /\ TouchIsEnded'
      BY <1>0, <2>1, <2>2, <3>1 DEF PointsOK, TouchIsEnded
    <3>4. lock # None => \A g \in Fingers : points'[g].surface # None => Owner[points'[g].surface] = lock
      BY <1>0, <2>1, <3>1 DEF InputOfLock
    <3> QED  BY <1>2, <3>1, <3>2, <3>3, <3>4, TouchStep
  <2>5. CASE s = None \/ Allowed(s)
    <3>1. /\ points' = [points EXCEPT ![f] = down] /\ touches' = [touches EXCEPT ![f] = s]
          /\ fingers' = fingers \cup {f} /\ UNCHANGED inputSurfaces
      BY <1>2, <2>5 DEF TouchDown, down
    <3>2. TouchTypeOK'
      BY <1>0, <2>3, <3>1 DEF TouchTypeOK, PointType, inputSurfaces, Alive
    <3>3. PointsOK' /\ TouchIsEnded'
      BY <1>0, <2>3, <3>1 DEF PointsOK, TouchIsEnded
    <3>4. lock # None => \A g \in Fingers : points'[g].surface # None => Owner[points'[g].surface] = lock
      BY <1>0, <2>3, <2>5, <3>1 DEF InputOfLock, Allowed
    <3> QED  BY <1>2, <3>1, <3>2, <3>3, <3>4, TouchStep
  <2> QED  BY <2>4, <2>5
<1>3. ASSUME NEW f \in Fingers, TouchDownNowhere(f), UNCHANGED pointerVars  PROVE IInv'
  <2>1. TouchTypeOK'
    BY <1>0, <1>3 DEF TouchDownNowhere, TouchTypeOK, inputSurfaces, Alive
  <2>2. PointsOK' /\ TouchIsEnded'
    BY <1>0, <1>3 DEF TouchDownNowhere, PointsOK, TouchIsEnded
  <2> QED  BY <1>0, <1>3, <2>1, <2>2, TouchStep DEF TouchDownNowhere, InputOfLock
<1>4. ASSUME NEW f \in Fingers, TouchUp(f), UNCHANGED pointerVars  PROVE IInv'
  <2> DEFINE up == [points[f] EXCEPT !.pressed = FALSE]
  <2>1. up \in PointType /\ up.exists = points[f].exists /\ up.surface = points[f].surface
    <3>1. points[f] \in PointType
      BY <1>0
    <3> DEFINE pt == points[f]
    <3> HIDE DEF pt
    <3>2. pt \in PointType
      BY <3>1 DEF pt
    <3>3. LET u == [pt EXCEPT !.pressed = FALSE]
          IN u \in PointType /\ u.exists = pt.exists /\ u.surface = pt.surface
      BY <3>2
    <3> QED  BY <3>3 DEF pt
  <2> HIDE DEF up, PointType
  <2>2. CASE points[f].exists
    <3>1. /\ points' = [points EXCEPT ![f] = up] /\ fingers' = fingers \ {f} /\ UNCHANGED inputSurfaces
          /\ touches' = [touches EXCEPT ![f] = IF points[f].surface = None THEN touches[f] ELSE None]
      BY <1>4, <2>2 DEF TouchUp, up
    <3>2. TouchTypeOK'
      BY <1>0, <2>1, <3>1 DEF TouchTypeOK, PointType, inputSurfaces, Alive
    <3>3. PointsOK' /\ TouchIsEnded'
      BY <1>0, <2>1, <3>1 DEF PointsOK, TouchIsEnded
    <3>4. lock # None => \A g \in Fingers : points'[g].surface # None => Owner[points'[g].surface] = lock
      BY <1>0, <2>1, <3>1 DEF InputOfLock
    <3> QED  BY <1>4, <3>1, <3>2, <3>3, <3>4, TouchStep
  <2>3. CASE ~points[f].exists
    <3>1. UNCHANGED <<inputSurfaces, points, touches>> /\ fingers' = fingers \ {f}
      BY <1>4, <2>3 DEF TouchUp
    <3>2. TouchTypeOK'
      BY <1>0, <3>1 DEF TouchTypeOK, PointType, inputSurfaces, Alive
    <3>3. PointsOK' /\ TouchIsEnded'
      BY <1>0, <2>3, <3>1 DEF PointsOK, TouchIsEnded
    <3> QED  BY <1>0, <1>4, <3>1, <3>2, <3>3, TouchStep DEF InputOfLock
  <2> QED  BY <2>2, <2>3
<1>5. ASSUME TouchFrame, UNCHANGED pointerVars  PROVE IInv'
  <2> HIDE DEF PointType
  <2>1. /\ points' = [f \in Fingers |-> IF points[f].pressed THEN points[f] ELSE NoPoint]
        /\ UNCHANGED <<inputSurfaces, fingers, touches>>
    BY <1>5 DEF TouchFrame
  <2>2. TouchTypeOK'
    BY <1>0, <1>1, <2>1 DEF TouchTypeOK, PointType, inputSurfaces, Alive
  <2>3. PointsOK' /\ TouchIsEnded'
    BY <1>0, <1>1, <2>1 DEF PointsOK, TouchIsEnded
  <2>4. lock # None => \A g \in Fingers : points'[g].surface # None => Owner[points'[g].surface] = lock
    BY <1>0, <1>1, <2>1 DEF InputOfLock
  <2> QED  BY <1>5, <2>1, <2>2, <2>3, <2>4, TouchStep
<1>6. ASSUME TouchCancel, UNCHANGED pointerVars  PROVE IInv'
  <2> HIDE DEF PointType
  <2>1. /\ points' = [f \in Fingers |-> NoPoint] /\ UNCHANGED <<inputSurfaces, fingers>>
        /\ touches' = [f \in Fingers |->
             IF \E g \in Fingers : points[g].surface # None /\ touches[f] # None
                                    /\ Owner[points[g].surface] = Owner[touches[f]]
             THEN None ELSE touches[f]]
    BY <1>6 DEF TouchCancel, CancelTouches
  <2>2. TouchTypeOK'
    BY <1>0, <1>1, <2>1 DEF TouchTypeOK, PointType, inputSurfaces, Alive
  <2>3. PointsOK' /\ TouchIsEnded'
    BY <1>0, <1>1, <2>1 DEF PointsOK, TouchIsEnded
  <2> QED  BY <1>1, <1>6, <2>1, <2>2, <2>3, TouchStep
<1> QED  BY <1>2, <1>3, <1>4, <1>5, <1>6 DEF TouchNext

LEMMA NextIInv == IInv /\ [Next]_vars => IInv'
<1> SUFFICES ASSUME IInv, [Next]_vars PROVE IInv'
  OBVIOUS
<1>1. CASE \E s \in Surfaces : CreateSurface(s) \/ Show(s) \/ Unmap(s) \/ Minimize(s)
  BY <1>1, SurfacesIInv
<1>2. CASE UnlockSession
  BY <1>2, SurfacesIInv
<1>3. CASE \E s \in Surfaces : DestroySurface(s)
  BY <1>3, GoneIInv
<1>4. CASE \E c \in Clients : Disconnect(c)
  BY <1>4, GoneIInv
<1>5. CASE \E c \in Clients, s \in Surfaces \cup {None} : LockSession(c, s)
  BY <1>5, LockIInv
<1>6. CASE PointerNext
  BY <1>6, RequestsIInv, HandlersIInv DEF PointerNext
<1>7. CASE TouchNext
  BY <1>7, TouchIInv
<1>8. CASE UNCHANGED vars
  <2>1. Alive' = Alive
    BY <1>8 DEF vars, inputSurfaces, Alive
  <2> QED  BY <1>8, <2>1 DEF vars, inputSurfaces, pointerVars, touchVars, IInv, TypeOK, InputSurfacesTypeOK,
                             PointerTypeOK, TouchTypeOK, PointsOK, TouchIsEnded, InputOfLock
<1> QED  BY <1>1, <1>2, <1>3, <1>4, <1>5, <1>6, <1>7, <1>8 DEF Next

(* The invariant holds in every reachable state. *)
THEOREM Invariance == Spec => []IInv
<1>1. Init => IInv
  BY InitIInv
<1>2. IInv /\ [Next]_vars => IInv'
  BY NextIInv
<1> QED  BY <1>1, <1>2, PTL DEF Spec

-----------------------------------------------------------------------------
(* The properties of the run. *)

(* The variables have their types. *)
THEOREM TypeCorrect == Spec => []TypeOK
<1>1. IInv => TypeOK
  BY DEF IInv
<1> QED  BY <1>1, Invariance, PTL

(* What pointers were told of, an entered surface or a gesture, is of the focus. *)
THEOREM Told == Spec => []ToldOfFocus
<1>1. IInv => ToldOfFocus
  <2> SUFFICES ASSUME IInv, NEW r \in pointers
               PROVE  /\ ptr.entered[r] # None => ptr.entered[r] = ptr.focus
                      /\ ptr.swiping[r] # None => ptr.pending /\ ptr.swiping[r] = ptr.focus
    BY DEF ToldOfFocus, EnteredIsFocus, SwipeIsEnded
  <2>1. r \in Pointers \ orphans
    BY DEF IInv, TypeOK, PointerTypeOK
  <2> QED  BY <2>1 DEF IInv, PtrOK, ToldOK
<1> QED  BY <1>1, Invariance, PTL

(* An active constraint is of the focus, there is one of them, and a oneshot one is
   activated once. *)
THEOREM ConstraintsFollowFocus == Spec => []ConstraintsOfFocus
<1>1. IInv => ConstraintsOfFocus
  BY DEF IInv, PtrOK, ConstraintsOK, ConstraintsOfFocus, ConstrainedIsFocus, OneActive, OneshotOnce
<1> QED  BY <1>1, Invariance, PTL

(* A locked session gives the pointer and the fingers to the client of its lock only. *)
THEOREM LockHasInput == Spec => []InputOfLock
<1>1. IInv => InputOfLock
  BY DEF IInv
<1> QED  BY <1>1, Invariance, PTL

(* A touch that a client was told of has a point that will end it. *)
THEOREM TouchesEnd == Spec => []TouchIsEnded
<1>1. IInv => TouchIsEnded
  BY DEF IInv
<1> QED  BY <1>1, Invariance, PTL

(* A surface that the left button holds keeps the pointer while it is shown. *)
THEOREM HeldStays == Spec => HeldKeepsFocus
<1>1. IInv /\ [Next]_vars =>
        [\A s \in Surfaces :
           /\ ptr.focus = s /\ ptr.dragging = s /\ ptr'.dragging = s
           /\ surfaces'[s] = "shown"
           => ptr'.focus = s]_<<inputSurfaces, pointerVars>>
  <2> SUFFICES ASSUME IInv, Next, NEW s \in Surfaces,
                      ptr.focus = s, ptr.dragging = s, ptr'.dragging = s, surfaces'[s] = "shown"
               PROVE  ptr'.focus = s
    BY DEF vars, inputSurfaces, pointerVars
  <2> USE SurfaceAtAlive
  <2>0. /\ PtrOK(ptr, pointers, orphans, Alive) /\ s # None /\ ptr \in PtrType(Alive)
        /\ surfaces \in [Surfaces -> {"none", "hidden", "shown"}]
    BY DEF IInv, TypeOK, InputSurfacesTypeOK, PtrOK
  <2>1. CASE UNCHANGED ptr
    BY <2>1
  <2>2. CASE \E t \in Surfaces : Minimize(t)
    BY <2>0, <2>2 DEF Minimize
  <2>3. CASE \E t \in Surfaces : DestroySurface(t)
    <3> PICK t \in Surfaces : DestroySurface(t)
      BY <2>3
    <3>1. s # t
      BY <2>0 DEF DestroySurface
    <3>2. Without(ptr, {t}).focus = s
      BY <2>0, <3>1 DEF Without, PtrType
    <3> QED  BY <3>2 DEF DestroySurface
  <2>4. CASE \E c \in Clients : Disconnect(c)
    <3> PICK c \in Clients : Disconnect(c)
      BY <2>4
    <3> DEFINE ss == {t \in Surfaces : Owner[t] = c}
               w == Without(ptr, ss)
               rs == {r \in Pointers : PointerClient[r] = c}
    <3>1. s \notin ss
      BY DEF Disconnect
    <3>2. w.focus = s
      BY <2>0, <3>1 DEF Without, PtrType
    <3>3. ptr'.focus = w.focus
      <4>1. PtrOK(w, pointers, orphans, Alive \ ss)
        BY <2>0, WithoutOK
      <4> HIDE DEF w, ss
      <4>2. Alive \ ss \in SUBSET Surfaces
        OBVIOUS
      <4>3. /\ PtrOK(Released(w, rs), pointers \ rs, orphans \ rs, Alive \ ss)
            /\ Released(w, rs).focus = w.focus
        BY <4>1, <4>2, ReleasedOK
      <4> DEFINE q == Released(w, rs)
      <4>4. ptr' = [q EXCEPT !.constraint =
                     [k \in Constraints |-> IF Requester[k] = c THEN NoConstraint ELSE q.constraint[k]]]
        BY DEF Disconnect, w, ss
      <4> HIDE DEF q
      <4> QED  BY <4>3, <4>4 DEF PtrOK, PtrType, q
    <3> QED  BY <3>2, <3>3
  <2>5. CASE \E c \in Clients, t \in Surfaces \cup {None} : LockSession(c, t)
    <3> DEFINE q == [ptr EXCEPT !.dragging = None]
    <3>1. PtrOK(q, pointers, orphans, Alive) /\ q.dragging = None
      BY <2>0, DraggingOK
    <3>2. PICK t \in Alive \cup {None} : ptr' = SetFocus(q, t)
      BY <2>5 DEF LockSession
    <3> HIDE DEF q
    <3>3. SetFocus(q, t).dragging = None
      BY <3>1, SetFocusOK
    <3> USE <3>2
    <3> QED  BY <2>0, <3>3
  <2>6. SetFocus(ptr, None).dragging = s
    BY <2>0, SetFocusOK
  <2>7. LET q == [SetFocus(ptr, None) EXCEPT !.dragging = None] IN q.dragging = None
    BY <2>0, SetFocusOK, DraggingOK
  <2>8. CASE \E t \in SurfaceAt : OtherButton(t) \/ Press(t)
    <3>1. PICK t \in SurfaceAt : OtherButton(t) \/ Press(t)
      BY <2>8
    <3>2. \/ ptr' = [ptr EXCEPT !.dragging = ptr.focus]
          \/ ptr'.dragging = None
          \/ ptr.focus = None
      BY <2>7, <3>1 DEF OtherButton, Press, FocusForButton
    <3> QED  BY <2>0, <3>2 DEF PtrType
  <2>9. CASE \E t \in SurfaceAt, inside \in BOOLEAN : Release(t, inside)
    <3> DEFINE q == [ptr EXCEPT !.dragging = None]
    <3>1. PtrOK(q, pointers, orphans, Alive) /\ q.dragging = None
      BY <2>0, DraggingOK
    <3>2. ptr'.dragging = None \/ ptr' = q \/ ptr' = SetFocus(q, None)
      BY <2>0, <2>7, <2>9 DEF Release, FocusForButton
    <3> HIDE DEF q
    <3>3. SetFocus(q, None).dragging = None
      BY <3>1, SetFocusOK
    <3> QED  BY <2>0, <3>1, <3>2, <3>3
  <2>10. CASE \E t \in SurfaceAt, inside \in BOOLEAN : Move(t, inside)
    <3> PICK t \in SurfaceAt, inside \in BOOLEAN : Move(t, inside)
      BY <2>10
    <3> DEFINE p == IF inside THEN Activate(ptr) ELSE ptr
               d == [p EXCEPT !.dragging = None]
    <3>1. PtrOK(p, pointers, orphans, Alive) /\ p.focus = s /\ p.dragging = s
      BY <2>0, ActivateOK
    <3> HIDE DEF p
    <3>2. PtrOK(d, pointers, orphans, Alive) /\ d.dragging = None
      BY <3>1, DraggingOK
    <3>3. ptr' = SetFocus(d, None) \/ ptr' = p
      BY <2>0, <3>1 DEF Move, p, FocusUnderCursor
    <3> HIDE DEF d
    <3>4. SetFocus(d, None).dragging = None
      BY <3>2, SetFocusOK
    <3> QED  BY <2>0, <3>1, <3>3, <3>4
  <2>11. CASE SwipeBegin \/ SwipeEnd
    <3>1. EndSwipe(ptr).focus = s
      BY <2>0, EndSwipeOK
    <3>2. SwipeBegin => ptr'.focus = s
      BY <2>0 DEF SwipeBegin, PtrType
    <3> QED  BY <2>11, <3>1, <3>2 DEF SwipeEnd
  <2>12. CASE \E r \in Pointers : ReleasePointer(r)
    <3>1. PICK r \in Pointers : ReleasePointer(r)
      BY <2>12
    <3> DEFINE rs == {r}
    <3>2. ptr' = Released(ptr, rs)
      BY <3>1 DEF ReleasePointer
    <3> HIDE DEF rs
    <3>3. Released(ptr, rs).focus = ptr.focus
      BY <2>0 DEF Released, PtrType
    <3> QED  BY <2>0, <3>2, <3>3
  <2>13. CASE \E k \in Constraints : \/ \E t \in Surfaces, oneshot \in BOOLEAN : Constrain(k, t, oneshot)
                                     \/ DestroyConstraint(k)
    BY <2>0, <2>13 DEF Constrain, DestroyConstraint, PtrType
  <2>14. CASE StartDrag
    BY <2>0, <2>14 DEF StartDrag, PtrType
  <2>15. CASE \/ \E t \in Surfaces : CreateSurface(t) \/ Show(t) \/ Unmap(t)
              \/ UnlockSession \/ CancelDrag \/ TouchNext
              \/ \E r \in Pointers : GetPointer(r)
              \/ \E c \in Clients, rs \in SUBSET Pointers : ReleaseSeat(c, rs)
    BY <2>1, <2>15 DEF CreateSurface, Show, Unmap, UnlockSession, CancelDrag, TouchNext, GetPointer,
                       ReleaseSeat, pointerVars
  <2> QED  BY <2>2, <2>3, <2>4, <2>5, <2>8, <2>9, <2>10, <2>11, <2>12, <2>13, <2>14, <2>15
           DEF Next, PointerNext
<1> QED  BY <1>1, Invariance, PTL DEF Spec, HeldKeepsFocus

=============================================================================

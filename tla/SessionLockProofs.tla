-------------------------- MODULE SessionLockProofs --------------------------
(***************************************************************************)
(* The safety properties of SessionLock, for any locks and outputs.        *)
(***************************************************************************)
EXTENDS SessionLock, TLAPS

\* A lock whose request is to come was not told locked, and the holder has
\* none to come.
RequestOnce ==
  /\ \A l \in Locks : l \notin live \/ reply[l] = "Undefined" \/ l \in timer => ~lockedOnce[l]
  /\ \A l \in timer : reply[l] # "Locked"
  /\ holder # NoLock => holder \notin timer /\ lockState = "Locked"

\* While the holder waits, what is not waited for is hidden already.
HiddenUnlessPending ==
  holder # NoLock =>
    \A o \in outputs : (lockedOnce[holder] \/ o \notin pending[holder]) => shown[o] # "normal"

\* Only surfaces that exist, of a lock that was granted, are displayed or will
\* be when their output is initialized.
RolesGranted ==
  /\ \A l \in Locks : \A o \in mapped[l] : surface[l][o] # "none" /\ reply[l] = "Locked"
  /\ \A o \in Outputs : lockRole[o] # NoLock =>
       surface[lockRole[o]][o] # "none" /\ reply[lockRole[o]] = "Locked"

\* The inductive invariant.
IInv == TypeOK /\ RequestOnce /\ HiddenUnlessPending /\ RolesGranted

-----------------------------------------------------------------------------

\* The invariant holds when the compositor starts, unlocked.
LEMMA InitIInv == Init => IInv
<1> USE DEF Init
<1>1. Init => TypeOK
  BY DEF TypeOK, SurfaceStates, Replies, Shown
<1>2. Init => RequestOnce /\ HiddenUnlessPending
  BY DEF RequestOnce, HiddenUnlessPending
<1>3. Init => RolesGranted
  BY DEF RolesGranted
<1> QED  BY <1>1, <1>2, <1>3 DEF IInv

\* The request of a lock that is not the holder and was not told locked.
LEMMA MakeLockRequestOK ==
  ASSUME IInv, NEW l \in live, NEW granted \in BOOLEAN,
         reply[l] = "Undefined" \/ l \in timer,
         MakeLockRequest(l, granted),
         surface' \in [Locks -> [Outputs -> SurfaceStates]],
         \A k \in Locks, o \in Outputs : surface[k][o] # "none" <=> surface'[k][o] # "none",
         UNCHANGED <<live, lockedOnce, outputs, shown>>
  PROVE  IInv'
<1> USE NoLockAssumption
<1> USE DEF MakeLockRequest, Finished, manager
<1>0. l \in Locks /\ l # NoLock /\ Roles(l) \subseteq Outputs
  BY DEF IInv, TypeOK, Roles
<1>1. reply[l] # "Locked" /\ mapped[l] = {} /\ ~lockedOnce[l]
  BY <1>0 DEF IInv, TypeOK, RequestOnce, RolesGranted
<1>2. \A o \in Outputs : lockRole[o] # l
  BY <1>0, <1>1 DEF IInv, RolesGranted
<1>3. CASE granted
  <2> HIDE DEF MakeLockRequest
  <2>1. /\ timer' = timer \ {l} /\ lockState' = "Locked" /\ holder' = l
        /\ reply' = [reply EXCEPT ![l] = "Locked"]
        /\ lockRole' = [o \in Outputs |-> IF o \in Roles(l) THEN l ELSE lockRole[o]]
        /\ mapped' = [mapped EXCEPT ![l] = Roles(l)]
        /\ repaint' = repaint \cup Roles(l)
        /\ pending' = [pending EXCEPT ![l] = outputs]
    BY <1>3 DEF MakeLockRequest
  <2>2. /\ reply' \in [Locks -> Replies] /\ mapped' \in [Locks -> SUBSET Outputs]
        /\ pending' \in [Locks -> SUBSET Outputs]
        /\ lockRole' \in [Outputs -> Locks \cup {NoLock}]
    BY <2>1, <1>0 DEF IInv, TypeOK, Replies
  <2>3. TypeOK'
    BY <2>1, <2>2, <1>0 DEF IInv, TypeOK
  <2>4. RequestOnce' /\ HiddenUnlessPending'
    BY <2>1, <1>0, <1>1 DEF IInv, TypeOK, RequestOnce, HiddenUnlessPending
  <2>5. RolesGranted'
    <3>1. \A k \in Locks : \A o \in mapped'[k] : surface'[k][o] # "none" /\ reply'[k] = "Locked"
      BY <2>1, <1>0 DEF IInv, TypeOK, RolesGranted, Roles
    <3>2. \A o \in Outputs : lockRole'[o] # NoLock =>
            surface'[lockRole'[o]][o] # "none" /\ reply'[lockRole'[o]] = "Locked"
      BY <2>1, <1>0 DEF IInv, TypeOK, RolesGranted, Roles
    <3> QED  BY <3>1, <3>2 DEF RolesGranted
  <2> QED  BY <2>3, <2>4, <2>5 DEF IInv
<1>4. CASE ~granted
  <2>1. TypeOK'
    BY <1>0, <1>4 DEF IInv, TypeOK, Replies
  <2>2. RequestOnce' /\ HiddenUnlessPending'
    BY <1>0, <1>1, <1>4 DEF IInv, TypeOK, RequestOnce, HiddenUnlessPending
  <2>3. RolesGranted'
    BY <1>0, <1>1, <1>2, <1>4 DEF IInv, TypeOK, RolesGranted
  <2> QED  BY <2>1, <2>2, <2>3 DEF IInv
<1> QED  BY <1>3, <1>4

\* An output that was painted locked, or is gone, need not be waited for.
LEMMA RemoveFromPendingRepaintOK ==
  ASSUME IInv, NEW o \in Outputs, RemoveFromPendingRepaint(o),
         outputs' \subseteq outputs,
         \A x \in outputs' : shown'[x] = shown[x] \/ (x = o /\ (State # "Unlocked" => shown'[x] # "normal")),
         o \in outputs' /\ State # "Unlocked" => shown'[o] # "normal",
         UNCHANGED <<manager, live, timer>>
  PROVE  RequestOnce' /\ HiddenUnlessPending'
         /\ reply' \in [Locks -> Replies]
         /\ lockedOnce' \in [Locks -> BOOLEAN]
         /\ pending' \in [Locks -> SUBSET Outputs]
         /\ \A l \in Locks : reply[l] = "Locked" => reply'[l] = "Locked"
<1> USE NoLockAssumption
<1> USE DEF RemoveFromPendingRepaint, manager
<1>1. CASE State = "Locked" /\ ~lockedOnce[holder]
  <2>1. holder \in Locks /\ holder \in live /\ holder # NoLock /\ holder \notin timer
    BY <1>1 DEF State, IInv, TypeOK, RequestOnce
  <2>2. RequestOnce'
    BY <1>1, <2>1 DEF IInv, TypeOK, RequestOnce
  <2>3. HiddenUnlessPending'
    BY <1>1, <2>1 DEF IInv, TypeOK, HiddenUnlessPending
  <2>4. /\ reply' \in [Locks -> Replies]
        /\ lockedOnce' \in [Locks -> BOOLEAN]
        /\ pending' \in [Locks -> SUBSET Outputs]
        /\ \A l \in Locks : reply[l] = "Locked" => reply'[l] = "Locked"
    <3>1. lockedOnce' \in [Locks -> BOOLEAN]
      BY <1>1, <2>1 DEF IInv, TypeOK
    <3>2. pending' \in [Locks -> SUBSET Outputs]
      BY <1>1, <2>1 DEF IInv, TypeOK
    <3>3. reply' = [reply EXCEPT ![holder] = "Locked"] \/ reply' = reply
      BY <1>1
    <3>4. /\ reply' \in [Locks -> Replies]
          /\ \A l \in Locks : reply[l] = "Locked" => reply'[l] = "Locked"
      BY <2>1, <3>3 DEF IInv, TypeOK, Replies
    <3> QED  BY <3>1, <3>2, <3>4
  <2> QED  BY <2>2, <2>3, <2>4
<1>2. CASE ~(State = "Locked" /\ ~lockedOnce[holder])
  <2>1. UNCHANGED <<reply, lockedOnce, pending>>
    BY <1>2
  <2>2. holder # NoLock => State = "Locked" /\ lockedOnce[holder]
    BY <1>2 DEF State, IInv, RequestOnce
  <2>3. HiddenUnlessPending'
    BY <2>1, <2>2 DEF IInv, HiddenUnlessPending
  <2> QED  BY <2>1, <2>3 DEF IInv, TypeOK, RequestOnce
<1> QED  BY <1>1, <1>2

-----------------------------------------------------------------------------
(***************************************************************************)
(* The steps.                                                              *)
(***************************************************************************)

\* A new lock has no role and was told nothing.
LEMMA CreateLockOK == ASSUME IInv, NEW l \in Locks, CreateLock(l) PROVE IInv'
<1> USE NoLockAssumption
<1> USE DEF CreateLock, Finished, manager, surfVars, outVars
<1>1. l # holder
  BY DEF IInv, TypeOK
<1>2. mapped[l] = {} /\ \A o \in Outputs : lockRole[o] # l
  BY DEF IInv, TypeOK, RolesGranted, Roles
<1>3. /\ reply'[l] \in {"Finished", "Undefined"}
      /\ reply' \in [Locks -> Replies]
      /\ \A k \in Locks : k # l => reply'[k] = reply[k]
  BY DEF IInv, TypeOK, Replies
<1>4. timer \subseteq timer' /\ timer' \subseteq timer \cup {l}
  OBVIOUS
<1>5. TypeOK'
  BY <1>3, <1>4 DEF IInv, TypeOK
<1>6. RequestOnce'
  BY <1>1, <1>3, <1>4 DEF IInv, TypeOK, RequestOnce
<1>7. HiddenUnlessPending'
  BY DEF IInv, HiddenUnlessPending
<1>8. RolesGranted'
  BY <1>2, <1>3 DEF IInv, TypeOK, RolesGranted
<1> QED  BY <1>5, <1>6, <1>7, <1>8 DEF IInv

\* A lock that was not granted leaves nothing mapped.
LEMMA DestroyLockOK == ASSUME IInv, NEW l \in Locks, DestroyLock(l) PROVE IInv'
<1> USE NoLockAssumption
<1> USE DEF DestroyLock, Forget, surfVars, outVars
<1>1. TypeOK'
  BY DEF IInv, TypeOK
<1>2. RequestOnce'
  BY DEF IInv, TypeOK, RequestOnce
<1>3. HiddenUnlessPending'
  BY DEF IInv, TypeOK, HiddenUnlessPending
<1>4. RolesGranted'
  BY DEF IInv, RolesGranted
<1> QED  BY <1>1, <1>2, <1>3, <1>4 DEF IInv

\* The surfaces of the holder are unmapped with it.
LEMMA UnlockAndDestroyOK == ASSUME IInv, NEW l \in Locks, UnlockAndDestroy(l) PROVE IInv'
<1> USE NoLockAssumption
<1> USE DEF UnlockAndDestroy, Forget, Unmap, NoLockRoles, manager, outVars
<1>1. TypeOK'
  BY DEF IInv, TypeOK
<1>2. RequestOnce'
  BY DEF IInv, TypeOK, RequestOnce
<1>3. HiddenUnlessPending'
  BY DEF IInv, TypeOK, HiddenUnlessPending
<1>4. RolesGranted'
  BY DEF IInv, TypeOK, RolesGranted
<1> QED  BY <1>1, <1>2, <1>3, <1>4 DEF IInv

\* Nothing of a client that died is left but the locked session.
LEMMA ClientDiesOK == ASSUME IInv, NEW l \in Locks, ClientDies(l) PROVE IInv'
<1> USE NoLockAssumption
<1> USE DEF ClientDies, Forget, Unmap, outVars
<1>1. TypeOK'
  BY DEF IInv, TypeOK, SurfaceStates, Replies
<1>2. RequestOnce'
  BY DEF IInv, TypeOK, RequestOnce
<1>3. HiddenUnlessPending'
  BY DEF IInv, TypeOK, HiddenUnlessPending
<1>4. RolesGranted'
  BY DEF IInv, TypeOK, RolesGranted
<1> QED  BY <1>1, <1>2, <1>3, <1>4 DEF IInv

\* A new lock surface is not mapped.
LEMMA GetLockSurfaceOK ==
  ASSUME IInv, NEW l \in Locks, NEW o \in Outputs, GetLockSurface(l, o) PROVE IInv'
<1> USE DEF GetLockSurface, manager, lockVars, outVars
<1>1. /\ surface' \in [Locks -> [Outputs -> SurfaceStates]]
      /\ \A k \in Locks, x \in Outputs : surface[k][x] # "none" => surface'[k][x] # "none"
  BY DEF IInv, TypeOK, SurfaceStates
<1>2. TypeOK' /\ RequestOnce' /\ HiddenUnlessPending'
  BY <1>1 DEF IInv, TypeOK, RequestOnce, HiddenUnlessPending
<1>3. RolesGranted'
  BY <1>1 DEF IInv, TypeOK, RolesGranted
<1> QED  BY <1>2, <1>3 DEF IInv

\* A lock surface takes its mapping and its role with it.
LEMMA DestroyLockSurfaceOK ==
  ASSUME IInv, NEW l \in Locks, NEW o \in Outputs, DestroyLockSurface(l, o) PROVE IInv'
<1> USE NoLockAssumption
<1> USE DEF DestroyLockSurface, manager, lockVars, outVars
<1>1. surface' \in [Locks -> [Outputs -> SurfaceStates]]
  BY DEF IInv, TypeOK, SurfaceStates
<1>2. \A k \in Locks, x \in Outputs :
         surface[k][x] # "none" /\ (k # l \/ x # o) => surface'[k][x] # "none"
  BY DEF IInv, TypeOK
<1>3. TypeOK' /\ RequestOnce' /\ HiddenUnlessPending'
  BY <1>1 DEF IInv, TypeOK, RequestOnce, HiddenUnlessPending
<1>4. RolesGranted'
  <2>1. \A k \in Locks : \A x \in mapped'[k] :
          x \in Outputs /\ x \in mapped[k] /\ (k # l \/ x # o)
    BY DEF IInv, TypeOK
  <2>2. \A x \in Outputs : lockRole'[x] # NoLock =>
            lockRole'[x] = lockRole[x] /\ lockRole[x] \in Locks /\ (lockRole[x] # l \/ x # o)
    BY DEF IInv, TypeOK
  <2> QED  BY <1>2, <2>1, <2>2 DEF IInv, RolesGranted
<1> QED  BY <1>3, <1>4 DEF IInv

\* A commit maps its surface for a granted lock only, or asks for the lock.
LEMMA CommitLockSurfaceOK ==
  ASSUME IInv, NEW l \in Locks, NEW o \in Outputs, CommitLockSurface(l, o) PROVE IInv'
<1> USE NoLockAssumption
<1>1. /\ l \in live /\ surface[l][o] # "none"
      /\ surface' = [surface EXCEPT ![l][o] = "complete"]
      /\ UNCHANGED <<live, lockedOnce, outputs, shown>>
  BY DEF CommitLockSurface
<1>2. /\ surface' \in [Locks -> [Outputs -> SurfaceStates]]
      /\ \A k \in Locks, x \in Outputs : surface[k][x] # "none" <=> surface'[k][x] # "none"
  BY <1>1 DEF IInv, TypeOK, SurfaceStates
<1>3. CASE reply[l] = "Undefined" /\ \E granted \in BOOLEAN : MakeLockRequest(l, granted)
  BY <1>1, <1>2, <1>3, MakeLockRequestOK
<1>4. CASE /\ reply[l] = "Undefined" /\ Finished(l)
           /\ UNCHANGED <<manager, timer, pending, mapped, lockRole, repaint>>
  <2> USE DEF Finished, manager
  <2>1. TypeOK' /\ RequestOnce' /\ HiddenUnlessPending'
    BY <1>1, <1>2, <1>4 DEF IInv, TypeOK, RequestOnce, HiddenUnlessPending, Replies
  <2>2. RolesGranted'
    BY <1>2, <1>4 DEF IInv, TypeOK, RolesGranted
  <2> QED  BY <2>1, <2>2 DEF IInv
<1>5. CASE /\ reply[l] = "Locked"
           /\ lockRole' = [lockRole EXCEPT ![o] = l]
           /\ mapped' = [mapped EXCEPT ![l] = @ \cup {o}]
           /\ repaint' = repaint \cup {o}
           /\ UNCHANGED <<manager, reply, timer, pending>>
  <2> USE DEF manager
  <2>1. TypeOK' /\ RequestOnce' /\ HiddenUnlessPending'
    BY <1>1, <1>2, <1>5 DEF IInv, TypeOK, RequestOnce, HiddenUnlessPending
  <2>2. RolesGranted'
    BY <1>1, <1>2, <1>5 DEF IInv, TypeOK, RolesGranted
  <2> QED  BY <2>1, <2>2 DEF IInv
<1>6. CASE UNCHANGED <<manager, reply, timer, pending, mapped, lockRole, repaint>>
  <2> USE DEF manager
  <2>1. TypeOK' /\ RequestOnce' /\ HiddenUnlessPending'
    BY <1>1, <1>2, <1>6 DEF IInv, TypeOK, RequestOnce, HiddenUnlessPending
  <2>2. RolesGranted'
    BY <1>2, <1>6 DEF IInv, TypeOK, RolesGranted
  <2> QED  BY <2>1, <2>2 DEF IInv
<1> QED  BY <1>3, <1>4, <1>5, <1>6 DEF CommitLockSurface

\* The timer asks for the lock.
LEMMA TimeoutOK == ASSUME IInv, NEW l \in Locks, Timeout(l) PROVE IInv'
<1>1. l \in live /\ l \in timer
  BY DEF Timeout, IInv, TypeOK
<1>2. surface' = surface /\ surface' \in [Locks -> [Outputs -> SurfaceStates]]
  BY DEF Timeout, IInv, TypeOK
<1> QED  BY <1>1, <1>2, MakeLockRequestOK DEF Timeout

\* The session is unlocked, the holder finished and unmapped.
LEMMA ForceUnlockOK == ASSUME IInv, ForceUnlock PROVE IInv'
<1> USE NoLockAssumption
<1> USE DEF ForceUnlock, Unmap, NoLockRoles, Finished, outVars
<1>1. TypeOK'
  BY DEF IInv, TypeOK, Replies
<1>2. RequestOnce'
  BY DEF IInv, TypeOK, RequestOnce
<1>3. HiddenUnlessPending'
  BY DEF IInv, HiddenUnlessPending
<1>4. RolesGranted'
  BY DEF IInv, TypeOK, RolesGranted
<1> QED  BY <1>1, <1>2, <1>3, <1>4 DEF IInv

\* What is painted while the session is locked is not the normal content.
LEMMA PaintOK == ASSUME IInv, NEW o \in Outputs, Paint(o) PROVE IInv'
<1> USE DEF Paint, surfVars
<1>1. /\ outputs' = outputs
      /\ shown' \in [Outputs -> Shown]
      /\ \A x \in Outputs : x # o => shown'[x] = shown[x]
      /\ State # "Unlocked" => shown'[o] # "normal"
  BY DEF IInv, TypeOK, Shown
<1>2. /\ RequestOnce' /\ HiddenUnlessPending'
      /\ reply' \in [Locks -> Replies]
      /\ lockedOnce' \in [Locks -> BOOLEAN]
      /\ pending' \in [Locks -> SUBSET Outputs]
      /\ \A l \in Locks : reply[l] = "Locked" => reply'[l] = "Locked"
  BY <1>1, RemoveFromPendingRepaintOK DEF IInv, TypeOK
<1>3. TypeOK'
  BY <1>1, <1>2 DEF IInv, TypeOK, manager
<1>4. RolesGranted'
  BY <1>2 DEF IInv, TypeOK, RolesGranted
<1> QED  BY <1>2, <1>3, <1>4 DEF IInv

\* An output that comes back shows nothing yet.
LEMMA InitializeOK == ASSUME IInv, NEW o \in Outputs, Initialize(o) PROVE IInv'
<1> USE NoLockAssumption
<1> USE DEF Initialize, manager, lockVars
<1>1. TypeOK'
  BY DEF IInv, TypeOK, Shown
<1>2. RequestOnce'
  BY DEF IInv, RequestOnce
<1>3. HiddenUnlessPending'
  BY DEF IInv, TypeOK, HiddenUnlessPending
<1>4. RolesGranted'
  BY DEF IInv, TypeOK, RolesGranted
<1> QED  BY <1>1, <1>2, <1>3, <1>4 DEF IInv

\* An output that goes need not be waited for.
LEMMA UninitializeOK == ASSUME IInv, NEW o \in Outputs, Uninitialize(o) PROVE IInv'
<1> USE NoLockAssumption
<1> USE DEF Uninitialize
<1>1. /\ outputs' = outputs \ {o}
      /\ shown' \in [Outputs -> Shown]
      /\ \A x \in outputs' : shown'[x] = shown[x]
  BY DEF IInv, TypeOK, Shown
<1>2. /\ RequestOnce' /\ HiddenUnlessPending'
      /\ reply' \in [Locks -> Replies]
      /\ lockedOnce' \in [Locks -> BOOLEAN]
      /\ pending' \in [Locks -> SUBSET Outputs]
      /\ \A l \in Locks : reply[l] = "Locked" => reply'[l] = "Locked"
  BY <1>1, RemoveFromPendingRepaintOK DEF IInv, TypeOK
<1>3. TypeOK'
  BY <1>1, <1>2 DEF IInv, TypeOK, manager
<1>4. RolesGranted'
  BY <1>2 DEF IInv, TypeOK, RolesGranted
<1> QED  BY <1>2, <1>3, <1>4 DEF IInv

\* Every step preserves the invariant.
LEMMA NextIInv == IInv /\ [Next]_vars => IInv'
<1> SUFFICES ASSUME IInv, [Next]_vars PROVE IInv'
  OBVIOUS
<1>1. CASE Next
  BY <1>1, CreateLockOK, DestroyLockOK, UnlockAndDestroyOK, ClientDiesOK, TimeoutOK,
     GetLockSurfaceOK, DestroyLockSurfaceOK, CommitLockSurfaceOK, ForceUnlockOK,
     PaintOK, InitializeOK, UninitializeOK DEF Next
<1>2. CASE UNCHANGED vars
  <2> USE <1>2 DEF vars, manager, lockVars, surfVars, outVars
  <2>1. TypeOK' /\ RequestOnce' /\ HiddenUnlessPending'
    BY DEF IInv, TypeOK, RequestOnce, HiddenUnlessPending
  <2>2. RolesGranted'
    BY DEF IInv, RolesGranted
  <2> QED  BY <2>1, <2>2 DEF IInv
<1> QED  BY <1>1, <1>2

\* The timer of a lock stops when the lock is answered, granted or gone, and the
\* holder is told finished when it loses the session to no other lock.
LEMMA AnswerStays ==
  ASSUME IInv, [Next]_vars, NEW l \in live', l \in live => Told(l) \/ Expecting(l), ~Overtaken(l)
  PROVE  (Told(l) \/ Expecting(l))'
<1> USE NoLockAssumption DEF Told, Expecting, Overtaken, IInv, TypeOK
<1>1. ASSUME NEW k \in Locks,
             CreateLock(k) \/ DestroyLock(k) \/ UnlockAndDestroy(k) \/ ClientDies(k)
      PROVE  (Told(l) \/ Expecting(l))'
  BY <1>1 DEF CreateLock, DestroyLock, UnlockAndDestroy, ClientDies, Forget, Finished, manager
<1>2. ASSUME NEW k \in Locks, Timeout(k) PROVE (Told(l) \/ Expecting(l))'
  BY <1>2 DEF Timeout, MakeLockRequest, Finished, manager
<1>3. ASSUME NEW k \in Locks, NEW o \in Outputs,
             GetLockSurface(k, o) \/ DestroyLockSurface(k, o) \/ CommitLockSurface(k, o)
      PROVE  (Told(l) \/ Expecting(l))'
  <2>1. CASE GetLockSurface(k, o) \/ DestroyLockSurface(k, o)
    BY <2>1 DEF GetLockSurface, DestroyLockSurface, lockVars, manager
  <2>2. CASE CommitLockSurface(k, o)
    BY <2>2 DEF CommitLockSurface, MakeLockRequest, Finished, manager
  <2> QED  BY <1>3, <2>1, <2>2
<1>4. CASE ForceUnlock
  BY <1>4 DEF ForceUnlock, Finished
<1>5. ASSUME NEW o \in Outputs, Paint(o) \/ Initialize(o) \/ Uninitialize(o)
      PROVE  (Told(l) \/ Expecting(l))'
  BY <1>5 DEF Paint, Initialize, Uninitialize, RemoveFromPendingRepaint, State, lockVars, manager
<1>6. CASE UNCHANGED vars
  BY <1>6 DEF vars, lockVars, manager
<1> QED  BY <1>1, <1>2, <1>3, <1>4, <1>5, <1>6 DEF Next

-----------------------------------------------------------------------------
(***************************************************************************)
(* The theorems.                                                           *)
(***************************************************************************)

\* The inductive invariant holds in every reachable state.
THEOREM Invariance == Spec => []IInv
<1> QED  BY InitIInv, NextIInv, PTL DEF Spec

\* The manager and the timers only know locks that exist: LWeak and the
\* destructor of RSessionLock leave no dangling pointer.
THEOREM TypeCorrect == Spec => []TypeOK
<1>1. IInv => TypeOK
  BY DEF IInv
<1> QED  BY Invariance, <1>1, PTL

\* From the locked event on no output shows the normal content, for any number
\* of clients and outputs, plugged and unplugged at any moment.
THEOREM ContentHidden == Spec => []NormalContentHidden
<1>1. IInv => NormalContentHidden
  BY DEF IInv, HiddenUnlessPending, NormalContentHidden
<1> QED  BY Invariance, <1>1, PTL

\* Only the surfaces of a granted lock are displayed.
THEOREM Displayed == Spec => []DisplayedWhenGranted
<1>1. IInv => DisplayedWhenGranted
  BY DEF IInv, RolesGranted, DisplayedWhenGranted
<1> QED  BY Invariance, <1>1, PTL

\* No lock is forgotten before it is told locked or finished, for any number of
\* clients and outputs, but for a holder that another lock overtakes.
THEOREM Answered == Spec => AnswerComing
<1>1. ASSUME IInv, [Next]_vars
      PROVE  \A l \in live' : (l \in live => Told(l) \/ Expecting(l)) /\ ~Overtaken(l)
                              => (Told(l) \/ Expecting(l))'
  BY <1>1, AnswerStays
<1> QED  BY Invariance, <1>1, PTL DEF Spec, AnswerComing

\* Only forceUnlock() and the holder, once told locked, unlock the session.
THEOREM Unlocked == Spec => UnlockedByHolder
<1>1. [Next]_vars /\ lockState = "Locked" /\ lockState' = "Unlocked" =>
        ForceUnlock \/ (holder # NoLock /\ lockedOnce[holder] /\ UnlockAndDestroy(holder))
  <2> SUFFICES ASSUME [Next]_vars, lockState = "Locked", lockState' = "Unlocked", ~ForceUnlock
               PROVE  holder # NoLock /\ lockedOnce[holder] /\ UnlockAndDestroy(holder)
    OBVIOUS
  <2>1. PICK l \in Locks : UnlockAndDestroy(l)
    BY DEF Next, vars, manager, CreateLock, DestroyLock, ClientDies, Timeout, GetLockSurface,
       DestroyLockSurface, CommitLockSurface, Paint, Initialize, Uninitialize, MakeLockRequest
  <2>2. holder = l /\ lockedOnce[l]
    BY <2>1 DEF UnlockAndDestroy, manager
  <2> QED  BY <2>1, <2>2, NoLockAssumption
<1> QED  BY <1>1, PTL DEF Spec, UnlockedByHolder
=============================================================================

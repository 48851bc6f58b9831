----------------------------- MODULE SessionLock -----------------------------
(***************************************************************************)
(* The session lock: ext_session_lock_v1 objects of clients, their lock    *)
(* surfaces, LSessionLockManager and what the outputs show.                *)
(*                                                                         *)
(* Each lock is the only one of a client of its own.  The wl_output a lock *)
(* surface is made for belongs to an LOutput that may be uninitialized and *)
(* initialized again but is not deleted.  Every action holds the lock of   *)
(* the compositor from its beginning to its end, those of the render       *)
(* threads (Paint, Initialize, Uninitialize) included.                     *)
(***************************************************************************)
EXTENDS Naturals

CONSTANTS Locks,    \* the ext_session_lock_v1 objects (ids are reused)
          Outputs,  \* the LOutputs of the compositor
          NoLock    \* the null lock

ASSUME NoLockAssumption == NoLock \notin Locks

VARIABLES
  lockState,  \* LSessionLockManager::m_state
  holder,     \* LSessionLockManager::m_sessionLockRes
  live,       \* the RSessionLocks that exist
  reply,      \* RSessionLock::m_reply
  lockedOnce, \* RSessionLock::m_lockedOnce
  timer,      \* the 2 s timers that run
  pending,    \* RSessionLock::m_pendingRepaint
  surface,    \* the lock surface of a lock for an output, see SurfaceStates
  mapped,     \* is that surface mapped
  lockRole,   \* the lock whose surface LOutputPrivate::sessionLockRole is
  outputs,    \* the initialized outputs
  shown,      \* what was painted on an output since it was initialized
  repaint     \* the outputs that have asked for a repaint

manager   == <<lockState, holder>>
lockVars  == <<live, reply, lockedOnce, timer, pending>>
surfVars  == <<surface, mapped, lockRole>>
outVars   == <<outputs, shown, repaint>>
vars      == <<manager, lockVars, surfVars, outVars>>

SurfaceStates == {"none", "created", "complete"}
Replies       == {"Undefined", "Locked", "Finished"}
Shown         == {"nothing", "normal", "locked"}

\* LSessionLockManager::state
State == IF lockState = "Unlocked" THEN "Unlocked"
         ELSE IF holder = NoLock THEN "DeadLocked" ELSE "Locked"

Init ==
  /\ lockState = "Unlocked" /\ holder = NoLock
  /\ live = {} /\ timer = {}
  /\ reply = [l \in Locks |-> "Undefined"]
  /\ lockedOnce = [l \in Locks |-> FALSE]
  /\ pending = [l \in Locks |-> {}]
  /\ surface = [l \in Locks |-> [o \in Outputs |-> "none"]]
  /\ mapped = [l \in Locks |-> {}]
  /\ lockRole = [o \in Outputs |-> NoLock]
  /\ outputs = Outputs
  /\ shown = [o \in Outputs |-> "normal"]
  /\ repaint = {}

\* The outputs for which l has a lock surface.
Roles(l) == {o \in Outputs : surface[l][o] # "none"}

Unmap(l)    == mapped' = [mapped EXCEPT ![l] = {}]
NoLockRoles == lockRole' = [o \in Outputs |-> NoLock]

-----------------------------------------------------------------------------
(***************************************************************************)
(* The answer to a lock.                                                   *)
(***************************************************************************)

\* The lock is gone, its fields with it.
Forget(l) ==
  /\ live' = live \ {l} /\ timer' = timer \ {l}
  /\ lockedOnce' = [lockedOnce EXCEPT ![l] = FALSE]
  /\ pending' = [pending EXCEPT ![l] = {}]

Finished(l) == reply' = [reply EXCEPT ![l] = "Finished"]

\* Mutant: the outputs are not waited for.
MakeLockRequestNoWait(l, granted) ==
  /\ timer' = timer \ {l}
  /\ IF granted
     THEN /\ lockState' = "Locked" /\ holder' = l
          /\ reply' = [reply EXCEPT ![l] = "Locked"]
          /\ lockRole' = [o \in Outputs |-> IF o \in Roles(l) THEN l ELSE lockRole[o]]
          /\ mapped' = [mapped EXCEPT ![l] = Roles(l)]
          /\ repaint' = repaint \cup Roles(l)
          /\ UNCHANGED pending
     ELSE /\ Finished(l)
          /\ UNCHANGED <<manager, pending, mapped, lockRole, repaint>>

\* Mutant: the surfaces are mapped before the compositor is asked.
MakeLockRequestMapsFirst(l, granted) ==
  /\ timer' = timer \ {l}
  /\ mapped' = [mapped EXCEPT ![l] = Roles(l)]
  /\ IF granted
     THEN /\ lockState' = "Locked" /\ holder' = l
          /\ reply' = [reply EXCEPT ![l] = "Locked"]
          /\ lockRole' = [o \in Outputs |-> IF o \in Roles(l) THEN l ELSE lockRole[o]]
          /\ repaint' = repaint \cup Roles(l)
          /\ pending' = [pending EXCEPT ![l] = outputs]
     ELSE /\ Finished(l)
          /\ UNCHANGED <<manager, pending, lockRole, repaint>>

\* RSessionLock::makeLockRequest; granted is what lockRequest() returns.
MakeLockRequest(l, granted) ==
  /\ timer' = timer \ {l}
  /\ IF granted
     THEN /\ lockState' = "Locked" /\ holder' = l
          /\ reply' = [reply EXCEPT ![l] = "Locked"]
          /\ lockRole' = [o \in Outputs |-> IF o \in Roles(l) THEN l ELSE lockRole[o]]
          /\ mapped' = [mapped EXCEPT ![l] = Roles(l)]
          /\ repaint' = repaint \cup Roles(l)
          /\ pending' = [pending EXCEPT ![l] = outputs]
     ELSE /\ Finished(l)
          /\ UNCHANGED <<manager, pending, mapped, lockRole, repaint>>

\* LOutputPrivate::removeFromSessionLockPendingRepaint and locked()
RemoveFromPendingRepaint(o) ==
  IF State = "Locked" /\ ~lockedOnce[holder]
  THEN LET left == pending[holder] \ {o} IN
       /\ pending' = [pending EXCEPT ![holder] = left]
       /\ lockedOnce' = [lockedOnce EXCEPT ![holder] = @ \/ left = {}]
       /\ reply' = IF left = {} THEN [reply EXCEPT ![holder] = "Locked"] ELSE reply
  ELSE UNCHANGED <<pending, lockedOnce, reply>>

-----------------------------------------------------------------------------
(***************************************************************************)
(* The requests of the clients.                                            *)
(***************************************************************************)

\* GSessionLockManager::lock
CreateLock(l) ==
  /\ l \notin live /\ Roles(l) = {}
  /\ live' = live \cup {l}
  /\ IF State = "Locked"
     THEN Finished(l) /\ UNCHANGED timer
     ELSE reply' = [reply EXCEPT ![l] = "Undefined"] /\ timer' = timer \cup {l}
  /\ UNCHANGED <<manager, lockedOnce, pending, surfVars, outVars>>

\* RSessionLock::destroy; the lock surfaces outlive the lock.
DestroyLock(l) ==
  /\ l \in live /\ reply[l] # "Locked"
  /\ Forget(l)
  /\ holder' = IF holder = l THEN NoLock ELSE holder
  /\ UNCHANGED <<lockState, reply, surfVars, outVars>>

\* RSessionLock::unlock_and_destroy
UnlockAndDestroy(l) ==
  /\ l \in live /\ lockedOnce[l]
  /\ Forget(l)
  /\ IF holder = l
     THEN lockState' = "Unlocked" /\ holder' = NoLock /\ Unmap(l) /\ NoLockRoles
     ELSE UNCHANGED <<manager, mapped, lockRole>>
  /\ UNCHANGED <<reply, surface, outVars>>

\* Mutant: the session of a client that dies is unlocked.
ClientDiesUnlocks(l) ==
  /\ l \in live \/ Roles(l) # {}
  /\ Forget(l)
  /\ holder' = IF holder = l THEN NoLock ELSE holder
  /\ lockState' = IF holder = l THEN "Unlocked" ELSE lockState
  /\ surface' = [surface EXCEPT ![l] = [o \in Outputs |-> "none"]]
  /\ Unmap(l)
  /\ lockRole' = [o \in Outputs |-> IF lockRole[o] = l THEN NoLock ELSE lockRole[o]]
  /\ reply' = [reply EXCEPT ![l] = "Undefined"]
  /\ UNCHANGED outVars

\* The client disconnects or breaks the protocol: its resources are destroyed.
ClientDies(l) ==
  /\ l \in live \/ Roles(l) # {}
  /\ Forget(l)
  /\ holder' = IF holder = l THEN NoLock ELSE holder
  /\ surface' = [surface EXCEPT ![l] = [o \in Outputs |-> "none"]]
  /\ Unmap(l)
  /\ lockRole' = [o \in Outputs |-> IF lockRole[o] = l THEN NoLock ELSE lockRole[o]]
  /\ reply' = [reply EXCEPT ![l] = "Undefined"]
  /\ UNCHANGED <<lockState, outVars>>

\* RSessionLock::get_lock_surface
GetLockSurface(l, o) ==
  /\ l \in live /\ surface[l][o] = "none"
  /\ surface' = [surface EXCEPT ![l][o] = "created"]
  /\ UNCHANGED <<manager, lockVars, mapped, lockRole, outVars>>

\* ~RSessionLockSurface
DestroyLockSurface(l, o) ==
  /\ surface[l][o] # "none"
  /\ surface' = [surface EXCEPT ![l][o] = "none"]
  /\ mapped' = [mapped EXCEPT ![l] = @ \ {o}]
  /\ lockRole' = [lockRole EXCEPT ![o] = IF @ = l THEN NoLock ELSE @]
  /\ UNCHANGED <<manager, lockVars, outVars>>

\* Is there a complete surface for each output, o being complete by now?
Covered(l, o) == \A x \in outputs : x = o \/ surface[l][x] = "complete"

\* Mutant: the timer is stopped by the first commit.
CommitLockSurfaceStopsTimer(l, o) ==
  /\ l \in live /\ surface[l][o] # "none"
  /\ surface' = [surface EXCEPT ![l][o] = "complete"]
  /\ timer' = timer \ {l}
  /\ UNCHANGED <<manager, live, reply, lockedOnce, pending, mapped, lockRole, outVars>>

\* LSessionLockRole::handleSurfaceCommit of a surface with a buffer of the size
\* that was acknowledged.  A surface that is not complete, of an output that is
\* not initialized, stops the search only when it comes before the last one the
\* search looks for.
CommitLockSurface(l, o) ==
  /\ l \in live /\ surface[l][o] # "none"
  /\ surface' = [surface EXCEPT ![l][o] = "complete"]
  /\ \/ /\ reply[l] = "Undefined" /\ State = "Locked"
        /\ Finished(l)
        /\ UNCHANGED <<manager, timer, pending, mapped, lockRole, repaint>>
     \/ /\ reply[l] = "Undefined" /\ State # "Locked" /\ Covered(l, o)
        /\ \E granted \in BOOLEAN : MakeLockRequest(l, granted)
     \/ /\ reply[l] = "Undefined" /\ State # "Locked" /\ outputs # {}
        /\ \E x \in outputs \cup Roles(l) : x # o /\ surface[l][x] # "complete"
        /\ UNCHANGED <<manager, reply, timer, pending, mapped, lockRole, repaint>>
     \/ /\ reply[l] = "Locked" /\ o \in outputs
        /\ lockRole' = [lockRole EXCEPT ![o] = l]
        /\ mapped' = [mapped EXCEPT ![l] = @ \cup {o}]
        /\ repaint' = repaint \cup {o}
        /\ UNCHANGED <<manager, reply, timer, pending>>
     \/ /\ reply[l] = "Finished" \/ (reply[l] = "Locked" /\ o \notin outputs)
        /\ UNCHANGED <<manager, reply, timer, pending, mapped, lockRole, repaint>>
  /\ UNCHANGED <<live, lockedOnce, outputs, shown>>

-----------------------------------------------------------------------------
(***************************************************************************)
(* The compositor.                                                         *)
(***************************************************************************)

\* The timer of RSessionLock::RSessionLock.
Timeout(l) ==
  /\ l \in timer
  /\ \E granted \in BOOLEAN : MakeLockRequest(l, granted)
  /\ UNCHANGED <<live, lockedOnce, surface, outputs, shown>>

\* LSessionLockManager::forceUnlock
ForceUnlock ==
  /\ State # "Unlocked"
  /\ lockState' = "Unlocked" /\ holder' = NoLock
  /\ IF holder # NoLock
     THEN Unmap(holder) /\ NoLockRoles /\ Finished(holder)
     ELSE UNCHANGED <<mapped, lockRole, reply>>
  /\ UNCHANGED <<live, lockedOnce, timer, pending, surface, outVars>>

\* LOutputPrivate::backendPaintGL, with what LScene and LOutput paint.
Paint(o) ==
  /\ o \in outputs
  /\ shown' = [shown EXCEPT ![o] = IF State = "Unlocked" THEN "normal" ELSE "locked"]
  /\ repaint' = repaint \ {o}
  /\ RemoveFromPendingRepaint(o)
  /\ UNCHANGED <<manager, live, timer, surfVars, outputs>>

\* LOutputPrivate::backendInitializeGL
Initialize(o) ==
  /\ o \notin outputs
  /\ outputs' = outputs \cup {o}
  /\ shown' = [shown EXCEPT ![o] = "nothing"]
  /\ repaint' = repaint \cup {o}
  /\ mapped' = IF lockRole[o] = NoLock THEN mapped
               ELSE [mapped EXCEPT ![lockRole[o]] = @ \cup {o}]
  /\ UNCHANGED <<manager, lockVars, surface, lockRole>>

\* LOutputPrivate::backendUninitializeGL
Uninitialize(o) ==
  /\ o \in outputs
  /\ outputs' = outputs \ {o}
  /\ shown' = [shown EXCEPT ![o] = "nothing"]
  /\ repaint' = repaint \ {o}
  /\ mapped' = IF lockRole[o] = NoLock THEN mapped
               ELSE [mapped EXCEPT ![lockRole[o]] = @ \ {o}]
  /\ RemoveFromPendingRepaint(o)
  /\ UNCHANGED <<manager, live, timer, surface, lockRole>>

Next ==
  \/ \E l \in Locks :
       \/ CreateLock(l) \/ DestroyLock(l) \/ UnlockAndDestroy(l) \/ ClientDies(l)
       \/ Timeout(l)
       \/ \E o \in Outputs : GetLockSurface(l, o) \/ DestroyLockSurface(l, o)
                               \/ CommitLockSurface(l, o)
  \/ ForceUnlock
  \/ \E o \in Outputs : Paint(o) \/ Initialize(o) \/ Uninitialize(o)

Spec == Init /\ [][Next]_vars

\* Timers fire, and an output that has asked for a repaint is painted.
FairSpec ==
  /\ Spec
  /\ \A l \in Locks : WF_vars(Timeout(l))
  /\ \A o \in Outputs : WF_vars(o \in repaint /\ Paint(o))
-----------------------------------------------------------------------------
(***************************************************************************)
(* Properties.                                                             *)
(***************************************************************************)

\* Types; the reference of the manager to a lock and the timers never outlive
\* the lock.
TypeOK ==
  /\ lockState \in {"Unlocked", "Locked"}
  /\ holder \in live \cup {NoLock}
  /\ live \subseteq Locks /\ timer \subseteq live
  /\ reply \in [Locks -> Replies]
  /\ lockedOnce \in [Locks -> BOOLEAN]
  /\ pending \in [Locks -> SUBSET Outputs]
  /\ surface \in [Locks -> [Outputs -> SurfaceStates]]
  /\ mapped \in [Locks -> SUBSET Outputs]
  /\ lockRole \in [Outputs -> Locks \cup {NoLock}]
  /\ outputs \subseteq Outputs
  /\ shown \in [Outputs -> Shown]
  /\ repaint \subseteq Outputs

\* ext_session_lock_v1.locked is only sent when no output shows the content of
\* the unlocked session any more, whatever was plugged and unplugged meanwhile,
\* and no output shows it again while the client holds the lock.
NormalContentHidden ==
  holder # NoLock /\ lockedOnce[holder] => \A o \in outputs : shown[o] # "normal"

\* A lock surface is displayed only for a lock that was granted.
DisplayedWhenGranted ==
  \A l \in Locks : mapped[l] # {} => reply[l] = "Locked"

\* The session is only unlocked by the compositor, or by the client that holds
\* the lock and was told so: not by the death of a client or by another lock.
UnlockedByHolder ==
  [][lockState = "Locked" /\ lockState' = "Unlocked" =>
       ForceUnlock \/ (holder # NoLock /\ lockedOnce[holder] /\ UnlockAndDestroy(holder))]_vars

\* The events a lock is sent, and what makes one of them come: the timer asks for
\* the lock, and the holder is told locked when the outputs have been painted.
Told(l)      == lockedOnce[l] \/ reply[l] = "Finished"
Expecting(l) == l \in timer \/ holder = l

\* The lock of another client is granted while l holds the session.
Overtaken(l) == holder = l /\ holder' \notin {l, NoLock}

\* A lock that is new, or that was told or expected an answer, has been told
\* locked or finished or expects it after every step, whatever its client, the
\* other clients and the outputs do; only the grant of another lock makes the
\* holder lose the answer (LocksAnswered below).
AnswerComing ==
  [][\A l \in live' :
       (l \in live => Told(l) \/ Expecting(l)) /\ ~Overtaken(l)
         => (Told(l) \/ Expecting(l))']_vars

-----------------------------------------------------------------------------
(***************************************************************************)
(* What the documentation says, and the code does not do: see README.md,   *)
(* section 5.                                                              *)
(***************************************************************************)

\* LSessionLockManager.h, lockRequest(): "This method is only invoked when the
\* session state is Unlocked or DeadLocked."  The timer of a lock made before
\* the session was locked does not look at the state.
AskedWhenFree ==
  [][\A l \in Locks : Timeout(l) => State # "Locked"]_vars

\* ext_session_lock_v1: "In response to the creation of this object the
\* compositor must send either the locked or finished event."  A lock that is
\* granted is told so when the outputs have been painted, and the timer of
\* another lock, which does not look at the state, may take the session before.
LocksAnswered == \A l \in live : Told(l) \/ Expecting(l)

\* ext_session_lock_v1: the compositor must "send the locked event as soon as
\* the hard requirements described above can be met if the time limit expires".
\* The outputs with no lock surface are not asked to repaint.
LockedIsSent ==
  \A l \in Locks : holder = l ~> holder # l \/ lockedOnce[l]
=============================================================================

------------------------- MODULE OutputRenderProofs -------------------------
(***************************************************************************)
(* PaintExclusive and NoLockNeeded, for any number of outputs.             *)
(***************************************************************************)
EXTENDS OutputRender, TLAPS

Waiting == main \in {"waitACK", "lock", "backend"}
Takes == main \in {"storeACK", "storeCallLock", "waitACK", "lock", "backend"}
Taking(o) == Takes /\ o = target

\* What the threads have to do with the lock and the main thread.
ThreadInv ==
  /\ \A o \in Outputs : pc[o] \in {"lock", "filter", "relock"} => useLock[o]
  /\ \A o \in Outputs : callLock[o] <=> ~(Waiting /\ o = target)
  /\ \A o \in Outputs : asked[o] # "nothing" =>
       main = "backend" /\ o = target /\ (asked[o] = "uninitialize" <=> work = "remove")
  /\ \A o \in Outputs : pc[o] \in {"ackGL", "GL"} => asked[o] # "nothing" /\ ~useLock[o]

\* The states of the outputs, the one the main thread is taking and the others.
StateInv ==
  /\ \A o \in Outputs : ~Taking(o) => state[o] = IF o \in outputs THEN "Initialized" ELSE "Uninitialized"
  /\ Takes =>
       /\ work = "remove" => state[target] = "PendingUninitialize"
                             \/ (main = "backend" /\ state[target] = "Uninitialized")
       /\ work = "mode" => target \in Moded /\ target \in outputs
                           /\ (state[target] = "ChangingMode"
                               \/ (main = "backend" /\ state[target] = "Initialized"))
  /\ \A o \in Outputs : state[o] = "Uninitialized" =>
       pc[o] = "idle" /\ o \notin requested /\ asked[o] = "nothing"

\* An output that has one mode is not painted without the lock.
LockedInv ==
  \A o \in Outputs \ Moded :
    /\ pc[o] = "paint" => useLock[o]
    /\ pc[o] \in {"ack", "check"} /\ ~useLock[o] => state[o] # "Initialized"

\* The acknowledgement says that the thread will not wait for the lock.
AckInv ==
  /\ main \in {"storeCallLock", "waitACK"} /\ callLockACK[target] =>
       pc[target] \notin {"lock", "filter", "relock"}
  /\ main \in {"lock", "backend"} =>
       /\ pc[target] \notin {"lock", "filter", "relock"}
       /\ pc[target] \in {"ack", "check"} /\ useLock[target] => state[target] # "Initialized"

\* The inductive invariant.
IInv == TypeOK /\ ThreadInv /\ StateInv /\ LockedInv /\ AckInv

-----------------------------------------------------------------------------

USE DEF Takes, Taking, Waiting

\* The invariant holds when the outputs have just been initialized.
LEMMA InitIInv == Init => IInv
<1> SUFFICES ASSUME Init PROVE IInv
  OBVIOUS
<1> USE OutputsAssumption DEF Init
<1>1. TypeOK
  BY DEF TypeOK, States, Asks, Places, MainPlaces
<1>2. ThreadInv /\ StateInv
  BY DEF ThreadInv, StateInv
<1>3. LockedInv /\ AckInv
  BY DEF LockedInv, AckInv
<1> QED  BY <1>1, <1>2, <1>3 DEF IInv

-----------------------------------------------------------------------------
(***************************************************************************)
(* The steps of the render threads.                                        *)
(***************************************************************************)

\* A paint begins with the callLock of its output.
LEMMA PaintLoadOK == ASSUME IInv, NEW o \in Outputs, PaintLoad(o) PROVE IInv'
<1> USE OutputsAssumption DEF PaintLoad, Set, Goto, shake, flags, mainVars
<1>1. TypeOK'
  BY DEF IInv, TypeOK, ThreadInv, States, Asks, Places, MainPlaces
<1>2. ThreadInv'
  BY DEF IInv, TypeOK, ThreadInv
<1>3. StateInv'
  BY DEF IInv, TypeOK, ThreadInv, StateInv, States
<1>4. LockedInv'
  BY DEF IInv, TypeOK, ThreadInv, StateInv, LockedInv
<1>5. AckInv'
  BY DEF IInv, TypeOK, ThreadInv, StateInv, AckInv
<1> QED  BY <1>1, <1>2, <1>3, <1>4, <1>5 DEF IInv

\* The acknowledgement of a thread that will take no lock.
LEMMA PaintAckOK == ASSUME IInv, NEW o \in Outputs, PaintAck(o) PROVE IInv'
<1> USE OutputsAssumption DEF PaintAck, Set, Goto, flags, backend, mainVars
<1>1. TypeOK'
  BY DEF IInv, TypeOK, ThreadInv, States, Asks, Places, MainPlaces
<1>2. ThreadInv'
  BY DEF IInv, TypeOK, ThreadInv
<1>3. StateInv'
  BY DEF IInv, TypeOK, ThreadInv, StateInv, States
<1>4. LockedInv'
  BY DEF IInv, TypeOK, ThreadInv, StateInv, LockedInv
<1>5. AckInv'
  BY DEF IInv, TypeOK, ThreadInv, StateInv, AckInv
<1> QED  BY <1>1, <1>2, <1>3, <1>4, <1>5 DEF IInv

\* Only a thread that found its output initialized goes on.
LEMMA PaintCheckOK == ASSUME IInv, NEW o \in Outputs, PaintCheck(o) PROVE IInv'
<1> USE OutputsAssumption DEF PaintCheck, Set, Goto, shake, backend, mainVars
<1>1. TypeOK'
  <2>1. /\ pc' \in [Outputs -> Places] /\ pendingRepaint' \in [Outputs -> BOOLEAN]
        /\ \A x \in Outputs : x # o => pc'[x] = pc[x]
        /\ pc'[o] = "paint" => ~useLock[o]
    BY DEF IInv, TypeOK, Places
  <2> QED  BY <2>1 DEF IInv, TypeOK
<1>2. ThreadInv'
  BY DEF IInv, TypeOK, ThreadInv
<1>3. StateInv'
  BY DEF IInv, TypeOK, ThreadInv, StateInv, States
<1>4. LockedInv'
  BY DEF IInv, TypeOK, ThreadInv, StateInv, LockedInv
<1>5. AckInv'
  BY DEF IInv, TypeOK, ThreadInv, StateInv, AckInv
<1> QED  BY <1>1, <1>2, <1>3, <1>4, <1>5 DEF IInv

\* A thread takes the mutex only when nobody has it.
LEMMA PaintLockOK == ASSUME IInv, NEW o \in Outputs, PaintLock(o) PROVE IInv'
<1> USE OutputsAssumption DEF PaintLock, Set, Goto, shake, backend, mainVars
<1>1. TypeOK'
  <2>1. CASE repaintLocked[o]
    BY <2>1 DEF IInv, TypeOK, Places
  <2>2. CASE ~repaintLocked[o]
    <3>1. useLock[o] /\ main \notin {"run", "storeACK", "storeCallLock", "backend"}
      BY DEF IInv, TypeOK, ThreadInv
    <3>2. /\ pc' = [pc EXCEPT ![o] = "paint"] /\ renderMutex' = o
          /\ pc' \in [Outputs -> Places] /\ pendingRepaint' \in [Outputs -> BOOLEAN]
      BY <2>2 DEF IInv, TypeOK, Places
    <3> QED  BY <3>1, <3>2 DEF IInv, TypeOK
  <2> QED  BY <2>1, <2>2
<1>2. ThreadInv'
  BY DEF IInv, TypeOK, ThreadInv
<1>3. StateInv'
  BY DEF IInv, TypeOK, ThreadInv, StateInv, States
<1>4. LockedInv'
  BY DEF IInv, TypeOK, ThreadInv, StateInv, LockedInv
<1>5. AckInv'
  BY DEF IInv, TypeOK, ThreadInv, StateInv, AckInv
<1> QED  BY <1>1, <1>2, <1>3, <1>4, <1>5 DEF IInv

\* The filter lets a thread through, which has no lock then.
LEMMA PaintFilterOK == ASSUME IInv, NEW o \in Outputs, PaintFilter(o) PROVE IInv'
<1> USE OutputsAssumption DEF PaintFilter, Goto, shake, flags, backend, mainVars
<1>1. TypeOK'
  BY DEF IInv, TypeOK, ThreadInv, States, Asks, Places, MainPlaces
<1>2. ThreadInv'
  BY DEF IInv, TypeOK, ThreadInv
<1>3. StateInv'
  BY DEF IInv, TypeOK, ThreadInv, StateInv, States
<1>4. LockedInv'
  BY DEF IInv, TypeOK, ThreadInv, StateInv, LockedInv
<1>5. AckInv'
  BY DEF IInv, TypeOK, ThreadInv, StateInv, AckInv
<1> QED  BY <1>1, <1>2, <1>3, <1>4, <1>5 DEF IInv

\* The mutex is taken again after the filter.
LEMMA PaintRelockOK == ASSUME IInv, NEW o \in Outputs, PaintRelock(o) PROVE IInv'
<1> USE OutputsAssumption DEF PaintRelock, Goto, shake, backend, mainVars
<1>1. TypeOK'
  BY DEF IInv, TypeOK, ThreadInv, States, Asks, Places, MainPlaces
<1>2. ThreadInv'
  BY DEF IInv, TypeOK, ThreadInv
<1>3. StateInv'
  BY DEF IInv, TypeOK, ThreadInv, StateInv, States
<1>4. LockedInv'
  BY DEF IInv, TypeOK, ThreadInv, StateInv, LockedInv
<1>5. AckInv'
  BY DEF IInv, TypeOK, ThreadInv, StateInv, AckInv
<1> QED  BY <1>1, <1>2, <1>3, <1>4, <1>5 DEF IInv

\* The mutex is released by the thread that took it.
LEMMA PaintDoneOK == ASSUME IInv, NEW o \in Outputs, PaintDone(o) PROVE IInv'
<1> USE OutputsAssumption DEF PaintDone, Goto, shake, mainVars, Repaint, RequestPaint, Filters
<1>1. TypeOK'
  <2>1. /\ pendingRepaint' \in [Outputs -> BOOLEAN] /\ pollUnlocked' \in BOOLEAN
        /\ requested' \subseteq Outputs /\ pc' \in [Outputs -> Places]
    BY DEF IInv, TypeOK, Places
  <2>2. /\ renderMutex' \in Outputs \cup {Main, NoThread}
        /\ renderMutex' = Main <=> main' \in {"run", "storeACK", "storeCallLock", "backend"}
        /\ \A x \in Outputs : renderMutex' = x <=> pc'[x] = "paint" /\ useLock'[x]
    BY DEF IInv, TypeOK
  <2> QED  BY <2>1, <2>2 DEF IInv, TypeOK
<1>2. ThreadInv'
  BY DEF IInv, TypeOK, ThreadInv
<1>3. StateInv'
  BY DEF IInv, TypeOK, ThreadInv, StateInv, States
<1>4. LockedInv'
  BY DEF IInv, TypeOK, ThreadInv, StateInv, LockedInv
<1>5. AckInv'
  BY DEF IInv, TypeOK, ThreadInv, StateInv, AckInv
<1> QED  BY <1>1, <1>2, <1>3, <1>4, <1>5 DEF IInv

\* The other callbacks run while callLock is false.
LEMMA CallbackLoadOK == ASSUME IInv, NEW o \in Outputs, CallbackLoad(o) PROVE IInv'
<1> USE OutputsAssumption DEF CallbackLoad, Set, Goto, shake, flags, backend, mainVars
<1>1. TypeOK'
  BY DEF IInv, TypeOK, ThreadInv, States, Asks, Places, MainPlaces
<1>2. ThreadInv'
  BY DEF IInv, TypeOK, ThreadInv
<1>3. StateInv'
  BY DEF IInv, TypeOK, ThreadInv, StateInv, States
<1>4. LockedInv'
  BY DEF IInv, TypeOK, ThreadInv, StateInv, LockedInv
<1>5. AckInv'
  BY DEF IInv, TypeOK, ThreadInv, StateInv, AckInv
<1> QED  BY <1>1, <1>2, <1>3, <1>4, <1>5 DEF IInv

\* The callbacks find the state the main thread left, and keep asked consistent.
LEMMA CallbackCheckOK == ASSUME IInv, NEW o \in Outputs, CallbackCheck(o) PROVE IInv'
<1> USE OutputsAssumption DEF CallbackCheck, Set, Goto, Before, flags, mainVars
<1>1. TypeOK'
  BY DEF IInv, TypeOK, ThreadInv, States, Asks, Places, MainPlaces
<1>2. ThreadInv'
  BY DEF IInv, TypeOK, ThreadInv
<1>3. StateInv'
  BY DEF IInv, TypeOK, ThreadInv, StateInv, States
<1>4. LockedInv'
  BY DEF IInv, TypeOK, ThreadInv, StateInv, LockedInv
<1>5. AckInv'
  BY DEF IInv, TypeOK, ThreadInv, StateInv, AckInv
<1> QED  BY <1>1, <1>2, <1>3, <1>4, <1>5 DEF IInv

\* An uninitialized output has no paint left.
LEMMA CallbackDoneOK == ASSUME IInv, NEW o \in Outputs, CallbackDone(o) PROVE IInv'
<1> USE OutputsAssumption DEF CallbackDone, Set, Goto, shake, mainVars, Repaint
<1>1. TypeOK'
  BY DEF IInv, TypeOK, ThreadInv, States, Asks, Places, MainPlaces
<1>2. ThreadInv'
  BY DEF IInv, TypeOK, ThreadInv
<1>3. StateInv'
  BY DEF IInv, TypeOK, ThreadInv, StateInv, States
<1>4. LockedInv'
  BY DEF IInv, TypeOK, ThreadInv, StateInv, LockedInv
<1>5. AckInv'
  BY DEF IInv, TypeOK, ThreadInv, StateInv, AckInv
<1> QED  BY <1>1, <1>2, <1>3, <1>4, <1>5 DEF IInv

-----------------------------------------------------------------------------
(***************************************************************************)
(* The steps of the main thread.                                           *)
(***************************************************************************)

\* The main thread takes the mutex only when nobody has it.
LEMMA MainWakesOK == ASSUME IInv, MainWakes PROVE IInv'
<1> USE OutputsAssumption DEF MainWakes, shake, backend, thread
<1>1. TypeOK'
  BY DEF IInv, TypeOK, ThreadInv, States, Asks, Places, MainPlaces
<1>2. ThreadInv'
  BY DEF IInv, TypeOK, ThreadInv
<1>3. StateInv'
  BY DEF IInv, TypeOK, ThreadInv, StateInv, States
<1>4. LockedInv'
  BY DEF IInv, TypeOK, ThreadInv, StateInv, LockedInv
<1>5. AckInv'
  BY DEF IInv, TypeOK, ThreadInv, StateInv, AckInv
<1> QED  BY <1>1, <1>2, <1>3, <1>4, <1>5 DEF IInv

\* A request for a repaint touches flags only.
LEMMA MainRepaintOK == ASSUME IInv, NEW o \in Outputs, MainRepaint(o) PROVE IInv'
<1> USE OutputsAssumption DEF MainRepaint, shake, backend, thread, mainVars, Repaint
<1>1. TypeOK'
  BY DEF IInv, TypeOK, ThreadInv, States, Asks, Places, MainPlaces
<1>2. ThreadInv'
  BY DEF IInv, TypeOK, ThreadInv
<1>3. StateInv'
  BY DEF IInv, TypeOK, ThreadInv, StateInv, States
<1>4. LockedInv'
  BY DEF IInv, TypeOK, ThreadInv, StateInv, LockedInv
<1>5. AckInv'
  BY DEF IInv, TypeOK, ThreadInv, StateInv, AckInv
<1> QED  BY <1>1, <1>2, <1>3, <1>4, <1>5 DEF IInv

\* An output that is added was uninitialized, its thread idle.
LEMMA AddOutputOK == ASSUME IInv, NEW o \in Outputs, AddOutput(o) PROVE IInv'
<1> USE OutputsAssumption DEF AddOutput, Set, shake, backend, thread, mainVars, Repaint
<1>1. TypeOK'
  BY DEF IInv, TypeOK, ThreadInv, States, Asks, Places, MainPlaces
<1>2. ThreadInv'
  BY DEF IInv, TypeOK, ThreadInv
<1>3. StateInv'
  BY DEF IInv, TypeOK, ThreadInv, StateInv, States
<1>4. LockedInv'
  BY DEF IInv, TypeOK, ThreadInv, StateInv, LockedInv
<1>5. AckInv'
  BY DEF IInv, TypeOK, ThreadInv, StateInv, AckInv
<1> QED  BY <1>1, <1>2, <1>3, <1>4, <1>5 DEF IInv

\* The target leaves the initialized state before callLock changes.
LEMMA TakeOutputOK == ASSUME IInv, NEW o \in Outputs, TakeOutput(o) PROVE IInv'
<1> USE OutputsAssumption DEF TakeOutput, Set, shake, flags, backend, thread
<1>1. TypeOK'
  BY DEF IInv, TypeOK, ThreadInv, States, Asks, Places, MainPlaces
<1>2. ThreadInv'
  BY DEF IInv, TypeOK, ThreadInv
<1>3. StateInv'
  BY DEF IInv, TypeOK, ThreadInv, StateInv, States
<1>4. LockedInv'
  BY DEF IInv, TypeOK, ThreadInv, StateInv, LockedInv
<1>5. AckInv'
  BY DEF IInv, TypeOK, ThreadInv, StateInv, AckInv
<1> QED  BY <1>1, <1>2, <1>3, <1>4, <1>5 DEF IInv

\* The old acknowledgement is forgotten.
LEMMA StoreACKOK == ASSUME IInv, StoreACK PROVE IInv'
<1> USE OutputsAssumption DEF StoreACK, Set, flags, backend, thread
<1>1. TypeOK'
  BY DEF IInv, TypeOK, ThreadInv, States, Asks, Places, MainPlaces
<1>2. ThreadInv'
  BY DEF IInv, TypeOK, ThreadInv
<1>3. StateInv'
  BY DEF IInv, TypeOK, ThreadInv, StateInv, States
<1>4. LockedInv'
  BY DEF IInv, TypeOK, ThreadInv, StateInv, LockedInv
<1>5. AckInv'
  BY DEF IInv, TypeOK, ThreadInv, StateInv, AckInv
<1> QED  BY <1>1, <1>2, <1>3, <1>4, <1>5 DEF IInv

\* From now on a paint of the target begins with callLock = false.
LEMMA StoreCallLockOK == ASSUME IInv, StoreCallLock PROVE IInv'
<1> USE OutputsAssumption DEF StoreCallLock, Set, RequestPaint, thread
<1>1. TypeOK'
  BY DEF IInv, TypeOK, ThreadInv, States, Asks, Places, MainPlaces
<1>2. ThreadInv'
  BY DEF IInv, TypeOK, ThreadInv
<1>3. StateInv'
  BY DEF IInv, TypeOK, ThreadInv, StateInv, States
<1>4. LockedInv'
  BY DEF IInv, TypeOK, ThreadInv, StateInv, LockedInv
<1>5. AckInv'
  BY DEF IInv, TypeOK, ThreadInv, StateInv, AckInv
<1> QED  BY <1>1, <1>2, <1>3, <1>4, <1>5 DEF IInv

\* The wait ends with a thread that is past the lock, or idle.
LEMMA WaitACKOK == ASSUME IInv, WaitACK PROVE IInv'
<1> USE OutputsAssumption DEF WaitACK, shake, flags, backend, thread
<1>1. TypeOK'
  BY DEF IInv, TypeOK, ThreadInv, States, Asks, Places, MainPlaces
<1>2. ThreadInv'
  BY DEF IInv, TypeOK, ThreadInv
<1>3. StateInv'
  BY DEF IInv, TypeOK, ThreadInv, StateInv, States
<1>4. LockedInv'
  BY DEF IInv, TypeOK, ThreadInv, StateInv, LockedInv
<1>5. AckInv'
  BY DEF IInv, TypeOK, ThreadInv, StateInv, AckInv
<1> QED  BY <1>1, <1>2, <1>3, <1>4, <1>5 DEF IInv

\* The main thread has the mutex, so the thread of the target does not.
LEMMA CallBackendOK == ASSUME IInv, CallBackend PROVE IInv'
<1> USE OutputsAssumption DEF CallBackend, Set, shake, flags, thread
<1>1. TypeOK'
  BY DEF IInv, TypeOK, ThreadInv, States, Asks, Places, MainPlaces
<1>2. ThreadInv'
  BY DEF IInv, TypeOK, ThreadInv
<1>3. StateInv'
  BY DEF IInv, TypeOK, ThreadInv, StateInv, States
<1>4. LockedInv'
  BY DEF IInv, TypeOK, ThreadInv, StateInv, LockedInv
<1>5. AckInv'
  BY DEF IInv, TypeOK, ThreadInv, StateInv, AckInv
<1> QED  BY <1>1, <1>2, <1>3, <1>4, <1>5 DEF IInv

\* The target is initialized again, or gone.
LEMMA BackendReturnsOK == ASSUME IInv, BackendReturns PROVE IInv'
<1> USE OutputsAssumption DEF BackendReturns, Set, flags, backend, thread
<1>1. TypeOK'
  BY DEF IInv, TypeOK, ThreadInv, States, Asks, Places, MainPlaces
<1>2. ThreadInv'
  BY DEF IInv, TypeOK, ThreadInv
<1>3. StateInv'
  BY DEF IInv, TypeOK, ThreadInv, StateInv, States
<1>4. LockedInv'
  BY DEF IInv, TypeOK, ThreadInv, StateInv, LockedInv
<1>5. AckInv'
  BY DEF IInv, TypeOK, ThreadInv, StateInv, AckInv
<1> QED  BY <1>1, <1>2, <1>3, <1>4, <1>5 DEF IInv

\* The end of an iteration of the main loop.
LEMMA HandleRepaintsOK == ASSUME IInv, HandleRepaints PROVE IInv'
<1> USE OutputsAssumption DEF HandleRepaints, shake, thread, RequestPaint, Filters
<1>1. TypeOK'
  <2>1. repaintLocked' \in [Outputs -> BOOLEAN] /\ requested' \subseteq Outputs
    BY DEF IInv, TypeOK
  <2>2. /\ renderMutex' \in Outputs \cup {Main, NoThread}
        /\ renderMutex' = Main <=> main' \in {"run", "storeACK", "storeCallLock", "backend"}
        /\ \A x \in Outputs : renderMutex' = x <=> pc'[x] = "paint" /\ useLock'[x]
    BY DEF IInv, TypeOK
  <2> QED  BY <2>1, <2>2 DEF IInv, TypeOK, MainPlaces
<1>2. ThreadInv'
  BY DEF IInv, TypeOK, ThreadInv
<1>3. StateInv'
  BY DEF IInv, TypeOK, ThreadInv, StateInv, States
<1>4. LockedInv'
  BY DEF IInv, TypeOK, ThreadInv, StateInv, LockedInv
<1>5. AckInv'
  BY DEF IInv, TypeOK, ThreadInv, StateInv, AckInv
<1> QED  BY <1>1, <1>2, <1>3, <1>4, <1>5 DEF IInv

\* The main thread gives the mutex up to switch the session.
LEMMA SeatSwitchesOK == ASSUME IInv, SeatSwitches PROVE IInv'
<1> USE OutputsAssumption DEF SeatSwitches, shake, flags, backend, thread
<1>1. TypeOK'
  BY DEF IInv, TypeOK, ThreadInv, States, Asks, Places, MainPlaces
<1>2. ThreadInv'
  BY DEF IInv, TypeOK, ThreadInv
<1>3. StateInv'
  BY DEF IInv, TypeOK, ThreadInv, StateInv, States
<1>4. LockedInv'
  BY DEF IInv, TypeOK, ThreadInv, StateInv, LockedInv
<1>5. AckInv'
  BY DEF IInv, TypeOK, ThreadInv, StateInv, AckInv
<1> QED  BY <1>1, <1>2, <1>3, <1>4, <1>5 DEF IInv

\* An unlocked filter touches a flag only.
LEMMA UnlockFilterOK == ASSUME IInv, NEW o \in Outputs, UnlockFilter(o) PROVE IInv'
<1> USE OutputsAssumption DEF UnlockFilter, Set, shake, backend, thread, mainVars
<1>1. TypeOK'
  BY DEF IInv, TypeOK, ThreadInv, States, Asks, Places, MainPlaces
<1>2. ThreadInv'
  BY DEF IInv, TypeOK, ThreadInv
<1>3. StateInv'
  BY DEF IInv, TypeOK, ThreadInv, StateInv, States
<1>4. LockedInv'
  BY DEF IInv, TypeOK, ThreadInv, StateInv, LockedInv
<1>5. AckInv'
  BY DEF IInv, TypeOK, ThreadInv, StateInv, AckInv
<1> QED  BY <1>1, <1>2, <1>3, <1>4, <1>5 DEF IInv

\* The session is switched without the mutex.
LEMMA SwitchSessionOK == ASSUME IInv, SwitchSession PROVE IInv'
<1> USE OutputsAssumption DEF SwitchSession, shake, flags, backend, thread
<1>1. TypeOK'
  BY DEF IInv, TypeOK, ThreadInv, States, Asks, Places, MainPlaces
<1>2. ThreadInv'
  BY DEF IInv, TypeOK, ThreadInv
<1>3. StateInv'
  BY DEF IInv, TypeOK, ThreadInv, StateInv, States
<1>4. LockedInv'
  BY DEF IInv, TypeOK, ThreadInv, StateInv, LockedInv
<1>5. AckInv'
  BY DEF IInv, TypeOK, ThreadInv, StateInv, AckInv
<1> QED  BY <1>1, <1>2, <1>3, <1>4, <1>5 DEF IInv

\* The mutex is taken again after the switch.
LEMMA SwitchReturnsOK == ASSUME IInv, SwitchReturns PROVE IInv'
<1> USE OutputsAssumption DEF SwitchReturns, shake, backend, thread, Repaint
<1>1. TypeOK'
  BY DEF IInv, TypeOK, ThreadInv, States, Asks, Places, MainPlaces
<1>2. ThreadInv'
  BY DEF IInv, TypeOK, ThreadInv
<1>3. StateInv'
  BY DEF IInv, TypeOK, ThreadInv, StateInv, States
<1>4. LockedInv'
  BY DEF IInv, TypeOK, ThreadInv, StateInv, LockedInv
<1>5. AckInv'
  BY DEF IInv, TypeOK, ThreadInv, StateInv, AckInv
<1> QED  BY <1>1, <1>2, <1>3, <1>4, <1>5 DEF IInv

\* Every step preserves the invariant.
LEMMA NextIInv == IInv /\ [Next]_vars => IInv'
<1> SUFFICES ASSUME IInv, [Next]_vars PROVE IInv'
  OBVIOUS
<1>1. CASE Next
  <2>1. ASSUME NEW o \in Outputs, RenderStep(o) PROVE IInv'
    BY <2>1, PaintLoadOK, PaintAckOK, PaintCheckOK, PaintLockOK, PaintFilterOK, PaintRelockOK,
       PaintDoneOK, CallbackLoadOK, CallbackCheckOK, CallbackDoneOK DEF RenderStep
  <2>2. CASE TakingStep
    BY <2>2, StoreACKOK, StoreCallLockOK, WaitACKOK, CallBackendOK, BackendReturnsOK DEF TakingStep
  <2>3. CASE SwitchStep
    BY <2>3, UnlockFilterOK, SwitchSessionOK, SwitchReturnsOK DEF SwitchStep
  <2> QED
    BY <1>1, <2>1, <2>2, <2>3, SeatSwitchesOK, MainRepaintOK, AddOutputOK, TakeOutputOK, MainWakesOK, HandleRepaintsOK
    DEF Next
<1>2. CASE UNCHANGED vars
  <2> USE <1>2 DEF vars, shake, flags, backend, thread, mainVars
  <2>1. TypeOK' /\ ThreadInv'
    BY DEF IInv, TypeOK, ThreadInv
  <2>2. StateInv' /\ LockedInv' /\ AckInv'
    BY DEF IInv, StateInv, LockedInv, AckInv
  <2> QED  BY <2>1, <2>2 DEF IInv
<1> QED  BY <1>1, <1>2

-----------------------------------------------------------------------------
(***************************************************************************)
(* The theorems.                                                           *)
(***************************************************************************)

\* The inductive invariant holds in every reachable state.
THEOREM Invariance == Spec => []IInv
<1> QED  BY InitIInv, NextIInv, PTL DEF Spec

\* renderMutex is held exactly between lock() and unlock(), by the main thread
\* and by the paints that were not told to do without.
THEOREM TypeCorrect == Spec => []TypeOK
<1>1. IInv => TypeOK
  BY DEF IInv
<1> QED  BY Invariance, <1>1, PTL

\* paintGL() of an output with one mode overlaps no user code, for any outputs
\* removed and added, filtered and given modes at any moment.
THEOREM PaintAlone == Spec => []PaintExclusive
<1>1. IInv => PaintExclusive
  BY OutputsAssumption DEF IInv, TypeOK, ThreadInv, LockedInv, PaintExclusive
<1> QED  BY Invariance, <1>1, PTL

\* The main thread does not wait, with the lock, for a thread that waits for it.
THEOREM NoWaitCycle == Spec => []NoLockNeeded
<1>1. IInv => NoLockNeeded
  BY DEF IInv, AckInv, NoLockNeeded
<1> QED  BY Invariance, <1>1, PTL
=============================================================================

---------------------------- MODULE OutputRender ----------------------------
(***************************************************************************)
(* The main thread and the render threads of the outputs: who runs user    *)
(* code when, and how the main thread takes an output away from its render *)
(* thread to uninitialize it or to change its mode.                        *)
(*                                                                         *)
(* The graphic backend is external (the library SRM for DRM): it calls     *)
(* paintGL on the render thread of an output for which outputRepaint() was *)
(* called, uninitializeGL when outputUninitialize() is, resizeGL when      *)
(* outputSetMode() is, and the last two return when the callback did.      *)
(* backendSuspend() returns when no callback runs; until backendResume()   *)
(* no paint begins.  While the seat is disabled the program does not add   *)
(* or remove outputs: it gets no events of users and clients.              *)
(***************************************************************************)
EXTENDS FiniteSets

CONSTANTS Outputs,  \* the LOutputs that are connected
          Moded,    \* those that have several modes
          Filtered, \* those whose repaintFilter() may return false
          Main,     \* the main thread
          NoThread  \* no thread

ASSUME OutputsAssumption ==
  /\ Moded \subseteq Outputs /\ Filtered \subseteq Outputs
  /\ Main \notin Outputs /\ NoThread \notin Outputs \cup {Main}

VARIABLES
  outputs,        \* LCompositorPrivate::outputs
  state,          \* LOutputPrivate::state
  callLock,       \* LOutputPrivate::callLock
  callLockACK,    \* LOutputPrivate::callLockACK
  pendingRepaint, \* the flag PendingRepaint
  repaintLocked,  \* the flag RepaintLocked; the main thread has repaintFilterMutex
  renderMutex,    \* the owner of LCompositorPrivate::renderMutex
  pollUnlocked,   \* LCompositorPrivate::pollUnlocked, the eventfd has an event
  requested,      \* the outputs the backend was asked to paint
  asked,          \* the other callback the backend was asked for
  pc,             \* where the render thread of an output is
  useLock,        \* the local variable callLock of its callback
  main,           \* where the main thread is
  target, work,   \* the output it is taking and what for
  enabled         \* LSeatPrivate::enabled

flags   == <<pendingRepaint, repaintLocked, pollUnlocked>>
shake   == <<callLock, callLockACK>>
backend == <<requested, asked>>
thread  == <<pc, useLock>>
mainVars == <<main, target, work, enabled>>
vars    == <<outputs, state, shake, flags, renderMutex, backend, thread, mainVars>>

States  == {"Uninitialized", "Initialized", "ChangingMode", "PendingUninitialize"}
Asks    == {"nothing", "uninitialize", "setMode"}
Places  == {"idle", "ack", "check", "lock", "filter", "relock", "paint",
            "ackGL", "GL"}
MainPlaces == {"poll", "run", "storeACK", "storeCallLock", "waitACK", "lock", "backend",
               "switch", "session"}

Init ==
  /\ outputs = Outputs
  /\ state = [o \in Outputs |-> "Initialized"]
  /\ callLock = [o \in Outputs |-> TRUE]
  /\ callLockACK = [o \in Outputs |-> FALSE]
  /\ pendingRepaint = [o \in Outputs |-> FALSE]
  /\ repaintLocked = [o \in Outputs |-> FALSE]
  /\ renderMutex = NoThread
  /\ pollUnlocked = FALSE
  /\ requested = {}
  /\ asked = [o \in Outputs |-> "nothing"]
  /\ pc = [o \in Outputs |-> "idle"]
  /\ useLock = [o \in Outputs |-> TRUE]
  /\ main = "poll" /\ target \in Outputs /\ work = "remove"
  /\ enabled = TRUE

\* The answers repaintFilter() may give for the outputs of a set.
Filters(os) == {os \ no : no \in SUBSET (os \cap Filtered)}

Goto(o, place) == pc' = [pc EXCEPT ![o] = place]
Set(s, o, v)   == [s EXCEPT ![o] = v]

\* LOutput::repaint of some outputs
Repaint(os) ==
  /\ pendingRepaint' = [o \in Outputs |-> o \in os \/ pendingRepaint[o]]
  /\ pollUnlocked' = (pollUnlocked \/ os # {})

\* outputRepaint of some outputs; one that is uninitialized has no thread.
RequestPaint(os) == requested' = requested \cup {o \in os : state[o] # "Uninitialized"}

-----------------------------------------------------------------------------
(***************************************************************************)
(* The render threads: LOutputPrivate::backendPaintGL.                     *)
(***************************************************************************)

\* The backend begins no paint: from the call of backendSuspend() until that of
\* backendResume().
Suspended == IF main = "switch" THEN enabled ELSE ~enabled

PaintLoad(o) ==
  /\ pc[o] = "idle" /\ asked[o] = "nothing" /\ o \in requested /\ ~Suspended
  /\ requested' = requested \ {o}
  /\ useLock' = Set(useLock, o, callLock[o])
  /\ Goto(o, "ack")
  /\ UNCHANGED <<outputs, state, shake, flags, renderMutex, asked, mainVars>>

PaintAck(o) ==
  /\ pc[o] = "ack"
  /\ callLockACK' = Set(callLockACK, o, callLockACK[o] \/ ~useLock[o])
  /\ Goto(o, "check")
  /\ UNCHANGED <<outputs, state, callLock, flags, renderMutex, backend, useLock, mainVars>>

\* Mutant: the state is not looked at.
PaintCheckNot(o) ==
  /\ pc[o] = "check"
  /\ \/ useLock[o] /\ Goto(o, "lock") /\ UNCHANGED pendingRepaint
     \/ ~useLock[o] /\ Goto(o, "paint") /\ pendingRepaint' = Set(pendingRepaint, o, FALSE)
  /\ UNCHANGED <<outputs, state, shake, repaintLocked, pollUnlocked, renderMutex, backend,
                 useLock, mainVars>>

PaintCheck(o) ==
  /\ pc[o] = "check"
  /\ \/ state[o] # "Initialized" /\ Goto(o, "idle") /\ UNCHANGED pendingRepaint
     \/ state[o] = "Initialized" /\ useLock[o] /\ Goto(o, "lock") /\ UNCHANGED pendingRepaint
     \/ /\ state[o] = "Initialized" /\ ~useLock[o] /\ Goto(o, "paint")
        /\ pendingRepaint' = Set(pendingRepaint, o, FALSE)
  /\ UNCHANGED <<outputs, state, shake, repaintLocked, pollUnlocked, renderMutex, backend,
                 useLock, mainVars>>

PaintLock(o) ==
  /\ pc[o] = "lock" /\ renderMutex = NoThread
  /\ IF repaintLocked[o]
     THEN Goto(o, "filter") /\ UNCHANGED <<renderMutex, pendingRepaint>>
     ELSE /\ Goto(o, "paint") /\ renderMutex' = o
          /\ pendingRepaint' = Set(pendingRepaint, o, FALSE)
  /\ UNCHANGED <<outputs, state, shake, repaintLocked, pollUnlocked, backend, useLock, mainVars>>

PaintFilter(o) ==
  /\ pc[o] = "filter" /\ ~repaintLocked[o]
  /\ Goto(o, "relock")
  /\ UNCHANGED <<outputs, state, shake, flags, renderMutex, backend, useLock, mainVars>>

PaintRelock(o) ==
  /\ pc[o] = "relock" /\ renderMutex = NoThread
  /\ Goto(o, "paint") /\ renderMutex' = o
  /\ pollUnlocked' = TRUE
  /\ UNCHANGED <<outputs, state, shake, pendingRepaint, repaintLocked, backend, useLock, mainVars>>

\* Mutant: the repaints asked for while painting are left to the main thread,
\* which is not woken.
PaintHandleNone(o) ==
  /\ pc[o] = "paint"
  /\ \E os \in SUBSET Outputs : pendingRepaint' = [x \in Outputs |-> x \in os \/ pendingRepaint[x]]
  /\ Goto(o, "idle")
  /\ renderMutex' = IF useLock[o] THEN NoThread ELSE renderMutex
  /\ UNCHANGED <<outputs, state, shake, repaintLocked, pollUnlocked, backend, useLock, mainVars>>

\* paintGL and the rest of the user code, which may call repaint(), then
\* handleOutputRepaintRequests() of a render thread.
PaintDone(o) ==
  /\ pc[o] = "paint"
  /\ \E os \in SUBSET Outputs : Repaint(os)
  /\ LET due == {x \in outputs : pendingRepaint'[x] /\ ~repaintLocked[x]} IN
     \E accepted \in Filters(due) : RequestPaint(accepted)
  /\ Goto(o, "idle")
  /\ renderMutex' = IF useLock[o] THEN NoThread ELSE renderMutex
  /\ UNCHANGED <<outputs, state, shake, repaintLocked, asked, useLock, mainVars>>

-----------------------------------------------------------------------------
(***************************************************************************)
(* The render threads: backendUninitializeGL and backendResizeGL.          *)
(***************************************************************************)

\* The state the callback asks for, and leaves behind.
Before(ask) == IF ask = "uninitialize" THEN "PendingUninitialize" ELSE "Initialized"

CallbackLoad(o) ==
  /\ pc[o] = "idle" /\ asked[o] # "nothing"
  /\ useLock' = Set(useLock, o, callLock[o])
  /\ Goto(o, "ackGL")
  /\ UNCHANGED <<outputs, state, shake, flags, renderMutex, backend, mainVars>>

\* The acknowledgement, and the state.  The callbacks call lock() when they were
\* not told not to: the main thread, which has the lock, told them.
CallbackCheck(o) ==
  /\ pc[o] = "ackGL"
  /\ callLockACK' = Set(callLockACK, o, callLockACK[o] \/ ~useLock[o])
  /\ state' = IF asked[o] = "setMode" /\ state[o] = "ChangingMode"
              THEN Set(state, o, "Initialized") ELSE state
  /\ IF state'[o] = Before(asked[o])
     THEN Goto(o, "GL") /\ UNCHANGED asked
     ELSE Goto(o, "idle") /\ asked' = Set(asked, o, "nothing")
  /\ UNCHANGED <<outputs, callLock, flags, renderMutex, requested, useLock, mainVars>>

\* uninitializeGL, or resizeGL and moveGL, which may call repaint()
CallbackDone(o) ==
  /\ pc[o] = "GL"
  /\ \E os \in SUBSET Outputs : Repaint(os)
  /\ state' = IF asked[o] = "uninitialize" THEN Set(state, o, "Uninitialized") ELSE state
  /\ requested' = IF asked[o] = "uninitialize" THEN requested \ {o} ELSE requested
  /\ asked' = Set(asked, o, "nothing")
  /\ Goto(o, "idle")
  /\ UNCHANGED <<outputs, shake, repaintLocked, renderMutex, useLock, mainVars>>

-----------------------------------------------------------------------------
(***************************************************************************)
(* The main thread: LCompositor::processLoop.                              *)
(***************************************************************************)

\* epoll_wait returns for the eventfd or for anything else.
MainWakes ==
  /\ main = "poll" /\ renderMutex = NoThread
  /\ renderMutex' = Main /\ main' = "run"
  /\ pollUnlocked' = FALSE
  /\ UNCHANGED <<outputs, state, shake, pendingRepaint, repaintLocked, backend, thread,
                 target, work, enabled>>

\* An event handler asks for repaints.
MainRepaint(o) ==
  /\ main = "run"
  /\ Repaint({o})
  /\ UNCHANGED <<outputs, state, shake, repaintLocked, renderMutex, backend, thread, mainVars>>

\* addOutput: initialize() returns when the render thread did backendInitializeGL.
AddOutput(o) ==
  /\ main = "run" /\ enabled /\ o \notin outputs
  /\ outputs' = outputs \cup {o}
  /\ repaintLocked' = Set(repaintLocked, o, FALSE)
  /\ state' = Set(state, o, "Initialized")
  /\ \E os \in SUBSET {o} : Repaint(os)
  /\ UNCHANGED <<shake, renderMutex, backend, thread, mainVars>>

\* The beginning of removeOutput and setMode.
TakeOutput(o) ==
  /\ main = "run" /\ enabled /\ o \in outputs
  /\ \/ work' = "remove" /\ state' = Set(state, o, "PendingUninitialize")
     \/ o \in Moded /\ work' = "mode" /\ state' = Set(state, o, "ChangingMode")
  /\ target' = o /\ main' = "storeACK"
  /\ UNCHANGED <<outputs, shake, flags, renderMutex, backend, thread, enabled>>

StoreACK ==
  /\ main = "storeACK" /\ main' = "storeCallLock"
  /\ callLockACK' = Set(callLockACK, target, FALSE)
  /\ UNCHANGED <<outputs, state, callLock, flags, renderMutex, backend, thread,
                 target, work, enabled>>

\* Mutant: the filter keeps the thread.
StoreCallLockFiltered ==
  /\ main = "storeCallLock" /\ main' = "waitACK"
  /\ callLock' = Set(callLock, target, FALSE)
  /\ RequestPaint(IF work = "remove" THEN {target} ELSE {})
  /\ renderMutex' = NoThread
  /\ UNCHANGED <<outputs, state, callLockACK, flags, asked, thread, target, work, enabled>>

\* The lock of the callbacks, the filter, outputRepaint() in removeOutput only,
\* and the lock of the compositor.
StoreCallLock ==
  /\ main = "storeCallLock" /\ main' = "waitACK"
  /\ callLock' = Set(callLock, target, FALSE)
  /\ repaintLocked' = Set(repaintLocked, target, FALSE)
  /\ RequestPaint(IF work = "remove" THEN {target} ELSE {})
  /\ renderMutex' = NoThread
  /\ UNCHANGED <<outputs, state, callLockACK, pendingRepaint, pollUnlocked, asked, thread,
                 target, work, enabled>>

\* Mutant: the acknowledgement is not waited for.
WaitACKNot ==
  /\ main = "waitACK" /\ main' = "lock"
  /\ UNCHANGED <<outputs, state, shake, flags, renderMutex, backend, thread,
                 target, work, enabled>>

\* The loop that waits ends with the acknowledgement or after a second; a render
\* thread that has something to do is assumed to do it within a second.
WaitACK ==
  /\ main = "waitACK"
  /\ main' = IF callLockACK[target] \/ (pc[target] = "idle" /\ target \notin requested)
             THEN "lock" ELSE "waitACK"
  /\ UNCHANGED <<outputs, state, shake, flags, renderMutex, backend, thread,
                 target, work, enabled>>

\* lock(), then outputUninitialize() or outputSetMode()
CallBackend ==
  /\ main = "lock" /\ main' = "backend"
  /\ renderMutex = NoThread /\ renderMutex' = Main
  /\ asked' = Set(asked, target, IF work = "remove" THEN "uninitialize" ELSE "setMode")
  /\ UNCHANGED <<outputs, state, shake, flags, requested, thread, target, work, enabled>>

\* The end of removeOutput and of setMode
BackendReturns ==
  /\ main = "backend" /\ main' = "run"
  /\ asked[target] = "nothing"
  /\ \/ work = "remove" /\ state[target] = "Uninitialized"
        /\ outputs' = outputs \ {target} /\ UNCHANGED state
     \/ work = "mode" /\ state' = Set(state, target, "Initialized") /\ UNCHANGED outputs
  /\ callLock' = Set(callLock, target, TRUE)
  /\ UNCHANGED <<callLockACK, flags, renderMutex, backend, thread, target, work, enabled>>

\* handleOutputRepaintRequests() of the main thread, then unlock(); while the seat is
\* disabled the filters are unlocked first.
HandleRepaints ==
  /\ main = "run" /\ main' = "poll"
  /\ LET due == {o \in outputs : pendingRepaint[o]} IN
     \E accepted \in Filters(due) :
       /\ repaintLocked' = [o \in Outputs |-> IF o \in due THEN o \notin accepted
                                              ELSE repaintLocked[o] /\ (enabled \/ o \notin outputs)]
       /\ RequestPaint(due)
  /\ renderMutex' = NoThread
  /\ UNCHANGED <<outputs, state, shake, pendingRepaint, pollUnlocked, asked, thread,
                 target, work, enabled>>

-----------------------------------------------------------------------------
(***************************************************************************)
(* The main thread: LSeatPrivate::seatDisabled and seatEnabled, called by  *)
(* libseat from the main loop.                                             *)
(***************************************************************************)

SeatSwitches ==
  /\ main = "run" /\ main' = "switch"
  /\ enabled' = ~enabled
  /\ renderMutex' = NoThread
  /\ UNCHANGED <<outputs, state, shake, flags, backend, thread, target, work>>

\* Without the lock, for one output after the other: the filter lets its thread go.
UnlockFilter(o) ==
  /\ main = "switch" /\ o \in outputs /\ repaintLocked[o]
  /\ repaintLocked' = Set(repaintLocked, o, FALSE)
  /\ UNCHANGED <<outputs, state, shake, pendingRepaint, pollUnlocked, renderMutex, backend,
                 thread, mainVars>>

\* The call of backendSuspend() or backendResume()
SwitchSession ==
  /\ main = "switch" /\ main' = "session"
  /\ \A o \in outputs : ~repaintLocked[o]
  /\ UNCHANGED <<outputs, state, shake, flags, renderMutex, backend, thread, target, work, enabled>>

\* It returns; the lock is taken again, and enabledChanged() asks for repaints.
SwitchReturns ==
  /\ main = "session" /\ main' = "run"
  /\ ~enabled => \A o \in Outputs : pc[o] = "idle"
  /\ renderMutex = NoThread /\ renderMutex' = Main
  /\ Repaint(IF enabled THEN outputs ELSE {})
  /\ UNCHANGED <<outputs, state, shake, repaintLocked, backend, thread, target, work, enabled>>

-----------------------------------------------------------------------------

RenderStep(o) ==
  \/ PaintLoad(o) \/ PaintAck(o) \/ PaintCheck(o) \/ PaintLock(o) \/ PaintFilter(o)
  \/ PaintRelock(o) \/ PaintDone(o)
  \/ CallbackLoad(o) \/ CallbackCheck(o) \/ CallbackDone(o)

TakingStep == StoreACK \/ StoreCallLock \/ WaitACK \/ CallBackend \/ BackendReturns

SwitchStep == (\E o \in Outputs : UnlockFilter(o)) \/ SwitchSession \/ SwitchReturns

Next ==
  \/ \E o \in Outputs : RenderStep(o) \/ MainRepaint(o) \/ AddOutput(o) \/ TakeOutput(o)
  \/ TakingStep \/ MainWakes \/ HandleRepaints
  \/ SeatSwitches \/ SwitchStep

Spec == Init /\ [][Next]_vars

\* Threads run, nobody waits for the mutex for ever, and event handlers return.
FairSpec ==
  /\ Spec
  /\ \A o \in Outputs : SF_vars(RenderStep(o))
  /\ SF_vars(TakingStep) /\ SF_vars(SwitchStep) /\ SF_vars(HandleRepaints)
  /\ SF_vars(pollUnlocked /\ MainWakes)
-----------------------------------------------------------------------------
(***************************************************************************)
(* Properties.                                                             *)
(***************************************************************************)

\* Types, and who has the mutex: the thread that is between lock() and unlock().
TypeOK ==
  /\ outputs \subseteq Outputs
  /\ state \in [Outputs -> States]
  /\ callLock \in [Outputs -> BOOLEAN] /\ callLockACK \in [Outputs -> BOOLEAN]
  /\ pendingRepaint \in [Outputs -> BOOLEAN] /\ repaintLocked \in [Outputs -> BOOLEAN]
  /\ renderMutex \in Outputs \cup {Main, NoThread}
  /\ renderMutex = Main <=> main \in {"run", "storeACK", "storeCallLock", "backend"}
  /\ \A o \in Outputs : renderMutex = o <=> pc[o] = "paint" /\ useLock[o]
  /\ pollUnlocked \in BOOLEAN
  /\ requested \subseteq Outputs /\ asked \in [Outputs -> Asks]
  /\ pc \in [Outputs -> Places] /\ useLock \in [Outputs -> BOOLEAN]
  /\ main \in MainPlaces /\ target \in Outputs /\ work \in {"remove", "mode"}
  /\ enabled \in BOOLEAN

\* The threads that run user code; a main thread that waits runs none.
Running == {o \in Outputs : pc[o] \in {"paint", "GL"}} \cup (IF main = "run" THEN {Main} ELSE {})

\* The paintGL() of an output that never changes its mode overlaps no user code
\* of the main thread and no xxxGL() that has the lock, however often the output
\* is removed and added again.
PaintExclusive ==
  \A o \in Outputs \ Moded : pc[o] = "paint" =>
    main # "run" /\ \A x \in Outputs \ {o} : pc[x] \in {"paint", "GL"} => ~useLock[x]

\* While the main thread waits, with the lock, for the backend to call the
\* render thread of an output, that thread needs no lock.
NoLockNeeded ==
  main = "backend" => pc[target] \notin {"lock", "filter", "relock"}

\* A repaint() of an output that is not filtered is followed by a paintGL(),
\* unless the output is removed, its mode is changed or the seat is disabled
\* meanwhile.
RepaintPainted ==
  \A o \in Outputs \ Filtered :
    pendingRepaint[o] /\ o \in outputs ~> ~pendingRepaint[o] \/ state[o] # "Initialized" \/ ~enabled

\* removeOutput(), setMode(), seatDisabled() and seatEnabled() return, whatever the
\* threads they wait for are waiting for.
TakingEnds == main \notin {"poll", "run"} ~> main = "run"

-----------------------------------------------------------------------------
(***************************************************************************)
(* What the documentation says, and the code does not do: see README.md,   *)
(* section 5.                                                              *)
(***************************************************************************)

\* LOutput.h: "no single block of user code executes in parallel" and "all
\* xxxGL() events never overlap with other events or requests being handled in
\* separate threads".
NoOverlap == \A t, u \in Running : t = u
=============================================================================

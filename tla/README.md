# Verification of Louvre

Louvre is a C++ library for Wayland compositors. This directory holds TLA+
models of the parts of the library whose behaviour takes several steps, several
clients or several threads to go wrong, the TLC configurations that check them,
and TLAPS proofs of the safety properties that matter most. File names below
are relative to `src/src/lib/` unless they begin with `backends/`.

1. The system  2. The models  3. The runs  4. The proofs  5. Divergences
6. What is not modelled  7. Plan

## 1. The system

A compositor built on Louvre is one process:

* the **main thread** runs `LCompositor::processLoop()`: `epoll_wait`, then,
  holding `renderMutex`, the requests of the clients (libwayland), the events of
  the input backend, timers and the seat, then `handleOutputRepaintRequests()`,
  `flushClients()` and the release of the mutex;
* every initialized `LOutput` has a **render thread**, run by the graphic
  backend (the library SRM on DRM), that calls `backendInitializeGL`,
  `backendPaintGL`, `backendResizeGL`, `backendUninitializeGL` and
  `backendPageFlipped`. They take the same mutex unless told not to (`callLock`).

So there are two kinds of difficulty. On the main thread nothing is concurrent,
but a request calls a web of virtual methods on other objects, clients may send
requests in any order, and objects die in any order when a client goes. Between
the threads the handshake of `callLock`, `callLockACK`, the state of the output,
the flags and two mutexes decides who runs when.

### Components

| Component | State | Operations | Correct when |
|---|---|---|---|
| Surface tree (`LSurfacePrivate`, `RSurface`, `RSubsurface`, `LSubsurfaceRole`) | parent, children, pending ones, mapped, buffer, role, sync mode, cache | commit, attach, get_subsurface, set_sync, set_desync, destruction | links always valid, only a connected mapped tree is shown, synchronized subtrees change together, every request returns |
| xdg_toplevel (`LToplevelRole`, `RXdgToplevel`, `RXdgSurface`) | flags, configurations sent and acknowledged, atoms, parent | commit, configure, ack_configure, set_parent, close, states, reset | mapped only when configured, no configuration applied that was not acknowledged, children not lost |
| Session lock (`LSessionLockManager`, `RSessionLock`, `LSessionLockRole`) | manager state and lock, reply, surfaces, timer, outputs to repaint | lock, get_lock_surface, commit, unlock, destroy, death, forceUnlock, timer | content hidden before `locked`, nobody else unlocks, a lock loses its answer to another lock only |
| Output rendering (`LOutputPrivate`, `LOutput`, `LCompositor`) | state, callLock, callLockACK, flags, filter mutex, renderMutex | repaint, paint, addOutput, removeOutput, setMode, repaintFilter | user code never overlaps, no deadlock, no repaint lost |
| Seat and session switching (`LSeatPrivate`) | enabled | enable, disable | backends suspended and resumed with no thread stuck |
| Popups, positioner, keyboard grab (`LPopupRole`, `RXdgPopup`, `LKeyboard`) | parents, grab, focus, mapped, dismissed | get_popup, grab, commit, dismiss, destroy | the grab is shown and focused, no popup stands on one that is gone |
| Layer shell, exclusive zones (`LLayerRole`, `LExclusiveZone`) | two slots of atoms, rect, list of zones | commit, ack, output changes | rects follow the list and are sent, zones do not overlap |
| Pointer, touch, constraints (`LPointer`, `LTouch`, `RLockedPointer`, ...) | focus, held surface, gestures, active constraint, touch points | events, focus changes, destruction | what a client is told of through its seats is ended before something else begins |
| Keyboard (`LKeyboard`) | focus, grab, pressed keys | focus, grab, key events | one focus, the grab has it |
| Clipboard, drag and drop (`LClipboard`, `LDND`, `RData*`) | source, offers, focus and target of the drag | set_selection, start_drag, drop, finish, cancel | one client sees the selection, each source is answered |
| Move and resize sessions | initial geometry, last serial, timer | start, update, stop | ended by the client, the timer or the reset |
| Foreign toplevels | handles | create, closed, requests | no handle reaches a dead toplevel |
| Output management, gamma, DRM lease | serials, heads, owner of a connector | create, apply, test, cancel, withdraw | stale serials cancelled, one owner |
| Screen copy | frames, state of a frame | copy, accept, fail, ready | each frame answered once |
| Frame callbacks, presentation, scanout buffers (`LSurface`, `LOutputPrivate`) | lists, commit ids, two scanout slots | frame, paint, flip, release | feedback answered once, no buffer released twice or while scanned |
| Activation tokens, idle notify, idle inhibit | tokens, timers | commit, destroy, timeout | expire once |
| Timers, animations, globals, weak references | running flags, lists | start, stop, callback, destroy | safe from their own callbacks |
| Scene and views | views, geometry, damage | render, event dispatch | geometry |
| Backends, painter, textures, cursor, logs | GPU and device state | I/O | outside these models |

The components meet in these places: a role changes the surface tree
(`setMapped`, `setParent`) and is called back by it (`handleSurfaceCommit`,
`handleParentCommit`, `handleParentChange`, `handleParentMappingChange`);
an output that is painted or uninitialized answers the session lock
(`removeFromSessionLockPendingRepaint`), an output that is initialized maps the
lock surface again, moves the layer surfaces and arranges the zones; a change of
the keyboard focus moves the selection, a drag takes the focus of the pointer, a
popup or a layer surface the grab of the keyboard; the session lock takes the
input from everybody; everything that changes what is shown calls
`LOutput::repaint()`; everything on the main thread happens with `renderMutex`.

`PROJECT.json` lists each component with its files, and the hazards: the places
where the code is hard to test, with the properties that cover each.

## 2. The models

### `SurfaceTree`: surfaces, roles and mapping

The tree of one client. Louvre handles a request to its end before it reads the
next one, but its handlers call one another recursively; `stack` is that call
stack. A request (`Commit`, `GetSubsurface`, `DestroySurface`, ...) pushes the
calls it makes, `Step` runs the topmost call one loop turn or one assignment
block at a time, and a request is read only when the stack is empty
(`Serving`). Every intermediate state of a handler is therefore visible to the
invariants, and "the handler returns" is a property (`RequestsTerminate`).

| Variable | Code |
|---|---|
| `alive`, `role`, `mapped` | existing `RSurface`s, `current.role`, flag `Mapped` |
| `parent`, `children`, `pendingParent`, `pendingChildren` | same names in `LSurfacePrivate` |
| `hasBuffer`, `attached` | `current.hasBuffer`; `BufferAttached` with `pending.hasBuffer` |
| `synced`, `hasCache` | `LSubsurfaceRole::m_isSynced`, `m_hasCache` |
| `flags` | `HasPendingInitialConf` and `ClosedSent` of `LToplevelRole::m_flags` |
| `mode` | the client is served (`running`), being destroyed after an error or a disconnection (`dying`); or the program has used a dangling list entry (`undefined`) |

`ApplyCommit`, `AdoptOne`/`AdoptDone`, `NotifyParentCommit` and `ApplyContent` are the
four parts of `RSurface::apply_commit` in their order; `SetMapped`/`CascadeMapping` are
`setMapped` with the copy of the children it walks; `ResetChild`/`ResetDone` are
`LToplevelRole::reset`; `Remove` is `~RSurface`; `SetParent` and `SetPendingParent` are
the functions of the same name. `DropRole` is the destructor of a role: the last thing
it does, when the surface has no role any more, is to unmap it (`~LBaseSurfaceRole`).
Abstractions: children are sets, so every order of siblings is covered and none is
asserted; regions, damage, scale and buffer contents are left out; user callbacks do
nothing; popups and layer surfaces do not take part. A request that breaks the protocol
posts an error and the client is destroyed: `Disconnect` covers all of these. `Requests`
switches optional requests on, to keep the runs small.

### `SessionLock`: locking the session

Clients with one `ext_session_lock_v1` each, their lock surfaces, the manager,
and outputs that are painted, uninitialized and initialized. Every action holds
`renderMutex` in the code from beginning to end, so each handler is one action.
`shown[o]` is what was last painted on an output, `repaint` the outputs that
asked to be painted. The answer of the virtual `lockRequest()` is arbitrary.
A lock surface is `created` or `complete` (it has committed a buffer of the
acknowledged size, `m_isComplete`): sizes and serials are abstracted to this.
`Covered` is the search of `LSessionLockRole::handleSurfaceCommit` for one
complete surface per output; the search stops at the first surface that is not
complete, and where that is depends on the order of creation, which the model
leaves open. An output is painted at any time (the normal frames of a
compositor); under `FairSpec` only one that asked for it has to be.

### `OutputRender`: the threads

The protocol between the main thread and the render threads, at the granularity
of single loads and stores of `callLock`, `callLockACK` and the state:

| Variable | Code |
|---|---|
| `state`, `callLock`, `callLockACK` | same names in `LOutputPrivate` |
| `pendingRepaint`, `repaintLocked` | the flags; the second also says that the main thread holds `repaintFilterMutex`, which is locked and unlocked with it |
| `renderMutex`, `pollUnlocked` | `LCompositorPrivate` |
| `pc`, `useLock` | where `backendPaintGL`, `backendResizeGL` or `backendUninitializeGL` is, and its local `callLock` |
| `main`, `target`, `work` | where `processLoop`, `removeOutput`, `setMode` or the switch of the session is, and its arguments |
| `enabled` | `LSeatPrivate::enabled` |
| `requested`, `asked` | the backend (external): paints asked for, and the callback the main thread waits for |

`removeOutput()` and `setMode()` share their steps (`TakeOutput`, `StoreACK`,
`StoreCallLock`, `WaitACK`, `CallBackend`, `BackendReturns`), as the two
functions do line by line; only the first asks for a paint.
`HandleRepaints`/`PaintDone` are the two branches of
`handleOutputRepaintRequests()`. `seatDisabled()` and `seatEnabled()` share their
steps as well: they release the mutex (`SeatSwitches`), unlock the filters one by one
(`UnlockFilter`), call `backendSuspend()` or `backendResume()` (`SwitchSession`) and
lock again (`SwitchReturns`). Without `UnlockFilter` TLC finds a deadlock.

Assumptions: the backend calls back for what it was asked for, one callback at a time
per output, and `outputUninitialize` and `outputSetMode` return when their callback did;
`backendSuspend` returns when no callback runs and none begins before `backendResume`; a
render thread that has something to do acknowledges within the second that the main
thread waits (a thread with nothing to do lets the wait run out); updates of
`stateFlags` are atomic.

### `ToplevelConfigure` and `ConfigureProtocol`: the state of a toplevel

A toplevel has two slots of atoms, current and pending, of which one is what the
program reads and the other what the next commit brings; the states and sizes it
sends to the client with a serial; and what the client acknowledged. `role[t]`
holds `cur`, `pend` (the slots), `sent` (`m_sentConfs`), `ack` (`m_pendingConf` as
far as acknowledged), `conf` (what is to be sent), `flags`, and the resize session
(`active`, `handled`, `serial`, `timer`); `activeToplevel` is that of the seat.
The helpers (`TakeActive`, `FullAtomsUpdate`, `PartialAtomsUpdate`,
`HandleGeometryChange`, `StopResize`, ...) map one state of the handlers to the
next, and are called in the order of the code; an action is a whole request
(`Commit`, `AckConfigure`), event or call of the program (`Activate`,
`SetMaximized`, `StartResize`, ...). Light states (`Activated`,
`Resizing`) are applied outside of commits, the others with one. A width stands for
the size and `Maximized` for the states that need a commit; `Busy` are the toplevels
the user works with and `Hasty` those whose client skips configurations (bounds on who
does what, not on the order). No request is made once `MaxSerial` is taken.

`ConfigureProtocol` is what xdg-shell promises: configurations are offered with
growing serials; acknowledging one forgets it and all older ones; only what was
acknowledged is applied, and no older one after a newer one. `ImplementsProtocol` is the
refinement, `offered <- sent`, `acked <- ack`, `applied <- cur`.

### `DataTransfer`: clipboard and drag and drop

`DataSources` has the objects: surfaces and devices of the clients, the sources
with their use and mime types, and what each source was `told`. `Clipboard` has the
keyboard focus, the selection (source, offer, contents that outlive the source) and
the selection each client was sent (`LClipboard`, `RDataDevice`,
`LKeyboard::setFocus`). `DragAndDrop` has the session (`LDND`: source, origin, focus,
destination), the offers and who was told `enter` without a `leave`. `DataTransfer`
composes them and adds the destruction of surfaces, devices, sources and clients,
each of which calls into both. `Finish` has no guard but that the offer exists: a
client may finish the offer of a drag that goes on above it, and one of an earlier drag
(`FinishStale`). A client has one surface, one device and one offer
per source; a mime type is persistent or not; `Leaving` are the clients whose
surfaces and devices may go.

### `Keyboard`, `Popups` and `LayerShell`

`Keyboard` has the focus and the grab (`setFocus`, `setGrab`); both modules below extend
it with their surfaces. In `Popups`, `popup[p]` is the state of a popup (parent, pending
parent, configured, mapped, dismissed, popup_done sent), `stack` the list of surfaces of
the compositor with the popups on top, and `walk` the dismissal in progress (a click
also raises the topmost popup of the surface or its parent): `dismissPopups()` walks the
list from the top and each dismissal calls into the keyboard, so the walk is one step
per surface. `LayerShell` has for each layer surface the two slots of atoms, the pending
flags, the rect, the configured size and the mapping; for each output its size, its
state, its list of zones and what they leave available. `RectOf`, `Strip` and
`Available` are the arithmetic of `LOutputPrivate::updateExclusiveZones()`, in its two
passes. Commits with errors are disconnections. Margins and layers are left out; a size
is one of `Values`.

### `Frames`: buffers, flips and feedback

A surface with a current buffer (and the one it replaces), buffers that are `free`,
`held` (the client waits for wl_buffer.release) or gone, outputs with the two slots of
scanout buffers and what the last frame showed, and presentation feedback with the
commit it belongs to. `Copied` are the buffers whose contents are copied at the commit
(SHM) and released there; the others are released when they are replaced, unless an
output scans them out. A commit of a synchronized subsurface that the role refuses
(`CommitDeferred`) leaves the buffer pending until the commit of the parent, or until
another attach overtakes it. `stray` collects releases that answer no use. Outputs are
asked for the answer to a feedback in any order, and the first that has one gives it:
`by`, with `zeroCopy` if that output scans the surface out, which it answers whatever
the commit (`Answer`); `seen` are the outputs that painted the commit itself.

### `InputDevices`: pointer, touch and session lock

`InputSurfaces` has the surfaces (absent, hidden, shown) with their clients, and the
session lock that decides who is `Allowed`, with the clients whose lock was `overtaken`
by the grant of another. `Pointer` has the `pointers` that a wl_seat of their client
still lists, the `orphans` whose wl_seat was released (`ReleaseSeat`), which no handler
reaches any more, and `ptr`, the part of the state
that the handlers pass on: `focus`, `dragging` (the surface held by the left button),
`pending` (`PendingSwipeEndEvent`), what each pointer resource was told it `entered`
and has begun `swiping` on, and the constraints (their surface, oneshot, active);
`device` is the left button and the drag. `SetFocus`, `Leave`, `EndSwipe`, `Activate`
and `Deactivate` are the functions of `LPointer` and `LSurface`, `Move`, `Press` and
`Release` the default handlers; the surface under the cursor and whether the cursor is
in the region of a constraint are arbitrary. `Touch` has the fingers, the touch points
and what the clients were told of them. `InputDevices` composes them with the life of
surfaces and clients and with the session lock. The swipe stands for the three
gestures, whose code is the same, and locking for confining, which changes the same
state. `LockSession` is what the grant of a lock does to the input, also of one that
takes the session from another client; the lock surface that gets the pointer is that of
the output with the cursor, which is of the lock before if the new one has none there.
Pointer and fingers share only the surfaces and the lock: no handler of one reads the
state of the other. So the run keeps their states apart (`OneUse` in `MCInputDevices`):
they add up and do not multiply.

The `MC` modules name the model values, the maps between them and the symmetry sets.

## 3. The runs

| Run | Question | Bounds |
|---|---|---|
| `SurfaceTreeSub` | are the pending links and the mapping of subtrees consistent after any sequence of requests, does the content of synchronized subsurfaces change only, and completely, with the parent? | 3 surfaces: a root, a child and a grandchild, or two children |
| `SurfaceTreeToplevels` | with parents of toplevels, `close`, failing imports and disconnection: are links valid, is a destroyed surface ever used? | 3 surfaces |
| `SurfaceTreeLive` | does every request return? (not with a cycle of four: section 5) | 3 surfaces, without `set_parent` and `set_desync` |
| `SessionLock` | is the content hidden before `locked` and until the unlock? who can unlock? can a lock lose its answer otherwise than to another lock? | 2 locks, 2 outputs |
| `OutputRender` | who overlaps with whom, can threads wait for each other, are repaints lost, do `removeOutput`, `setMode` and switches of the session return? | 2 outputs, one with modes, one filtered |
| `OutputRenderMode` | does `paintGL()` overlap the main thread when a mode changes? (it does: section 5) | 2 outputs, one with several modes, no filter |
| `ToplevelConfigure` | which configuration applies, who is active, do resize sessions end, is the protocol implemented? | 2 toplevels, one of them resized and maximized by a client that skips configurations; serials up to 4; one width per use |
| `DataTransfer` | who sees the selection, whom does a drag address, how does it end? | 2 clients, 2 sources, 2 types of which one persistent, one client that leaves |
| `Popups` | what has the grab, and what do popups stand on? | 3 popups, a toplevel and a layer surface of their client, a window of another |
| `LayerShell` | are rects, zones, slots and mappings consistent? | 2 layer surfaces, one asks for the output, one takes that of the cursor; 1 output with sizes 4x4 and 6x4 |
| `Frames` | which buffers wait for whom, what does feedback say? | 1 surface, 2 scanout buffers and 1 copied, 2 outputs, 1 feedback |
| `InputDevices` | do clients learn the end of what they were told, who is constrained, who has the input of a locked session? | 2 clients with a surface each; by the constraint `OneUse` the pointer with 2 wl_pointers of one and 1 of the other, or with 1 each and 2 constraints, or 2 fingers |

Why the bounds are enough to be interesting: three surfaces give chains of
length three, cycles through a pending child, siblings, and a surface that
moves from one parent to another. Two locks give a second client that locks,
times out or dies while the first holds the session; two outputs give one that
is painted while the other is unplugged, and two render threads that race for the
mutex while the main thread takes one of them. Four serials give a configuration
that is skipped, one acknowledged twice and one in flight at a reset, and two
toplevels one that takes the activation away. Two clients and two sources give a
drag over another client while the selection changes hands and either dies. Three
popups give a nested chain and two siblings. Two zones give one that moves when the
other goes; two sizes an output that changes. Two scanout buffers and two outputs
give a buffer in the slots of both, in both slots of one, and replaced in between.
Two pointers of a client give one that is bound after the enter and one whose wl_seat was
released while the other has its own, and two constraints
one that replaces the other. Except for `MaxSerial` no counter is capped: identifiers are
reused after destruction, so histories are unbounded. `times` counts the
activations of a oneshot constraint up to two, the first that is wrong.

Deadlock is checked except in `SurfaceTreeToplevels`, where the state
`undefined` (section 5) ends the model.

The runs with a symmetry set have no liveness properties. Only `OutputRender` and
`SurfaceTreeLive` check liveness; the modules without fairness state what may never
happen, and the promises that depend on the client or the user doing something more are
stated as invariants (a lock without an answer has its timer or the session, a stopped
resize session has its timer, a source has been answered or an offer that will answer it
exists).

**Fairness.** `SurfaceTree`: a handler that runs is not interrupted for good
(weak fairness of `Step`); the client need not send anything. `SessionLock`:
a timer fires (`wl_event_loop`), and an output that called `repaint()` is
painted (the promise `OutputRender` checks); nothing is assumed of clients. It is what
`LockedIsSent` (section 5) is stated under; the runs of this module need no fairness.
`OutputRender`: render threads and the main thread run, and a thread that waits
for a mutex gets it at last (strong fairness: `std::mutex` is not fair by
standard, but the holders release it between frames); the main loop wakes up for
an eventfd that was written; event handlers return. Nothing is assumed of the
users of the API: outputs need not ever be repainted, removed or added.

### The properties

* `LinksValid`, `PendingChildrenExact`: the stored iterators (`parentLink`,
  `pendingParentLink`) always point into the list that `erase()` is called on.
* `MappedSubsurfaces`, `MappedHasRole`: after every request, what is mapped is a
  subtree with content under a mapped, configured toplevel, or under a cycle.
* `CachesFlushedWithParent`, `SyncedContentWithParent`: atomic updates of
  synchronized subtrees.
* `NormalContentHidden`, `UnlockedByHolder`, `DisplayedWhenGranted`,
  `AnswerComing`: the promises of ext-session-lock-v1, the last as far as no other lock
  is granted meanwhile.
* `PaintExclusive`: an output whose mode never changes paints alone, through any number
  of removals and additions. `NoLockNeeded`: while the main thread waits with the mutex,
  the thread it waits for needs no mutex. `RepaintPainted`, `TakingEnds`: progress, the
  latter of removals, changes of the mode and switches of the session.

* `SlotsAgree`: the two slots of a toplevel differ only while their serials do.
  `SerialTellsPending`: with the serial of the last configuration in force nothing is
  waiting or in flight. `DeactivationComing`: a toplevel that lost the activation
  will be told. `ResizeSessionsEnd`: a session ends with its toplevel; one that was
  stopped has its timer until the client caught up, and the client is told.
  `ImplementsProtocol`: the refinement.
* `OneSelection`: at most one client has a selection. `ClipboardKept`: persistent contents
  outlive their source. `DragTarget`: enters, open offers and references are of
  the drag that goes on. `AnsweredAfterDrag`: its source learns how it ended, and
  before that nothing but that a client finished early.
* `GrabHasFocus`: the surface that grabs the keyboard has the focus. `MappedOnMapped`,
  `GrabIsShown`: neither a popup nor the grab hangs on something that is gone.
* `ZonesArranged`: rects and available geometry are those of the current list, and do
  not overlap. `AtomsAgree`: no commit brings back a value that another replaced.
  `MappedOnOutput`: mapped on initialized outputs, and after a configuration.
  `RectIsSent`: a mapped surface is told of every new size.
* `BuffersKept`: no buffer is given back while it is scanned out, and one that stops
  being used is, but for two ends that the property names.
  `ReleasedOnce`: each use is answered once. `PresentedWasPainted`: feedback is
  presented by an output that painted its commit, or has the flag of zero copy.
* `ToldOfFocus`, `TouchIsEnded`: what clients were told of pointer, gestures and touches
  is of living focus and points, as long as they keep the wl_seat of the pointer.
  `ConstraintsOfFocus`: only the focus is constrained, by one constraint, and a oneshot
  one is not activated again. `InputOfLock`: a locked session gives input to the client
  of the lock only, the pointer also to a lock surface of a client that it was taken
  from. `HeldKeepsFocus`: a surface held by the button keeps the pointer.

Each property has a mutant, an operator `<Definition><Change>` before the
definition it replaces (for instance `StoreCallLockFiltered`, which forgets to
unlock the filter) that makes TLC find the property violated.

## 4. The proofs

Each proof module proves one component for all values of its constants that satisfy the
named assumptions, so for any number of objects; only what the run of the module bounds
by its constants is unbounded there. Each has an inductive invariant, `IInv`
(`LayerInv` for `LayerShell`), whose facts TLC checked on the instance of the run, and
theorems for its consequences.

* **`SurfaceTreeProofs`**: every safety property of the runs, for any finite set of
  surfaces. The calls in progress are a stack that grows with the depth of the tree, so
  each invariant says what the frames still have to do.
  * `IInv` (`TypeCorrect`, `LinksStayValid`, `PendingExact`) adds three facts to the
    properties. *Remove is last*: a pending destruction is the bottom of the stack, so no
    other call survives it and frames never refer to a surface that is gone. *Dead
    surfaces are unlinked*, which is what lets an identifier be reused. *Children are
    alive* unless the mode is undefined, needed because `setParent` leaves a surface in
    the list of its old parent (section 5). Calls that change no link are proved together
    (`PlainStepIInv`), those that do separately.
  * `CallInv` (`CachesFlushed`): which calls may be in progress together, and that a
    child with a cached commit, under a surface that is committing, is still in the
    `todo` of a call above or has its own commit there.
  * `MappedInv` (`MappedRoles`): a surface that is mapped without a role, or with one that
    is to be configured, is one that the calls in progress will unmap: whatever a
    parent's unmapping or a commit maps again while a role goes, the destructor of the
    role unmaps last. No assumption about parents is needed.
  * `ShowInv` (`MappedCorrect`, `ListsExact`): a mapped subsurface that should not be
    mapped is one that a call in progress will check or unmap (`ShownInv`), a mapped
    surface has a role that allows it (`RoleInv`), before a role or a surface goes it is
    unmapped and nothing is mapped again (`UnmapInv`), and every child in a list has the
    owner for parent (`NoStale`), or a `reset()` is in progress that never ends
    (`Doomed`, divergence 2). `MappedCorrect` then finds the root: the set of ancestors
    is finite, so the parents reach a toplevel or a cycle.
  * `CommitInv` (`SyncedContentCorrect`, of steps) follows the commits in progress by
    their depth. Each content below another is that of a synchronized child, which waits
    in its cache for the parent that notified it or for one above that adopted it since
    (`Settled`), and so the cache is emptied under its parent only. Where a cycle of
    parents begins this is true from that depth on, and no frame below it is ever reached
    again (`Looping`), because the recursion does not end.

  `MappedCorrect`, `ListsExact` and `SyncedContentCorrect` have the hypothesis
  `"reparent" \notin Requests`: no client gives another parent to a toplevel that has
  one, which leaves it in two lists. Everything else is allowed: `set_parent`, failing
  imports, disconnections and cycles of subsurfaces. Assumptions: `NoneAssumption`, the
  null surface is not a surface, and `FiniteAssumption`.
* **`SessionLockProofs`**: `TypeCorrect`, `ContentHidden`, `Displayed`,
  `Answered`, `Unlocked`. `NormalContentHidden` is not inductive: `HiddenUnlessPending`
  says that an output the holder no longer waits for is hidden already;
  `RequestOnce` says that the holder's request is over and that a lock whose
  request is to come was never told `locked`; `RolesGranted` says that the
  surfaces outputs will map when they are initialized belong to a granted lock.
  `Answered` is of steps: the grant of another lock is the only one that takes the
  session from a holder that waits for `locked`.
  Assumption: `NoLockAssumption`.
* **`OutputRenderProofs`**: `TypeCorrect`, `PaintAlone`, `NoWaitCycle`.
  `ThreadInv` ties `callLock`, `asked` and `useLock` to where the main thread
  is; `StateInv` ties the states to the output being taken; `LockedInv`: a
  thread of a single-mode output that skipped the lock finds the output not
  initialized, because the state is stored before `callLock` and made
  `Initialized` again only after the thread was gone; `AckInv`: after the
  acknowledgement the thread is past the places where it waits. One lemma per
  action. Assumption: `OutputsAssumption`.
* **`InputDevicesProofs`**: `TypeCorrect`, `Told`, `ConstraintsFollowFocus`,
  `LockHasInput`, `TouchesEnd`, `HeldStays`: every property of the run, for
  pointer and fingers used together. The invariant adds to the properties that a
  pointer that was told something, and whose wl_seat was not released, exists and is one
  of the client of the focus (`ToldOK`), so that the leave and the end, which go to the
  pointers of that client, reach it; that a surface has one constraint, and a oneshot
  constraint that may still be activated never was (`ConstraintsOK`); and that a deleted
  point is on no surface (`PointsOK`). One lemma per function of the handlers
  (`EndSwipeOK`, `LeaveOK`, `SetFocusOK`, ...) says that it keeps `PtrOK`; the actions
  follow from these. Assumptions: `InputAssumption`, `PointerAssumption`.
* **`ToplevelConfigureProofs`**: `TypeCorrect`, `SlotsCorrect`, `SerialTells`,
  `DeactivationComes`, `ResizeSessionsCorrect` and `Refinement`, that every handler is a
  sequence of steps of `ConfigureProtocol` or changes nothing of it. For each toplevel
  the invariant says in which order serials are (`SerialInv`: the configurations sent
  grow, what was acknowledged comes before them, what is in force before that), how the
  two slots differ (`SlotInv`), what a resize session waits for (`ResizeInv`), and that a
  toplevel which is neither active nor of a client that skips configurations is `Told`.
  A handler calls helpers that break parts of this in between; `Touched` and
  `Configured` say what each helper may change, and compose. Assumption:
  `ConfigureAssumption`.
* **`DataTransferProofs`**: `TypeCorrect`, `OneSelectionCorrect`, `DragTargetCorrect`,
  `AnsweredCorrect` and `ClipboardKeptCorrect` (of steps). The invariant has one part
  for the selection (`SelectionInv`, `ClipboardUsage`: who is sent updates, and that the
  source of the clipboard is one), one for the drag (`DragInv`: the use of the sources,
  `DragUsage`; the session, `SessionInv`; then `DragTarget` and `AnsweredAfterDrag`
  themselves, which are inductive once those are known; an early finish only adds
  `finished` to what the source was told). `OneSelection` is true because the only
  client that sees a selection is the one of the last offer (`SelectionInv`), which is
  told when the selection or the focus goes elsewhere. Assumption: `DataAssumption`.
* **`ShellProofs`**, about `Popups`: `TypeCorrect`, `GrabFocused`, `MappedCorrect`,
  `GrabShown`. `GrabIsShown` and `MappedOnMapped` are about chains of popups of any
  length. The invariant avoids the recursion by a set: there is a set of popups that
  holds the grab and what is mapped, is closed under parents that are popups, and of
  which every member was configured and is mapped or dismissed (`ShownIn`). The walk of
  `dismissPopups()` ends because the list holds each popup once, those that are
  configured above the others (`StackOK`), and the popup where it ends is still ahead of
  it (`WalkOK`). Lemmas about `RemoveAt` and `InsertAt` say that moving a surface in the
  list keeps this. Assumption: `PopupsAssumption`.
* **`ShellProofs`**, about `LayerShell`: `LayerTypeCorrect`, `ZonesArrangedCorrect`,
  `AtomsAgreeCorrect`, `MappedOnOutputCorrect`, `RectIsSentCorrect` (of steps) and
  `LayerGrabFocused`. A handler is a function of the state (`World`), made of the calls
  it makes, so the lemmas are about calls on values of the state.
  * *The arithmetic.* `Taken`, what the zones of a list take, is a recursive function of
    the number of zones. What is needed of it is proved by induction on a set of numbers
    (`Naturals`, from the well-foundedness of `<`): it is defined (`TakenCounts`), grows
    along the list (`TakenOK`) and depends on the edges and sizes of the zones only
    (`TakenSame`). The strip of a zone is then inside what the zones before it left, and
    outside what those after it get (`StripsDisjoint`, `StripBesideFree`).
  * *The calls.* Between two calls every list holds the zones of its output, once
    (`ListsOK`), and its rects are up to date (`Fresh`). `updateExclusiveZones()`
    establishes the second for an output from any state whose lists share no zone
    (`ListsApart`), which is what holds in the middle of `setOutput()`, when the zone
    has left its list and still names the output. Every other zone is `Moved`: it
    keeps all but its rect, and if that changes while it is mapped its client is told.
  * *The invariant* (`Sound`) adds that the outputs named are there (`Live`, so that a new
    output begins without zones), that a surface its client mapped was configured and has
    a buffer, and that the keyboard names surfaces that exist. `setOutput()` is called for
    surfaces that are not mapped only, which is why their rects may change unsaid.

  Assumption: `LayerShellAssumption`, that the values are those the requests accept and
  the sizes of outputs positive. The integers are unbounded: rects whose sums exceed 32
  bits are outside model and theorem.
* **`FramesProofs`**: `TypeCorrect`, `PresentedCorrect`, `BuffersKeptCorrect` and `ReleasedOnceCorrect` (the last two of steps). A buffer that
  is not copied is held while a surface has it as its current one or a slot of an output
  has it (`HeldOK`); not conversely, because of the two ends of section 5. This is
  inductive with: what does not exist owns nothing (`IdleOK`); a slot refers to a
  surface that exists (`SlotSurfaceOK`); a buffer that is not copied has one owner at
  most, and slots that have it agree on its surface (`OwnerOK`; the pending buffer of a
  deferred commit is owned too), so that the commit which replaces it finds every slot;
  a copied buffer is in no slot (`CopiedOK`); and the output that will answer a feedback
  is one of those that painted it (`FeedbackOK`). One lemma per function of the
  handlers; `UninitializeOK` is where the double release of section 5 is, the exception
  of `ReleasedOnce`. Assumption: `FramesAssumption`.

**Only model-checked:** the liveness properties (`RequestsTerminate`,
`RepaintPainted`, `TakingEnds`), which the proof system cannot handle, as it has no
`ENABLED`. Every safety property of the passing runs has a theorem.

## 5. Divergences

The modules define these properties, which the documentation states and the code does
not have. The run `OutputRenderMode` shows the fifth; TLC finds the others violated within a few
steps when they are added to the configuration of the module:

1. `ParentNotDescendant` (`SurfaceTree`): `get_subsurface`
   (`protocols/Wayland/GSubcompositor.cpp:77`) accepts a parent that is a child of a
   pending child; when the parents commit a surface is its own ancestor. Three mapped
   subsurfaces in such a cycle stay mapped without a toplevel, the case that
   `MappedSubsurfaces` allows. Two synchronized ones in it, each with a commit in its
   cache, and a third above them, make `requestCommit` recurse without end when that one
   commits, so `RequestsTerminate` does not hold for four surfaces.
2. `UnmappedToplevelGivesAwayChildren` (`SurfaceTree`): `LToplevelRole::reset()`
   (`core/roles/LToplevelRole.cpp:468`) does not return for a toplevel with both a
   parent and a child.
3. `AskedWhenFree` (`SessionLock`): the timer of a lock
   (`protocols/SessionLock/RSessionLock.cpp:40`) asks for a second lock while the
   session is locked.
4. `LockedIsSent` (`SessionLock`): outputs without a lock surface are waited for but
   not repainted (`RSessionLock.cpp:146,155`), so `locked` depends on somebody else
   repainting them.
5. `NoOverlap` (`OutputRender`): `backendResizeGL` makes the output `Initialized`
   (`core/private/LOutputPrivate.cpp:407`) before `callLock` is true again
   (`core/LOutput.cpp:256`), so `paintGL()` may run in parallel with the main thread.
6. `OneActivated` (`ToplevelConfigure`): two toplevels look activated when the client of
   one skips configurations (`core/roles/LToplevelRole.cpp:202`; `LSeat.h:144`).
7. `SelectionWithFocus` (`Clipboard`): a client that gets the keyboard focus while the
   selection has no source is not sent the contents (`core/LKeyboard.cpp:295`).
8. `DismissedWithChildren` (`Popups`): `dismiss()` walks the list of surfaces from the
   top down to the popup (`core/roles/LPopupRole.cpp:449`); a child that `raise()` or
   `setLayer()` left below its parent stays mapped (`LPopupRole.h:231`).
9. `MappedIsConfigured` (`LayerShell`): a layer surface that is mapped again is not
   always configured (`LLayerRole.h:188`). `GrabIsExclusive`: a click focuses layer
   surfaces without interactivity, and an exclusive one does not get the grab back
   (`core/roles/LLayerRole.cpp:140-155`; `LLayerRole.h:83`).
10. `LocksAnswered` (`SessionLock`): a lock is granted, and `locked` sent when the outputs
   were painted. The timer of another lock does not look at the state
   (`protocols/SessionLock/RSessionLock.cpp:38-41,131`), and when it takes the session
   before that, the first lock is told neither `locked` nor `finished`
   (`ext-session-lock-v1.xml:74-75`).
11. `FinishedAfterDrop` (`DragAndDrop`): `finish` of an offer looks neither at the drop
   nor at the mime type (`protocols/Wayland/RDataOffer.cpp:62-79`): sent in the middle
   of the drag it tells the source that it may go (`wayland.xml:812-814`), and the client to leave.
12. `HeldIsUsed` (`Frames`): the buffer of a destroyed surface is released only if an output
   scans it out (`core/LSurface.cpp:43`; `wayland.xml:1480-1483`).
13. `OvertakenIsReleased` (`Frames`): a synchronized subsurface defers its commit
   (`core/roles/LSubsurfaceRole.cpp:16-25`) and leaves the buffer pending; the next
   `attach` overwrites it (`protocols/Wayland/RSurface.cpp:163-166`), and it is never
   released.
14. `PresentedIsOfCommit` (`Frames`): an output that scans a surface out answers all of
   its feedback (`core/private/LSurfacePrivate.cpp:551`), also that of a commit to come, or
   superseded (`presentation-time.xml:203-204`).
15. `LeaveIsSent` (`Pointer`): `wl_seat.release` destroys the object through which the
   wl_pointers of a client are found (`protocols/Wayland/GSeat.cpp:56`,
   `core/LPointer.cpp:69-71,414-416`). Those made with it live on, and are told neither
   `leave` (`wayland.xml:2060-2064`) nor the end of a gesture.

Met while translating, and visible in the definitions:

* `setParent` with a new parent leaves the surface in the list of the old one
  (`core/private/LSurfacePrivate.cpp:41`); when the old parent or the surface is
  destroyed the entry dangles: `Remove` then enters the mode `undefined`.
* `~RSubsurface` unmaps the surface but leaves it among the children of its
  parent, where `wayland.xml:3081` says the association "is deleted"; only a
  later role or the destruction of either ends it.
* `set_desync` looks at the parents when it is called (`RSubsurface.cpp:135`):
  a subsurface desynchronized under a parent that is moved below a synchronized
  one later keeps acting desynchronized (`wayland.xml:3061`: "recursively
  throughout the tree").
* `set_parent` with a parent that is not mapped clears the parent of that
  *parent* and not of the toplevel (`RXdgToplevel.cpp:93-96`).
* A toplevel that was asked to close ignores commits, so one that attaches a null
  buffer stays mapped (`LToplevelRole.cpp:73`).
* `handleParentCommit` tests `m_pendingPlaceBelow` and dereferences
  `m_pendingPlaceAbove` (`LSubsurfaceRole.cpp:80-82`); not modelled yet.
* Configurations: two acknowledgements before a commit, the second with the same size,
  apply a state that needs a commit before it (comment at `LToplevelRole.cpp:283`). A
  stopped resize session that still waits moves a toplevel that was maximized since.
* Data: `~RDataSource` offers the types of the source that dies (`RDataSource.cpp:35`).
  `LDND::cancel()` sends both `cancelled` and `dnd_finished`. A drop whose offer was
  destroyed earlier never answers the source (`LDND.cpp:177`). A finish of an offer sends
  `leave` again, during a drag that has begun since. A source cancelled at the drop is
  cancelled again when its offer is destroyed.
* Popups: `popup_done` goes to the popup being dismissed for every child
  (`LPopupRole.cpp:442`). The grab returns to the parent popup even if that had none,
  was unmapped or dismissed. Popups of a toplevel that is unmapped stay mapped without a
  parent. `reposition()` before the first commit follows a null parent. The positioner
  slides after a resize from the old origin (`LPopupRole.cpp:320`).
* Layer shell: after an unmapping the edge of the zone stays and is not computed again
  (`HasPendingExclusiveZone`). When its `LOutput` is deleted a zone keeps its rect
  (`LExclusiveZone.cpp:10`) and no `closed` is sent; nothing calls `close()`.
* Frames: `HasUnhandledPresentationTime` is set by the page flip
  (`LOutputPrivate.cpp:473`) and removed by nobody (`LCompositorPrivate.cpp:880`), so
  after the first flip feedback is presented before the frame of its commit was flipped.
  A frame requested outside of a paint
  (`LToplevelRole.cpp:358`) discards the feedback of a commit that is painted later.
  Feedback of a destroyed surface stays unanswered. An output uninitialized with one
  buffer in both slots, which its surface has replaced, releases it twice
  (`LOutputPrivate.cpp:458`; the exception in `ReleasedOnce`).
* Session lock: an output for which a lock that overtakes another has no surface keeps the
  lock surface of the first (`RSessionLock.cpp:143`), which gets pointer and keyboard
  (`core/default/LSessionLockManagerDefault.cpp:39`; `overtaken` in `InputOfLock`).
* Pointer and touch: the flag of a gesture stays when the focused surface is destroyed
  (`LPointer.cpp:255`): the next `begin` is ignored, its updates and end are sent.
  Minimizing a surface held by the left button leaves it as the dragged surface without
  the focus (`LToplevelRoleDefault.cpp:281`). `get_pointer` of the client with the focus
  sends no `enter`, but `leave` follows (`GSeat.cpp:62`). A gesture object that
  outlives its pointer gets no end. `set_region` flags the position hint and not the
  region (`RLockedPointer.cpp:97`, `RConfinedPointer.cpp`). While a pointer is locked
  only the `wl_pointer` of the request is left out, other pointers of the client get
  motion (`LPointer.cpp:108`). A button released without a focus gives the focus to the
  surface under the cursor, which is told of the release only (`LPointerDefault.cpp:192`).
  `sendDownEvent` of a point that is up and not framed yet sends `up` again.
* `RDRMLease`: the loop over the connectors that are made not leasable skips the element
  swapped in (`RDRMLease.cpp`, constructor); outputs plugged while the seat is disabled
  are not announced to output managers (`LSeatPrivate.cpp:176`). Both are read, not
  modelled.

## 6. What is not modelled

Pixels (painter, textures, regions, damage, cursors), device I/O (backends,
libinput, libseat), formatting and logging, and most geometry (scene, views,
positioner, positions of toplevels). User code is any code a virtual method allows:
arbitrary answers, arbitrary calls to `repaint()`, and no calls that change the tree; the
default handlers are modelled where they decide about focus, grab and state.

Within the modelled components: the order among siblings; sizes beyond a width,
titles, decorations; move sessions (they wait for nothing); key events and the set of
pressed keys; scrolling; drags and move sessions by touch; the negotiation of drag
actions and the transfer of data; configurations of popups; frame callbacks;
the release of wl_seats, except by clients with pointers (`Popups` and `LayerShell` take
every client to have a wl_keyboard, `Touch` one wl_touch that stays); updates of
`stateFlags` that overlap (taken as atomic in `OutputRender`);
`setGrab(nullptr)` by the session lock; the deletion of an `LOutput` in `SessionLock`.
Components marked `not_modelled` in
`PROJECT.json` each give their reason.

## 7. Plan

Done: `SurfaceTree`, `SessionLock`, `OutputRender` (with the switch of the session),
`InputDevices`, `ToplevelConfigure` with `ConfigureProtocol`, `DataTransfer`, `Popups`,
`LayerShell`, `Frames` and the proofs of these. Next, in this order:

1. `SurfaceOrder`: the lists of children, surfaces and layers with `place_above`,
   `place_below`, `raise`; refines the sets of `SurfaceTree`.
2. `OutputServices`: output management, leases, gamma and screen copies: who owns an
   output and which answers a client gets.
3. `Timers`: timers, animations, activation tokens and idle notification with
   callbacks that stop or destroy the object that calls them; foreign toplevels.
4. Pure algorithms against reference definitions: the positioner, the simplification
   of damage, the dispatch of events to views.

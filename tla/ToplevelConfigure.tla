--------------------------- MODULE ToplevelConfigure ---------------------------
(* The configuration of toplevels (LToplevelRole, RXdgSurface.ack_configure,    *)
(* RXdgToplevel), the active toplevel of the seat, and the move and resize      *)
(* sessions with the default handlers.                                          *)
(*                                                                              *)
(* A handler runs to its end on the main thread, so it is one action; it may    *)
(* configure its own toplevel several times and the active one as well, so the  *)
(* code it calls is written as operators on a world w = [role, active, serial]  *)
(* that return the world after the call.                                        *)
(*                                                                              *)
(* Abstractions: of the states, Maximized stands for the ones applied with a    *)
(* commit (Fullscreen and the tiled states), Activated and Resizing are applied *)
(* with the acknowledgement; sizes and geometries are widths, 0 is "no size";   *)
(* bounds, capabilities, decoration mode, title, application id, positions and  *)
(* min/max sizes and move sessions are left out; the four Has...ToSend flags are one; the cursor  *)
(* is always on an output, and an error ends the client.                        *)
EXTENDS Naturals, Sequences, FiniteSets

CONSTANTS Toplevels,    \* the toplevels, each of a client of its own
          None,         \* no toplevel
          Busy,         \* the toplevels that are moved, resized, maximized,
                        \* minimized and closed, and set their geometry; the
                        \* others are only activated and acknowledge
          Hasty,        \* the toplevels whose clients skip configurations
          Widths,       \* the widths the user drags to and toplevels had before
          OutputWidth,  \* the width of a maximized toplevel
          Geometries,   \* the widths clients set as window geometry
          SurfaceWidths,\* the widths of the surfaces of clients that set none
          MaxSerial     \* bound: no request is made once this serial is taken

ASSUME ConfigureAssumption ==
  /\ None \notin Toplevels
  /\ Busy \subseteq Toplevels /\ Hasty \subseteq Toplevels
  /\ Widths \cup {OutputWidth} \cup Geometries \cup SurfaceWidths \subseteq Nat \ {0}
  /\ MaxSerial \in Nat

VARIABLES role,            \* one LToplevelRole per toplevel
          activeToplevel,  \* seat()->activeToplevel()
          serial           \* the last LTime::nextSerial()

vars == <<role, activeToplevel, serial>>

-----------------------------------------------------------------------------
(* State *)

States == {"Activated", "Resizing", "Maximized"}

(* The states partialAtomsUpdate() applies. *)
Light == {"Activated", "Resizing"}

Sizes == {0, OutputWidth} \cup Widths

AllGeometries == {0} \cup Geometries \cup SurfaceWidths

Configuration == [serial : 0..serial, state : SUBSET States, size : Sizes]

Atoms == [serial : 0..serial, state : SUBSET States, geometry : AllGeometries]

NoConfiguration == [serial |-> 0, state |-> {}, size |-> 0]

NoAtoms == [serial |-> 0, state |-> {}, geometry |-> 0]

Flags == {"HasPendingInitialConf", "HasToSend", "ForceRemoveActivatedFlag", "ClosedSent"}

NewRole ==
  [flags |-> {"HasPendingInitialConf"}, mapped |-> FALSE,
   requestedMaximized |-> FALSE,        \* m_requestedStateBeforeConf
   conf |-> NoConfiguration,            \* m_pendingConfiguration
   sent |-> << >>,                      \* m_sentConfigurations
   ack |-> NoConfiguration,             \* m_lastACKConfiguration
   cur |-> NoAtoms, pend |-> NoAtoms,   \* currentAtoms(), pendingAtoms()
   pendingGeometry |-> 0,               \* 0 unless m_hasPendingWindowGeometry
   geometrySet |-> FALSE,               \* m_windowGeometrySet
   exclusiveOutput |-> FALSE,
   resize |-> [active |-> FALSE, serial |-> 0, handled |-> TRUE, timer |-> FALSE]]

World == [role |-> role, active |-> activeToplevel, serial |-> serial]

Becomes(w) == /\ role' = w.role
              /\ activeToplevel' = w.active
              /\ serial' = w.serial

Init == /\ role = [t \in Toplevels |-> NewRole]
        /\ activeToplevel = None
        /\ serial = 1

-----------------------------------------------------------------------------
(* configureState(), configureSize() and what they call *)

UpdateSerial(w, t) ==
  IF "HasToSend" \in w.role[t].flags THEN w
  ELSE [w EXCEPT !.serial = @ + 1, !.role[t].conf.serial = w.serial + 1]

ConfigureState(w, t, S) ==
  LET v == UpdateSerial(w, t)
  IN [v EXCEPT !.role[t] = [v.role[t] EXCEPT !.flags = @ \cup {"HasToSend"}, !.conf.state = S]]

ConfigureSize(w, t, n) ==
  LET v == UpdateSerial(w, t)
  IN [v EXCEPT !.role[t] = [v.role[t] EXCEPT !.flags = @ \cup {"HasToSend"}, !.conf.size = n]]

\* Mutant: the flag is not set, a later configureState() undoes the deactivation.
TakeActiveUnflagged(w, t) ==
  [IF w.active \in {None, t} THEN w
   ELSE ConfigureState(w, w.active, w.role[w.active].conf.state \ {"Activated"}) EXCEPT !.active = t]

(* t becomes the active toplevel: the one before it is deactivated by its next
   configuration, whatever is asked for until that one is sent. *)
TakeActive(w, t) ==
  LET other == w.active
      flagged == [w EXCEPT !.role[other].flags = @ \cup {"ForceRemoveActivatedFlag"}]
      deactivated == IF other \in {None, t} THEN w
                     ELSE ConfigureState(flagged, other, w.role[other].conf.state \ {"Activated"})
  IN [deactivated EXCEPT !.active = t]

(* t becomes active with the states that it is given. *)
TakeIfActivated(w, t, state) ==
  IF "Activated" \in state \ w.role[t].cur.state THEN TakeActive(w, t) ELSE w

(* The default atomsChanged(): a maximized toplevel without its output is asked
   to be normal again. *)
AtomsChanged(w, t, prev) ==
  LET r == w.role[t]
      maximized == "Maximized" \in r.cur.state
      changed == maximized # ("Maximized" \in prev.state)
      v == IF changed /\ maximized /\ ~r.exclusiveOutput
           THEN ConfigureState(ConfigureSize(w, t, 0), t, r.conf.state \ {"Maximized"})
           ELSE w
  IN IF changed /\ "Maximized" \notin v.role[t].conf.state
     THEN [v EXCEPT !.role[t].exclusiveOutput = FALSE]
     ELSE v

(* LToplevelResizeSession::handleGeometryChange() *)
HandleGeometryChange(w, t) ==
  LET r == w.role[t] IN
  IF /\ ~r.resize.handled /\ ~r.resize.active
     /\ "Resizing" \notin r.cur.state \/ r.resize.serial < r.cur.serial
  THEN [w EXCEPT !.role[t].resize = [r.resize EXCEPT !.handled = TRUE, !.timer = FALSE]]
  ELSE w

(* The atoms a full update puts in force; g is what calculateGeometryWithSubsurfaces()
   returns for a client that never set a geometry. *)
NextAtoms(r, g) ==
  [r.pend EXCEPT !.geometry = IF r.pendingGeometry # 0 THEN r.pendingGeometry
                              ELSE IF r.geometrySet THEN r.cur.geometry ELSE g]

(* The slots are exchanged; what changed is copied to the slot left behind. *)
Exchange(w, t, next) ==
  LET r == w.role[t]
      left == IF next.serial # r.cur.serial THEN next ELSE [next EXCEPT !.state = r.cur.state]
  IN [w EXCEPT !.role[t] = [r EXCEPT !.cur = next, !.pend = left, !.pendingGeometry = 0]]

(* Nothing changed: the slots stay. *)
Stay(w, t, next) ==
  [w EXCEPT !.role[t] = [w.role[t] EXCEPT !.pend = next, !.pendingGeometry = 0]]

(* Something changed: the seat, the handler and the resize session learn it. *)
ApplyAtoms(w, t, next) ==
  LET prev == w.role[t].cur
      a == IF next.serial # prev.serial THEN TakeIfActivated(w, t, next.state) ELSE w
      b == AtomsChanged(Exchange(a, t, next), t, prev)
  IN IF next.geometry # prev.geometry THEN HandleGeometryChange(b, t) ELSE b

(* fullAtomsUpdate() *)
FullAtomsUpdate(w, t, g) ==
  LET r == w.role[t]
      next == NextAtoms(r, g)
  IN IF next.serial = r.cur.serial /\ next.geometry = r.cur.geometry
     THEN Stay(w, t, next)
     ELSE ApplyAtoms(w, t, next)

\* Mutant: the full pending changes are not restored.
PartialAtomsUpdateForgets(w, t) ==
  LET r == w.role[t]
      state == (r.cur.state \ Light) \cup (r.pend.state \cap Light)
      a == TakeIfActivated(w, t, r.pend.state)
  IN AtomsChanged([a EXCEPT !.role[t].cur.state = state, !.role[t].pend = r.cur], t, r.cur)

(* partialAtomsUpdate(): the light states are applied, the pending slot keeps
   the rest for the commit. *)
PartialAtomsUpdate(w, t) ==
  LET r == w.role[t]
      state == (r.cur.state \ Light) \cup (r.pend.state \cap Light)
      a == TakeIfActivated(w, t, r.pend.state)
      b == [a EXCEPT !.role[t].cur = [r.cur EXCEPT !.state = state]]
  IN AtomsChanged(b, t, r.cur)

-----------------------------------------------------------------------------
(* Sessions *)

\* Mutant: the client is not told that the session ended.
StopResizeSilent(w, t) ==
  LET handled == w.role[t].conf.size = w.role[t].ack.size
  IN [w EXCEPT !.role[t].resize.active = FALSE,
               !.role[t].resize.handled = handled, !.role[t].resize.timer = ~handled]

(* LToplevelResizeSession::stop() *)
StopResize(w, t) ==
  IF ~w.role[t].resize.active THEN w
  ELSE LET v == ConfigureState(w, t, w.role[t].conf.state \ {"Resizing"})
           r == v.role[t]
           handled == r.conf.size = r.ack.size
       IN [v EXCEPT !.role[t].resize =
             [r.resize EXCEPT !.active = FALSE, !.handled = handled, !.timer = ~handled]]

(* Bound on the serials: no request is made that could take one more. *)
Room == serial < MaxSerial

(* startResizeRequest() and LToplevelResizeSession::start() *)
StartResize(t) ==
  /\ Room /\ t \in Busy /\ role[t].mapped /\ ~role[t].resize.active
  /\ LET v == ConfigureState(World, t, role[t].conf.state \cup Light)
         started == [active |-> TRUE, serial |-> v.role[t].conf.serial,
                     handled |-> FALSE, timer |-> FALSE]
     IN Becomes([v EXCEPT !.role[t].resize = started])

(* updateDragPoint(), from the pointer and touch move events *)
UpdateDragPoint(t) ==
  /\ Room /\ role[t].resize.active
  /\ \E n \in Widths :
       LET v == ConfigureState(ConfigureSize(World, t, n), t, Light)
           r == v.role[t]
       IN Becomes([v EXCEPT !.role[t].resize = [r.resize EXCEPT !.serial = r.conf.serial]])

(* The button or the finger is released. *)
StopDrag(t) ==
  /\ role[t].resize.active
  /\ Becomes(StopResize(World, t))

(* m_ackTimer, 600 ms after a session that the client has not caught up with *)
AckTimer(t) ==
  /\ role[t].resize.timer
  /\ Becomes([World EXCEPT !.role[t].resize =
                [role[t].resize EXCEPT !.timer = FALSE, !.handled = TRUE]])

-----------------------------------------------------------------------------
(* Requests of the client on its xdg_toplevel, and of foreign controllers *)

(* The default setMaximizedRequest() *)
SetMaximizedRequest(w, t) ==
  IF "Maximized" \in w.role[t].cur.state THEN w
  ELSE ConfigureState(ConfigureSize([w EXCEPT !.role[t].exclusiveOutput = TRUE], t, OutputWidth),
                      t, {"Activated", "Maximized"})

(* The default unsetMaximizedRequest(); n is the width saved in prevRect. *)
UnsetMaximizedRequest(w, t, n) ==
  IF "Maximized" \notin w.role[t].cur.state THEN w
  ELSE ConfigureSize(ConfigureState(w, t, w.role[t].conf.state \ {"Maximized"}), t, n)

(* Every request is answered with a configuration, a changed one or the same. *)
Answered(w, t) ==
  IF "HasToSend" \in w.role[t].flags THEN w ELSE ConfigureState(w, t, w.role[t].conf.state)

SetMaximized(t) ==
  /\ Room /\ t \in Busy
  /\ IF "HasPendingInitialConf" \in role[t].flags
     THEN Becomes([World EXCEPT !.role[t].requestedMaximized = TRUE])
     ELSE Becomes(Answered(SetMaximizedRequest(World, t), t))

UnsetMaximized(t) ==
  /\ Room /\ t \in Busy
  /\ IF "HasPendingInitialConf" \in role[t].flags
     THEN Becomes([World EXCEPT !.role[t].requestedMaximized = FALSE])
     ELSE \E n \in Widths : Becomes(Answered(UnsetMaximizedRequest(World, t, n), t))

(* The default setMinimizedRequest() *)
SetMinimized(t) ==
  /\ Room /\ t \in Busy /\ "HasPendingInitialConf" \notin role[t].flags
  /\ Becomes(StopResize(ConfigureState(World, t, role[t].conf.state \ {"Activated"}), t))

(* activateRequest(), from an activation token or a foreign controller *)
Activate(t) ==
  /\ Room \/ "HasToSend" \in role[t].flags
  /\ Becomes(ConfigureState(World, t, role[t].conf.state \cup {"Activated"}))

(* close(), after closeRequest() of a foreign controller *)
Close(t) ==
  /\ t \in Busy /\ role[t].mapped
  /\ Becomes([World EXCEPT !.role[t].flags = @ \cup {"ClosedSent"}])

(* The output of the maximized toplevels is unplugged. *)
OutputRemoved ==
  /\ role' = [t \in Toplevels |-> [role[t] EXCEPT !.exclusiveOutput = FALSE]]
  /\ UNCHANGED <<activeToplevel, serial>>

-----------------------------------------------------------------------------
(* The protocol of configurations *)

(* sendPendingConfiguration() of one toplevel *)
Flushed(r) ==
  LET c == IF "ForceRemoveActivatedFlag" \in r.flags
           THEN [r.conf EXCEPT !.state = @ \ {"Activated"}] ELSE r.conf
  IN [r EXCEPT !.conf = c, !.sent = Append(@, c),
               !.flags = @ \ {"HasToSend", "ForceRemoveActivatedFlag"}]

(* sendPendingConfigurations(), at the end of an iteration of the main loop *)
FlushClients ==
  /\ \E t \in Toplevels : "HasToSend" \in role[t].flags
  /\ role' = [t \in Toplevels |->
                IF "HasToSend" \in role[t].flags THEN Flushed(role[t]) ELSE role[t]]
  /\ UNCHANGED <<activeToplevel, serial>>

SetWindowGeometry(t) ==
  /\ t \in Busy
  /\ \E n \in Geometries :
       Becomes([World EXCEPT !.role[t] =
                  [role[t] EXCEPT !.pendingGeometry = n, !.geometrySet = TRUE]])

\* Mutant: the configurations before the acknowledged one stay in flight.
AckConfigureKeepsOlder(t, i) ==
  LET c == role[t].sent[i]
      v == [World EXCEPT !.role[t].sent = SubSeq(@, 1, i - 1) \o SubSeq(@, i + 1, Len(@)),
                         !.role[t].ack = c,
                         !.role[t].pend.serial = c.serial,
                         !.role[t].pend.state = c.state]
  IN /\ i = 1 \/ t \in Hasty
     /\ Becomes(PartialAtomsUpdate(v, t))

\* Mutant: the serial of the last configuration is taken as acknowledged.
AckConfigureLatest(t, i) ==
  LET c == role[t].sent[i]
      v == [World EXCEPT !.role[t].sent = SubSeq(@, i + 1, Len(@)),
                         !.role[t].ack = c,
                         !.role[t].pend.serial = role[t].conf.serial,
                         !.role[t].pend.state = c.state]
  IN /\ i = 1 \/ t \in Hasty
     /\ IF role[t].ack.size = c.size /\ role[t].pendingGeometry = 0
        THEN \E g \in SurfaceWidths : Becomes(FullAtomsUpdate(v, t, g))
        ELSE Becomes(PartialAtomsUpdate(v, t))

(* The i-th configuration in flight is the last acknowledged and its atoms are pending. *)
Acknowledged(w, t, i) ==
  LET r == w.role[t]
      c == r.sent[i]
  IN [w EXCEPT !.role[t] =
       [r EXCEPT !.sent = SubSeq(@, i + 1, Len(@)), !.ack = c,
                 !.pend = [r.pend EXCEPT !.serial = c.serial, !.state = c.state]]]

(* ack_configure with the serial of the i-th configuration in flight *)
AckConfigure(t, i) ==
  LET v == Acknowledged(World, t, i) IN
  /\ i = 1 \/ t \in Hasty
  /\ IF role[t].ack.size = role[t].sent[i].size /\ role[t].pendingGeometry = 0
     THEN \E g \in SurfaceWidths : Becomes(FullAtomsUpdate(v, t, g))
     ELSE Becomes(PartialAtomsUpdate(v, t))

(* The toplevel and its surface are destroyed; also the end of a client that
   acknowledged an unknown serial or attached a buffer too early. *)
Destroy(t) ==
  /\ role' = [role EXCEPT ![t] = NewRole]
  /\ activeToplevel' = IF activeToplevel = t THEN None ELSE activeToplevel
  /\ UNCHANGED serial

(* Nothing is pending, in flight or acknowledged any more; the serial of the empty
   atoms must differ from the one in force. *)
Cleared(w, t) ==
  LET r == w.role[t]
      again == r.cur.serial = 0
  IN [w EXCEPT !.serial = IF again THEN w.serial + 1 ELSE w.serial,
               !.role[t] =
                 [r EXCEPT !.conf = NoConfiguration, !.ack = NoConfiguration, !.sent = << >>,
                           !.pend = [NoAtoms EXCEPT !.serial = IF again THEN w.serial + 1 ELSE 0]]]

(* reset() *)
Reset(w, t, g) ==
  LET a == StopResize([w EXCEPT !.role[t].mapped = FALSE], t)
      c == FullAtomsUpdate(Cleared(a, t), t, g)
      r == c.role[t]
  IN [c EXCEPT !.active = IF c.active = t THEN None ELSE c.active,
               !.role[t] = [r EXCEPT !.requestedMaximized = FALSE,
                                     !.flags = {"HasPendingInitialConf"}]]

(* handleSurfaceCommit(): the first commit asks for a configuration *)
InitialCommit(t) ==
  /\ Room /\ "HasPendingInitialConf" \in role[t].flags /\ "ClosedSent" \notin role[t].flags
  /\ LET a == [World EXCEPT !.role[t].flags = @ \ {"HasPendingInitialConf"}]
         b == ConfigureState(ConfigureSize(a, t, 0), t, role[t].conf.state \cup {"Activated"})
         c == IF role[t].requestedMaximized THEN SetMaximizedRequest(b, t) ELSE b
     IN Becomes([c EXCEPT !.role[t].requestedMaximized = FALSE])

(* handleSurfaceCommit(): a later commit, with a buffer or without one *)
Commit(t, hasBuffer) ==
  /\ role[t].flags \cap {"HasPendingInitialConf", "ClosedSent"} = {}
  /\ \E g \in SurfaceWidths :
       IF role[t].mapped /\ ~hasBuffer
       THEN Becomes(Reset(World, t, g))
       ELSE LET v == FullAtomsUpdate(World, t, g)
            IN Becomes([v EXCEPT !.role[t].mapped = hasBuffer \/ v.role[t].mapped])

-----------------------------------------------------------------------------

Step(t) ==
  \/ StartResize(t) \/ UpdateDragPoint(t) \/ StopDrag(t) \/ AckTimer(t)
  \/ SetMaximized(t) \/ UnsetMaximized(t) \/ SetMinimized(t) \/ Activate(t) \/ Close(t)
  \/ SetWindowGeometry(t) \/ Destroy(t) \/ InitialCommit(t)
  \/ \E i \in 1..Len(role[t].sent) : AckConfigure(t, i)
  \/ \E hasBuffer \in BOOLEAN : Commit(t, hasBuffer)

Next == FlushClients \/ OutputRemoved \/ \E t \in Toplevels : Step(t)

Spec == Init /\ [][Next]_vars

-----------------------------------------------------------------------------
(* Properties *)

(* Values have their types. *)
TypeOK ==
  /\ role \in [Toplevels ->
       [flags : SUBSET Flags, mapped : BOOLEAN, requestedMaximized : BOOLEAN,
        conf : Configuration, sent : Seq(Configuration), ack : Configuration,
        cur : Atoms, pend : Atoms, pendingGeometry : AllGeometries, geometrySet : BOOLEAN,
        exclusiveOutput : BOOLEAN,
        resize : [active : BOOLEAN, serial : Nat, handled : BOOLEAN, timer : BOOLEAN]]]
  /\ activeToplevel \in Toplevels \cup {None}
  /\ serial \in Nat

(* fullAtomsUpdate() compares the serials of the two slots only: when they are
   equal, everything else is. *)
SlotsAgree == \A t \in Toplevels :
  LET r == role[t] IN
  /\ r.pend.geometry = r.cur.geometry
  /\ r.pend.serial = r.cur.serial => r.pend.state = r.cur.state

(* pendingConfiguration(): "If the pending configuration serial is equal to
   serial() it means the last configuration was ACK by the client and there is no
   pending configuration." *)
SerialTellsPending == \A t \in Toplevels :
  LET r == role[t] IN
  r.conf.serial = r.cur.serial => "HasToSend" \notin r.flags /\ r.sent = << >>

(* A toplevel that is no longer the active one and looks active is told: a
   configuration without Activated is waiting or in flight.  Clients that skip
   configurations escape (OneActivated). *)
DeactivationComing == \A t \in Toplevels \ Hasty :
  LET r == role[t] IN
  "Activated" \in r.cur.state /\ t # activeToplevel =>
    \/ /\ "HasToSend" \in r.flags
       /\ "ForceRemoveActivatedFlag" \in r.flags \/ "Activated" \notin r.conf.state
    \/ \E i \in 1..Len(r.sent) : "Activated" \notin r.sent[i].state

(* What the documentation of LSeat::activeToplevel() says, and the code does not do
   when a client skips configurations (README.md, section 5): at most one toplevel
   is activated once everything was sent, acknowledged and applied. *)
OneActivated ==
  (\A t \in Toplevels : /\ "HasToSend" \notin role[t].flags
                        /\ role[t].sent = << >>
                        /\ role[t].pend = role[t].cur)
    => Cardinality({t \in Toplevels : "Activated" \in role[t].cur.state}) <= 1

(* A client that still believes it is being resized after the session ended is
   going to learn otherwise. *)
ResizingEnds == \A t \in Toplevels :
  LET r == role[t] IN
  ~r.resize.active =>
    /\ "Resizing" \notin r.conf.state
    /\ "Resizing" \in r.cur.state =>
         \/ "HasToSend" \in r.flags
         \/ \E i \in 1..Len(r.sent) : "Resizing" \notin r.sent[i].state

(* Sessions are of mapped toplevels: no drag goes on for a toplevel that was
   reset. *)
SessionsOfMapped == \A t \in Toplevels :
  role[t].resize.active => role[t].mapped

(* A stopped session moves the toplevel until the client catches up; when it
   never does, the timer is there to end it. *)
StoppedSessionTimed == \A t \in Toplevels :
  ~role[t].resize.active /\ ~role[t].resize.handled <=> role[t].resize.timer

(* A resize session ends with its toplevel, and after it was stopped, and the client
   is told so. *)
ResizeSessionsEnd == ResizingEnds /\ SessionsOfMapped /\ StoppedSessionTimed

(* The refinement: what is in flight, acknowledged and in force. *)
Protocol == INSTANCE ConfigureProtocol WITH
  offered <- [t \in Toplevels |-> role[t].sent],
  acked <- [t \in Toplevels |-> role[t].ack],
  applied <- [t \in Toplevels |-> [serial |-> role[t].cur.serial, state |-> role[t].cur.state]]

(* The handlers implement the protocol of configurations. *)
ImplementsProtocol == Protocol!Spec
=============================================================================

------------------------------ MODULE DragAndDrop ------------------------------
(* Drag and drop sessions (LDND, LDNDSession, RDataOffer): one session at a     *)
(* time is dragged, while the offers of dropped ones are still answered.        *)
(* A source is used for one session only, so a session is named by its source.  *)
EXTENDS DataSources

VARIABLES session,   \* seat()->dnd()->m_session
          offer,     \* the offer of the session of each source
          entered    \* the clients that were sent enter and not leave

dragVars == <<session, offer, entered>>

NoSession == [active |-> FALSE, source |-> None, origin |-> None, focus |-> None, dst |-> None]

(* An offer is open while the drag is over its client, finished when that client
   already said so, dropped once it was dropped there, declined when that client
   destroyed it before the drop. *)
NoOffer == [state |-> "none", client |-> None, matched |-> FALSE, device |-> FALSE]

DragTypeOK ==
  LET c == Clients \cup {None} IN
  /\ session \in [active : BOOLEAN, source : Sources \cup {None}, origin : c, focus : c, dst : c]
  /\ offer \in [Sources -> [state : {"none", "open", "finished", "dropped", "declined"},
                            client : c, matched : BOOLEAN, device : BOOLEAN]]
  /\ entered \subseteq Clients

DragInit ==
  /\ session = NoSession
  /\ offer = [s \in Sources |-> NoOffer]
  /\ entered = {}

Drag == [session |-> session, offer |-> offer, entered |-> entered]

DragBecomes(d) == session' = d.session /\ offer' = d.offer /\ entered' = d.entered

\* Mutant: the offer keeps its session.
SendLeaveEventKeeps(d) ==
  [d EXCEPT !.session.focus = None, !.session.dst = None, !.entered = @ \ {d.session.dst}]

(* LDND::sendLeaveEvent(): the offer loses its session. *)
SendLeaveEvent(d) ==
  [session |-> [d.session EXCEPT !.focus = None, !.dst = None],
   offer |-> [s \in Sources |-> IF s = d.session.source THEN NoOffer ELSE d.offer[s]],
   entered |-> d.entered \ {d.session.dst}]

(* LDND::cancel() *)
Cancel ==
  /\ told' = Tell(session.source, {"cancelled", "finished"})
  /\ DragBecomes([SendLeaveEvent(Drag) EXCEPT !.session = NoSession])

(* LDND::setFocus() with a surface of c or None *)
SetDragFocus(c) ==
  LET left == SendLeaveEvent(Drag)
      open == [NoOffer EXCEPT !.state = "open", !.client = c, !.device = TRUE]
  IN DragBecomes(
       IF c = None \/ (session.source = None /\ c # session.origin) THEN left
       ELSE IF c = session.focus THEN Drag
       ELSE IF c \notin devices THEN left
       ELSE [session |-> [session EXCEPT !.focus = c, !.dst = c],
             offer |-> [s \in Sources |-> IF s = session.source THEN open ELSE left.offer[s]],
             entered |-> left.entered \cup {c}])

(* LDND::drop(): an offer that was finished before has lost the session. *)
Drop ==
  LET s == session.source
      open == s # None /\ offer[s].state = "open"
      finished == s # None /\ offer[s].state = "finished"
      cancelled == (open \/ finished) /\ ~offer[s].matched
  IN IF session.focus = None THEN Cancel
     ELSE /\ told' = Tell(s, {"dropPerformed"} \cup IF cancelled THEN {"cancelled"} ELSE {})
          /\ session' = NoSession
          /\ offer' = IF open THEN [offer EXCEPT ![s].state = "dropped"]
                      ELSE IF finished THEN [offer EXCEPT ![s] = NoOffer] ELSE offer
          /\ entered' = entered \ {session.dst}

(* RDataDevice::start_drag(), and what the user decides in startDragRequest();
   a request that fails after the source was marked ends the use of the source. *)
StartDrag(c, s) ==
  /\ c \in devices \cap surfaces
  /\ s # None => source[s].alive /\ source[s].usage = "Undefined" /\ Owner[s] = c
  /\ source' = IF s = None THEN source ELSE [source EXCEPT ![s].usage = "DND"]
  /\ \/ /\ told' = Tell(s, {"cancelled"})       \* no event has the serial
        /\ UNCHANGED dragVars
     \/ /\ session.active \/ (s # None /\ ~source[s].actions)
        /\ told' = Tell(s, {"cancelled"})
        /\ UNCHANGED dragVars
     \/ /\ ~session.active /\ (s # None => source[s].actions)
        /\ \/ /\ session' = [NoSession EXCEPT !.active = TRUE, !.source = s, !.origin = c]
              /\ UNCHANGED <<told, offer, entered>>
           \/ /\ told' = Tell(s, {"cancelled", "finished"})
              /\ UNCHANGED dragVars
  /\ UNCHANGED <<surfaces, devices>>

(* RDataSource::set_actions() *)
SetActions(s) ==
  /\ source[s].alive /\ source[s].usage # "Clipboard"
  /\ source' = [source EXCEPT ![s].actions = TRUE]
  /\ UNCHANGED <<surfaces, devices, told, dragVars>>

(* RDataOffer::accept() *)
Accept(s, matched) ==
  /\ offer[s].state \in {"open", "finished", "dropped"}
  /\ offer' = [offer EXCEPT ![s].matched = matched]
  /\ UNCHANGED <<objects, session, entered>>

(* RDataOffer::finish(), on an offer that has the session or had it until it was
   finished: at any time, accepted or not.  The device is sent leave. *)
Finish(s) ==
  /\ offer[s].state \in {"open", "finished", "dropped"}
  /\ told' = IF offer[s].state = "finished" THEN told ELSE Tell(s, {"finished"})
  /\ entered' = IF offer[s].device THEN entered \ {offer[s].client} ELSE entered
  /\ offer' = IF offer[s].state = "dropped" THEN [offer EXCEPT ![s] = NoOffer]
              ELSE [offer EXCEPT ![s].state = "finished"]
  /\ UNCHANGED <<surfaces, devices, source, session>>

(* RDataOffer::finish(), on an offer that lost its session: every client keeps one,
   of a drag before these, on the device it has. *)
FinishStale(c) ==
  /\ c \in devices
  /\ entered' = entered \ {c}
  /\ UNCHANGED <<objects, session, offer>>

\* Mutant: a dropped offer goes without a word.
DestroyOfferSilent(s) ==
  /\ offer[s].state \in {"open", "finished", "dropped"}
  /\ offer' = [offer EXCEPT ![s] = IF @.state = "dropped" THEN NoOffer ELSE [NoOffer EXCEPT !.state = "declined"]]
  /\ UNCHANGED <<objects, session, entered>>

(* ~RDataOffer() *)
DestroyOffer(s) ==
  /\ offer[s].state \in {"open", "finished", "dropped"}
  /\ IF offer[s].state = "dropped"
     THEN offer' = [offer EXCEPT ![s] = NoOffer] /\ told' = Tell(s, {"cancelled"})
     ELSE offer' = [offer EXCEPT ![s] = [NoOffer EXCEPT !.state = "declined"]] /\ UNCHANGED told
  /\ UNCHANGED <<surfaces, devices, source, session, entered>>

(* What the session does when its source, the device it was started with or its
   origin is destroyed: LDNDSession::cancel(). *)
SourceLeavesDrag(s) ==
  IF session.active /\ session.source = s
  THEN DragBecomes([SendLeaveEvent(Drag) EXCEPT !.session = NoSession])
  ELSE UNCHANGED dragVars

(* The device of c is gone: nothing is sent to it any more. *)
WithoutDevice(d, c) ==
  [session |-> IF d.session.dst = c THEN [d.session EXCEPT !.dst = None] ELSE d.session,
   offer |-> [s \in Sources |-> IF d.offer[s].client = c
                                THEN [d.offer[s] EXCEPT !.device = FALSE] ELSE d.offer[s]],
   entered |-> d.entered \ {c}]

DeviceLeavesDrag(c) ==
  LET d == WithoutDevice(Drag, c) IN
  IF session.active /\ session.origin = c
  THEN /\ told' = Tell(session.source, {"cancelled", "finished"})
       /\ DragBecomes([SendLeaveEvent(d) EXCEPT !.session = NoSession])
  ELSE DragBecomes(d) /\ UNCHANGED told

SurfaceLeavesDrag(c) ==
  IF session.active /\ session.origin = c THEN Cancel
  ELSE /\ session' = IF session.focus = c THEN [session EXCEPT !.focus = None] ELSE session
       /\ UNCHANGED <<told, offer, entered>>

-----------------------------------------------------------------------------

(* A client that was sent enter and not leave is the target of the drag: drags
   that end or move on by any way are taken back. *)
EnteredIsTarget == \A c \in entered : session.active /\ session.dst = c

(* An offer that was not dropped yet belongs to the drag, so what its client asks
   for reaches the source that is dragged and no other. *)
OpenOfferOfDrag == \A s \in Sources :
  offer[s].state \in {"open", "finished"} =>
    /\ session.active /\ session.source = s
    /\ offer[s].device => session.dst = offer[s].client

(* The source of a drag that ended was told that it is over, or the destination
   still has the offer that will tell it.  A destination that destroys its offer
   before the drop leaves the source without an answer (LDND.cpp:177), and one that
   finished its offer before the drop has given the only answer there is. *)
DragAnswered == \A s \in Sources :
  source[s].alive /\ source[s].usage = "DND" /\ session.source # s =>
    \/ told[s] \cap {"cancelled", "finished"} # {}
    \/ offer[s].state \in {"dropped", "declined"}

(* A source that is dragged exists, and the compositor told it neither of a drop nor
   that the drag was cancelled.  It may have been told that the drag is finished:
   a destination can say so at any time, see FinishedAfterDrop. *)
QuietWhileDragging == \A s \in Sources :
  session.active /\ session.source = s => told[s] \subseteq {"finished"} /\ source[s].alive

(* What a drag refers to exists: LDND and the offers follow weak references to
   surfaces and devices of both clients without a test (LDND.cpp:41). *)
DragReferences ==
  /\ session.focus # None => session.focus \in surfaces
  /\ session.active => session.origin \in surfaces \cap devices
  /\ session.dst # None => session.dst \in devices

(* Everything a destination was told of a drag, and may ask of it, is of the drag
   that goes on (sendEnterEvent, sendLeaveEvent, drop, cancel). *)
DragTarget == EnteredIsTarget /\ OpenOfferOfDrag /\ DragReferences

(* A source is told that the drag is over when it is; before that only what a
   destination says of itself, with an early finish. *)
AnsweredAfterDrag == DragAnswered /\ QuietWhileDragging

(* What the protocol says, and the code does not do (README.md, section 5): a source
   that is told that the drag is finished is free to go, so it is not dragged any
   more. *)
FinishedAfterDrop == \A s \in Sources :
  session.active /\ session.source = s => "finished" \notin told[s]
=============================================================================

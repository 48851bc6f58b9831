------------------------------ MODULE DataTransfer ------------------------------
(* The clipboard and the drag and drop sessions of the seat together: they share *)
(* the sources, devices and surfaces of the clients, and the handlers of the     *)
(* pointer take the keyboard focus away while something is dragged.              *)
EXTENDS Clipboard, DragAndDrop

vars == <<objects, clipboardVars, dragVars>>

Init == ObjectsInit /\ ClipboardInit /\ DragInit

-----------------------------------------------------------------------------
(* Objects of the clients *)

CreateSource(s) ==
  /\ ~source[s].alive
  /\ offer[s].state \in {"none", "declined"}    \* the name is reused only then
  /\ source' = [source EXCEPT ![s] = [NoSource EXCEPT !.alive = TRUE]]
  /\ told' = [told EXCEPT ![s] = {}]
  /\ offer' = [offer EXCEPT ![s] = NoOffer]
  /\ UNCHANGED <<surfaces, devices, clipboardVars, session, entered>>

(* ~RDataSource() and what its weak references call *)
DestroySource(s) ==
  /\ source[s].alive
  /\ source' = [source EXCEPT ![s] = NoSource]
  /\ SourceLeavesClipboard(s)
  /\ SourceLeavesDrag(s)
  /\ UNCHANGED <<surfaces, devices, told, focus>>

ReleaseDataDevice(c) ==
  /\ c \in devices \cap Leaving
  /\ devices' = devices \ {c}
  /\ DeviceLeavesClipboard(c)
  /\ DeviceLeavesDrag(c)
  /\ UNCHANGED <<surfaces, source>>

CreateSurface(c) ==
  /\ c \notin surfaces
  /\ surfaces' = surfaces \cup {c}
  /\ UNCHANGED <<devices, source, told, clipboardVars, dragVars>>

DestroySurface(c) ==
  /\ c \in surfaces \cap Leaving
  /\ surfaces' = surfaces \ {c}
  /\ SurfaceLeavesKeyboard(c)
  /\ SurfaceLeavesDrag(c)
  /\ UNCHANGED <<devices, source>>

-----------------------------------------------------------------------------
(* Default handlers of the pointer *)

(* pointerMoveEvent() with something dragged, over a surface of c or none *)
PointerMove(c) ==
  /\ session.active
  /\ RemoveFocus
  /\ SetDragFocus(c)
  /\ UNCHANGED objects

(* pointerButtonEvent(): the button is released with something dragged *)
ButtonReleased ==
  /\ session.active
  /\ Drop
  /\ RemoveFocus
  /\ UNCHANGED <<surfaces, devices, source>>

(* pointerButtonEvent() without a drag, on a surface of c or on none *)
ButtonPressed(c) ==
  /\ ~session.active
  /\ IF c = None THEN RemoveFocus ELSE SetFocus(c)
  /\ UNCHANGED <<objects, dragVars>>

-----------------------------------------------------------------------------

Next ==
  \/ ButtonReleased
  \/ \E c \in surfaces \cup {None} : PointerMove(c) \/ ButtonPressed(c)
  \/ \E c \in Clients :
       \/ ReleaseDataDevice(c) \/ CreateSurface(c) \/ DestroySurface(c)
       \/ DestroyClipboardOffer(c) /\ UNCHANGED dragVars
       \/ FinishStale(c) /\ UNCHANGED clipboardVars
       \/ \E s \in Sources \cup {None} : StartDrag(c, s) /\ UNCHANGED clipboardVars
  \/ \E s \in Sources :
       \/ CreateSource(s) \/ DestroySource(s)
       \/ (SetSelection(s) \/ \E m \in Mimes : Offer(s, m)) /\ UNCHANGED dragVars
       \/ (SetActions(s) \/ Finish(s) \/ DestroyOffer(s)
             \/ \E matched \in BOOLEAN : Accept(s, matched)) /\ UNCHANGED clipboardVars

Spec == Init /\ [][Next]_vars

(* Values have their types, and what the focus, the clipboard and the session refer
   to exists: setFocus() and setCursorRequest() use the origin untested. *)
TypeOK ==
  /\ ObjectsTypeOK /\ ClipboardTypeOK /\ DragTypeOK
  /\ focus # None => focus \in surfaces
  /\ clipboard.source # None => source[clipboard.source].alive
=============================================================================

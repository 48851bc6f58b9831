--------------------------------- MODULE Popups ---------------------------------
(* Popups (LPopupRole, RXdgPopup) of a client and the grab of the keyboard that   *)
(* goes from popup to parent: windows come and go, popups are created, mapped,    *)
(* nested, given the grab, dismissed and destroyed, the user clicks and touches.  *)
(*                                                                                *)
(* Abstractions: the popups and the windows of Own belong to one client, the      *)
(* other windows to another; a surface is created and destroyed with its popup    *)
(* or its window, so a new parent is never among the descendants; positions and   *)
(* configurations are left out; windows have no parent; a client with an error    *)
(* is destroyed at once.                                                          *)
EXTENDS Keyboard, Naturals, SequencesExt

CONSTANTS Windows, Own, Popups,
          LayerSurfaces    \* the windows that are layer surfaces, not toplevels

ASSUME PopupsAssumption ==
  /\ Own \subseteq Windows
  /\ LayerSurfaces \subseteq Windows
  /\ Windows \cap Popups = {}
  /\ None \notin Windows \cup Popups
  /\ IsFiniteSet(Popups)

VARIABLES window,   \* the toplevels
          popup,    \* the popups
          stack,    \* the popups in compositor()->surfaces(), from the top
          walk      \* the calls of dismiss() in progress

vars == <<keyboard, window, popup, stack, walk>>

Surfaces == Windows \cup Popups

(* unconfigured: HasPendingInitialConf; done: popup_done was sent; parent is the
   parent of the surface, pending the one that the next commit gives it. *)
NoPopup == [state |-> "none", mapped |-> FALSE, dismissed |-> FALSE, done |-> FALSE,
            parent |-> None, pending |-> None]

Idle == [roots |-> <<>>, at |-> 1]

Exists(p) == popup[p].state # "none"

Living == {w \in Windows : window[w] # "none"} \cup {p \in Popups : Exists(p)} \cup {None}

(* The layer of configured popups ends at place n of the list. *)
ConfiguredAbove(n) == \A i \in 1..Len(stack) : i <= n <=> popup[stack[i]].state = "configured"

(* Types; the surfaces that are referred to exist, and the list holds every popup
   once, those in the upper layer first, so that dismiss() finds the popup where it
   ends and a new popup its place. *)
TypeOK ==
  /\ KeyboardTypeOK(Living)
  /\ window \in [Windows -> {"none", "unmapped", "mapped"}]
  /\ popup \in [Popups -> [state : {"none", "unconfigured", "configured"},
                           mapped : BOOLEAN, dismissed : BOOLEAN, done : BOOLEAN,
                           parent : Living, pending : Living]]
  /\ stack \in Seq(Popups)
  /\ Range(stack) = {p \in Popups : Exists(p)}
  /\ IsInjective(stack)
  /\ \E n \in 0..Len(stack) : ConfiguredAbove(n)
  /\ walk \in [roots : Seq(Range(stack)), at : 1..(Len(stack) + 1)]

Init ==
  /\ KeyboardInit
  /\ window = [w \in Windows |-> "mapped"]
  /\ popup = [p \in Popups |-> NoPopup]
  /\ stack = <<>>
  /\ walk = Idle

-----------------------------------------------------------------------------

Mapped(s) == \/ s \in Windows /\ window[s] = "mapped"
             \/ s \in Popups /\ popup[s].mapped

Without(s, p) == RemoveAt(s, CHOOSE i \in 1..Len(s) : s[i] = p)

Raised(s, p) == Cons(p, Without(s, p))

(* applyPendingChildren() of surface s *)
Adopt(ps, s) == [p \in Popups |-> IF ps[p].pending = s
                                  THEN [ps[p] EXCEPT !.parent = s, !.pending = None] ELSE ps[p]]

(* ~RSurface() for s: its children and pending children lose it. *)
Orphan(ps, s) == [p \in Popups |-> [ps[p] EXCEPT !.parent = IF @ = s THEN None ELSE @,
                                                 !.pending = IF @ = s THEN None ELSE @]]

(* LSurface::isSubchildOf() *)
IsSubchildOf(p, s) ==
  LET up[n \in 0..Cardinality(Popups)] ==
        IF n = 0 THEN {popup[p].parent}
        ELSE up[n - 1] \cup {popup[q].parent : q \in up[n - 1] \cap Popups}
  IN s \in up[Cardinality(Popups)]

(* LSurfacePrivate::setKeyboardGrabToParent() of popup p *)
GrabToParent(k, p) ==
  LET parent == popup[p].parent IN
  IF k.grab # p THEN k
  ELSE IF parent \in Windows THEN SetFocus([focus |-> None, grab |-> None], parent)
  ELSE SetGrab(k, parent)

(* All the resources of the client of the popups are destroyed. *)
Disconnect ==
  /\ popup' = [p \in Popups |-> NoPopup]
  /\ window' = [w \in Windows |-> IF w \in Own THEN "none" ELSE window[w]]
  /\ keyboard' = Forget(keyboard, Popups \cup Own)
  /\ stack' = <<>>
  /\ walk' = Idle

(* LPopupRole::dismiss() of the popups rs one after the other *)
Dismiss(rs) == walk' = [roots |-> rs, at |-> 1]

-----------------------------------------------------------------------------
(* Windows *)

CreateWindow(w) ==
  /\ window[w] = "none"
  /\ window' = [window EXCEPT ![w] = "unmapped"]
  /\ UNCHANGED <<keyboard, popup, stack, walk>>

(* A commit with a buffer. *)
CommitWindow(w) ==
  /\ window[w] # "none"
  /\ window' = [window EXCEPT ![w] = "mapped"]
  /\ popup' = Adopt(popup, w)
  /\ UNCHANGED <<keyboard, stack, walk>>

(* A commit without one: the reset() of a toplevel takes its children away. *)
UnmapWindow(w) ==
  /\ window[w] = "mapped"
  /\ window' = [window EXCEPT ![w] = "unmapped"]
  /\ popup' = IF w \in LayerSurfaces THEN Adopt(popup, w) ELSE
             [p \in Popups |-> IF w \in {popup[p].parent, popup[p].pending}
                                THEN [popup[p] EXCEPT !.parent = None, !.pending = None] ELSE popup[p]]
  /\ UNCHANGED <<keyboard, stack, walk>>

DestroyWindow(w) ==
  /\ window[w] # "none"
  /\ window' = [window EXCEPT ![w] = "none"]
  /\ popup' = Orphan(popup, w)
  /\ keyboard' = Forget(keyboard, {w})
  /\ UNCHANGED <<stack, walk>>

-----------------------------------------------------------------------------
(* Requests on popups *)

(* RXdgSurface::get_popup() with a parent of the client or None *)
GetPopup(p, parent) ==
  /\ ~Exists(p)
  /\ \/ parent = None
     \/ parent \in Own \ LayerSurfaces /\ window[parent] # "none"
     \/ parent \in Popups /\ Exists(parent)
  /\ popup' = [popup EXCEPT ![p] = [NoPopup EXCEPT !.state = "unconfigured", !.pending = parent]]
  /\ \E n \in 0..Len(stack) : ConfiguredAbove(n) /\ stack' = InsertAt(stack, n + 1, p)
  /\ UNCHANGED <<keyboard, window, walk>>

(* RLayerSurface::get_popup() *)
SetLayerParent(p, w) ==
  /\ Exists(p) /\ w \in Own \cap LayerSurfaces /\ window[w] # "none"
  /\ IF popup[p].parent # None \/ popup[p].pending # None THEN Disconnect
     ELSE /\ popup' = [popup EXCEPT ![p].pending = w]
          /\ UNCHANGED <<keyboard, window, stack, walk>>

\* Mutant: a popup is mapped whatever its parent is.
CommitAnyParent(p, hasBuffer) ==
  LET own == Adopt(popup, p)
      adopted == IF own[p].pending # None THEN Adopt(own, own[p].pending) ELSE own
  IN /\ Exists(p) /\ adopted[p].parent # None
     /\ IF adopted[p].state = "unconfigured"
        THEN /\ popup' = [adopted EXCEPT ![p].state = "configured"]
             /\ stack' = Raised(stack, p)
        ELSE popup' = [adopted EXCEPT ![p].mapped = @ \/ hasBuffer] /\ UNCHANGED stack
     /\ UNCHANGED <<keyboard, window, walk>>

(* RSurface::commit() of popup p and LPopupRole::handleSurfaceCommit() *)
Commit(p, hasBuffer) ==
  LET own == Adopt(popup, p)
      adopted == IF own[p].pending # None THEN Adopt(own, own[p].pending) ELSE own
      this == adopted[p]
      refused == this.parent = None \/ (this.state = "unconfigured" /\ hasBuffer)
      unmapped == this.mapped /\ ~hasBuffer
  IN /\ Exists(p)
     /\ \/ /\ this.dismissed
           /\ popup' = own
           /\ UNCHANGED <<keyboard, window, stack, walk>>
        \/ /\ ~this.dismissed /\ refused
           /\ Disconnect
        \/ /\ ~this.dismissed /\ ~refused
           /\ \/ /\ this.state = "unconfigured"
                 /\ popup' = [adopted EXCEPT ![p].state = "configured"]
                 /\ stack' = Raised(stack, p)     \* setLayer()
                 /\ UNCHANGED walk
              \/ /\ this.state = "configured" /\ unmapped
                 /\ popup' = adopted
                 /\ Dismiss(<<p>>)
                 /\ UNCHANGED stack
              \/ /\ this.state = "configured" /\ ~unmapped
                 /\ popup' = [adopted EXCEPT ![p].mapped = @ \/ (hasBuffer /\ Mapped(this.parent))]
                 /\ UNCHANGED <<stack, walk>>
           /\ UNCHANGED <<keyboard, window>>

\* Mutant: a popup that is not mapped gets the grab.
GrabUnmapped(p) ==
  /\ Exists(p) /\ ~popup[p].dismissed
  /\ keyboard' = SetGrab(keyboard, p)
  /\ UNCHANGED <<window, popup, stack, walk>>

(* RXdgPopup::grab(): without an event of the serial and when
   grabKeyboardRequest() does not set the grab the popup is dismissed. *)
Grab(p) ==
  /\ Exists(p) /\ popup[p].mapped /\ ~popup[p].dismissed
  /\ \/ keyboard' = SetGrab(keyboard, p) /\ UNCHANGED walk
     \/ Dismiss(<<p>>) /\ UNCHANGED keyboard
  /\ UNCHANGED <<window, popup, stack>>

(* RXdgPopup::destroy() and ~RXdgPopup(), then the surface *)
Destroy(p) ==
  /\ Exists(p)
  /\ IF \E q \in Popups : popup[q].parent = p /\ popup[q].mapped
     THEN Disconnect    \* NOT_THE_TOPMOST_POPUP
     ELSE /\ popup' = [Orphan(popup, p) EXCEPT ![p] = NoPopup]
          /\ keyboard' = Forget(GrabToParent(keyboard, p), {p})
          /\ stack' = Without(stack, p)
          /\ UNCHANGED <<window, walk>>

-----------------------------------------------------------------------------
(* The user, through the default handlers *)

FocusUnlessChild(s) ==
  keyboard' = IF keyboard.focus # None /\ s \in Popups /\ IsSubchildOf(s, keyboard.focus)
              THEN keyboard ELSE SetFocus(keyboard, s)

(* LSeat::dismissPopups() *)
DismissPopups == Dismiss(stack)

(* What topmostParent() of popup s finds, or s itself without a parent, when that is a
   popup: s is in every set that holds it and the popups on members of the set. *)
TopmostPopup(s) == {t \in Popups :
  /\ popup[t].parent = None
  /\ \A ps \in SUBSET Popups :
       t \in ps /\ {q \in Popups : popup[q].parent \in ps} \subseteq ps => s \in ps}

(* LPointer::pointerButtonEvent() on surface s; pointed: it has the pointer focus
   already. *)
Click(s, pointed) ==
  /\ s # None => Mapped(s)
  /\ IF pointed /\ s # None THEN FocusUnlessChild(s) ELSE keyboard' = SetFocus(keyboard, s)
  /\ IF s \in Popups THEN UNCHANGED walk ELSE DismissPopups
  /\ \/ \E t \in TopmostPopup(s) : pointed /\ stack' = Raised(stack, t)
     \/ (~pointed \/ TopmostPopup(s) = {}) /\ UNCHANGED stack
  /\ UNCHANGED <<window, popup>>

(* LTouch::touchDownEvent(): raise() of a popup raises it alone. *)
TouchDown(s) ==
  /\ s # None => Mapped(s)
  /\ IF s # None THEN FocusUnlessChild(s) /\ UNCHANGED walk
     ELSE DismissPopups /\ UNCHANGED keyboard
  /\ stack' = IF s \in Popups THEN Raised(stack, s) ELSE stack
  /\ UNCHANGED <<window, popup>>

(* One turn of the loop of LPopupRole::dismiss(), from the top down to the popup;
   popup_done is sent on the resource of the popup that is dismissed. *)
Visit ==
  LET root == Head(walk.roots)
      p == stack[walk.at]
  IN /\ IF (p = root \/ IsSubchildOf(p, root)) /\ ~popup[p].dismissed
        THEN /\ popup' = [popup EXCEPT ![root].done = TRUE,
                                       ![p].dismissed = TRUE, ![p].mapped = FALSE]
             /\ keyboard' = GrabToParent(keyboard, p)
        ELSE UNCHANGED <<popup, keyboard>>
     /\ walk' = IF p # root THEN [walk EXCEPT !.at = @ + 1]
                ELSE [roots |-> Tail(walk.roots), at |-> 1]
     /\ UNCHANGED <<window, stack>>

-----------------------------------------------------------------------------

Next ==
  \/ walk.roots # <<>> /\ Visit
  \/ /\ walk.roots = <<>>
     /\ \/ \E w \in Own : CreateWindow(w) \/ CommitWindow(w) \/ UnmapWindow(w) \/ DestroyWindow(w)
             \/ \E p \in Popups : SetLayerParent(p, w)
        \/ \E p \in Popups : \/ \E parent \in Own \cup Popups \cup {None} : GetPopup(p, parent)
                             \/ \E hasBuffer \in BOOLEAN : Commit(p, hasBuffer)
                             \/ Grab(p) \/ Destroy(p)
        \/ \E s \in Surfaces \cup {None} : TouchDown(s) \/ \E pointed \in BOOLEAN : Click(s, pointed)
        \/ Disconnect

Spec == Init /\ [][Next]_vars

-----------------------------------------------------------------------------

(* A popup is mapped only on a popup that is mapped too, or that was dismissed
   under it: a client may not destroy a popup under another one. *)
MappedOnMapped == \A p \in Popups :
  popup[p].mapped /\ popup[p].parent \in Popups =>
    popup[popup[p].parent].mapped \/ popup[popup[p].parent].dismissed

(* The keyboard is grabbed by a popup that is shown, or that was dismissed and is
   still there: the client gives the keyboard back when it destroys that popup. *)
GrabIsShown ==
  keyboard.grab # None => /\ keyboard.grab \in Popups
                          /\ popup[keyboard.grab].mapped \/ popup[keyboard.grab].dismissed

(* "This method closes the popup along with all its children." *)
DismissedWithChildren == \A p \in Popups :
  walk.roots = <<>> /\ popup[p].dismissed => \A q \in Popups : popup[q].parent = p => ~popup[q].mapped
=============================================================================

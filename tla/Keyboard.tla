-------------------------------- MODULE Keyboard --------------------------------
(* The focus and the grab of the keyboard (LKeyboard): both are weak references   *)
(* to surfaces.  While a surface has the grab setFocus() does nothing.            *)
(*                                                                                *)
(* Abstraction: every client has a keyboard, so that a surface that gets the      *)
(* focus keeps it; the events and the selection are left out (see Clipboard).     *)

CONSTANT None

VARIABLE keyboard

KeyboardInit == keyboard = [focus |-> None, grab |-> None]

KeyboardTypeOK(surfaces) == keyboard \in [focus : surfaces \cup {None}, grab : surfaces \cup {None}]

(* LKeyboard::setFocus() *)
SetFocus(k, s) == IF k.grab # None THEN k ELSE [k EXCEPT !.focus = s]

\* Mutant: the old grab still holds while the focus is set.
SetGrabHeld(k, s) ==
  IF k.grab = s THEN k
  ELSE [SetFocus(k, s) EXCEPT !.grab = s]

(* LKeyboard::setGrab() *)
SetGrab(k, s) ==
  IF k.grab = s THEN k
  ELSE [SetFocus([k EXCEPT !.grab = None], s) EXCEPT !.grab = s]

(* The weak references to the surfaces of ss, which are destroyed. *)
Forget(k, ss) == [focus |-> IF k.focus \in ss THEN None ELSE k.focus,
                  grab |-> IF k.grab \in ss THEN None ELSE k.grab]

-----------------------------------------------------------------------------

(* The surface that grabs the keyboard has its focus: the keys go where the grab
   is, through nested grabs, grabs that end and surfaces that are destroyed. *)
GrabHasFocus == keyboard.grab # None => keyboard.focus = keyboard.grab
=============================================================================

------------------------------- MODULE Clipboard -------------------------------
(* The clipboard (LClipboard, RDataDevice.set_selection) and the keyboard focus *)
(* that decides which client is offered its contents (LKeyboard::setFocus).     *)
EXTENDS DataSources

VARIABLES focus,      \* the client of seat()->keyboard()->focus()
          clipboard,  \* m_dataSource, m_dataOffer and m_persistentMimeTypes
          selection   \* the types of the selection each client was sent last

clipboardVars == <<focus, clipboard, selection>>

(* offer is the client m_dataOffer belongs to, offerDevice tells whether
   m_dataOffer->dataDeviceRes() still exists. *)
ClipboardTypeOK ==
  /\ focus \in Clients \cup {None}
  /\ clipboard \in [source : Sources \cup {None}, offer : Clients \cup {None},
                    offerDevice : BOOLEAN, persistent : SUBSET Mimes]
  /\ selection \in [Clients -> SUBSET Mimes]

ClipboardInit ==
  /\ focus = None
  /\ clipboard = [source |-> None, offer |-> None, offerDevice |-> FALSE, persistent |-> {}]
  /\ selection = [c \in Clients |-> {}]

(* LClipboard::mimeTypes() *)
MimeTypes == IF clipboard.source # None THEN source[clipboard.source].mimes
             ELSE clipboard.persistent

(* The pair that the calls below pass on; {} is the selection NULL. *)
Offers == [clip |-> clipboard, sel |-> selection]

OffersBecome(k) == clipboard' = k.clip /\ selection' = k.sel

(* RDataDevice::createOffer(Clipboard), on the device of c *)
CreateOffer(k, c, mimes) ==
  IF mimes = {} THEN [k EXCEPT !.sel[c] = {}]
  ELSE [k EXCEPT !.sel[c] = mimes, !.clip.offer = c, !.clip.offerDevice = TRUE]

\* Mutant: the client that loses the focus keeps the selection.
RevokeOfferNot(k) == k

(* selection(nullptr) on the device of the last offer *)
RevokeOffer(k) ==
  IF k.clip.offer # None /\ k.clip.offerDevice THEN [k EXCEPT !.sel[k.clip.offer] = {}] ELSE k

(* LKeyboard::setFocus() with a surface of c *)
SetFocus(c) ==
  IF focus = c THEN UNCHANGED clipboardVars
  ELSE LET clientChanged == clipboard.offer # c
           revoked == IF clientChanged THEN RevokeOffer(Offers) ELSE Offers
       IN /\ OffersBecome(IF clientChanged /\ c \in devices
                          THEN CreateOffer(revoked, c, MimeTypes) ELSE revoked)
          /\ focus' = c

(* LKeyboard::setFocus(nullptr) *)
RemoveFocus ==
  /\ OffersBecome(RevokeOffer(Offers))
  /\ focus' = None

(* RDataDevice::set_selection() with an unused source, once the user allowed it;
   clients give a source its first type before they set it. *)
SetSelection(s) ==
  /\ source[s].alive /\ source[s].usage = "Undefined" /\ Owner[s] \in devices
  /\ source[s].mimes # {}
  /\ told' = Tell(clipboard.source, {"cancelled"})
  /\ source' = [source EXCEPT ![s].usage = "Clipboard"]
  /\ LET k == [Offers EXCEPT !.clip = [clipboard EXCEPT !.source = s, !.persistent = {}]]
     IN OffersBecome(IF focus \in devices THEN CreateOffer(k, focus, source[s].mimes) ELSE k)
  /\ UNCHANGED <<surfaces, devices, focus>>

(* RDataSource::offer() *)
Offer(s, m) ==
  /\ source[s].alive /\ m \in Types[s] \ source[s].mimes
  /\ source' = [source EXCEPT ![s].mimes = @ \cup {m}]
  /\ selection' = [c \in Clients |->
       IF clipboard.source = s /\ clipboard.offer = c /\ selection[c] # {}
       THEN selection[c] \cup {m} ELSE selection[c]]
  /\ UNCHANGED <<surfaces, devices, told, focus, clipboard>>

\* Mutant: the contents go with their source.
SourceLeavesClipboardEmpty(s) ==
  LET k == [Offers EXCEPT !.clip.source = None]
  IN OffersBecome(IF clipboard.source = s THEN k ELSE Offers)

(* ~RDataSource(): the types with a file are kept; the new offer still lists all
   the types of the source, which is the clipboard's until its destructor ends. *)
SourceLeavesClipboard(s) ==
  LET kept == [Offers EXCEPT !.clip.persistent = source[s].mimes \cap Persistent]
      told2 == IF clipboard.offer # None /\ clipboard.offerDevice
               THEN CreateOffer(kept, clipboard.offer, source[s].mimes) ELSE kept
  IN OffersBecome(IF clipboard.source = s THEN [told2 EXCEPT !.clip.source = None] ELSE Offers)

(* The client destroys the last offer of the clipboard. *)
DestroyClipboardOffer(c) ==
  /\ clipboard.offer = c
  /\ clipboard' = [clipboard EXCEPT !.offer = None]
  /\ selection' = [selection EXCEPT ![c] = {}]
  /\ UNCHANGED <<objects, focus>>

(* What is left to the clipboard of a device and of a surface of c. *)
DeviceLeavesClipboard(c) ==
  /\ clipboard' = [clipboard EXCEPT !.offerDevice = @ /\ clipboard.offer # c]
  /\ selection' = [selection EXCEPT ![c] = {}]
  /\ UNCHANGED focus

SurfaceLeavesKeyboard(c) ==
  /\ focus' = IF focus = c THEN None ELSE focus
  /\ UNCHANGED <<clipboard, selection>>

-----------------------------------------------------------------------------

(* At most one client sees a selection, the one the compositor sends its updates
   to (RDataSource::offer, ~RDataSource). *)
OneSelection == \A c \in Clients : selection[c] # {} => clipboard.offer = c

(* The persistent types of the clipboard outlive their source: they stay until
   another selection is set. *)
ClipboardKept ==
  [][clipboard'.source \in {clipboard.source, None}
       => MimeTypes \cap Persistent \subseteq MimeTypes']_<<source, clipboardVars>>

(* What the protocol says, and the code does not do (README.md, section 5): a client
   that gets the keyboard focus is sent the contents of the clipboard. *)
SelectionWithFocus ==
  [][focus' # focus /\ focus' \in devices => selection'[focus'] = MimeTypes']_<<source, clipboardVars>>
=============================================================================

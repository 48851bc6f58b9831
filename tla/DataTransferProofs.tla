--------------------------- MODULE DataTransferProofs ---------------------------
(* The safety properties of DataTransfer, for any clients, sources and types.      *)
EXTENDS DataTransfer, TLAPS

(* What is shown is of the client that the clipboard last made an offer to; a focus
   that can be shown something is that client, or nothing is shown to anybody. *)
SelectionInv ==
  /\ \A c \in Clients : selection[c] # {} => clipboard.offer = c /\ clipboard.offerDevice
  /\ focus \in devices /\ clipboard.offer # focus =>
       /\ \A c \in Clients : selection[c] = {}
       /\ None \in {clipboard.source, clipboard.offer}

(* The source of the clipboard is used for nothing else. *)
ClipboardUsage == \A s \in Sources :
  clipboard.source = s => source[s].usage = "Clipboard" /\ source[s].mimes # {}

(* A source is used once: its usage tells whether a drag refers to it, and an unused
   one was told nothing. *)
DragUsage ==
  /\ \A s \in Sources : source[s].alive /\ source[s].usage = "Undefined" => told[s] = {}
  /\ \A s \in Sources : session.source = s => source[s].usage = "DND"
  /\ \A s \in Sources : source[s].alive /\ offer[s].state # "none" => source[s].usage = "DND"

(* The offer of what is dragged was not dropped, and exists, or was declined, when
   a surface has the focus of the drag; its source knows when it was finished. *)
SessionInv ==
  /\ ~session.active => session.source = None /\ session.focus = None /\ session.dst = None
  /\ \A s \in Sources : session.source = s =>
       /\ offer[s].state # "dropped"
       /\ session.focus # None => offer[s].state # "none"
       /\ offer[s].state = "finished" => "finished" \in told[s]

DragInv == DragUsage /\ SessionInv /\ DragTarget /\ AnsweredAfterDrag

(* The inductive invariant. *)
IInv == TypeOK /\ SelectionInv /\ ClipboardUsage /\ DragInv

USE DataAssumption

ClipType == [source : Sources \cup {None}, offer : Clients \cup {None},
             offerDevice : BOOLEAN, persistent : SUBSET Mimes]

Pairs == [clip : ClipType, sel : [Clients -> SUBSET Mimes]]

SessionType ==
  [active : BOOLEAN, source : Sources \cup {None}, origin : Clients \cup {None},
   focus : Clients \cup {None}, dst : Clients \cup {None}]

OfferType ==
  [state : {"none", "open", "finished", "dropped", "declined"}, client : Clients \cup {None},
   matched : BOOLEAN, device : BOOLEAN]

Events == {"cancelled", "dropPerformed", "finished"}

Drags == [session : SessionType, offer : [Sources -> OfferType], entered : SUBSET Clients]

-----------------------------------------------------------------------------
(* What the calls on the clipboard do. *)

LEMMA OffersOK == IInv => Offers \in Pairs /\ Offers.clip = clipboard /\ Offers.sel = selection
BY DEF IInv, TypeOK, ClipboardTypeOK, Offers, Pairs, ClipType

LEMMA CreateOfferOK ==
  ASSUME NEW k \in Pairs, NEW c \in Clients, NEW mimes \in SUBSET Mimes
  PROVE  LET n == CreateOffer(k, c, mimes) IN
         /\ n \in Pairs
         /\ n.sel = [k.sel EXCEPT ![c] = mimes]
         /\ n.clip.source = k.clip.source /\ n.clip.persistent = k.clip.persistent
         /\ mimes = {} => n.clip = k.clip
         /\ mimes # {} => n.clip.offer = c /\ n.clip.offerDevice
BY DEF CreateOffer, Pairs, ClipType

LEMMA RevokeOfferOK ==
  ASSUME NEW k \in Pairs
  PROVE  LET n == RevokeOffer(k) IN
         /\ n \in Pairs /\ n.clip = k.clip
         /\ n.sel = IF k.clip.offer # None /\ k.clip.offerDevice
                    THEN [k.sel EXCEPT ![k.clip.offer] = {}] ELSE k.sel
BY DEF RevokeOffer, Pairs, ClipType

(* The types that the clipboard offers; with a source there are some. *)
LEMMA MimeTypesOK ==
  ASSUME IInv
  PROVE  MimeTypes \in SUBSET Mimes /\ (MimeTypes = {} => clipboard.source = None)
BY DEF IInv, TypeOK, ObjectsTypeOK, ClipboardTypeOK, ClipboardUsage, MimeTypes

(* The focus goes: whatever was shown is taken back. *)
LEMMA RevokedAll ==
  ASSUME IInv
  PROVE  LET n == RevokeOffer(Offers) IN
         n \in Pairs /\ n.clip = clipboard /\ \A c \in Clients : n.sel[c] = {}
<1>1. /\ Offers \in Pairs /\ Offers.clip = clipboard /\ Offers.sel = selection
      /\ \A c \in Clients : selection[c] # {} => clipboard.offer = c /\ clipboard.offerDevice
      /\ selection \in [Clients -> SUBSET Mimes]
  BY OffersOK DEF IInv, SelectionInv, TypeOK, ClipboardTypeOK
<1>2. LET n == RevokeOffer(Offers) IN
      /\ n \in Pairs /\ n.clip = clipboard
      /\ n.sel = IF clipboard.offer # None /\ clipboard.offerDevice
                 THEN [selection EXCEPT ![clipboard.offer] = {}] ELSE selection
  BY <1>1, RevokeOfferOK
<1> QED  BY <1>1, <1>2

LEMMA RemoveFocusOK ==
  ASSUME IInv, RemoveFocus, devices' = devices
  PROVE  ClipboardTypeOK' /\ SelectionInv' /\ clipboard' = clipboard /\ focus' = None
<1>1. /\ clipboard' = clipboard /\ focus' = None /\ selection' \in [Clients -> SUBSET Mimes]
      /\ \A c \in Clients : selection'[c] = {}
  BY RevokedAll DEF RemoveFocus, OffersBecome, Pairs
<1>2. None \notin devices
  BY DEF IInv, TypeOK, ObjectsTypeOK
<1> QED  BY <1>1, <1>2 DEF IInv, TypeOK, ClipboardTypeOK, SelectionInv

LEMMA SetFocusOK ==
  ASSUME IInv, NEW c \in Clients, SetFocus(c), devices' = devices
  PROVE  /\ ClipboardTypeOK' /\ SelectionInv' /\ focus' = c
         /\ clipboard'.source = clipboard.source /\ clipboard'.persistent = clipboard.persistent
<1>0. /\ ClipboardTypeOK /\ SelectionInv /\ devices \subseteq Clients
  BY DEF IInv, TypeOK, ObjectsTypeOK
<1>1. CASE focus = c
  BY <1>0, <1>1 DEF SetFocus, clipboardVars, ClipboardTypeOK, SelectionInv
<1>2. CASE focus # c /\ clipboard.offer = c
  <2>1. clipboard' = clipboard /\ selection' = selection /\ focus' = c
    BY <1>2, OffersOK DEF SetFocus, OffersBecome
  <2> QED  BY <1>0, <1>2, <2>1 DEF ClipboardTypeOK, SelectionInv
<1>3. CASE focus # c /\ clipboard.offer # c
  <2> DEFINE k == RevokeOffer(Offers)
             n == IF c \in devices THEN CreateOffer(k, c, MimeTypes) ELSE k
  <2>1. k \in Pairs /\ k.clip = clipboard /\ \A d \in Clients : k.sel[d] = {}
    BY RevokedAll
  <2>2. clipboard' = n.clip /\ selection' = n.sel /\ focus' = c
    BY <1>3 DEF SetFocus, OffersBecome
  <2> HIDE DEF k
  <2>3. /\ n \in Pairs
        /\ n.clip.source = clipboard.source /\ n.clip.persistent = clipboard.persistent
        /\ c \notin devices => n = k
        /\ c \in devices => /\ n.sel = [k.sel EXCEPT ![c] = MimeTypes]
                            /\ MimeTypes = {} => n.clip = clipboard
                            /\ MimeTypes # {} => n.clip.offer = c /\ n.clip.offerDevice
    BY <2>1, MimeTypesOK, CreateOfferOK
  <2> HIDE DEF n
  <2>4. ClipboardTypeOK' /\ clipboard'.source = clipboard.source /\ clipboard'.persistent = clipboard.persistent
    BY <2>2, <2>3 DEF Pairs, ClipType, ClipboardTypeOK
  <2>5. SelectionInv'
    <3>1. CASE c \notin devices
      BY <2>1, <2>2, <2>3, <3>1 DEF SelectionInv
    <3>2. CASE c \in devices
      <4>1. k.sel \in [Clients -> SUBSET Mimes]
        BY <2>1 DEF Pairs
      <4> QED  BY <2>1, <2>2, <2>3, <3>2, <4>1, MimeTypesOK DEF SelectionInv
    <3> QED  BY <3>1, <3>2
  <2> QED  BY <2>2, <2>4, <2>5
<1> QED  BY <1>1, <1>2, <1>3

LEMMA SetSelectionOK ==
  ASSUME IInv, NEW s \in Sources, SetSelection(s)
  PROVE  ClipboardTypeOK' /\ SelectionInv' /\ clipboard'.source = s
<1>0. /\ ClipboardTypeOK /\ SelectionInv /\ devices \subseteq Clients /\ devices' = devices
      /\ source[s].mimes \in SUBSET Mimes /\ source[s].mimes # {} /\ focus' = focus
  BY DEF IInv, TypeOK, ObjectsTypeOK, SetSelection
<1> DEFINE k == [Offers EXCEPT !.clip = [clipboard EXCEPT !.source = s, !.persistent = {}]]
           n == IF focus \in devices THEN CreateOffer(k, focus, source[s].mimes) ELSE k
<1>1. /\ k \in Pairs /\ k.sel = selection
      /\ k.clip.source = s /\ k.clip.offer = clipboard.offer
      /\ k.clip.offerDevice = clipboard.offerDevice
  <2> DEFINE p == [clipboard EXCEPT !.source = s]
             q == [p EXCEPT !.persistent = {}]
  <2>1. p \in ClipType /\ p.source = s /\ p.offer = clipboard.offer /\ p.offerDevice = clipboard.offerDevice
    BY <1>0 DEF ClipboardTypeOK, ClipType
  <2> HIDE DEF p
  <2>2. q \in ClipType /\ q.source = s /\ q.offer = clipboard.offer /\ q.offerDevice = clipboard.offerDevice
    BY <2>1 DEF ClipType
  <2>3. k = [clip |-> q, sel |-> selection]
    BY DEF Offers, p
  <2> QED  BY <1>0, <2>2, <2>3 DEF Pairs, ClipboardTypeOK
<1>2. clipboard' = n.clip /\ selection' = n.sel
  BY DEF SetSelection, OffersBecome
<1> HIDE DEF k
<1>3. /\ n \in Pairs /\ n.clip.source = s
      /\ focus \notin devices => n = k
      /\ focus \in devices => /\ n.sel = [k.sel EXCEPT ![focus] = source[s].mimes]
                              /\ n.clip.offer = focus /\ n.clip.offerDevice
  BY <1>0, <1>1, CreateOfferOK
<1> HIDE DEF n
<1>4. ClipboardTypeOK' /\ clipboard'.source = s
  BY <1>0, <1>2, <1>3 DEF Pairs, ClipType, ClipboardTypeOK
<1>5. \A c \in Clients : selection'[c] # {} => clipboard'.offer = c /\ clipboard'.offerDevice
  <2>1. CASE focus \notin devices
    BY <1>0, <1>1, <1>2, <1>3, <2>1 DEF SelectionInv
  <2>2. CASE focus \in devices
    <3>1. \A c \in Clients \ {focus} : selection[c] = {}
      BY <1>0, <2>2 DEF SelectionInv
    <3>2. selection \in [Clients -> SUBSET Mimes] /\ focus \in Clients
      BY <1>0, <2>2 DEF ClipboardTypeOK
    <3>3. selection' = [selection EXCEPT ![focus] = source[s].mimes]
      BY <1>1, <1>2, <1>3, <2>2
    <3>4. clipboard'.offer = focus /\ clipboard'.offerDevice
      BY <1>2, <1>3, <2>2
    <3> QED  BY <3>1, <3>2, <3>3, <3>4
  <2> QED  BY <2>1, <2>2
<1>6. focus' \in devices' => clipboard'.offer = focus'
  BY <1>0, <1>2, <1>3
<1> QED  BY <1>4, <1>5, <1>6 DEF SelectionInv

LEMMA OfferOK ==
  ASSUME IInv, NEW s \in Sources, NEW m \in Mimes, Offer(s, m)
  PROVE  ClipboardTypeOK' /\ SelectionInv' /\ clipboard' = clipboard
<1>1. /\ clipboard' = clipboard /\ focus' = focus /\ devices' = devices
      /\ selection' \in [Clients -> SUBSET Mimes]
      /\ \A c \in Clients : selection'[c] # {} => selection[c] # {}
  BY DEF IInv, TypeOK, ClipboardTypeOK, Offer
<1> QED  BY <1>1 DEF IInv, TypeOK, ClipboardTypeOK, SelectionInv

LEMMA DestroyClipboardOfferOK ==
  ASSUME IInv, NEW c \in Clients, DestroyClipboardOffer(c)
  PROVE  /\ ClipboardTypeOK' /\ SelectionInv'
         /\ clipboard'.source = clipboard.source /\ clipboard'.persistent = clipboard.persistent
<1>0. ClipboardTypeOK /\ SelectionInv
  BY DEF IInv, TypeOK
<1>1. /\ clipboard'.source = clipboard.source /\ clipboard'.persistent = clipboard.persistent
      /\ clipboard'.offer = None /\ focus' = focus
      /\ clipboard' \in ClipType /\ devices' = devices
      /\ selection' = [selection EXCEPT ![c] = {}]
  BY <1>0 DEF DestroyClipboardOffer, ClipboardTypeOK, ClipType, objects
<1>2. \A d \in Clients : selection'[d] = {}
  BY <1>0, <1>1 DEF SelectionInv, ClipboardTypeOK, DestroyClipboardOffer
<1> QED  BY <1>0, <1>1, <1>2 DEF SelectionInv, ClipboardTypeOK, ClipType

LEMMA DeviceLeavesClipboardOK ==
  ASSUME IInv, NEW c \in Clients, DeviceLeavesClipboard(c), devices' = devices \ {c}
  PROVE  /\ ClipboardTypeOK' /\ SelectionInv'
         /\ clipboard'.source = clipboard.source /\ clipboard'.persistent = clipboard.persistent
<1>0. ClipboardTypeOK /\ SelectionInv
  BY DEF IInv, TypeOK
<1>1. /\ clipboard'.source = clipboard.source /\ clipboard'.persistent = clipboard.persistent
      /\ clipboard'.offer = clipboard.offer /\ focus' = focus
      /\ clipboard'.offerDevice = (clipboard.offerDevice /\ clipboard.offer # c)
      /\ clipboard' \in ClipType
      /\ selection' = [selection EXCEPT ![c] = {}]
  BY <1>0 DEF DeviceLeavesClipboard, ClipboardTypeOK, ClipType
<1> QED  BY <1>0, <1>1 DEF SelectionInv, ClipboardTypeOK, ClipType

LEMMA SurfaceLeavesKeyboardOK ==
  ASSUME IInv, NEW c \in Clients, SurfaceLeavesKeyboard(c), devices' = devices
  PROVE  ClipboardTypeOK' /\ SelectionInv' /\ clipboard' = clipboard
<1>1. None \notin devices
  BY DEF IInv, TypeOK, ObjectsTypeOK
<1> QED  BY <1>1 DEF IInv, TypeOK, SurfaceLeavesKeyboard, ClipboardTypeOK, SelectionInv

LEMMA SourceLeavesClipboardOK ==
  ASSUME IInv, NEW s \in Sources, SourceLeavesClipboard(s), devices' = devices, focus' = focus
  PROVE  /\ ClipboardTypeOK' /\ SelectionInv'
         /\ clipboard'.source = IF clipboard.source = s THEN None ELSE clipboard.source
         /\ clipboard.source = s => clipboard'.persistent = source[s].mimes \cap Persistent
         /\ clipboard.source # s => clipboard' = clipboard
<1>0. ClipboardTypeOK /\ SelectionInv /\ source[s].mimes \in SUBSET Mimes
  BY DEF IInv, TypeOK, ObjectsTypeOK
<1>1. CASE clipboard.source # s
  <2>1. clipboard' = clipboard /\ selection' = selection
    BY <1>1, OffersOK DEF SourceLeavesClipboard, OffersBecome
  <2> QED  BY <1>0, <1>1, <2>1 DEF ClipboardTypeOK, SelectionInv
<1>2. CASE clipboard.source = s
  <2> DEFINE kept == [Offers EXCEPT !.clip.persistent = source[s].mimes \cap Persistent]
             shown == clipboard.offer # None /\ clipboard.offerDevice
             n == IF shown THEN CreateOffer(kept, clipboard.offer, source[s].mimes) ELSE kept
  <2>1. /\ kept \in Pairs /\ kept.sel = selection
        /\ kept.clip.offer = clipboard.offer /\ kept.clip.offerDevice = clipboard.offerDevice
        /\ kept.clip.persistent = source[s].mimes \cap Persistent
    <3>1. kept = [clip |-> [clipboard EXCEPT !.persistent = source[s].mimes \cap Persistent],
                  sel |-> selection]
      BY DEF Offers
    <3>2. source[s].mimes \cap Persistent \in SUBSET Mimes
      BY <1>0
    <3> HIDE DEF kept
    <3> QED  BY <1>0, <3>1, <3>2 DEF Pairs, ClipType, ClipboardTypeOK
  <2>2. /\ clipboard' = [n.clip EXCEPT !.source = None] /\ selection' = n.sel
    BY <1>2 DEF SourceLeavesClipboard, OffersBecome
  <2> HIDE DEF kept
  <2>3. /\ n \in Pairs /\ n.clip.persistent = source[s].mimes \cap Persistent
        /\ n.clip.offer = clipboard.offer /\ n.clip.offerDevice = clipboard.offerDevice
        /\ shown => n.sel = [selection EXCEPT ![clipboard.offer] = source[s].mimes]
        /\ ~shown => n.sel = selection
    <3>1. CASE shown
      <4>1. clipboard.offer \in Clients
        BY <1>0, <3>1 DEF ClipboardTypeOK
      <4>2. n = CreateOffer(kept, clipboard.offer, source[s].mimes)
        BY <3>1
      <4> HIDE DEF n
      <4>3. /\ n \in Pairs
            /\ n.sel = [selection EXCEPT ![clipboard.offer] = source[s].mimes]
            /\ n.clip.persistent = source[s].mimes \cap Persistent
            /\ source[s].mimes = {} => n.clip = kept.clip
            /\ source[s].mimes # {} => n.clip.offer = clipboard.offer /\ n.clip.offerDevice
        BY <1>0, <2>1, <4>1, <4>2, CreateOfferOK
      <4>4. n.clip.offer = clipboard.offer /\ n.clip.offerDevice = clipboard.offerDevice
        BY <2>1, <3>1, <4>3 DEF Pairs, ClipType
      <4> QED  BY <3>1, <4>3, <4>4
    <3>2. CASE ~shown
      BY <2>1, <3>2
    <3> QED  BY <3>1, <3>2
  <2> HIDE DEF n
  <2>4. /\ clipboard' \in ClipType /\ clipboard'.source = None
        /\ clipboard'.persistent = source[s].mimes \cap Persistent
        /\ clipboard'.offer = clipboard.offer /\ clipboard'.offerDevice = clipboard.offerDevice
    BY <2>2, <2>3 DEF Pairs, ClipType
  <2>5. ClipboardTypeOK'
    BY <1>0, <2>2, <2>3, <2>4 DEF ClipboardTypeOK, ClipType, Pairs
  <2>6. SelectionInv'
    BY <1>0, <1>2, <2>2, <2>3, <2>4 DEF SelectionInv, ClipboardTypeOK
  <2> QED  BY <1>2, <2>4, <2>5, <2>6
<1> QED  BY <1>1, <1>2

-----------------------------------------------------------------------------
(* What the calls on the drag do. *)

LEMMA TellOK ==
  ASSUME ObjectsTypeOK, NEW s \in Sources \cup {None},
         NEW events \in SUBSET Events, told' = Tell(s, events)
  PROVE  /\ told' \in [Sources -> SUBSET Events]
         /\ \A r \in Sources : told'[r] =
              IF r = s /\ source[s].alive THEN told[r] \cup events ELSE told[r]
<1>1. told \in [Sources -> SUBSET Events]
  BY DEF ObjectsTypeOK, Events
<1> QED  BY <1>1, DataAssumption DEF Tell

LEMMA DragOK ==
  DragTypeOK => /\ Drag \in Drags
                /\ Drag.session = session /\ Drag.offer = offer /\ Drag.entered = entered
BY DEF DragTypeOK, Drag, Drags, SessionType, OfferType

LEMMA SendLeaveEventOK ==
  ASSUME NEW d \in Drags
  PROVE  LET n == SendLeaveEvent(d) IN
         /\ n \in Drags
         /\ n.session = [d.session EXCEPT !.focus = None, !.dst = None]
         /\ n.entered = d.entered \ {d.session.dst}
         /\ \A s \in Sources : n.offer[s] = IF s = d.session.source THEN NoOffer ELSE d.offer[s]
<1>1. [d.session EXCEPT !.focus = None, !.dst = None] \in SessionType
  BY DEF Drags, SessionType
<1>2. [s \in Sources |-> IF s = d.session.source THEN NoOffer ELSE d.offer[s]] \in [Sources -> OfferType]
  BY DEF Drags, OfferType, NoOffer
<1> QED  BY <1>1, <1>2 DEF SendLeaveEvent, Drags

(* The drag ends: its source is told so, or the destination has an offer to answer. *)
LEMMA Ended ==
  ASSUME IInv, session' = NoSession, entered' = {}, offer' \in [Sources -> OfferType],
         \A s \in Sources :
           /\ s # session.source => offer'[s].state = offer[s].state /\ told'[s] = told[s]
           /\ s = session.source => /\ offer'[s].state \notin {"open", "finished"}
                                    /\ offer'[s].state # "none" => offer[s].state # "none"
                                    /\ \/ told'[s] \cap {"cancelled", "finished"} # {}
                                       \/ offer'[s].state \in {"dropped", "declined"}
                                       \/ ~source'[s].alive
           /\ source'[s].alive => source[s].alive /\ source'[s].usage = source[s].usage
  PROVE  DragTypeOK' /\ DragInv'
<1>0. DragUsage /\ SessionInv /\ DragTarget /\ AnsweredAfterDrag
  BY DEF IInv, DragInv
<1>1. /\ session'.active = FALSE /\ session'.source = None /\ session'.focus = None
      /\ session'.dst = None /\ session' \in SessionType
  BY DEF NoSession, SessionType
<1>2. DragTypeOK'
  BY <1>1 DEF DragTypeOK, SessionType, OfferType
<1>3. DragUsage'
  BY <1>0, <1>1 DEF DragUsage
<1>4. SessionInv'
  BY <1>1 DEF SessionInv
<1>5. DragTarget'
  BY <1>0, <1>1 DEF DragTarget, EnteredIsTarget, OpenOfferOfDrag, DragReferences
<1>6. AnsweredAfterDrag'
  BY <1>0, <1>1 DEF AnsweredAfterDrag, DragAnswered, QuietWhileDragging
<1> QED  BY <1>2, <1>3, <1>4, <1>5, <1>6 DEF DragInv

(* The destination is left and the session ends. *)
LEMMA LeaveAndEnd ==
  ASSUME NEW d \in Drags, DragBecomes([SendLeaveEvent(d) EXCEPT !.session = NoSession])
  PROVE  /\ session' = NoSession /\ offer' \in [Sources -> OfferType]
         /\ entered' = d.entered \ {d.session.dst}
         /\ \A s \in Sources : offer'[s] = IF s = d.session.source THEN NoOffer ELSE d.offer[s]
<1> DEFINE n == SendLeaveEvent(d)
<1>1. /\ n \in Drags /\ n.entered = d.entered \ {d.session.dst}
      /\ \A s \in Sources : n.offer[s] = IF s = d.session.source THEN NoOffer ELSE d.offer[s]
  BY SendLeaveEventOK
<1>2. DragBecomes([n EXCEPT !.session = NoSession])
  OBVIOUS
<1> HIDE DEF n
<1> QED  BY <1>1, <1>2 DEF DragBecomes, Drags

LEMMA DragFacts ==
  ASSUME IInv
  PROVE  /\ ObjectsTypeOK /\ DragTypeOK
         /\ DragUsage /\ SessionInv /\ AnsweredAfterDrag
         /\ EnteredIsTarget /\ OpenOfferOfDrag /\ DragReferences
         /\ session.source \in Sources \cup {None}
         /\ session \in SessionType /\ offer \in [Sources -> OfferType] /\ entered \subseteq Clients
         /\ entered \ {session.dst} = {}
BY DEF IInv, DragInv, TypeOK, DragTypeOK, DragTarget, EnteredIsTarget, SessionType, OfferType

LEMMA CancelOK ==
  ASSUME IInv, Cancel, UNCHANGED source
  PROVE  DragTypeOK' /\ DragInv' /\ told' \in [Sources -> SUBSET Events]
<1>1. /\ session' = NoSession /\ offer' \in [Sources -> OfferType] /\ entered' = {}
      /\ \A s \in Sources : offer'[s] = IF s = session.source THEN NoOffer ELSE offer[s]
  <2> DEFINE d == Drag
  <2>1. d \in Drags /\ d.session = session /\ d.offer = offer /\ d.entered = entered
    BY DragFacts, DragOK
  <2>2. DragBecomes([SendLeaveEvent(d) EXCEPT !.session = NoSession])
    BY DEF Cancel
  <2> HIDE DEF d
  <2> QED  BY <2>1, <2>2, LeaveAndEnd, DragFacts
<1>2. /\ told' \in [Sources -> SUBSET Events]
      /\ \A s \in Sources : told'[s] = IF s = session.source /\ source[s].alive
                                       THEN told[s] \cup {"cancelled", "finished"} ELSE told[s]
  <2> DEFINE ev == {"cancelled", "finished"}
  <2>1. ev \in SUBSET Events /\ told' = Tell(session.source, ev)
    BY DEF Cancel, Events
  <2> HIDE DEF ev
  <2>2. /\ told' \in [Sources -> SUBSET Events]
        /\ \A s \in Sources : told'[s] = IF s = session.source /\ source[s].alive
                                         THEN told[s] \cup ev ELSE told[s]
    BY <2>1, DragFacts, TellOK
  <2> QED  BY <2>2 DEF ev
<1> QED  BY <1>1, <1>2, Ended DEF NoOffer

LEMMA DropOK ==
  ASSUME IInv, session.active, Drop, UNCHANGED source
  PROVE  DragTypeOK' /\ DragInv' /\ told' \in [Sources -> SUBSET Events]
<1>1. CASE session.focus = None
  BY <1>1, CancelOK DEF Drop
<1>2. CASE session.focus # None
  <2> DEFINE s == session.source
             open == s # None /\ offer[s].state = "open"
             finished == s # None /\ offer[s].state = "finished"
             ev == {"dropPerformed"} \cup IF (open \/ finished) /\ ~offer[s].matched
                                          THEN {"cancelled"} ELSE {}
  <2>1. ev \in SUBSET Events /\ told' = Tell(s, ev)
    BY <1>2 DEF Drop, Events
  <2>2. /\ session' = NoSession /\ entered' = entered \ {session.dst}
        /\ offer' = IF open THEN [offer EXCEPT ![s].state = "dropped"]
                    ELSE IF finished THEN [offer EXCEPT ![s] = NoOffer] ELSE offer
    BY <1>2 DEF Drop
  <2> HIDE DEF ev
  <2>3. /\ told' \in [Sources -> SUBSET Events]
        /\ \A r \in Sources : r # s => told'[r] = told[r]
        /\ \A r \in Sources : told[r] \subseteq told'[r]
    <3>1. /\ told' \in [Sources -> SUBSET Events]
          /\ \A r \in Sources : told'[r] =
               IF r = s /\ source[s].alive THEN told[r] \cup ev ELSE told[r]
      BY <2>1, DragFacts, TellOK
    <3> QED  BY <3>1
  <2>4. \A r \in Sources : session.source = r =>
          /\ offer[r].state \in {"open", "finished", "declined"}
          /\ offer[r].state = "finished" => "finished" \in told[r]
    BY <1>2, DragFacts DEF SessionInv, OfferType
  <2>5. /\ offer' \in [Sources -> OfferType]
        /\ \A r \in Sources : offer'[r].state =
             IF r = s /\ offer[r].state = "open" THEN "dropped"
             ELSE IF r = s /\ offer[r].state = "finished" THEN "none" ELSE offer[r].state
    BY <2>2, DragFacts DEF OfferType, NoOffer
  <2> HIDE DEF open, finished
  <2> QED  BY <2>2, <2>3, <2>4, <2>5, DragFacts, Ended
<1> QED  BY <1>1, <1>2

(* The drag stays as it is while sources that it does not concern change. *)
LEMMA DragKept ==
  ASSUME IInv, UNCHANGED dragVars, surfaces \subseteq surfaces', devices' = devices,
         \A s \in Sources :
           \/ /\ source'[s].alive = source[s].alive /\ source'[s].usage = source[s].usage
              /\ told'[s] = told[s]
           \/ /\ session.source # s
              /\ \/ ~source'[s].alive
                 \/ source'[s].usage = "Clipboard" /\ offer[s].state = "none"
  PROVE  DragTypeOK' /\ DragInv'
<1>1. session' = session /\ offer' = offer /\ entered' = entered
  BY DEF dragVars
<1>2. DragTypeOK'
  BY <1>1, DragFacts DEF DragTypeOK
<1>3. DragUsage'
  BY <1>1, DragFacts DEF DragUsage
<1>4. SessionInv'
  BY <1>1, DragFacts DEF SessionInv
<1>5. DragTarget'
  BY <1>1, DragFacts DEF DragTarget, EnteredIsTarget, OpenOfferOfDrag, DragReferences
<1>6. AnsweredAfterDrag'
  BY <1>1, DragFacts DEF AnsweredAfterDrag, DragAnswered, QuietWhileDragging
<1> QED  BY <1>2, <1>3, <1>4, <1>5, <1>6 DEF DragInv

LEMMA SourceLeavesDragOK ==
  ASSUME IInv, NEW s \in Sources, SourceLeavesDrag(s), source[s].alive,
         source' = [source EXCEPT ![s] = NoSource], UNCHANGED <<surfaces, devices, told>>
  PROVE  DragTypeOK' /\ DragInv'
<1>1. /\ source'[s].alive = FALSE
      /\ \A r \in Sources : r # s => source'[r] = source[r]
  BY DragFacts DEF ObjectsTypeOK, NoSource
<1>2. CASE session.active /\ session.source = s
  <2> DEFINE d == Drag
  <2>1. d \in Drags /\ d.session = session /\ d.offer = offer /\ d.entered = entered
    BY DragFacts, DragOK
  <2>2. DragBecomes([SendLeaveEvent(d) EXCEPT !.session = NoSession])
    BY <1>2 DEF SourceLeavesDrag
  <2> HIDE DEF d
  <2>3. /\ session' = NoSession /\ offer' \in [Sources -> OfferType] /\ entered' = {}
        /\ \A r \in Sources : offer'[r] = IF r = s THEN NoOffer ELSE offer[r]
    BY <1>2, <2>1, <2>2, LeaveAndEnd, DragFacts
  <2> QED  BY <1>1, <1>2, <2>3, Ended DEF NoOffer
<1>3. CASE ~(session.active /\ session.source = s)
  <2>1. UNCHANGED dragVars /\ session.source # s
    BY <1>3, DragFacts DEF SourceLeavesDrag, SessionInv
  <2> QED  BY <1>1, <2>1, DragKept
<1> QED  BY <1>2, <1>3

LEMMA WithoutDeviceOK ==
  ASSUME DragTypeOK, NEW c \in Clients
  PROVE  LET d == WithoutDevice(Drag, c) IN
         /\ d \in Drags
         /\ d.session.active = session.active /\ d.session.source = session.source
         /\ d.session.origin = session.origin /\ d.session.focus = session.focus
         /\ d.session.dst = IF session.dst = c THEN None ELSE session.dst
         /\ d.entered = entered \ {c}
         /\ \A s \in Sources :
              /\ d.offer[s].state = offer[s].state /\ d.offer[s].client = offer[s].client
              /\ d.offer[s].device => offer[s].device /\ offer[s].client # c
<1> DEFINE d == WithoutDevice(Drag, c)
<1>0. Drag \in Drags /\ Drag.session = session /\ Drag.offer = offer /\ Drag.entered = entered
  BY DragOK
<1>1. /\ d.session \in SessionType
      /\ d.session.active = session.active /\ d.session.source = session.source
      /\ d.session.origin = session.origin /\ d.session.focus = session.focus
      /\ d.session.dst = IF session.dst = c THEN None ELSE session.dst
  BY <1>0 DEF WithoutDevice, Drags, SessionType
<1>2. /\ d.offer \in [Sources -> OfferType]
      /\ \A s \in Sources : d.offer[s] = IF offer[s].client = c
                                         THEN [offer[s] EXCEPT !.device = FALSE] ELSE offer[s]
  <2> DEFINE o == [s \in Sources |-> IF offer[s].client = c
                                     THEN [offer[s] EXCEPT !.device = FALSE] ELSE offer[s]]
  <2>1. d.offer = o
    BY <1>0 DEF WithoutDevice
  <2>2. o \in [Sources -> OfferType]
    <3>1. \A r \in OfferType : [r EXCEPT !.device = FALSE] \in OfferType
      BY DEF OfferType
    <3>2. \A s \in Sources : offer[s] \in OfferType
      BY <1>0 DEF Drags
    <3> QED  BY <3>1, <3>2
  <2> HIDE DEF d
  <2> QED  BY <2>1, <2>2
<1>3. d.entered = entered \ {c} /\ d.entered \in SUBSET Clients
  BY <1>0 DEF WithoutDevice, Drags
<1>4. d \in Drags
  BY <1>1, <1>2, <1>3 DEF WithoutDevice, Drags
<1>5. \A s \in Sources :
        /\ d.offer[s].state = offer[s].state /\ d.offer[s].client = offer[s].client
        /\ d.offer[s].device => offer[s].device /\ offer[s].client # c
  <2> HIDE DEF d
  <2> QED  BY <1>0, <1>2 DEF Drags, OfferType
<1> HIDE DEF d
<1>6. /\ d \in Drags
      /\ d.session.active = session.active /\ d.session.source = session.source
      /\ d.session.origin = session.origin /\ d.session.focus = session.focus
      /\ d.session.dst = IF session.dst = c THEN None ELSE session.dst
      /\ d.entered = entered \ {c}
      /\ \A s \in Sources :
           /\ d.offer[s].state = offer[s].state /\ d.offer[s].client = offer[s].client
           /\ d.offer[s].device => offer[s].device /\ offer[s].client # c
  BY <1>1, <1>3, <1>4, <1>5
<1> QED  BY <1>6 DEF d

LEMMA DeviceLeavesDragOK ==
  ASSUME IInv, NEW c \in Clients, DeviceLeavesDrag(c),
         devices' = devices \ {c}, UNCHANGED <<surfaces, source>>
  PROVE  DragTypeOK' /\ DragInv' /\ told' \in [Sources -> SUBSET Events]
<1> DEFINE d == WithoutDevice(Drag, c)
<1>1. /\ d \in Drags
      /\ d.session.active = session.active /\ d.session.source = session.source
      /\ d.session.origin = session.origin /\ d.session.focus = session.focus
      /\ d.session.dst = IF session.dst = c THEN None ELSE session.dst
      /\ d.entered = entered \ {c}
      /\ \A s \in Sources :
           /\ d.offer[s].state = offer[s].state /\ d.offer[s].client = offer[s].client
           /\ d.offer[s].device => offer[s].device /\ offer[s].client # c
  BY DragFacts, WithoutDeviceOK
<1>2. CASE session.active /\ session.origin = c
  <2>1. /\ told' = Tell(session.source, {"cancelled", "finished"})
        /\ DragBecomes([SendLeaveEvent(d) EXCEPT !.session = NoSession])
    BY <1>2 DEF DeviceLeavesDrag
  <2> HIDE DEF d
  <2>2. /\ session' = NoSession /\ offer' \in [Sources -> OfferType]
        /\ entered' = d.entered \ {d.session.dst}
        /\ \A s \in Sources : offer'[s] = IF s = session.source THEN NoOffer ELSE d.offer[s]
    BY <1>1, <2>1, LeaveAndEnd
  <2>3. entered' = {}
    BY <1>1, <2>2, DragFacts
  <2>4. /\ told' \in [Sources -> SUBSET Events]
        /\ \A s \in Sources : told'[s] = IF s = session.source /\ source[s].alive
                                         THEN told[s] \cup {"cancelled", "finished"} ELSE told[s]
    <3> DEFINE ev == {"cancelled", "finished"}
    <3>1. ev \in SUBSET Events /\ told' = Tell(session.source, ev)
      BY <2>1 DEF Events
    <3> HIDE DEF ev
    <3>2. /\ told' \in [Sources -> SUBSET Events]
          /\ \A s \in Sources : told'[s] = IF s = session.source /\ source[s].alive
                                           THEN told[s] \cup ev ELSE told[s]
      BY <3>1, DragFacts, TellOK
    <3> QED  BY <3>2 DEF ev
  <2>5. \A s \in Sources : s # session.source =>
          offer'[s].state = offer[s].state /\ told'[s] = told[s]
    BY <1>1, <2>2, <2>4
  <2>6. \A s \in Sources : s = session.source =>
          /\ offer'[s].state = "none"
          /\ told'[s] \cap {"cancelled", "finished"} # {} \/ ~source'[s].alive
    BY <2>2, <2>4 DEF NoOffer
  <2> QED  BY <2>2, <2>3, <2>4, <2>5, <2>6, Ended
<1>3. CASE ~(session.active /\ session.origin = c)
  <2>1. DragBecomes(d) /\ told' = told
    BY <1>3 DEF DeviceLeavesDrag
  <2> HIDE DEF d
  <2>2. /\ session' \in SessionType /\ offer' \in [Sources -> OfferType] /\ entered' = entered \ {c}
        /\ session'.active = session.active /\ session'.source = session.source
        /\ session'.origin = session.origin /\ session'.focus = session.focus
        /\ session'.dst = IF session.dst = c THEN None ELSE session.dst
        /\ \A s \in Sources :
             /\ offer'[s].state = offer[s].state /\ offer'[s].client = offer[s].client
             /\ offer'[s].device => offer[s].device /\ offer[s].client # c
    BY <1>1, <2>1 DEF DragBecomes, Drags
  <2>3. DragTypeOK'
    BY <2>2, DragFacts DEF DragTypeOK, SessionType, OfferType
  <2>4. DragUsage'
    BY <2>1, <2>2, DragFacts DEF DragUsage
  <2>5. SessionInv'
    BY <2>1, <2>2, DragFacts DEF SessionInv
  <2>6. EnteredIsTarget'
    BY <2>2, DragFacts DEF EnteredIsTarget
  <2>7. OpenOfferOfDrag'
    BY <2>2, DragFacts DEF OpenOfferOfDrag
  <2>8. DragReferences'
    BY <1>3, <2>2, DragFacts DEF DragReferences, SessionInv
  <2>9. AnsweredAfterDrag'
    BY <2>1, <2>2, DragFacts DEF AnsweredAfterDrag, DragAnswered, QuietWhileDragging
  <2>10. told' \in [Sources -> SUBSET Events]
    BY <2>1, DragFacts DEF ObjectsTypeOK, Events
  <2> QED  BY <2>3, <2>4, <2>5, <2>6, <2>7, <2>8, <2>9, <2>10 DEF DragInv, DragTarget
<1> QED  BY <1>2, <1>3

LEMMA SurfaceLeavesDragOK ==
  ASSUME IInv, NEW c \in Clients, SurfaceLeavesDrag(c),
         surfaces' = surfaces \ {c}, UNCHANGED <<devices, source>>
  PROVE  DragTypeOK' /\ DragInv' /\ told' \in [Sources -> SUBSET Events]
<1>1. CASE session.active /\ session.origin = c
  BY <1>1, CancelOK DEF SurfaceLeavesDrag
<1>2. CASE ~(session.active /\ session.origin = c)
  <2>1. /\ UNCHANGED <<told, offer, entered>> /\ session' \in SessionType
        /\ session'.active = session.active /\ session'.source = session.source
        /\ session'.origin = session.origin /\ session'.dst = session.dst
        /\ session'.focus = IF session.focus = c THEN None ELSE session.focus
    BY <1>2, DragFacts DEF SurfaceLeavesDrag, SessionType
  <2>2. DragTypeOK'
    BY <2>1, DragFacts DEF DragTypeOK, SessionType
  <2>3. DragUsage'
    BY <2>1, DragFacts DEF DragUsage
  <2>4. SessionInv'
    BY <2>1, DragFacts DEF SessionInv
  <2>5. EnteredIsTarget' /\ OpenOfferOfDrag'
    BY <2>1, DragFacts DEF EnteredIsTarget, OpenOfferOfDrag
  <2>6. DragReferences'
    BY <1>2, <2>1, DragFacts DEF DragReferences, SessionInv
  <2>7. AnsweredAfterDrag'
    BY <2>1, DragFacts DEF AnsweredAfterDrag, DragAnswered, QuietWhileDragging
  <2>8. told' \in [Sources -> SUBSET Events]
    BY <2>1, DragFacts DEF ObjectsTypeOK, Events
  <2> QED  BY <2>2, <2>3, <2>4, <2>5, <2>6, <2>7, <2>8 DEF DragInv, DragTarget
<1> QED  BY <1>1, <1>2

LEMMA SetDragFocusOK ==
  ASSUME IInv, NEW c \in surfaces \cup {None}, session.active, SetDragFocus(c), UNCHANGED objects
  PROVE  DragTypeOK' /\ DragInv'
<1> DEFINE left == SendLeaveEvent(Drag)
           open == [NoOffer EXCEPT !.state = "open", !.client = c, !.device = TRUE]
<1>0. surfaces' = surfaces /\ devices' = devices /\ source' = source /\ told' = told
  BY DEF objects
<1>1. /\ left \in Drags /\ left.entered = {}
      /\ left.session = [session EXCEPT !.focus = None, !.dst = None]
      /\ \A s \in Sources : left.offer[s] = IF s = session.source THEN NoOffer ELSE offer[s]
  <2> DEFINE d == Drag
  <2>1. d \in Drags /\ d.session = session /\ d.offer = offer /\ d.entered = entered
    BY DragFacts, DragOK
  <2>2. left = SendLeaveEvent(d)
    OBVIOUS
  <2> HIDE DEF d, left
  <2>3. /\ left \in Drags /\ left.entered = d.entered \ {d.session.dst}
        /\ left.session = [d.session EXCEPT !.focus = None, !.dst = None]
        /\ \A s \in Sources : left.offer[s] = IF s = d.session.source THEN NoOffer ELSE d.offer[s]
    BY <2>1, <2>2, SendLeaveEventOK
  <2> QED  BY <2>1, <2>3, DragFacts
<1>2. CASE DragBecomes(Drag)
  BY <1>0, <1>2, DragFacts, DragOK, DragKept DEF DragBecomes, dragVars
<1>3. CASE DragBecomes(left)
  <2> HIDE DEF left
  <2>1. /\ entered' = {} /\ offer' \in [Sources -> OfferType]
        /\ session' = [session EXCEPT !.focus = None, !.dst = None]
        /\ \A s \in Sources : offer'[s] = IF s = session.source THEN NoOffer ELSE offer[s]
    BY <1>1, <1>3 DEF DragBecomes, Drags
  <2>2. /\ session' \in SessionType /\ session'.active = TRUE
        /\ session'.source = session.source /\ session'.origin = session.origin
        /\ session'.focus = None /\ session'.dst = None
    BY <2>1, DragFacts DEF SessionType
  <2>3. \A s \in Sources : offer'[s].state = IF s = session.source THEN "none" ELSE offer[s].state
    BY <2>1 DEF NoOffer
  <2>4. DragTypeOK'
    BY <2>1, <2>2 DEF DragTypeOK, SessionType, OfferType
  <2>5. DragUsage' /\ SessionInv'
    BY <1>0, <2>2, <2>3, DragFacts DEF DragUsage, SessionInv
  <2>6. DragTarget'
    BY <1>0, <2>1, <2>2, <2>3, DragFacts DEF DragTarget, EnteredIsTarget, OpenOfferOfDrag, DragReferences
  <2>7. AnsweredAfterDrag'
    BY <1>0, <2>2, <2>3, DragFacts DEF AnsweredAfterDrag, DragAnswered, QuietWhileDragging
  <2> QED  BY <2>4, <2>5, <2>6, <2>7 DEF DragInv
<1>4. CASE /\ c \in devices
           /\ DragBecomes([session |-> [session EXCEPT !.focus = c, !.dst = c],
                           offer |-> [s \in Sources |-> IF s = session.source THEN open ELSE left.offer[s]],
                           entered |-> left.entered \cup {c}])
  <2>0. c \in Clients /\ c \in surfaces
    BY <1>4, DragFacts DEF ObjectsTypeOK
  <2>1. /\ open \in OfferType /\ open.state = "open" /\ open.client = c
    BY <2>0 DEF OfferType, NoOffer
  <2> HIDE DEF left, open
  <2>2. /\ entered' = {c} /\ session' = [session EXCEPT !.focus = c, !.dst = c]
        /\ offer' = [s \in Sources |-> IF s = session.source THEN open ELSE left.offer[s]]
    BY <1>1, <1>4 DEF DragBecomes
  <2>3. /\ session' \in SessionType /\ session'.active = TRUE
        /\ session'.source = session.source /\ session'.origin = session.origin
        /\ session'.focus = c /\ session'.dst = c
    BY <2>0, <2>2, DragFacts DEF SessionType
  <2>4. /\ offer' \in [Sources -> OfferType]
        /\ \A s \in Sources : offer'[s] = IF s = session.source THEN open ELSE offer[s]
    BY <1>1, <2>1, <2>2, DragFacts DEF Drags
  <2>5. DragTypeOK'
    BY <2>0, <2>2, <2>3, <2>4 DEF DragTypeOK, SessionType, OfferType
  <2>6. DragUsage' /\ SessionInv'
    BY <1>0, <2>1, <2>3, <2>4, DragFacts DEF DragUsage, SessionInv
  <2>7. EnteredIsTarget' /\ DragReferences'
    BY <1>0, <1>4, <2>0, <2>2, <2>3, DragFacts DEF EnteredIsTarget, DragReferences
  <2>8. OpenOfferOfDrag'
    BY <2>1, <2>3, <2>4, DragFacts DEF OpenOfferOfDrag
  <2>9. AnsweredAfterDrag'
    BY <1>0, <2>3, <2>4, DragFacts DEF AnsweredAfterDrag, DragAnswered, QuietWhileDragging
  <2> QED  BY <2>5, <2>6, <2>7, <2>8, <2>9 DEF DragInv, DragTarget
<1> QED  BY <1>2, <1>3, <1>4 DEF SetDragFocus

LEMMA StartDragOK ==
  ASSUME IInv, NEW c \in Clients, NEW s \in Sources \cup {None}, StartDrag(c, s)
  PROVE  ObjectsTypeOK' /\ DragTypeOK' /\ DragInv'
<1>1. /\ source' \in [Sources -> [alive : BOOLEAN, usage : Usages, mimes : SUBSET Mimes, actions : BOOLEAN]]
      /\ \A r \in Sources : source'[r].alive = source[r].alive
      /\ \A r \in Sources : source'[r].usage = IF r = s THEN "DND" ELSE source[r].usage
      /\ surfaces' = surfaces /\ devices' = devices
  <2>1. CASE s = None
    BY <2>1, DragFacts, DataAssumption DEF StartDrag, ObjectsTypeOK
  <2>2. CASE s # None
    BY <2>2, DragFacts DEF StartDrag, ObjectsTypeOK, Usages
  <2> QED  BY <2>1, <2>2
<1>2. /\ s # session.source \/ s = None
      /\ s # None => source[s].alive /\ offer[s].state = "none" /\ told[s] = {}
  BY DragFacts DEF StartDrag, DragUsage, ObjectsTypeOK
<1>3. ASSUME NEW ev \in SUBSET Events, "cancelled" \in ev, told' = Tell(s, ev), UNCHANGED dragVars
      PROVE  ObjectsTypeOK' /\ DragTypeOK' /\ DragInv'
  <2>1. /\ told' \in [Sources -> SUBSET Events]
        /\ \A r \in Sources : r # s => told'[r] = told[r]
        /\ s # None => "cancelled" \in told'[s]
    <3>1. ObjectsTypeOK
      BY DragFacts
    <3>2. /\ told' \in [Sources -> SUBSET Events]
          /\ \A r \in Sources : told'[r] =
               IF r = s /\ source[s].alive THEN told[r] \cup ev ELSE told[r]
      BY <1>3, <3>1, TellOK
    <3> QED  BY <1>2, <1>3, <3>2
  <2>2. session' = session /\ offer' = offer /\ entered' = entered
    BY <1>3 DEF dragVars
  <2>3. ObjectsTypeOK' /\ DragTypeOK'
    BY <1>1, <2>1, <2>2, DragFacts DEF ObjectsTypeOK, DragTypeOK, Events
  <2>4. DragUsage' /\ SessionInv'
    BY <1>1, <1>2, <2>1, <2>2, DragFacts DEF DragUsage, SessionInv
  <2>5. DragTarget'
    BY <1>1, <2>2, DragFacts DEF DragTarget, EnteredIsTarget, OpenOfferOfDrag, DragReferences
  <2>6. AnsweredAfterDrag'
    BY <1>1, <1>2, <2>1, <2>2, DragFacts DEF AnsweredAfterDrag, DragAnswered, QuietWhileDragging
  <2> QED  BY <2>3, <2>4, <2>5, <2>6 DEF DragInv
<1>4. CASE /\ ~session.active
           /\ session' = [NoSession EXCEPT !.active = TRUE, !.source = s, !.origin = c]
           /\ UNCHANGED <<told, offer, entered>>
  <2>1. /\ session' \in SessionType /\ session'.active = TRUE /\ session'.source = s
        /\ session'.origin = c /\ session'.focus = None /\ session'.dst = None
    BY <1>4 DEF NoSession, SessionType
  <2>2. told' = told /\ offer' = offer /\ entered' = {}
    BY <1>4, DragFacts DEF EnteredIsTarget
  <2>3. session.source = None /\ \A r \in Sources : offer[r].state \notin {"open", "finished"}
    BY <1>4, DragFacts DEF SessionInv, OpenOfferOfDrag
  <2>4. ObjectsTypeOK' /\ DragTypeOK'
    BY <1>1, <2>1, <2>2, DragFacts DEF ObjectsTypeOK, DragTypeOK, SessionType
  <2>5. DragUsage' /\ SessionInv'
    BY <1>1, <1>2, <2>1, <2>2, <2>3, DragFacts DEF DragUsage, SessionInv
  <2>6. c \in devices \cap surfaces
    BY DEF StartDrag
  <2>7. DragTarget'
    BY <1>1, <2>1, <2>2, <2>3, <2>6, DragFacts DEF DragTarget, EnteredIsTarget, OpenOfferOfDrag, DragReferences
  <2>8. AnsweredAfterDrag'
    BY <1>1, <1>2, <2>1, <2>2, <2>3, DragFacts, DataAssumption
       DEF AnsweredAfterDrag, DragAnswered, QuietWhileDragging
  <2> QED  BY <2>4, <2>5, <2>7, <2>8 DEF DragInv
<1>5. CASE told' = Tell(s, {"cancelled"}) /\ UNCHANGED dragVars
  <2> DEFINE ev == {"cancelled"}
  <2>1. ev \in SUBSET Events /\ "cancelled" \in ev /\ told' = Tell(s, ev)
    BY <1>5 DEF Events
  <2> HIDE DEF ev
  <2> QED  BY <1>3, <1>5, <2>1
<1>6. CASE told' = Tell(s, {"cancelled", "finished"}) /\ UNCHANGED dragVars
  <2> DEFINE ev == {"cancelled", "finished"}
  <2>1. ev \in SUBSET Events /\ "cancelled" \in ev /\ told' = Tell(s, ev)
    BY <1>6 DEF Events
  <2> HIDE DEF ev
  <2> QED  BY <1>3, <1>6, <2>1
<1> QED  BY <1>4, <1>5, <1>6 DEF StartDrag

-----------------------------------------------------------------------------
(* What is left of the offer of a source when nobody drags it any more. *)

LEMMA AnsweredOK ==
  ASSUME IInv, NEW s \in Sources, offer[s].state = "dropped",
         UNCHANGED <<surfaces, devices, source, session>>,
         \E event \in {"cancelled", "finished"} : told' = Tell(s, {event}),
         entered' \in SUBSET entered, offer' = [offer EXCEPT ![s] = NoOffer]
  PROVE  ObjectsTypeOK' /\ DragTypeOK' /\ DragInv'
<1>1. PICK event \in {"cancelled", "finished"} : told' = Tell(s, {event})
  OBVIOUS
<1>2. /\ told' \in [Sources -> SUBSET Events]
      /\ \A r \in Sources : r # s => told'[r] = told[r]
      /\ source[s].alive => event \in told'[s]
  <2> DEFINE ev == {event}
  <2>1. ev \in SUBSET Events /\ told' = Tell(s, ev) /\ ObjectsTypeOK
    BY <1>1, DragFacts DEF Events
  <2> HIDE DEF ev
  <2>2. /\ told' \in [Sources -> SUBSET Events]
        /\ \A r \in Sources : told'[r] =
             IF r = s /\ source[s].alive THEN told[r] \cup ev ELSE told[r]
    BY <2>1, TellOK
  <2> QED  BY <2>2 DEF ev
<1>3. /\ offer' \in [Sources -> OfferType]
      /\ \A r \in Sources : offer'[r].state = IF r = s THEN "none" ELSE offer[r].state
      /\ \A r \in Sources : r # s => offer'[r] = offer[r]
  BY DragFacts DEF OfferType, NoOffer
<1>4. session.source # s
  BY DragFacts DEF SessionInv
<1>5. ObjectsTypeOK' /\ DragTypeOK'
  BY <1>2, <1>3, DragFacts DEF ObjectsTypeOK, DragTypeOK, Events, OfferType
<1>6. DragUsage' /\ SessionInv'
  <2>1. source[s].alive => source[s].usage = "DND"
    BY DragFacts DEF DragUsage
  <2> QED  BY <1>2, <1>3, <1>4, <2>1, DragFacts DEF DragUsage, SessionInv
<1>7. DragTarget'
  BY <1>3, <1>4, DragFacts DEF DragTarget, EnteredIsTarget, OpenOfferOfDrag, DragReferences
<1>8. AnsweredAfterDrag'
  BY <1>1, <1>2, <1>3, <1>4, DragFacts DEF AnsweredAfterDrag, DragAnswered, QuietWhileDragging
<1> QED  BY <1>5, <1>6, <1>7, <1>8 DEF DragInv

LEMMA AcceptOK ==
  ASSUME IInv, NEW s \in Sources, NEW matched \in BOOLEAN, Accept(s, matched)
  PROVE  DragTypeOK' /\ DragInv'
<1>1. /\ offer' \in [Sources -> OfferType] /\ UNCHANGED <<surfaces, devices, source, told, session, entered>>
      /\ \A r \in Sources : /\ offer'[r].state = offer[r].state
                            /\ offer'[r].client = offer[r].client /\ offer'[r].device = offer[r].device
  BY DragFacts DEF Accept, OfferType, objects
<1>2. DragTypeOK'
  BY <1>1, DragFacts DEF DragTypeOK, OfferType
<1>3. DragUsage' /\ SessionInv'
  BY <1>1, DragFacts DEF DragUsage, SessionInv
<1>4. DragTarget'
  BY <1>1, DragFacts DEF DragTarget, EnteredIsTarget, OpenOfferOfDrag, DragReferences
<1>5. AnsweredAfterDrag'
  BY <1>1, DragFacts DEF AnsweredAfterDrag, DragAnswered, QuietWhileDragging
<1> QED  BY <1>2, <1>3, <1>4, <1>5 DEF DragInv

LEMMA DestroyOfferOK ==
  ASSUME IInv, NEW s \in Sources, DestroyOffer(s)
  PROVE  ObjectsTypeOK' /\ DragTypeOK' /\ DragInv'
<1>1. CASE offer[s].state \in {"open", "finished"}
  <2>1. /\ UNCHANGED <<surfaces, devices, source, told, session, entered>>
        /\ offer' = [offer EXCEPT ![s] = [NoOffer EXCEPT !.state = "declined"]]
    BY <1>1 DEF DestroyOffer
  <2>2. /\ offer' \in [Sources -> OfferType]
        /\ \A r \in Sources : offer'[r].state = IF r = s THEN "declined" ELSE offer[r].state
        /\ \A r \in Sources : r # s => offer'[r] = offer[r]
    BY <2>1, DragFacts DEF OfferType, NoOffer
  <2>3. ObjectsTypeOK' /\ DragTypeOK'
    BY <2>1, <2>2, DragFacts DEF ObjectsTypeOK, DragTypeOK, OfferType
  <2>4. DragUsage' /\ SessionInv'
    BY <1>1, <2>1, <2>2, DragFacts DEF DragUsage, SessionInv
  <2>5. DragTarget'
    BY <2>1, <2>2, DragFacts DEF DragTarget, EnteredIsTarget, OpenOfferOfDrag, DragReferences
  <2>6. AnsweredAfterDrag'
    BY <2>1, <2>2, DragFacts DEF AnsweredAfterDrag, DragAnswered, QuietWhileDragging
  <2> QED  BY <2>3, <2>4, <2>5, <2>6 DEF DragInv
<1>2. CASE offer[s].state = "dropped"
  BY <1>2, AnsweredOK DEF DestroyOffer
<1> QED  BY <1>1, <1>2 DEF DestroyOffer

LEMMA FinishOK ==
  ASSUME IInv, NEW s \in Sources, Finish(s)
  PROVE  ObjectsTypeOK' /\ DragTypeOK' /\ DragInv'
<1>1. CASE offer[s].state = "dropped"
  BY <1>1, AnsweredOK, DragFacts DEF Finish
<1>2. CASE offer[s].state \in {"open", "finished"}
  <2>1. /\ UNCHANGED <<surfaces, devices, source, session>>
        /\ told' = IF offer[s].state = "finished" THEN told ELSE Tell(s, {"finished"})
        /\ offer' = [offer EXCEPT ![s].state = "finished"]
        /\ entered' \in SUBSET entered
    BY <1>2, DragFacts DEF Finish
  <2>2. /\ session.source = s /\ source[s].alive /\ told[s] \subseteq {"finished"}
        /\ offer[s].state = "finished" => "finished" \in told[s]
    BY <1>2, DragFacts DEF OpenOfferOfDrag, AnsweredAfterDrag, QuietWhileDragging, SessionInv
  <2>3. /\ told' \in [Sources -> SUBSET Events] /\ told'[s] = {"finished"}
        /\ \A r \in Sources : r # s => told'[r] = told[r]
    <3> DEFINE ev == {"finished"}
    <3>1. CASE offer[s].state = "finished"
      BY <2>1, <2>2, <3>1, DragFacts DEF ObjectsTypeOK, Events
    <3>2. CASE offer[s].state = "open"
      <4>1. ev \in SUBSET Events /\ told' = Tell(s, ev) /\ ObjectsTypeOK
        BY <2>1, <3>2, DragFacts DEF Events
      <4> HIDE DEF ev
      <4>2. /\ told' \in [Sources -> SUBSET Events]
            /\ \A r \in Sources : told'[r] =
                 IF r = s /\ source[s].alive THEN told[r] \cup ev ELSE told[r]
        BY <4>1, TellOK
      <4> QED  BY <2>2, <4>2 DEF ev
    <3> QED  BY <1>2, <3>1, <3>2
  <2>4. /\ offer' \in [Sources -> OfferType]
        /\ \A r \in Sources :
             /\ offer'[r].state = IF r = s THEN "finished" ELSE offer[r].state
             /\ offer'[r].client = offer[r].client /\ offer'[r].device = offer[r].device
    BY <2>1, DragFacts DEF OfferType
  <2>5. ObjectsTypeOK' /\ DragTypeOK'
    BY <2>1, <2>3, <2>4, DragFacts DEF ObjectsTypeOK, DragTypeOK, Events, OfferType
  <2>6. DragUsage' /\ SessionInv'
    BY <2>1, <2>2, <2>3, <2>4, DragFacts DEF DragUsage, SessionInv
  <2>7. DragTarget'
    BY <1>2, <2>1, <2>2, <2>4, DragFacts DEF DragTarget, EnteredIsTarget, OpenOfferOfDrag, DragReferences
  <2>8. AnsweredAfterDrag'
    BY <2>1, <2>2, <2>3, <2>4, DragFacts DEF AnsweredAfterDrag, DragAnswered, QuietWhileDragging
  <2> QED  BY <2>5, <2>6, <2>7, <2>8 DEF DragInv
<1> QED  BY <1>1, <1>2 DEF Finish

LEMMA FinishStaleOK ==
  ASSUME IInv, NEW c \in Clients, FinishStale(c)
  PROVE  DragTypeOK' /\ DragInv'
<1>1. /\ UNCHANGED <<surfaces, devices, source, told, session, offer>>
      /\ entered' = entered \ {c}
  BY DEF FinishStale, objects
<1>2. DragTypeOK'
  BY <1>1, DragFacts DEF DragTypeOK
<1>3. DragUsage' /\ SessionInv'
  BY <1>1, DragFacts DEF DragUsage, SessionInv
<1>4. DragTarget'
  BY <1>1, DragFacts DEF DragTarget, EnteredIsTarget, OpenOfferOfDrag, DragReferences
<1>5. AnsweredAfterDrag'
  BY <1>1, DragFacts DEF AnsweredAfterDrag, DragAnswered, QuietWhileDragging
<1> QED  BY <1>2, <1>3, <1>4, <1>5 DEF DragInv

LEMMA SetActionsOK ==
  ASSUME IInv, NEW s \in Sources, SetActions(s)
  PROVE  /\ ObjectsTypeOK' /\ DragTypeOK' /\ DragInv'
         /\ \A r \in Sources : /\ source'[r].alive = source[r].alive
                               /\ source'[r].usage = source[r].usage
                               /\ source'[r].mimes = source[r].mimes
<1>1. /\ ObjectsTypeOK'
      /\ \A r \in Sources : /\ source'[r].alive = source[r].alive
                            /\ source'[r].usage = source[r].usage
                            /\ source'[r].mimes = source[r].mimes
  <2> DEFINE R == [alive : BOOLEAN, usage : Usages, mimes : SUBSET Mimes, actions : BOOLEAN]
             n == [source[s] EXCEPT !.actions = TRUE]
  <2>1. source \in [Sources -> R] /\ source[s] \in R
    BY DragFacts DEF ObjectsTypeOK
  <2>2. /\ n \in R /\ n.alive = source[s].alive
        /\ n.usage = source[s].usage /\ n.mimes = source[s].mimes
    BY <2>1
  <2>3. source' = [source EXCEPT ![s] = n] /\ UNCHANGED <<surfaces, devices, told>>
    BY DEF SetActions
  <2> HIDE DEF n
  <2>4. source' \in [Sources -> R]
    BY <2>1, <2>2, <2>3
  <2>5. \A r \in Sources : /\ source'[r].alive = source[r].alive
                            /\ source'[r].usage = source[r].usage
                            /\ source'[r].mimes = source[r].mimes
    BY <2>1, <2>2, <2>3
  <2> QED  BY <2>3, <2>4, <2>5, DragFacts DEF ObjectsTypeOK
<1> QED  BY <1>1, DragKept DEF SetActions

-----------------------------------------------------------------------------
(* The inductive invariant. *)

LEMMA InitIInv == Init => IInv
<1> SUFFICES ASSUME Init PROVE IInv
  OBVIOUS
<1>1. /\ session = NoSession /\ entered = {} /\ focus = None /\ devices = Clients
      /\ offer = [s \in Sources |-> NoOffer] /\ source = [s \in Sources |-> NoSource]
      /\ clipboard = [source |-> None, offer |-> None, offerDevice |-> FALSE, persistent |-> {}]
      /\ selection = [c \in Clients |-> {}] /\ surfaces = Clients /\ told = [s \in Sources |-> {}]
  BY DEF Init, ObjectsInit, ClipboardInit, DragInit
<1>2. /\ session.active = FALSE /\ session.source = None /\ session.origin = None
      /\ session.focus = None /\ session.dst = None
      /\ \A s \in Sources : offer[s].state = "none" /\ source[s].alive = FALSE
      /\ clipboard.source = None /\ clipboard.offer = None
  BY <1>1 DEF NoSession, NoOffer, NoSource
<1>3. ObjectsTypeOK
  BY <1>1 DEF ObjectsTypeOK, NoSource, Usages
<1>4. ClipboardTypeOK
  BY <1>1 DEF ClipboardTypeOK
<1>5. DragTypeOK
  BY <1>1 DEF DragTypeOK, NoSession, NoOffer
<1>6. SelectionInv /\ ClipboardUsage
  BY <1>1, <1>2 DEF SelectionInv, ClipboardUsage
<1>7. DragInv
  BY <1>1, <1>2 DEF DragInv, DragUsage, SessionInv, DragTarget, EnteredIsTarget, OpenOfferOfDrag,
                    DragReferences, AnsweredAfterDrag, DragAnswered, QuietWhileDragging
<1> QED  BY <1>1, <1>2, <1>3, <1>4, <1>5, <1>6, <1>7 DEF IInv, TypeOK

(* What an action that leaves the clipboard alone keeps of it. *)
LEMMA ClipboardSame ==
  ASSUME IInv, UNCHANGED <<clipboardVars, devices>>
  PROVE  ClipboardTypeOK' /\ SelectionInv'
BY DEF IInv, TypeOK, clipboardVars, ClipboardTypeOK, SelectionInv

LEMMA CreateSourceIInv ==
  ASSUME IInv, NEW s \in Sources, CreateSource(s)
  PROVE  IInv'
<1>1. /\ UNCHANGED <<surfaces, devices, clipboardVars, session, entered>>
      /\ source' = [source EXCEPT ![s] = [NoSource EXCEPT !.alive = TRUE]]
      /\ told' = [told EXCEPT ![s] = {}] /\ offer' = [offer EXCEPT ![s] = NoOffer]
      /\ ~source[s].alive
  BY DEF CreateSource
<1>2. ObjectsTypeOK'
  BY <1>1, DragFacts DEF ObjectsTypeOK, NoSource, Usages
<1>3. DragTypeOK'
  BY <1>1, DragFacts DEF DragTypeOK, OfferType, NoOffer
<1>4. \A r \in Sources :
        /\ r # s => source'[r] = source[r] /\ told'[r] = told[r] /\ offer'[r] = offer[r]
        /\ r = s => /\ told'[r] = {} /\ offer'[r].state = "none"
                    /\ source'[r].alive /\ source'[r].usage = "Undefined"
  BY <1>1, DragFacts DEF ObjectsTypeOK, NoSource, NoOffer
<1>5. session.source # s
  BY <1>1, DragFacts DEF AnsweredAfterDrag, QuietWhileDragging, SessionInv
<1>6. DragUsage' /\ SessionInv'
  BY <1>1, <1>4, <1>5, DragFacts DEF DragUsage, SessionInv
<1>7. DragTarget'
  BY <1>1, <1>4, <1>5, DragFacts DEF DragTarget, EnteredIsTarget, OpenOfferOfDrag, DragReferences
<1>8. AnsweredAfterDrag'
  BY <1>1, <1>4, <1>5, DragFacts DEF AnsweredAfterDrag, DragAnswered, QuietWhileDragging
<1>9. clipboard' = clipboard /\ focus' = focus /\ clipboard.source # s
  BY <1>1 DEF clipboardVars, IInv, TypeOK
<1>10. ClipboardUsage' /\ TypeOK'
  BY <1>1, <1>2, <1>3, <1>4, <1>9, ClipboardSame DEF IInv, TypeOK, ClipboardUsage, ClipboardTypeOK
<1> QED  BY <1>1, <1>6, <1>7, <1>8, <1>10, ClipboardSame DEF IInv, DragInv

LEMMA DestroySourceIInv ==
  ASSUME IInv, NEW s \in Sources, DestroySource(s)
  PROVE  IInv'
<1>1. /\ UNCHANGED <<surfaces, devices, told, focus>>
      /\ source' = [source EXCEPT ![s] = NoSource] /\ source[s].alive
      /\ SourceLeavesClipboard(s) /\ SourceLeavesDrag(s)
  BY DEF DestroySource
<1>2. ObjectsTypeOK' /\ \A r \in Sources : r # s => source'[r] = source[r]
  BY <1>1, DragFacts DEF ObjectsTypeOK, NoSource, Usages
<1>3. DragTypeOK' /\ DragInv'
  BY <1>1, SourceLeavesDragOK
<1>4. /\ ClipboardTypeOK' /\ SelectionInv'
      /\ clipboard'.source = IF clipboard.source = s THEN None ELSE clipboard.source
  BY <1>1, SourceLeavesClipboardOK
<1>5. ClipboardUsage' /\ TypeOK'
  BY <1>1, <1>2, <1>3, <1>4 DEF IInv, TypeOK, ClipboardUsage, ClipboardTypeOK
<1> QED  BY <1>3, <1>4, <1>5 DEF IInv

LEMMA SetSelectionIInv ==
  ASSUME IInv, NEW s \in Sources, SetSelection(s), UNCHANGED dragVars
  PROVE  IInv'
<1>0. /\ source[s].alive /\ source[s].usage = "Undefined" /\ source[s].mimes # {}
      /\ UNCHANGED <<surfaces, devices, focus>> /\ told' = Tell(clipboard.source, {"cancelled"})
      /\ source' = [source EXCEPT ![s].usage = "Clipboard"]
  BY DEF SetSelection
<1>1. /\ told' \in [Sources -> SUBSET Events]
      /\ \A r \in Sources : r # clipboard.source => told'[r] = told[r]
  <2> DEFINE ev == {"cancelled"}
  <2>1. /\ ev \in SUBSET Events /\ told' = Tell(clipboard.source, ev) /\ ObjectsTypeOK
        /\ clipboard.source \in Sources \cup {None}
    BY <1>0, DragFacts DEF Events, IInv, TypeOK, ClipboardTypeOK
  <2> HIDE DEF ev
  <2>2. /\ told' \in [Sources -> SUBSET Events]
        /\ \A r \in Sources : told'[r] =
             IF r = clipboard.source /\ source[r].alive THEN told[r] \cup ev ELSE told[r]
    BY <2>1, TellOK
  <2> QED  BY <2>2
<1>2. /\ ObjectsTypeOK'
      /\ \A r \in Sources : r # s => source'[r] = source[r]
      /\ source'[s].alive /\ source'[s].usage = "Clipboard" /\ source'[s].mimes = source[s].mimes
  BY <1>0, <1>1, DragFacts DEF ObjectsTypeOK, Usages, Events
<1>3. /\ session.source # s /\ offer[s].state = "none"
      /\ clipboard.source # None =>
           /\ clipboard.source \in Sources /\ source[clipboard.source].alive
           /\ source[clipboard.source].usage = "Clipboard"
           /\ session.source # clipboard.source /\ offer[clipboard.source].state = "none"
  BY <1>0, DragFacts DEF DragUsage, IInv, TypeOK, ClipboardUsage, ClipboardTypeOK
<1>4. \A r \in Sources :
        \/ /\ source'[r].alive = source[r].alive /\ source'[r].usage = source[r].usage
           /\ told'[r] = told[r]
        \/ /\ session.source # r
           /\ source'[r].usage = "Clipboard" /\ offer[r].state = "none"
  BY <1>1, <1>2, <1>3, DataAssumption
<1>5. DragTypeOK' /\ DragInv'
  BY <1>0, <1>4, DragKept
<1>6. ClipboardTypeOK' /\ SelectionInv' /\ clipboard'.source = s
  BY SetSelectionOK
<1>7. ClipboardUsage' /\ TypeOK'
  BY <1>0, <1>2, <1>5, <1>6 DEF IInv, TypeOK, ClipboardUsage
<1> QED  BY <1>5, <1>6, <1>7 DEF IInv

LEMMA OfferIInv ==
  ASSUME IInv, NEW s \in Sources, NEW m \in Mimes, Offer(s, m), UNCHANGED dragVars
  PROVE  IInv'
<1>1. /\ UNCHANGED <<surfaces, devices, told, focus, clipboard>>
      /\ source' = [source EXCEPT ![s].mimes = source[s].mimes \cup {m}]
  BY DEF Offer
<1>2. /\ ObjectsTypeOK'
      /\ \A r \in Sources : /\ source'[r].alive = source[r].alive
                            /\ source'[r].usage = source[r].usage
                            /\ source[r].mimes \subseteq source'[r].mimes
  BY <1>1, DragFacts DEF ObjectsTypeOK
<1>3. DragTypeOK' /\ DragInv'
  BY <1>1, <1>2, DragKept
<1>4. ClipboardTypeOK' /\ SelectionInv'
  BY OfferOK
<1>5. ClipboardUsage' /\ TypeOK'
  BY <1>1, <1>2, <1>3, <1>4 DEF IInv, TypeOK, ClipboardUsage, ClipboardTypeOK
<1> QED  BY <1>3, <1>4, <1>5 DEF IInv

LEMMA NextIInv == IInv /\ [Next]_vars => IInv'
<1> SUFFICES ASSUME IInv, [Next]_vars PROVE IInv'
  OBVIOUS
<1> USE DataAssumption
<1>0. /\ surfaces \subseteq Clients /\ devices \subseteq Clients
      /\ focus # None => focus \in surfaces
      /\ clipboard.source # None => clipboard.source \in Sources /\ source[clipboard.source].alive
  BY DEF IInv, TypeOK, ObjectsTypeOK, ClipboardTypeOK
<1>1. CASE ButtonReleased
  <2>1. Drop /\ RemoveFocus /\ session.active /\ UNCHANGED <<surfaces, devices, source>>
    BY <1>1 DEF ButtonReleased
  <2>2. DragTypeOK' /\ DragInv' /\ told' \in [Sources -> SUBSET Events]
    BY <2>1, DropOK
  <2>3. ClipboardTypeOK' /\ SelectionInv' /\ clipboard' = clipboard /\ focus' = None
    BY <2>1, RemoveFocusOK
  <2> QED  BY <2>1, <2>2, <2>3 DEF IInv, TypeOK, ObjectsTypeOK, Events, ClipboardUsage
<1>2. ASSUME NEW c \in surfaces \cup {None}, PointerMove(c)
      PROVE  IInv'
  <2>1. SetDragFocus(c) /\ RemoveFocus /\ session.active /\ UNCHANGED objects
    BY <1>2 DEF PointerMove
  <2>2. DragTypeOK' /\ DragInv'
    BY <2>1, SetDragFocusOK
  <2>3. ClipboardTypeOK' /\ SelectionInv' /\ clipboard' = clipboard /\ focus' = None
    BY <2>1, RemoveFocusOK DEF objects
  <2> QED  BY <2>1, <2>2, <2>3 DEF IInv, TypeOK, ObjectsTypeOK, objects, ClipboardUsage
<1>3. ASSUME NEW c \in surfaces \cup {None}, ButtonPressed(c)
      PROVE  IInv'
  <2>1. /\ UNCHANGED <<objects, dragVars>>
        /\ c = None => RemoveFocus
        /\ c # None => SetFocus(c)
    BY <1>3 DEF ButtonPressed
  <2>2. DragTypeOK' /\ DragInv'
    BY <2>1, DragKept DEF objects
  <2>3. /\ ClipboardTypeOK' /\ SelectionInv' /\ clipboard'.source = clipboard.source
        /\ focus' = c
    <3>1. devices' = devices
      BY <2>1 DEF objects
    <3>2. CASE c = None
      BY <2>1, <3>1, <3>2, RemoveFocusOK
    <3>3. CASE c # None
      <4>1. c \in Clients
        BY <1>0, <1>3, <3>3
      <4>2. SetFocus(c)
        BY <2>1, <3>3, Zenon
      <4> QED  BY <3>1, <4>1, <4>2, SetFocusOK
    <3> QED  BY <3>2, <3>3
  <2> QED  BY <2>1, <2>2, <2>3 DEF IInv, TypeOK, ObjectsTypeOK, objects, ClipboardUsage
<1>4. ASSUME NEW c \in Clients, ReleaseDataDevice(c)
      PROVE  IInv'
  <2>1. /\ DeviceLeavesClipboard(c) /\ DeviceLeavesDrag(c) /\ devices' = devices \ {c}
        /\ UNCHANGED <<surfaces, source>>
    BY <1>4 DEF ReleaseDataDevice
  <2>2. DragTypeOK' /\ DragInv' /\ told' \in [Sources -> SUBSET Events]
    BY <2>1, DeviceLeavesDragOK
  <2>3. /\ ClipboardTypeOK' /\ SelectionInv' /\ clipboard'.source = clipboard.source
        /\ focus' = focus
    BY <2>1, DeviceLeavesClipboardOK DEF DeviceLeavesClipboard
  <2> QED  BY <2>1, <2>2, <2>3 DEF IInv, TypeOK, ObjectsTypeOK, Events, ClipboardUsage
<1>5. ASSUME NEW c \in Clients, CreateSurface(c)
      PROVE  IInv'
  <2>1. /\ UNCHANGED <<devices, source, told, clipboardVars, dragVars>>
        /\ surfaces' = surfaces \cup {c}
    BY <1>5 DEF CreateSurface
  <2>2. DragTypeOK' /\ DragInv'
    BY <2>1, DragKept
  <2>3. ClipboardTypeOK' /\ SelectionInv' /\ UNCHANGED <<clipboard, focus>>
    BY <2>1, ClipboardSame DEF clipboardVars
  <2> QED  BY <2>1, <2>2, <2>3 DEF IInv, TypeOK, ObjectsTypeOK, ClipboardUsage
<1>6. ASSUME NEW c \in Clients, DestroySurface(c)
      PROVE  IInv'
  <2>1. /\ SurfaceLeavesKeyboard(c) /\ SurfaceLeavesDrag(c) /\ surfaces' = surfaces \ {c}
        /\ UNCHANGED <<devices, source>>
    BY <1>6 DEF DestroySurface
  <2>2. DragTypeOK' /\ DragInv' /\ told' \in [Sources -> SUBSET Events]
    BY <2>1, SurfaceLeavesDragOK
  <2>3. /\ ClipboardTypeOK' /\ SelectionInv' /\ clipboard' = clipboard
        /\ focus' = IF focus = c THEN None ELSE focus
    BY <2>1, SurfaceLeavesKeyboardOK DEF SurfaceLeavesKeyboard
  <2> QED  BY <2>1, <2>2, <2>3 DEF IInv, TypeOK, ObjectsTypeOK, Events, ClipboardUsage
<1>7. ASSUME NEW c \in Clients, DestroyClipboardOffer(c), UNCHANGED dragVars
      PROVE  IInv'
  <2>1. UNCHANGED <<objects, focus>>
    BY <1>7 DEF DestroyClipboardOffer
  <2>2. DragTypeOK' /\ DragInv'
    BY <1>7, <2>1, DragKept DEF objects
  <2>3. ClipboardTypeOK' /\ SelectionInv' /\ clipboard'.source = clipboard.source
    BY <1>7, DestroyClipboardOfferOK
  <2> QED  BY <2>1, <2>2, <2>3 DEF IInv, TypeOK, ObjectsTypeOK, objects, ClipboardUsage
<1>8. ASSUME NEW c \in Clients, NEW s \in Sources \cup {None}, StartDrag(c, s), UNCHANGED clipboardVars
      PROVE  IInv'
  <2>1. /\ \A r \in Sources : r # s => source'[r] = source[r]
        /\ \A r \in Sources : source'[r].alive = source[r].alive
        /\ s # None => source[s].usage = "Undefined"
        /\ UNCHANGED <<surfaces, devices>>
    BY <1>8, DragFacts DEF StartDrag, ObjectsTypeOK
  <2>2. ObjectsTypeOK' /\ DragTypeOK' /\ DragInv'
    BY <1>8, StartDragOK
  <2>3. ClipboardTypeOK' /\ SelectionInv' /\ UNCHANGED <<clipboard, focus>>
    BY <1>8, <2>1, ClipboardSame DEF clipboardVars
  <2>4. ClipboardUsage'
    BY <2>1, <2>3 DEF IInv, ClipboardUsage
  <2> QED  BY <1>0, <2>1, <2>2, <2>3, <2>4 DEF IInv, TypeOK
<1>9. ASSUME NEW s \in Sources,
             \/ SetActions(s) \/ Finish(s) \/ DestroyOffer(s)
             \/ \E matched \in BOOLEAN : Accept(s, matched),
             UNCHANGED clipboardVars
      PROVE  IInv'
  <2>1. /\ ObjectsTypeOK' /\ DragTypeOK' /\ DragInv'
        /\ UNCHANGED <<surfaces, devices>>
        /\ \A r \in Sources : /\ source'[r].alive = source[r].alive
                              /\ source'[r].usage = source[r].usage
                              /\ source'[r].mimes = source[r].mimes
    <3>1. CASE SetActions(s)
      BY <3>1, SetActionsOK DEF SetActions
    <3>2. CASE Finish(s)
      BY <3>2, FinishOK DEF Finish
    <3>3. CASE DestroyOffer(s)
      BY <3>3, DestroyOfferOK DEF DestroyOffer
    <3>4. CASE \E matched \in BOOLEAN : Accept(s, matched)
      BY <3>4, AcceptOK, DragFacts DEF Accept, objects, ObjectsTypeOK
    <3> QED  BY <1>9, <3>1, <3>2, <3>3, <3>4
  <2>2. ClipboardTypeOK' /\ SelectionInv' /\ UNCHANGED <<clipboard, focus>>
    BY <1>9, <2>1, ClipboardSame DEF clipboardVars
  <2>3. ClipboardUsage'
    BY <2>1, <2>2 DEF IInv, ClipboardUsage
  <2> QED  BY <1>0, <2>1, <2>2, <2>3 DEF IInv, TypeOK
<1>10. ASSUME NEW c \in Clients, FinishStale(c), UNCHANGED clipboardVars
       PROVE  IInv'
  <2>1. DragTypeOK' /\ DragInv'
    BY <1>10, FinishStaleOK
  <2>2. ClipboardTypeOK' /\ SelectionInv' /\ UNCHANGED <<objects, clipboard, focus>>
    BY <1>10, ClipboardSame DEF FinishStale, objects, clipboardVars
  <2> QED  BY <2>1, <2>2 DEF IInv, TypeOK, ObjectsTypeOK, ClipboardUsage, objects
<1>11. CASE UNCHANGED vars
  <2>1. DragTypeOK' /\ DragInv'
    BY <1>11, DragKept DEF vars, objects
  <2>2. ClipboardTypeOK' /\ SelectionInv' /\ UNCHANGED <<clipboard, focus>>
    BY <1>11, ClipboardSame DEF vars, objects, clipboardVars
  <2> QED  BY <1>11, <2>1, <2>2 DEF IInv, TypeOK, ObjectsTypeOK, ClipboardUsage, vars, objects
<1> QED
  BY <1>1, <1>2, <1>3, <1>4, <1>5, <1>6, <1>7, <1>8, <1>9, <1>10, <1>11,
     CreateSourceIInv, DestroySourceIInv, SetSelectionIInv, OfferIInv DEF Next

(* The invariant holds in every reachable state. *)
THEOREM Invariance == Spec => []IInv
<1>1. Init => IInv
  BY InitIInv
<1>2. IInv /\ [Next]_vars => IInv'
  BY NextIInv
<1> QED  BY <1>1, <1>2, PTL DEF Spec

(* Values have their types, and the focus, the source of the clipboard and what they
   stand for exist, whatever the clients destroy: the handlers of the seat follow
   these references untested. *)
THEOREM TypeCorrect == Spec => []TypeOK
<1>1. IInv => TypeOK
  BY DEF IInv
<1> QED  BY <1>1, Invariance, PTL

(* At most one client sees a selection, the client that ~RDataSource() and
   RDataSource::offer() go on to tell of its changes. *)
THEOREM OneSelectionCorrect == Spec => []OneSelection
<1>1. IInv => OneSelection
  BY DEF IInv, SelectionInv, OneSelection
<1> QED  BY <1>1, Invariance, PTL

(* What a destination was told of a drag and may ask of it is of the drag that goes
   on, and everything that the drag refers to exists: LDND and the offers follow
   references to the surfaces and devices of two clients without a test. *)
THEOREM DragTargetCorrect == Spec => []DragTarget
<1>1. IInv => DragTarget
  BY DEF IInv, DragInv
<1> QED  BY <1>1, Invariance, PTL

(* The source of a drag is told that it is over when it is, by whichever of the ways
   in LDND, LDNDSession and RDataOffer the drag ends, and before that of nothing but
   an early finish of a destination. *)
THEOREM AnsweredCorrect == Spec => []AnsweredAfterDrag
<1>1. IInv => AnsweredAfterDrag
  BY DEF IInv, DragInv
<1> QED  BY <1>1, Invariance, PTL

(* The persistent types of the clipboard outlive their source: they stay until
   another selection is set. *)
THEOREM ClipboardKeptCorrect == Spec => ClipboardKept
<1> DEFINE Kept == MimeTypes \cap Persistent \subseteq MimeTypes'
<1>1. ASSUME IInv, [Next]_vars, clipboard'.source \in {clipboard.source, None}
      PROVE  Kept
  <2> USE DataAssumption
  <2>0. /\ ClipboardTypeOK /\ ObjectsTypeOK /\ ClipboardUsage /\ surfaces \subseteq Clients
        /\ clipboard.source # None => clipboard.source \in Sources /\ source[clipboard.source].alive
    BY <1>1 DEF IInv, TypeOK, ObjectsTypeOK, ClipboardTypeOK
  <2>1. ASSUME clipboard'.source = clipboard.source, clipboard'.persistent = clipboard.persistent,
               \A s \in Sources : source[s].alive => source[s].mimes \subseteq source'[s].mimes
        PROVE  Kept
    BY <1>1, <2>0, <2>1 DEF MimeTypes
  <2>2. ASSUME clipboard'.source = clipboard.source, clipboard'.persistent = clipboard.persistent,
               source' = source
        PROVE  Kept
    BY <1>1, <2>1, <2>2
  <2>3. CASE ButtonReleased
    BY <1>1, <2>2, <2>3, RemoveFocusOK DEF ButtonReleased
  <2>4. ASSUME NEW c \in surfaces \cup {None}, PointerMove(c)
        PROVE  Kept
    BY <1>1, <2>2, <2>4, RemoveFocusOK DEF PointerMove, objects
  <2>5. ASSUME NEW c \in surfaces \cup {None}, ButtonPressed(c)
        PROVE  Kept
    <3>1. source' = source /\ devices' = devices
      BY <1>1, <2>5 DEF ButtonPressed, objects
    <3>2. CASE c = None
      BY <1>1, <2>2, <2>5, <3>1, <3>2, RemoveFocusOK DEF ButtonPressed
    <3>3. CASE c # None
      <4>1. c \in Clients /\ SetFocus(c)
        BY <1>1, <2>0, <2>5, <3>3 DEF ButtonPressed
      <4> QED  BY <1>1, <2>2, <3>1, <4>1, SetFocusOK
    <3> QED  BY <1>1, <3>2, <3>3
  <2>6. ASSUME NEW c \in Clients,
               \/ ReleaseDataDevice(c) \/ CreateSurface(c) \/ DestroySurface(c)
               \/ DestroyClipboardOffer(c) \/ (FinishStale(c) /\ UNCHANGED clipboardVars)
        PROVE  Kept
    <3>1. CASE ReleaseDataDevice(c)
      BY <1>1, <2>2, <3>1, DeviceLeavesClipboardOK DEF ReleaseDataDevice
    <3>2. CASE CreateSurface(c) \/ DestroySurface(c)
      BY <1>1, <2>2, <3>2 DEF CreateSurface, DestroySurface, SurfaceLeavesKeyboard, clipboardVars
    <3>3. CASE DestroyClipboardOffer(c)
      BY <1>1, <2>2, <3>3, DestroyClipboardOfferOK DEF DestroyClipboardOffer, objects
    <3>4. CASE FinishStale(c) /\ UNCHANGED clipboardVars
      BY <1>1, <2>2, <3>4 DEF FinishStale, objects, clipboardVars
    <3> QED  BY <1>1, <2>6, <3>1, <3>2, <3>3, <3>4
  <2>7. ASSUME NEW c \in Clients, NEW s \in Sources \cup {None}, StartDrag(c, s), UNCHANGED clipboardVars
        PROVE  Kept
    BY <1>1, <2>0, <2>1, <2>7 DEF StartDrag, clipboardVars, ObjectsTypeOK
  <2>8. ASSUME NEW s \in Sources, CreateSource(s)
        PROVE  Kept
    BY <1>1, <2>0, <2>1, <2>8 DEF CreateSource, clipboardVars, ObjectsTypeOK
  <2>9. ASSUME NEW s \in Sources, DestroySource(s)
        PROVE  Kept
    <3>1. /\ SourceLeavesClipboard(s) /\ UNCHANGED <<devices, focus>>
          /\ source' = [source EXCEPT ![s] = NoSource]
      BY <1>1, <2>9 DEF DestroySource
    <3>2. CASE clipboard.source = s
      <4>1. clipboard'.source = None /\ clipboard'.persistent = source[s].mimes \cap Persistent
        BY <1>1, <3>1, <3>2, SourceLeavesClipboardOK
      <4> QED  BY <1>1, <3>2, <4>1 DEF MimeTypes
    <3>3. CASE clipboard.source # s
      <4>1. clipboard' = clipboard
        BY <1>1, <3>1, <3>3, SourceLeavesClipboardOK
      <4>2. clipboard.source # None => source'[clipboard.source] = source[clipboard.source]
        BY <1>1, <2>0, <3>1, <3>3 DEF ObjectsTypeOK
      <4> QED  BY <1>1, <4>1, <4>2 DEF MimeTypes
    <3> QED  BY <1>1, <3>2, <3>3
  <2>10. ASSUME NEW s \in Sources, SetSelection(s)
         PROVE  Kept
    <3>1. clipboard'.source = s
      BY <1>1, <2>10, SetSelectionOK
    <3>2. clipboard.source # s
      BY <1>1, <2>0, <2>10 DEF SetSelection, ClipboardUsage
    <3> QED  BY <1>1, <3>1, <3>2
  <2>11. ASSUME NEW s \in Sources, NEW m \in Mimes, Offer(s, m)
         PROVE  Kept
    BY <1>1, <2>0, <2>1, <2>11 DEF Offer, ObjectsTypeOK
  <2>12. ASSUME NEW s \in Sources,
                \/ SetActions(s) \/ Finish(s) \/ DestroyOffer(s)
                \/ \E matched \in BOOLEAN : Accept(s, matched),
                UNCHANGED clipboardVars
         PROVE  Kept
    <3>1. \A r \in Sources : source'[r].mimes = source[r].mimes
      <4>1. CASE SetActions(s)
        BY <4>1, SetActionsOK, <1>1
      <4>2. CASE ~SetActions(s)
        BY <1>1, <2>12, <4>2 DEF Finish, DestroyOffer, Accept, objects
      <4> QED  BY <1>1, <4>1, <4>2
    <3> QED  BY <1>1, <2>1, <2>12, <3>1 DEF clipboardVars
  <2>13. CASE UNCHANGED vars
    BY <1>1, <2>2, <2>13 DEF vars, objects, clipboardVars
  <2> QED
    BY <1>1, <2>3, <2>4, <2>5, <2>6, <2>7, <2>8, <2>9, <2>10, <2>11, <2>12, <2>13 DEF Next
<1>2. IInv /\ [Next]_vars =>
        [clipboard'.source \in {clipboard.source, None}
         => MimeTypes \cap Persistent \subseteq MimeTypes']_<<source, clipboardVars>>
  BY <1>1
<1> QED  BY <1>2, Invariance, PTL DEF Spec, ClipboardKept

=============================================================================

------------------------------- MODULE LayerShell -------------------------------
(* Layer surfaces (LLayerRole, RLayerSurface) and their exclusive zones           *)
(* (LExclusiveZone, LOutputPrivate::updateExclusiveZones): the two slots of atoms *)
(* that a commit swaps, the list of zones of each output, the rects computed from *)
(* it, mapping, outputs that come and go, and the keyboard.                       *)
(*                                                                                *)
(* Abstractions: every layer surface has a client of its own, which an error      *)
(* destroys, and is created and destroyed with its surface; of the size that a    *)
(* client asks for only that it was asked for is kept; margins, which are added   *)
(* to the size of a zone, the layer and the positions are left out; an output is  *)
(* initialized in one step; close() is not called (nothing in the library does);  *)
(* sizes and their sums are integers: those that exceed 32 bits are left out.     *)
EXTENDS Keyboard, Integers, SequencesExt

CONSTANTS Layers, Outputs,
          Asked,        \* the outputs, or None, that a layer surface may ask for
          Values,       \* the values that its client sets together: functions of fields
          Sizes         \* the sizes an output may have

Edges == {"left", "top", "right", "bottom"}
Fields == {"anchor", "zone", "edge", "keyboard", "size"}

(* What the requests of a client accept *)
Legal(f) == CASE f = "anchor" -> SUBSET Edges
              [] f = "zone" -> Int
              [] f = "edge" -> Edges \cup {None}
              [] f = "keyboard" -> {"none", "exclusive", "demand"}
              [] f = "size" -> {None}

ASSUME LayerShellAssumption ==
  /\ None \notin Layers \cup Outputs
  /\ Sizes # {} /\ Sizes \subseteq (Nat \ {0}) \X (Nat \ {0})
  /\ \A l \in Layers : \A v \in Values[l] :
       /\ DOMAIN v \subseteq Fields
       /\ \A f \in DOMAIN v : v[f] \in Legal(f)

VARIABLES layer,    \* the layer surfaces
          zones,    \* LOutput::exclusiveZones(), by output
          output    \* the outputs

layerVars == <<keyboard, layer, zones, output>>

-----------------------------------------------------------------------------

Atoms == [anchor |-> {}, zone |-> 0, edge |-> None, keyboard |-> "none", size |-> None]

NoRect == [x |-> 0, y |-> 0, w |-> 0, h |-> 0]

(* initial: HasPendingInitialConf; byClient: MappedByClient; flags: the pending
   fields; edge, size, rect: of the LExclusiveZone; asked: m_initOutput;
   told: its rect is the one that the last configure event was about. *)
NoLayer == [exists |-> FALSE, initial |-> TRUE, byClient |-> FALSE, hasBuffer |-> FALSE,
            mapped |-> FALSE, flags |-> {"zone"}, cur |-> Atoms, pend |-> Atoms,
            edge |-> None, size |-> 0, rect |-> NoRect,
            output |-> None, asked |-> None, told |-> FALSE]

Preferred == CHOOSE s \in Sizes : TRUE

Whole(size) == [x |-> 0, y |-> 0, w |-> size[1], h |-> size[2]]

LayerShellInit ==
  /\ KeyboardInit
  /\ layer = [l \in Layers |-> NoLayer]
  /\ zones = [o \in Outputs |-> <<>>]
  /\ output = [o \in Outputs |-> [state |-> "gone", size |-> Preferred, available |-> NoRect]]

(* The state as a value: a handler is a function of it, made of the calls it makes. *)
World == [layer |-> layer, zones |-> zones, output |-> output, keyboard |-> keyboard]

Become(w) == /\ layer' = w.layer
             /\ zones' = w.zones
             /\ output' = w.output
             /\ keyboard' = w.keyboard

-----------------------------------------------------------------------------
(* The rects of the zones of a list on an output of some size *)

Exclusive(z) == z.size > 0 /\ z.edge # None

Available(size, taken) == [x |-> taken.left, y |-> taken.top,
                           w |-> size[1] - taken.left - taken.right,
                           h |-> size[2] - taken.top - taken.bottom]

(* What an exclusive zone takes of the space that is left. *)
Strip(z, size, taken) ==
  LET free == Available(size, taken) IN
  CASE z.edge = "left" -> [free EXCEPT !.w = z.size]
    [] z.edge = "top" -> [free EXCEPT !.h = z.size]
    [] z.edge = "right" -> [free EXCEPT !.x = size[1] - taken.right - z.size, !.w = z.size]
    [] z.edge = "bottom" -> [free EXCEPT !.y = size[2] - taken.bottom - z.size, !.h = z.size]

NothingTaken == [e \in Edges |-> 0]

Take(taken, z) == IF Exclusive(z) THEN [taken EXCEPT ![z.edge] = @ + z.size] ELSE taken

(* exclusiveEdges after the first zones of a list, by their number *)
Taken(ls, list) ==
  LET taken[n \in 0..Len(list)] == IF n = 0 THEN NothingTaken ELSE Take(taken[n - 1], ls[list[n]])
  IN taken

Free(ls, list, size) == Available(size, Taken(ls, list)[Len(list)])

RectOf(ls, list, i, size) ==
  LET z == ls[list[i]] IN
  IF z.size < 0 THEN Whole(size)
  ELSE IF Exclusive(z) THEN Strip(z, size, Taken(ls, list)[i - 1])
  ELSE Free(ls, list, size)

(* m_outputLink: the place of the zone of l in the list of its output *)
Link(list, l) == CHOOSE i \in 1..Len(list) : list[i] = l

Erased(list, l) == RemoveAt(list, Link(list, l))

-----------------------------------------------------------------------------
(* Calls *)

(* LLayerRole::configureSize() with the rect of the zone *)
ConfigureSize(r) == [r EXCEPT !.told = TRUE]

\* Mutant: the rect is set without the callback.
SetRectSilent(r, rect) ==
  IF rect = r.rect THEN r ELSE [r EXCEPT !.rect = rect, !.told = FALSE]

(* The zone of r gets another rect, which calls the layer surface back. *)
SetRect(r, rect) ==
  LET moved == [r EXCEPT !.rect = rect, !.told = FALSE] IN
  IF rect = r.rect THEN r
  ELSE IF r.mapped /\ r.hasBuffer THEN ConfigureSize(moved) ELSE moved

(* LOutputPrivate::updateExclusiveZones() *)
UpdateExclusiveZones(w, o) ==
  LET list == w.zones[o]
      size == w.output[o].size
      rect(l) == RectOf(w.layer, list, Link(list, l), size)
  IN [w EXCEPT !.layer = [l \in Layers |->
                            IF l \in ToSet(list) THEN SetRect(@[l], rect(l)) ELSE @[l]],
               !.output[o].available = Free(w.layer, list, size)]

(* LExclusiveZone::update() *)
UpdateZone(w, l) ==
  IF w.layer[l].output = None THEN [w EXCEPT !.layer[l].rect = NoRect, !.layer[l].told = FALSE]
  ELSE UpdateExclusiveZones(w, w.layer[l].output)

(* LExclusiveZone::setEdgeAndSize() and setSize() *)
SetEdgeAndSize(w, l, edge, size) ==
  IF <<edge, size>> = <<w.layer[l].edge, w.layer[l].size>> THEN w
  ELSE UpdateZone([w EXCEPT !.layer[l].edge = edge, !.layer[l].size = size], l)

\* Mutant: the zones of the old output keep their rects.
SetOutputOldKept(w, l, o) ==
  LET old == w.layer[l].output
      left == IF old = None THEN w ELSE [w EXCEPT !.zones[old] = Erased(@, l)]
      entered == [left EXCEPT !.layer[l].output = o]
  IN IF o = old THEN w
     ELSE UpdateZone(IF o = None THEN entered ELSE [entered EXCEPT !.zones[o] = Append(@, l)], l)

(* LExclusiveZone::setOutput() *)
SetOutput(w, l, o) ==
  LET old == w.layer[l].output
      left == IF old = None THEN w
              ELSE UpdateExclusiveZones([w EXCEPT !.zones[old] = Erased(@, l)], old)
      entered == [left EXCEPT !.layer[l].output = o]
  IN IF o = old THEN w
     ELSE UpdateZone(IF o = None THEN entered ELSE [entered EXCEPT !.zones[o] = Append(@, l)], l)

(* LLayerRole::updateMappingState() *)
UpdateMappingState(w, l) ==
  LET r == w.layer[l] IN
  [w EXCEPT !.layer[l].mapped =
     /\ r.output # None
     /\ w.output[r.output].state = "on"
     /\ r.byClient /\ r.hasBuffer]

(* LLayerRole::setExclusiveOutput() *)
SetExclusiveOutput(w, l, o) == UpdateMappingState(SetOutput(w, l, o), l)

On == {o \in Outputs : output[o].state = "on"}

(* LLayerRole::configureRequest(), the default; cursorOutput: cursor()->output() *)
ConfigureRequest(w, l, cursorOutput) ==
  LET placed == IF w.layer[l].output # None THEN w ELSE SetExclusiveOutput(w, l, cursorOutput)
  IN [placed EXCEPT !.layer[l] = ConfigureSize(@)]

(* LLayerRole::edgesToSingleEdge() *)
SingleEdge(atoms) ==
  LET anchor == atoms.anchor
      opposite(e) == CASE e = "left" -> "right" [] e = "right" -> "left"
                       [] e = "top" -> "bottom" [] e = "bottom" -> "top"
      single == {e \in Edges : anchor \in {{e}, Edges \ {opposite(e)}}}
  IN IF \E h \in {"left", "right"}, v \in {"top", "bottom"} : anchor = {h, v}
     THEN IF atoms.edge # None THEN atoms.edge ELSE CHOOSE v \in {"top", "bottom"} : v \in anchor
     ELSE IF single = {} THEN None ELSE CHOOSE e \in single : TRUE

IsCorner(anchor) == \E h \in {"left", "right"}, v \in {"top", "bottom"} : anchor = {h, v}

ZoneSize(atoms) ==
  IF atoms.zone > 0 /\ IsCorner(atoms.anchor) /\ atoms.edge = None THEN 0 ELSE atoms.zone

(* LLayerRole::atomsChanged(), the default: what it does to the keyboard *)
AtomsChanged(w, l) ==
  LET k == w.keyboard
      interactivity == w.layer[l].cur.keyboard
      unfocused == IF k.focus = l THEN SetFocus(k, None) ELSE k
  IN IF interactivity = "exclusive" THEN [w EXCEPT !.keyboard = SetGrab(k, l)]
     ELSE LET seen == IF interactivity = "none" THEN unfocused ELSE k
          IN [w EXCEPT !.keyboard = IF seen.grab = l THEN SetGrab(seen, None) ELSE seen]

(* ~RLayerSurface(), ~LLayerRole() and the surface *)
Destroyed(w, l) ==
  LET left == SetOutput([w EXCEPT !.layer[l].mapped = FALSE], l, None)
  IN [left EXCEPT !.layer[l] = NoLayer, !.keyboard = Forget(@, {l})]

-----------------------------------------------------------------------------
(* Requests *)

LayerExists(l) == layer[l].exists

(* GLayerShell::get_layer_surface() on an output or on none *)
GetLayerSurface(l, o) ==
  /\ ~LayerExists(l)
  /\ Become(SetExclusiveOutput([World EXCEPT !.layer[l].exists = TRUE, !.layer[l].asked = o], l, o))

(* The requests set_anchor, set_exclusive_zone, set_exclusive_edge and
   set_keyboard_interactivity that a client sends together: v gives the values. *)
Set(l, v) ==
  /\ LayerExists(l)
  /\ layer' = [layer EXCEPT ![l].pend = [f \in Fields |-> IF f \in DOMAIN v THEN v[f] ELSE @[f]],
                            ![l].flags = @ \cup DOMAIN v]
  /\ UNCHANGED <<zones, output, keyboard>>

DestroyLayer(l) == LayerExists(l) /\ Become(Destroyed(World, l))

(* A commit that takes the buffer away: back to the state of a new surface. *)
Unmapped(w, l) ==
  LET reset == [UpdateMappingState([w EXCEPT !.layer[l].byClient = FALSE], l)
                EXCEPT !.layer[l].cur = Atoms, !.layer[l].pend = Atoms,
                       !.layer[l].flags = {}, !.layer[l].initial = TRUE]
  IN SetExclusiveOutput(SetEdgeAndSize(reset, l, w.layer[l].edge, 0), l, w.layer[l].asked)

\* Mutant: the other slot keeps the values of the commit before.
SyncedNot(r, changes) == r

(* The pending atoms take the changes that the commit made current. *)
Synced(r, changes) ==
  [r EXCEPT !.pend = [f \in Fields |-> IF f \in changes THEN r.cur[f] ELSE r.pend[f]]]

(* The part of handleSurfaceCommit() that swaps the atoms *)
Applied(w, l) ==
  LET r == w.layer[l]
      changes == r.flags
      swapped == [w EXCEPT !.layer[l].flags = {}, !.layer[l].cur = r.pend, !.layer[l].pend = r.cur]
      zoned == IF changes \cap {"anchor", "edge", "zone"} = {} THEN swapped
               ELSE SetEdgeAndSize(swapped, l, SingleEdge(r.pend), ZoneSize(r.pend))
      notified == IF "keyboard" \in changes THEN AtomsChanged(zoned, l) ELSE zoned
  IN [notified EXCEPT !.layer[l] = Synced(@, changes)]

(* The errors of a commit: a buffer before the first configure event, an exclusive
   edge that is no edge of the corner. *)
Refused(r) ==
  \/ r.initial /\ r.hasBuffer
  \/ /\ r.flags \cap {"anchor", "edge", "zone"} # {}
     /\ r.pend.zone > 0 /\ IsCorner(r.pend.anchor)
     /\ r.pend.edge \notin r.pend.anchor \cup {None}

(* LLayerRole::handleSurfaceCommit() *)
CommitLayer(l, hasBuffer, cursorOutput) ==
  LET w == [World EXCEPT !.layer[l].hasBuffer = hasBuffer]
      r == w.layer[l]
      applied == Applied(w, l)
      mapping == IF r.byClient THEN applied
                 ELSE IF hasBuffer
                      THEN UpdateMappingState([applied EXCEPT !.layer[l].byClient = TRUE], l)
                      ELSE [applied EXCEPT !.layer[l].initial = FALSE]
      needsConfigure == "size" \in r.flags \/ (~r.byClient /\ ~hasBuffer)
  IN /\ LayerExists(l)
     /\ IF r.byClient /\ ~hasBuffer THEN Become(Unmapped(w, l))
        ELSE IF Refused(r) THEN Become(Destroyed(w, l))
        ELSE IF needsConfigure THEN Become(ConfigureRequest(mapping, l, cursorOutput))
        ELSE Become(mapping)

(* LExclusiveZone::insertAfter(): the zone of l right after that of after, or first *)
InsertAfter(l, after) ==
  LET o == layer[l].output
      others == Erased(zones[o], l)
      at == IF after = None THEN 0 ELSE Link(others, after)
  IN /\ LayerExists(l) /\ o # None
     /\ after # l /\ (after # None => layer[after].output = o)
     /\ Become(UpdateExclusiveZones([World EXCEPT !.zones[o] = InsertAt(others, at + 1, l)], o))

-----------------------------------------------------------------------------
(* Outputs *)

(* A new LOutput, not yet initialized, with its preferred size. *)
PlugOutput(o) ==
  /\ output[o].state = "gone"
  /\ output' = [output EXCEPT ![o] = [state |-> "off", size |-> Preferred, available |-> Whole(Preferred)]]
  /\ UNCHANGED <<layer, zones, keyboard>>

(* LOutputPrivate::updateLayerSurfacesMapping() *)
UpdateLayerSurfacesMapping(w, o) ==
  [w EXCEPT !.layer = [l \in Layers |-> IF w.layer[l].output = o
                                        THEN UpdateMappingState(w, l).layer[l] ELSE @[l]]]

(* backendInitializeGL() and backendUninitializeGL() *)
Initialize(o) ==
  /\ output[o].state = "off"
  /\ Become(UpdateLayerSurfacesMapping([World EXCEPT !.output[o].state = "on"], o))

\* Mutant: the layer surfaces stay mapped.
UninitializeMapped(o) ==
  /\ output[o].state = "on"
  /\ Become([World EXCEPT !.output[o].state = "off"])

Uninitialize(o) ==
  /\ output[o].state = "on"
  /\ Become(UpdateLayerSurfacesMapping([World EXCEPT !.output[o].state = "off"], o))

(* LOutputPrivate::updateRect(), after a change of mode, scale or transform *)
UpdateRect(o, size) ==
  /\ output[o].state = "on" /\ size # output[o].size
  /\ Become(UpdateExclusiveZones([World EXCEPT !.output[o].size = size], o))

(* The LOutput is deleted: the weak references to it are empty, and no call is made
   (the rect stays, which only a configure request without any output would read). *)
UnplugOutput(o) ==
  /\ output[o].state = "off"
  /\ output' = [output EXCEPT ![o] = [state |-> "gone", size |-> Preferred, available |-> NoRect]]
  /\ zones' = [zones EXCEPT ![o] = <<>>]
  /\ layer' = [l \in Layers |-> [layer[l] EXCEPT !.output = IF @ = o THEN None ELSE @,
                                                 !.asked = IF @ = o THEN None ELSE @,
                                                 !.rect = IF layer[l].output = o THEN NoRect ELSE @,
                                                 !.told = @ /\ layer[l].output # o]]
  /\ UNCHANGED keyboard

(* The pointer focuses the surface under it, or none. *)
ClickLayer(l) ==
  /\ l # None => layer[l].mapped
  /\ keyboard' = SetFocus(keyboard, l)
  /\ UNCHANGED <<layer, zones, output>>

CursorOutputs == IF On = {} THEN {None} ELSE On

LayerShellNext ==
  \/ \E l \in Layers :
       \/ \E o \in (On \cup {None}) \cap Asked[l] : GetLayerSurface(l, o)
       \/ \E v \in Values[l] : Set(l, v)
       \/ \E hasBuffer \in BOOLEAN, o \in CursorOutputs : CommitLayer(l, hasBuffer, o)
       \/ \E after \in Layers \cup {None} : InsertAfter(l, after)
       \/ DestroyLayer(l)
  \/ \E o \in Outputs :
       \/ \E size \in Sizes : UpdateRect(o, size)
       \/ PlugOutput(o) \/ Initialize(o) \/ Uninitialize(o) \/ UnplugOutput(o)
  \/ \E l \in Layers \cup {None} : ClickLayer(l)

LayerShellSpec == LayerShellInit /\ [][LayerShellNext]_layerVars

-----------------------------------------------------------------------------

(* Types; a zone is in the list of its output, once, and in no other, so that the
   iterator into the list is valid. *)
LayerTypeOK ==
  /\ KeyboardTypeOK({l \in Layers : LayerExists(l)})
  /\ \A l \in Layers :
       /\ layer[l].flags \subseteq Fields
       /\ layer[l].output \in Outputs \cup {None} /\ layer[l].asked \in Outputs \cup {None}
  /\ \A o \in Outputs :
       /\ output[o].state \in {"gone", "off", "on"}
       /\ ToSet(zones[o]) = {l \in Layers : layer[l].output = o}
       /\ IsInjective(zones[o])

(* The rects and the available geometry are those of the zones that the list now
   holds, in its order, whichever surface, output or call changed last. *)
ZonesFresh == \A o \in Outputs : output[o].state # "gone" =>
  /\ \A i \in DOMAIN zones[o] :
       layer[zones[o][i]].rect = RectOf(layer, zones[o], i, output[o].size)
  /\ output[o].available = Free(layer, zones[o], output[o].size)

Disjoint(a, b) == \/ a.x + a.w <= b.x \/ b.x + b.w <= a.x
                  \/ a.y + a.h <= b.y \/ b.y + b.h <= a.y

(* Exclusive zones that fit do not overlap, and leave the available geometry free. *)
ZonesDisjoint == \A o \in Outputs :
  LET exclusive == {l \in ToSet(zones[o]) : Exclusive(layer[l])}
      fit == output[o].available.w >= 0 /\ output[o].available.h >= 0
  IN output[o].state # "gone" /\ fit => \A l \in exclusive :
    /\ Disjoint(layer[l].rect, output[o].available)
    /\ \A k \in exclusive \ {l} : Disjoint(layer[l].rect, layer[k].rect)

(* Every zone is where its place in the list says, after any change of any zone of
   its output, and the zones leave each other and the windows room. *)
ZonesArranged == ZonesFresh /\ ZonesDisjoint

(* The slots of atoms agree on what is not pending: the next commit, which swaps
   them, brings no value back that a commit before replaced. *)
AtomsAgree == \A l \in Layers : \A f \in Fields \ layer[l].flags : layer[l].cur[f] = layer[l].pend[f]

(* A surface is mapped only on an output that is initialized, and after the client
   was configured. *)
MappedOnOutput == \A l \in Layers : layer[l].mapped =>
  /\ layer[l].output \in On
  /\ layer[l].byClient /\ ~layer[l].initial

(* Whenever the rect of a mapped surface changes its client is told in the same
   call. *)
RectIsSent == [][\A l \in Layers :
  layer[l].mapped /\ layer'[l].mapped /\ layer'[l].rect # layer[l].rect
    => layer'[l].told]_layerVars

(* The next two are what the documentation of LLayerRole says, and the code does not
   do (README.md, section 5).  configureRequest(): "This request is triggered each
   time the LLayerRole surface is mapped". *)
MappedIsConfigured == \A l \in Layers :
  layer[l].mapped => layer[l].told

(* NoInteractivity: "The surface should not receive keyboard focus". *)
GrabIsExclusive == keyboard.grab # None => layer[keyboard.grab].cur.keyboard = "exclusive"
=============================================================================

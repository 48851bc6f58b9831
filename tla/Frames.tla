--------------------------------- MODULE Frames ---------------------------------
(* The buffers of clients between commits, frames and direct scanout, and the     *)
(* presentation feedback of commits: RSurface::apply_commit(), bufferToTexture(), *)
(* the two scanout slots of an output (LOutputPrivate::scanout), the page flips   *)
(* and sendPresentationTime().                                                    *)
(*                                                                                *)
(* Abstractions: a frame is painted in one step, with the mutex (OutputRender     *)
(* shows when it is not); roles, damage and textures are left out: the texture of *)
(* a surface is that of its current buffer; a client attaches a buffer that is in *)
(* use only to the surface that uses it.                                          *)
EXTENDS Naturals, FiniteSets, Functions

CONSTANTS Surfaces, Outputs, Feedbacks,
          Buffers,
          Copied,    \* the buffers that are copied by the commit: shm, single pixel
          None

ASSUME FramesAssumption ==
  /\ Copied \subseteq Buffers
  /\ None \notin Surfaces \cup Outputs \cup Buffers

VARIABLES buffer,     \* what the client knows of each buffer
          stray,      \* the buffers that were released in the last step without being held
          surface, output, feedback

vars == <<buffer, stray, surface, output, feedback>>

-----------------------------------------------------------------------------

(* held: the client committed it and was not told of its release since. *)
BufferStates == {"none", "free", "held"}

(* attached: BufferAttached, with pending; copied: BufferReleased. *)
NoSurface == [exists |-> FALSE, attached |-> FALSE, pending |-> None, current |-> None,
              copied |-> FALSE]

NoSlot == [buffer |-> None, surface |-> None]

(* slots: scanout[0] and [1], of this frame and of the one before; flip: none yet,
   awaited, or "done", when HasUnhandledPresentationTime is set: nothing removes the
   flag, and flips after the first one change nothing. *)
NoOutput == [on |-> FALSE, slots |-> <<NoSlot, NoSlot>>, flip |-> "none"]

(* update: the commit it is about, compared with the last one of the surface:
   m_commitId is -1 (to come), commitId (last), less (past) or -2 (superseded).
   seen: the outputs that painted that commit; answer, by and zeroCopy: the event
   sent, after which the object is gone. *)
NoFeedback == [surface |-> None, update |-> "to come", output |-> None, outputSet |-> FALSE,
               seen |-> {}, answer |-> "none", by |-> None, zeroCopy |-> FALSE]

Answered(r, answer, o, scanout) ==
  [NoFeedback EXCEPT !.answer = answer, !.by = o, !.seen = r.seen \cap {o}, !.zeroCopy = scanout]

Init ==
  /\ buffer = [b \in Buffers |-> "none"]
  /\ stray = {}
  /\ surface = [s \in Surfaces |-> NoSurface]
  /\ output = [o \in Outputs |-> NoOutput]
  /\ feedback = [f \in Feedbacks |-> NoFeedback]

Held(slots) == {slots[i].buffer : i \in 1..2} \ {None}
Scanned(os) == UNION {Held(os[o].slots) : o \in Outputs}
ScannedFrom(o, s) == s \in {output[o].slots[i].surface : i \in 1..2}

(* The state as a value, for the handlers that make several calls. *)
World == [buffer |-> buffer, stray |-> {}, surface |-> surface,
          output |-> output, feedback |-> feedback]

Become(w) == /\ buffer' = w.buffer
             /\ stray' = w.stray
             /\ surface' = w.surface
             /\ output' = w.output
             /\ feedback' = w.feedback

(* wl_buffer.release *)
Release(w, b) ==
  IF w.buffer[b] = "held" THEN [w EXCEPT !.buffer[b] = "free"] ELSE [w EXCEPT !.stray = @ \cup {b}]

-----------------------------------------------------------------------------
(* Clients *)

CreateBuffer(b) ==
  /\ buffer[b] = "none"
  /\ Become([World EXCEPT !.buffer[b] = "free"])

(* Destroy listeners: of both states of a surface, and of the scanout slots. *)
DestroyBuffer(b) ==
  LET forget(x) == IF x = b THEN None ELSE x
      empty(slot) == IF slot.buffer = b THEN NoSlot ELSE slot
  IN /\ buffer[b] # "none"
     /\ Become([World EXCEPT !.buffer[b] = "none",
          !.surface = [s \in Surfaces |-> [surface[s] EXCEPT !.pending = forget(@), !.current = forget(@)]],
          !.output = [o \in Outputs |-> [output[o] EXCEPT !.slots = <<empty(@[1]), empty(@[2])>>]]])

CreateSurface(s) ==
  /\ ~surface[s].exists
  /\ Become([World EXCEPT !.surface[s].exists = TRUE])

(* ~RSurface() and ~LSurface(): the feedback forgets the surface without an answer,
   and no buffer is released. *)
DestroySurface(s) ==
  LET leave(slot) == IF slot.surface = s THEN [slot EXCEPT !.surface = None] ELSE slot
  IN /\ surface[s].exists
     /\ Become([World EXCEPT !.surface[s] = NoSurface,
          !.output = [o \in Outputs |-> [output[o] EXCEPT !.slots = <<leave(@[1]), leave(@[2])>>]],
          !.feedback = [f \in Feedbacks |-> IF feedback[f].surface = s THEN NoFeedback
                                            ELSE feedback[f]]])

(* RSurface::attach() of a buffer, or of none *)
Attach(s, b) ==
  /\ surface[s].exists
  /\ \/ b = None
     \/ /\ b \in Buffers /\ buffer[b] = "free"
        /\ \A t \in Surfaces \ {s} : surface[t].pending # b
     \/ b \in {surface[s].pending, surface[s].current}
     \/ \E o \in Outputs, i \in 1..2 : output[o].slots[i] = [buffer |-> b, surface |-> s]
  /\ Become([World EXCEPT !.surface[s].attached = TRUE, !.surface[s].pending = b])

(* GPresentation::feedback() *)
Feedback(f, s) ==
  /\ feedback[f].surface = None
  /\ surface[s].exists
  /\ Become([World EXCEPT !.feedback[f] = [NoFeedback EXCEPT !.surface = s]])

(* The part of apply_commit() that makes the attached buffer current: the one
   before is released, unless outputs that show it will. *)
Swap(w, s) ==
  LET r == w.surface[s]
      replaced == r.current # None /\ r.current \notin Copied \cup Scanned(w.output) \cup {r.pending}
      returned == IF replaced THEN Release(w, r.current) ELSE w
      swapped == [returned EXCEPT !.surface[s] =
                    [r EXCEPT !.attached = FALSE, !.current = r.pending, !.pending = None,
                              !.copied = r.copied /\ r.pending = None]]
  IN IF ~r.attached THEN w
     ELSE IF r.pending = None THEN swapped ELSE [swapped EXCEPT !.buffer[r.pending] = "held"]

\* Mutant: a commit without a new buffer releases it again.
BufferToTextureAgain(w, s) ==
  IF w.surface[s].current \in Copied THEN Release(w, w.surface[s].current) ELSE w

(* bufferToTexture(): a buffer that is copied is released, once. *)
BufferToTexture(w, s) ==
  LET r == w.surface[s] IN
  IF r.current \in Copied /\ ~r.copied
  THEN [Release(w, r.current) EXCEPT !.surface[s].copied = TRUE]
  ELSE w

(* The number of the commit: the feedback that waited for a commit is about this
   one. *)
Numbered(w, s) ==
  [w EXCEPT !.feedback = [f \in Feedbacks |->
     LET r == w.feedback[f] IN
     IF r.surface # s THEN r
     ELSE CASE r.update = "to come" -> [r EXCEPT !.update = "last"]
            [] r.update = "last" -> [r EXCEPT !.update = "past"]
            [] OTHER -> r]]

(* RSurface::apply_commit() that the role accepts: a commit of the client, or that of
   the parent of a synchronized subsurface. *)
Commit(s) ==
  /\ surface[s].exists
  /\ Become(BufferToTexture(Swap(Numbered(World, s), s), s))

(* RSurface::apply_commit() that LSubsurfaceRole::acceptCommitRequest() refuses: what
   is attached waits for the parent, and its client for a release. *)
CommitDeferred(s) ==
  /\ surface[s].attached /\ surface[s].pending # None
  /\ Become([World EXCEPT !.buffer[surface[s].pending] = "held"])

-----------------------------------------------------------------------------
(* Frames *)

\* Mutant: whatever was committed is shown by the next frame.
RequestNextFrameAny(w, shown, o) ==
  [w EXCEPT !.feedback = [f \in Feedbacks |->
     LET r == w.feedback[f]
         painted == IF r.update = "last" /\ o # None THEN [r EXCEPT !.seen = @ \cup {o}] ELSE r
     IN IF r.surface \notin shown THEN r
        ELSE IF r.update \notin {"last", "past"} \/ r.output # None THEN painted
        ELSE IF o # None THEN [painted EXCEPT !.outputSet = TRUE, !.output = o]
        ELSE [painted EXCEPT !.update = "superseded"]]]

(* LSurface::requestNextFrame() of some surfaces while output o is painted, or
   outside of a frame *)
RequestNextFrame(w, shown, o) ==
  [w EXCEPT !.feedback = [f \in Feedbacks |->
     LET r == w.feedback[f]
         painted == IF r.update = "last" /\ o # None THEN [r EXCEPT !.seen = @ \cup {o}] ELSE r
     IN IF r.surface \notin shown THEN r
        ELSE IF r.update \notin {"last", "past"} \/ r.output # None THEN painted
        ELSE IF r.update = "last" /\ o # None THEN [painted EXCEPT !.outputSet = TRUE, !.output = o]
        ELSE [painted EXCEPT !.update = "superseded"]]]

(* What sendPresentationFeedback() for output o answers: of a surface it scans out,
   whatever commit the feedback is about. *)
Answer(r, o) ==
  IF r.surface = None THEN "none"
  ELSE IF ScannedFrom(o, r.surface) THEN "presented"
  ELSE IF r.update = "superseded" \/ (r.outputSet /\ r.output = None) THEN "discarded"
  ELSE IF r.output = o THEN "presented" ELSE "none"

(* sendPresentationTime(): the outputs are asked in an order, until one answers.
   The flag of the page flip is set by the first one and never removed. *)
SendPresentationTime(w, order) ==
  [w EXCEPT !.feedback = [f \in Feedbacks |->
     LET r == w.feedback[f]
         first == {i \in DOMAIN order : /\ Answer(r, order[i]) # "none"
                                        /\ \A j \in 1..(i - 1) : Answer(r, order[j]) = "none"}
         o == order[CHOOSE i \in first : TRUE]
     IN IF first = {} THEN r ELSE Answered(r, Answer(r, o), o, ScannedFrom(o, r.surface))]]

Orders ==
  LET flipped == {o \in Outputs : output[o].on /\ output[o].flip = "done"}
  IN {q \in [1..Cardinality(flipped) -> flipped] : IsInjective(q)}

(* Main loop *)
Tick == \E order \in Orders : Become(SendPresentationTime(World, order))

\* Mutant: a buffer whose surface is gone is not released.
ReleaseScanoutBufferLost(w, o, i) ==
  LET slot == w.output[o].slots[i]
      b == slot.buffer
      kept == \/ \E p \in Outputs \ {o} : b \in Held(w.output[p].slots)
              \/ slot.surface = None
              \/ slot.surface # None /\ w.surface[slot.surface].current = b
              \/ i = 2 /\ w.output[o].slots[1].buffer = b
      returned == IF b = None \/ kept THEN w ELSE Release(w, b)
  IN [returned EXCEPT !.output[o].slots[i] = NoSlot]

(* releaseScanoutBuffer(): another output, the surface or this output may still
   release the buffer later. *)
ReleaseScanoutBuffer(w, o, i) ==
  LET slot == w.output[o].slots[i]
      b == slot.buffer
      kept == \/ \E p \in Outputs \ {o} : b \in Held(w.output[p].slots)
              \/ slot.surface # None /\ w.surface[slot.surface].current = b
              \/ i = 2 /\ w.output[o].slots[1].buffer = b
      returned == IF b = None \/ kept THEN w ELSE Release(w, b)
  IN [returned EXCEPT !.output[o].slots[i] = NoSlot]

(* LOutput::setCustomScanoutBuffer() with the texture of a surface *)
SetCustomScanoutBuffer(w, o, s) ==
  [RequestNextFrame(w, {s}, o) EXCEPT
     !.output[o].slots[1] = [buffer |-> w.surface[s].current, surface |-> s]]

(* backendPaintGL(): user code shows some surfaces, and scans one or none out. *)
Paint(o) == \E order \in Orders, shown \in SUBSET Surfaces, s \in Surfaces \cup {None} :
  LET told == SendPresentationTime(World, order)
      returned == ReleaseScanoutBuffer(told, o, 2)
      shifted == [returned EXCEPT !.output[o].slots = <<NoSlot, @[1]>>,
                                  !.output[o].flip = IF @ = "none" THEN "awaited" ELSE @]
      painted == RequestNextFrame(shifted, shown, o)
  IN /\ output[o].on
     /\ \A t \in shown : surface[t].exists
     /\ \/ s = None /\ Become(painted)
        \/ /\ s # None /\ surface[s].current \in Buffers \ Copied
           /\ Become(SetCustomScanoutBuffer(painted, o, s))

(* requestNextFrame() by sendPendingConfiguration() and the like, when no output is
   being painted *)
NextFrameOutside(s) ==
  /\ surface[s].exists
  /\ Become(RequestNextFrame(World, {s}, None))

(* backendPageFlipped() *)
PageFlip(o) ==
  /\ output[o].on /\ output[o].flip = "awaited"
  /\ Become([World EXCEPT !.output[o].flip = "done"])

Initialize(o) ==
  /\ ~output[o].on
  /\ Become([World EXCEPT !.output[o].on = TRUE])

(* backendUninitializeGL() *)
Uninitialize(o) ==
  LET returned == ReleaseScanoutBuffer(ReleaseScanoutBuffer(World, o, 1), o, 2)
  IN /\ output[o].on
     /\ Become([returned EXCEPT !.output[o].on = FALSE,
                                      !.output[o].flip = IF @ = "awaited" THEN "none" ELSE @])

(* The LOutput is deleted; another one is created later. *)
DeleteOutput(o) ==
  /\ ~output[o].on
  /\ Become([World EXCEPT !.output[o] = NoOutput,
       !.feedback = [f \in Feedbacks |-> IF feedback[f].output = o
                                         THEN [feedback[f] EXCEPT !.output = None] ELSE feedback[f]]])

Next ==
  \/ \E b \in Buffers : CreateBuffer(b) \/ DestroyBuffer(b)
  \/ \E s \in Surfaces :
       \/ CreateSurface(s) \/ DestroySurface(s) \/ Commit(s) \/ CommitDeferred(s) \/ NextFrameOutside(s)
       \/ \E b \in Buffers \cup {None} : Attach(s, b)
       \/ \E f \in Feedbacks : Feedback(f, s)
  \/ \E o \in Outputs : Paint(o) \/ PageFlip(o) \/ Initialize(o) \/ Uninitialize(o) \/ DeleteOutput(o)
  \/ Tick

Spec == Init /\ [][Next]_vars

-----------------------------------------------------------------------------

(* Types; what is referred to exists: the destroy listeners and the weak references
   are in place wherever a buffer or a surface is kept. *)
TypeOK ==
  LET living == {b \in Buffers : buffer[b] # "none"} \cup {None}
      surfaces == {s \in Surfaces : surface[s].exists} \cup {None}
  IN /\ buffer \in [Buffers -> BufferStates]
     /\ \A s \in Surfaces : surface[s].pending \in living /\ surface[s].current \in living
     /\ \A o \in Outputs : /\ \A i \in 1..2 : output[o].slots[i] \in [buffer : living, surface : surfaces]
                           /\ ~output[o].on => Held(output[o].slots) = {}
     /\ \A f \in Feedbacks : feedback[f].surface \in surfaces

(* A buffer that an output scans out was not given back to the client. *)
ScannedIsHeld == \A b \in Scanned(output) : buffer[b] = "held"

(* The buffers that an output scans out, a surface shows or will show. *)
Used == Scanned(output) \cup ({surface[s].current : s \in Surfaces} \ Copied)
          \cup {surface[s].pending : s \in Surfaces}

(* In a step: the surface of the buffer is destroyed; another buffer is attached
   before this one is applied. *)
Destroyed(b) == \E s \in Surfaces :
  surface[s].exists /\ ~surface'[s].exists /\ b \in {surface[s].current, surface[s].pending}
Overtaken(b) == \E s \in Surfaces :
  surface[s].pending = b /\ surface'[s].attached /\ surface'[s].pending # b

(* In a step: a buffer that is not used any more is given back, but for two ends. *)
GivenBack == \A b \in Buffers :
  buffer[b] = "held" /\ b \in Used =>
    buffer'[b] # "held" \/ b \in Used' \/ Destroyed(b) \/ Overtaken(b)

(* A buffer is kept from its client while any output scans it out, and given back when
   it stops being used, whoever is the last of its surface and the outputs to use it.
   Two ends give no buffer back: that of its surface (HeldIsUsed), and that of a
   deferred commit which another attach overtakes (OvertakenIsReleased). *)
BuffersKept == [][ScannedIsHeld' /\ GivenBack]_vars

(* Not what the code does: the client only waits for buffers that are in use; a buffer
   of a surface that lives is given back (wl_buffer.release). *)
HeldIsUsed == \A b \in Buffers : buffer[b] = "held" => b \in Used
OvertakenIsReleased == [][\A b \in Buffers :
  buffer[b] = "held" /\ b \in Used => buffer'[b] # "held" \/ b \in Used' \/ Destroyed(b)]_vars

(* A buffer is released once for each use, except by an output that is uninitialized
   while the same buffer is in both of its slots. *)
ReleasedOnce == [][\A b \in stray' :
  \E o \in Outputs : ~output'[o].on /\ \A i \in 1..2 : output[o].slots[i].buffer = b]_vars

(* Feedback says that a commit was presented by an output only if that output
   painted it, not one before or after; or, with the flag of zero copy, if the output
   scans the surface out: then whatever commit it is about, one to come or one that
   was never shown too (PresentedIsOfCommit). *)
PresentedWasPainted == \A f \in Feedbacks :
  feedback[f].answer = "presented" => feedback[f].by \in feedback[f].seen \/ feedback[f].zeroCopy

(* Not what the code does: a presented commit was painted by the output (presented of
   wp_presentation_feedback). *)
PresentedIsOfCommit == \A f \in Feedbacks :
  feedback[f].answer = "presented" => feedback[f].by \in feedback[f].seen
=============================================================================

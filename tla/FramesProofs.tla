------------------------------ MODULE FramesProofs ------------------------------
(* The safety properties of Frames, for any surfaces, buffers, outputs and         *)
(* feedback objects.                                                               *)
EXTENDS Frames, TLAPS

-----------------------------------------------------------------------------
(* The invariant *)

BufferRefs == Buffers \cup {None}
SurfaceRefs == Surfaces \cup {None}
OutputRefs == Outputs \cup {None}

SlotType == [buffer : BufferRefs, surface : SurfaceRefs]

SurfaceType == [exists : BOOLEAN, attached : BOOLEAN, pending : BufferRefs,
                current : BufferRefs, copied : BOOLEAN]

OutputType == [on : BOOLEAN, slots : [1..2 -> SlotType], flip : {"none", "awaited", "done"}]

FeedbackType == [surface : SurfaceRefs,
                 update : {"to come", "last", "past", "superseded"},
                 output : OutputRefs, outputSet : BOOLEAN, seen : SUBSET Outputs,
                 answer : {"none", "presented", "discarded"}, by : OutputRefs,
                 zeroCopy : BOOLEAN]

WorldType == [buffer : [Buffers -> BufferStates], stray : SUBSET Buffers,
              surface : [Surfaces -> SurfaceType], output : [Outputs -> OutputType],
              feedback : [Feedbacks -> FeedbackType]]

(* The surface has the buffer, or will have it. *)
Owns(r, b) == b \in {r.pending, r.current}

(* What belongs to a surface or to an output that does not exist. *)
IdleOK(w) ==
  /\ \A s \in Surfaces :
       /\ ~w.surface[s].exists => w.surface[s].pending = None /\ w.surface[s].current = None
       /\ w.surface[s].current \in Copied => w.surface[s].copied
  /\ \A o \in Outputs, i \in 1..2 : ~w.output[o].on => w.output[o].slots[i] = NoSlot

(* The surface that a slot is about exists. *)
SlotSurfaceOK(w) == \A o \in Outputs, i \in 1..2 :
  w.output[o].slots[i].surface # None => w.surface[w.output[o].slots[i].surface].exists

(* Buffers that are copied are never scanned out. *)
CopiedOK(w, b) == \A o \in Outputs, i \in 1..2 : w.output[o].slots[i].buffer # b

(* The others have one owner at most, and all slots that have the buffer agree on
   it; they are held as long as they are shown. *)
OwnerOK(w, b) ==
  /\ \A s, t \in Surfaces : Owns(w.surface[s], b) /\ Owns(w.surface[t], b) => s = t
  /\ \A s \in Surfaces, o \in Outputs, i \in 1..2 :
       Owns(w.surface[s], b) /\ w.output[o].slots[i].buffer = b => w.output[o].slots[i].surface = s
  /\ \A o, p \in Outputs, i, j \in 1..2 :
       w.output[o].slots[i].buffer = b /\ w.output[p].slots[j].buffer = b
       => w.output[o].slots[i].surface = w.output[p].slots[j].surface

Shown(w, b) == \/ \E s \in Surfaces : w.surface[s].current = b
               \/ \E o \in Outputs, i \in 1..2 : w.output[o].slots[i].buffer = b

HeldOK(w, b) == OwnerOK(w, b) /\ (Shown(w, b) => w.buffer[b] = "held")

BufferOK(w, b) ==
  /\ \A s \in Surfaces : Owns(w.surface[s], b) => w.buffer[b] # "none"
  /\ IF b \in Copied THEN CopiedOK(w, b) ELSE HeldOK(w, b)

BuffersOK(w) == IdleOK(w) /\ SlotSurfaceOK(w) /\ \A b \in Buffers : BufferOK(w, b)

(* The output that will answer for a commit painted it, as did the one that
   answered that it presented it. *)
FeedbackOK(w, f) ==
  LET r == w.feedback[f] IN
  /\ r.surface # None => w.surface[r.surface].exists
  /\ r.output # None => r.output \in r.seen
  /\ r.answer = "presented" => r.by \in r.seen \/ r.zeroCopy

WorldOK(w) == w \in WorldType /\ BuffersOK(w) /\ \A f \in Feedbacks : FeedbackOK(w, f)

State == [buffer |-> buffer, stray |-> stray, surface |-> surface,
          output |-> output, feedback |-> feedback]

IInv == WorldOK(State)

-----------------------------------------------------------------------------
(* Lemmas about worlds *)

LEMMA NoneIsNone == None \notin Buffers /\ None \notin Surfaces /\ None \notin Outputs
                    /\ Copied \subseteq Buffers
BY FramesAssumption

LEMMA TypeFacts ==
  ASSUME NEW w \in WorldType
  PROVE  /\ w.buffer \in [Buffers -> BufferStates]
         /\ w.stray \in SUBSET Buffers
         /\ w.surface \in [Surfaces -> SurfaceType]
         /\ w.output \in [Outputs -> OutputType]
         /\ w.feedback \in [Feedbacks -> FeedbackType]
         /\ \A s \in Surfaces : w.surface[s] \in SurfaceType
         /\ \A o \in Outputs : /\ w.output[o] \in OutputType
                               /\ w.output[o].slots \in [1..2 -> SlotType]
                               /\ w.output[o].slots[1] \in SlotType
                               /\ w.output[o].slots[2] \in SlotType
         /\ \A f \in Feedbacks : w.feedback[f] \in FeedbackType
BY DEF WorldType, OutputType

LEMMA Constants ==
  NoSurface \in SurfaceType /\ NoSlot \in SlotType /\ NoOutput \in OutputType
  /\ NoFeedback \in FeedbackType
BY DEF NoSurface, NoSlot, NoOutput, NoFeedback, SurfaceType, SlotType, OutputType, FeedbackType,
       BufferRefs, SurfaceRefs, OutputRefs

LEMMA WorldIsOK ==
  ASSUME IInv
  PROVE  WorldOK(World) /\ World.stray = {}
<1>1. State \in WorldType
  BY DEF IInv, WorldOK
<1>2. World \in WorldType
  BY <1>1 DEF State, World, WorldType
<1>3. /\ World.buffer = State.buffer /\ World.surface = State.surface
      /\ World.output = State.output /\ World.feedback = State.feedback /\ World.stray = {}
  BY DEF State, World
<1>4. BuffersOK(World) /\ \A f \in Feedbacks : FeedbackOK(World, f)
  BY <1>3, SMTT(20) DEF IInv, WorldOK, BuffersOK, IdleOK, SlotSurfaceOK, BufferOK, CopiedOK, HeldOK, OwnerOK, Shown, FeedbackOK
<1> QED  BY <1>2, <1>3, <1>4 DEF WorldOK

LEMMA BecomeOK ==
  ASSUME NEW w, WorldOK(w), Become(w)
  PROVE  IInv'
<1>1. w = [buffer |-> w.buffer, stray |-> w.stray, surface |-> w.surface,
           output |-> w.output, feedback |-> w.feedback]
  BY DEF WorldOK, WorldType
<1>2. State' = w
  BY <1>1 DEF State, World, Become
<1> QED  BY <1>2 DEF IInv

(* A surface or an output uses the buffer: Used, of a world. *)
UsedIn(w, b) ==
  \/ \E s \in Surfaces : w.surface[s].pending = b \/ (w.surface[s].current = b /\ b \notin Copied)
  \/ \E o \in Outputs, i \in 1..2 : w.output[o].slots[i].buffer = b

LEMMA UsedIsUsedIn ==
  ASSUME NEW b \in Buffers
  PROVE  b \in Used <=> UsedIn(World, b)
<1>1. b # None
  BY NoneIsNone
<1> QED  BY <1>1 DEF Used, UsedIn, Scanned, Held, World

LEMMA UsedInNext ==
  ASSUME NEW u, Become(u), NEW b \in Buffers
  PROVE  b \in Used' <=> UsedIn(u, b)
<1>1. b # None /\ surface' = u.surface /\ output' = u.output
  BY NoneIsNone DEF Become
<1> QED  BY <1>1 DEF Used, UsedIn, Scanned, Held

LEMMA KeepsOK ==
  ASSUME NEW u, Become(u),
         \A b \in Buffers : World.buffer[b] = "held" /\ UsedIn(World, b) =>
           u.buffer[b] # "held" \/ UsedIn(u, b) \/ Destroyed(b) \/ Overtaken(b)
  PROVE  GivenBack
<1> SUFFICES ASSUME NEW b \in Buffers, buffer[b] = "held", b \in Used
             PROVE  buffer'[b] # "held" \/ b \in Used' \/ Destroyed(b) \/ Overtaken(b)
  BY DEF GivenBack
<1>1. World.buffer[b] = "held" /\ UsedIn(World, b)
  BY UsedIsUsedIn DEF World
<1>2. buffer' = u.buffer
  BY DEF Become
<1> QED  BY <1>1, <1>2, UsedInNext

(* Steps that leave the buffers where they are. *)
LEMMA KeepsSame ==
  ASSUME NEW u, Become(u), u.surface = World.surface,
         \A o \in Outputs, i \in 1..2 :
           u.output[o].slots[i].buffer = World.output[o].slots[i].buffer
  PROVE  GivenBack
<1>1. \A b \in Buffers : UsedIn(World, b) => UsedIn(u, b)
  BY DEF UsedIn
<1> QED  BY <1>1, KeepsOK

(* What does not change the buffers. *)
LEMMA OnlyFeedback ==
  ASSUME NEW w, WorldOK(w), NEW fs \in [Feedbacks -> FeedbackType],
         \A f \in Feedbacks : FeedbackOK([w EXCEPT !.feedback = fs], f)
  PROVE  WorldOK([w EXCEPT !.feedback = fs])
<1> DEFINE v == [w EXCEPT !.feedback = fs]
<1>1. v \in WorldType
  BY DEF WorldOK, WorldType
<1>2. v.buffer = w.buffer /\ v.surface = w.surface /\ v.output = w.output
  BY DEF WorldOK, WorldType
<1> HIDE DEF v
<1>3. BuffersOK(v)
  BY <1>2, SMTT(20) DEF WorldOK, BuffersOK, IdleOK, SlotSurfaceOK, BufferOK, CopiedOK, HeldOK, OwnerOK, Shown
<1> QED  BY <1>1, <1>3 DEF WorldOK, v

-----------------------------------------------------------------------------
(* The parts of the handlers *)

LEMMA InitIInv == Init => IInv
<1> SUFFICES ASSUME Init PROVE IInv
  OBVIOUS
<1>1. /\ State.buffer = [b \in Buffers |-> "none"] /\ State.stray = {}
      /\ State.surface = [s \in Surfaces |-> NoSurface]
      /\ State.output = [o \in Outputs |-> NoOutput]
      /\ State.feedback = [f \in Feedbacks |-> NoFeedback]
  BY DEF Init, State, World
<1>2. State \in WorldType
  BY Constants DEF Init, State, World, WorldType, BufferStates
<1>3. BuffersOK(State)
  <2>1. \A o \in Outputs, i \in 1..2 : State.output[o].slots[i] = NoSlot
    BY <1>1 DEF NoOutput
  <2>2. IdleOK(State)
    BY <1>1, NoneIsNone DEF IdleOK, NoOutput, NoSurface
  <2>3. SlotSurfaceOK(State)
    BY <2>1 DEF SlotSurfaceOK, NoSlot
  <2>4. ASSUME NEW b \in Buffers PROVE BufferOK(State, b)
    BY <1>1, <2>1, NoneIsNone DEF BufferOK, CopiedOK, HeldOK, OwnerOK, Shown, Owns, NoSurface, NoSlot
  <2> QED  BY <2>2, <2>3, <2>4 DEF BuffersOK
<1>4. \A f \in Feedbacks : FeedbackOK(State, f)
  <2>1. \A f \in Feedbacks : State.feedback[f] = NoFeedback
    BY <1>1
  <2>2. NoFeedback.surface = None /\ NoFeedback.output = None /\ NoFeedback.answer = "none"
    BY DEF NoFeedback
  <2> QED  BY <2>1, <2>2 DEF FeedbackOK
<1> QED  BY <1>2, <1>3, <1>4 DEF IInv, WorldOK

LEMMA SendPresentationTimeOK ==
  ASSUME NEW w, WorldOK(w), NEW n, NEW order \in [1..n -> Outputs]
  PROVE  /\ WorldOK(SendPresentationTime(w, order))
         /\ SendPresentationTime(w, order).stray = w.stray
         /\ SendPresentationTime(w, order).surface = w.surface
         /\ SendPresentationTime(w, order).output = w.output
         /\ SendPresentationTime(w, order).buffer = w.buffer
<1> DEFINE first(f) == {i \in DOMAIN order :
                         /\ Answer(w.feedback[f], order[i]) # "none"
                         /\ \A j \in 1..(i - 1) : Answer(w.feedback[f], order[j]) = "none"}
           o(f) == order[CHOOSE i \in first(f) : TRUE]
           fs == [f \in Feedbacks |-> IF first(f) = {} THEN w.feedback[f]
                    ELSE Answered(w.feedback[f], Answer(w.feedback[f], o(f)), o(f),
                                  ScannedFrom(o(f), w.feedback[f].surface))]
           v == [w EXCEPT !.feedback = fs]
<1>1. SendPresentationTime(w, order) = v
  BY DEF SendPresentationTime
<1>2. ASSUME NEW f \in Feedbacks
      PROVE  fs[f] \in FeedbackType /\ FeedbackOK(v, f)
  <2> DEFINE r == w.feedback[f]
  <2>1. r \in FeedbackType /\ FeedbackOK(w, f)
    BY TypeFacts DEF WorldOK
  <2>2. v.feedback[f] = fs[f] /\ v.surface = w.surface
    BY DEF WorldOK, WorldType
  <2>3. CASE first(f) = {}
    BY <2>1, <2>2, <2>3 DEF FeedbackOK
  <2>4. CASE first(f) # {}
    <3>1. (CHOOSE i \in first(f) : TRUE) \in first(f)
      BY <2>4
    <3>2. o(f) \in Outputs /\ Answer(r, o(f)) # "none"
      BY <3>1
    <3>3. fs[f] = Answered(r, Answer(r, o(f)), o(f), ScannedFrom(o(f), r.surface))
      BY <2>4
    <3> HIDE DEF fs, v, o, first
    <3>4. /\ Answer(r, o(f)) \in {"presented", "discarded"}
          /\ Answer(r, o(f)) = "presented" => r.output = o(f) \/ ScannedFrom(o(f), r.surface)
      BY <3>2 DEF Answer
    <3>5. ScannedFrom(o(f), r.surface) \in BOOLEAN
      BY DEF ScannedFrom
    <3> DEFINE a == Answered(r, Answer(r, o(f)), o(f), ScannedFrom(o(f), r.surface))
    <3>6. /\ a.surface = None /\ a.output = None /\ a.answer = Answer(r, o(f)) /\ a.by = o(f)
          /\ a.seen = r.seen \cap {o(f)} /\ a.zeroCopy = ScannedFrom(o(f), r.surface)
          /\ a \in FeedbackType
      BY <2>1, <3>2, <3>4, <3>5 DEF Answered, NoFeedback, FeedbackType, SurfaceRefs, OutputRefs
    <3> QED  BY <2>1, <2>2, <3>2, <3>3, <3>4, <3>6, NoneIsNone DEF FeedbackOK
  <2> QED  BY <2>3, <2>4
<1>3. fs \in [Feedbacks -> FeedbackType] /\ \A f \in Feedbacks : FeedbackOK(v, f)
  BY <1>2
<1>4. /\ v.stray = w.stray /\ v.surface = w.surface /\ v.output = w.output
      /\ v.buffer = w.buffer
  BY DEF WorldOK, WorldType
<1> HIDE DEF fs
<1>5. WorldOK(v)
  BY <1>3, OnlyFeedback
<1> HIDE DEF v
<1> QED  BY <1>1, <1>4, <1>5

LEMMA RequestNextFrameOK ==
  ASSUME NEW w, WorldOK(w), NEW shown \in SUBSET Surfaces, NEW o \in OutputRefs
  PROVE  /\ WorldOK(RequestNextFrame(w, shown, o))
         /\ RequestNextFrame(w, shown, o).stray = w.stray
         /\ RequestNextFrame(w, shown, o).surface = w.surface
         /\ RequestNextFrame(w, shown, o).output = w.output
         /\ RequestNextFrame(w, shown, o).buffer = w.buffer
<1> DEFINE fs == RequestNextFrame(w, shown, o).feedback
           v == [w EXCEPT !.feedback = fs]
<1>1. RequestNextFrame(w, shown, o) = v
  BY DEF RequestNextFrame, WorldOK, WorldType
<1>2. ASSUME NEW f \in Feedbacks
      PROVE  fs[f] \in FeedbackType /\ FeedbackOK(v, f)
  <2> DEFINE r == w.feedback[f]
             painted == IF r.update = "last" /\ o # None THEN [r EXCEPT !.seen = r.seen \cup {o}] ELSE r
             told == IF r.surface \notin shown THEN r
                     ELSE IF r.update \notin {"last", "past"} \/ r.output # None THEN painted
                     ELSE IF r.update = "last" /\ o # None
                          THEN [painted EXCEPT !.outputSet = TRUE, !.output = o]
                     ELSE [painted EXCEPT !.update = "superseded"]
  <2>1. r \in FeedbackType /\ FeedbackOK(w, f)
    BY TypeFacts DEF WorldOK
  <2>2. fs[f] = told
    BY DEF RequestNextFrame, WorldOK, WorldType
  <2>3. v.feedback[f] = fs[f] /\ v.surface = w.surface
    BY DEF WorldOK, WorldType
  <2> HIDE DEF fs, v
  <2>4. /\ painted \in FeedbackType /\ painted.surface = r.surface /\ painted.output = r.output
        /\ painted.answer = r.answer /\ painted.by = r.by /\ painted.zeroCopy = r.zeroCopy
        /\ r.seen \subseteq painted.seen
        /\ r.update = "last" /\ o # None => o \in painted.seen
    BY <2>1 DEF FeedbackType, OutputRefs
  <2> HIDE DEF painted
  <2>5. /\ told \in FeedbackType /\ told.surface = r.surface /\ told.answer = r.answer
        /\ told.by = r.by /\ told.zeroCopy = r.zeroCopy /\ r.seen \subseteq told.seen
        /\ told.output # None => told.output \in told.seen
    <3>1. r.output # None => r.output \in r.seen
      BY <2>1 DEF FeedbackOK
    <3>2. CASE r.surface \notin shown
      BY <2>1, <3>1, <3>2
    <3>3. CASE r.surface \in shown /\ (r.update \notin {"last", "past"} \/ r.output # None)
      BY <2>1, <2>4, <3>1, <3>3
    <3>4. CASE /\ r.surface \in shown /\ r.update \in {"last", "past"} /\ r.output = None
               /\ r.update = "last" /\ o # None
      <4>1. told = [painted EXCEPT !.outputSet = TRUE, !.output = o]
        BY <3>4
      <4> QED  BY <2>4, <3>4, <4>1 DEF FeedbackType
    <3>5. CASE /\ r.surface \in shown /\ r.update \in {"last", "past"} /\ r.output = None
               /\ ~(r.update = "last" /\ o # None)
      <4>1. told = [painted EXCEPT !.update = "superseded"]
        BY <3>5
      <4> QED  BY <2>1, <2>4, <3>5, <4>1 DEF FeedbackType
    <3> QED  BY <3>2, <3>3, <3>4, <3>5
  <2> HIDE DEF told
  <2> QED  BY <2>1, <2>2, <2>3, <2>5 DEF FeedbackOK
<1>3. fs \in [Feedbacks -> FeedbackType]
  <2>1. fs = [f \in Feedbacks |-> fs[f]]
    BY DEF RequestNextFrame, WorldOK, WorldType
  <2> QED  BY <1>2, <2>1
<1>4. /\ v.stray = w.stray /\ v.surface = w.surface /\ v.output = w.output
      /\ v.buffer = w.buffer
  BY DEF WorldOK, WorldType
<1> HIDE DEF fs
<1>5. WorldOK(v)
  BY <1>2, <1>3, OnlyFeedback
<1> HIDE DEF v
<1> QED  BY <1>1, <1>4, <1>5

(* What an output has in its slots *)
LEMMA ScannedOK ==
  ASSUME NEW w \in WorldType
  PROVE  /\ \A b : b \in Scanned(w.output) <=>
              b # None /\ \E o \in Outputs, i \in 1..2 : w.output[o].slots[i].buffer = b
         /\ \A b, o : b \in Held(w.output[o].slots) <=>
              b # None /\ \E i \in 1..2 : w.output[o].slots[i].buffer = b
BY DEF Scanned, Held

(* What is said about a surface remains true as long as it exists. *)
LEMMA FeedbackKept ==
  ASSUME NEW w, WorldOK(w), NEW u, u.feedback = w.feedback,
         \A s \in Surfaces : w.surface[s].exists => u.surface[s].exists
  PROVE  \A f \in Feedbacks : FeedbackOK(u, f)
<1> TAKE f \in Feedbacks
<1>1. FeedbackOK(w, f)
  BY DEF WorldOK
<1>2. w.feedback[f].surface # None => w.feedback[f].surface \in Surfaces
  <2>1. w.feedback[f] \in FeedbackType
    BY TypeFacts DEF WorldOK
  <2> QED  BY <2>1 DEF FeedbackType, SurfaceRefs
<1> QED  BY <1>1, <1>2 DEF FeedbackOK

LEMMA SlotSurfaceKept ==
  ASSUME NEW w, WorldOK(w), NEW u,
         \A o \in Outputs, i \in 1..2 :
           u.output[o].slots[i].surface # None => u.output[o].slots[i] = w.output[o].slots[i],
         \A s \in Surfaces : w.surface[s].exists => u.surface[s].exists
  PROVE  SlotSurfaceOK(u)
<1> SUFFICES ASSUME NEW o \in Outputs, NEW i \in 1..2, u.output[o].slots[i].surface # None
             PROVE  u.surface[u.output[o].slots[i].surface].exists
  BY DEF SlotSurfaceOK
<1>1. u.output[o].slots[i] = w.output[o].slots[i]
  OBVIOUS
<1>2. w.output[o].slots[i].surface \in SurfaceRefs
  <2>1. w.output[o].slots \in [1..2 -> SlotType]
    BY TypeFacts DEF WorldOK
  <2> QED  BY <2>1 DEF SlotType
<1>3. w.surface[w.output[o].slots[i].surface].exists
  BY <1>1 DEF WorldOK, BuffersOK, SlotSurfaceOK
<1> QED  BY <1>1, <1>2, <1>3 DEF SurfaceRefs

(* A buffer that gets no owner and no slot keeps its owner. *)
LEMMA OwnerKept ==
  ASSUME NEW w, NEW u, NEW b, OwnerOK(w, b),
         \A s \in Surfaces : Owns(u.surface[s], b) => Owns(w.surface[s], b),
         \A p \in Outputs, i \in 1..2 :
           u.output[p].slots[i].buffer = b => u.output[p].slots[i] = w.output[p].slots[i]
  PROVE  OwnerOK(u, b)
<1>1. ASSUME NEW s \in Surfaces, NEW p \in Outputs, NEW i \in 1..2,
             Owns(u.surface[s], b), u.output[p].slots[i].buffer = b
      PROVE  u.output[p].slots[i].surface = s
  BY <1>1 DEF OwnerOK
<1>2. ASSUME NEW p \in Outputs, NEW q \in Outputs, NEW i \in 1..2, NEW j \in 1..2,
             u.output[p].slots[i].buffer = b, u.output[q].slots[j].buffer = b
      PROVE  u.output[p].slots[i].surface = u.output[q].slots[j].surface
  <2>1. u.output[p].slots[i] = w.output[p].slots[i] /\ u.output[q].slots[j] = w.output[q].slots[j]
    BY <1>2
  <2>2. w.output[p].slots[i].buffer = b /\ w.output[q].slots[j].buffer = b
    BY <1>2, <2>1
  <2>3. w.output[p].slots[i].surface = w.output[q].slots[j].surface
    BY <2>2 DEF OwnerOK
  <2> QED  BY <2>1, <2>3
<1>3. \A s, t \in Surfaces : Owns(u.surface[s], b) /\ Owns(u.surface[t], b) => s = t
  BY DEF OwnerOK
<1> QED  BY <1>1, <1>2, <1>3 DEF OwnerOK

(* Some slots of one output are emptied: their buffers are released, unless another
   slot or a surface has them. *)
LEMMA SlotsEmptied ==
  ASSUME NEW w, WorldOK(w), NEW u \in WorldType, NEW o \in Outputs,
         u.surface = w.surface, u.feedback = w.feedback,
         \A p \in Outputs, i \in 1..2 : ~u.output[p].on => u.output[p].slots[i] = NoSlot,
         \A p \in Outputs, i \in 1..2 :
           \/ u.output[p].slots[i] = w.output[p].slots[i]
           \/ p = o /\ u.output[p].slots[i] = NoSlot,
         \A b \in Buffers : u.buffer[b] =
           IF /\ \E i \in 1..2 : w.output[o].slots[i].buffer = b
              /\ \A p \in Outputs, i \in 1..2 : u.output[p].slots[i].buffer # b
              /\ \A s \in Surfaces : w.surface[s].current # b
           THEN "free" ELSE w.buffer[b]
  PROVE  WorldOK(u)
<1> USE NoneIsNone
<1>1. /\ \A p \in Outputs, i \in 1..2 : u.output[p].slots[i].buffer \in Buffers =>
            u.output[p].slots[i] = w.output[p].slots[i]
      /\ \A p \in Outputs, i \in 1..2 : u.output[p].slots[i].surface # None =>
            u.output[p].slots[i] = w.output[p].slots[i]
  BY DEF NoSlot
<1>2. IdleOK(u) /\ SlotSurfaceOK(u)
  <2>1. SlotSurfaceOK(u)
    BY <1>1, SlotSurfaceKept
  <2> QED  BY <2>1 DEF WorldOK, BuffersOK, IdleOK
<1>3. ASSUME NEW b \in Buffers PROVE BufferOK(u, b)
  <2>1. BufferOK(w, b)
    BY DEF WorldOK, BuffersOK
  <2>2. CASE b \in Copied
    BY <1>1, <2>1, <2>2 DEF BufferOK, CopiedOK
  <2>3. CASE b \notin Copied /\ u.buffer[b] = w.buffer[b]
    <3>1. HeldOK(w, b)
      BY <2>1, <2>3 DEF BufferOK
    <3>2. OwnerOK(u, b)
      <4>1. \A p \in Outputs, i \in 1..2 :
              u.output[p].slots[i].buffer = b => u.output[p].slots[i] = w.output[p].slots[i]
        BY <1>1
      <4> QED  BY <3>1, <4>1, OwnerKept DEF HeldOK
    <3>3. Shown(u, b) => Shown(w, b)
      BY <1>1 DEF Shown
    <3>4. HeldOK(u, b)
      BY <2>3, <3>1, <3>2, <3>3 DEF HeldOK
    <3> QED  BY <2>1, <2>3, <3>4 DEF BufferOK
  <2>4. CASE b \notin Copied /\ u.buffer[b] # w.buffer[b]
    <3>1. /\ u.buffer[b] = "free" /\ \A s \in Surfaces : u.surface[s].current # b
          /\ \A p \in Outputs, i \in 1..2 : u.output[p].slots[i].buffer # b
      BY <2>4
    <3>2. HeldOK(u, b)
      BY <2>1, <2>4, <3>1 DEF BufferOK, HeldOK, OwnerOK, Shown
    <3> QED  BY <2>1, <2>4, <3>1, <3>2 DEF BufferOK
  <2> QED  BY <2>2, <2>3, <2>4
<1>4. \A f \in Feedbacks : FeedbackOK(u, f)
  BY DEF WorldOK, FeedbackOK
<1> QED  BY <1>2, <1>3, <1>4 DEF WorldOK, BuffersOK

(* Slots are emptied as in SlotsEmptied: what is still held is still used. *)
LEMMA UsedAfterSlots ==
  ASSUME NEW w, WorldOK(w), NEW u, NEW o \in Outputs, u.surface = w.surface, NEW x \in Buffers,
         \A p \in Outputs, i \in 1..2 :
           \/ u.output[p].slots[i] = w.output[p].slots[i]
           \/ p = o /\ u.output[p].slots[i] = NoSlot,
         \A i \in 1..2 : w.output[o].slots[i].buffer = x =>
           \/ \E p \in Outputs, j \in 1..2 : u.output[p].slots[j].buffer = x
           \/ \E s \in Surfaces : w.surface[s].current = x,
         UsedIn(w, x)
  PROVE  UsedIn(u, x)
<1>1. CASE \E s \in Surfaces : w.surface[s].pending = x \/ (w.surface[s].current = x /\ x \notin Copied)
  BY <1>1 DEF UsedIn
<1>2. CASE \E p \in Outputs, i \in 1..2 : w.output[p].slots[i].buffer = x
  <2>1. PICK p \in Outputs, i \in 1..2 : w.output[p].slots[i].buffer = x
    BY <1>2
  <2>2. x \notin Copied
    <3>1. BufferOK(w, x)
      BY DEF WorldOK, BuffersOK
    <3> QED  BY <2>1, <3>1 DEF BufferOK, CopiedOK
  <2>3. CASE u.output[p].slots[i] = w.output[p].slots[i]
    BY <2>1, <2>3 DEF UsedIn
  <2>4. CASE p = o
    <3>1. \/ \E q \in Outputs, j \in 1..2 : u.output[q].slots[j].buffer = x
          \/ \E s \in Surfaces : w.surface[s].current = x
      BY <2>1, <2>4
    <3> QED  BY <2>2, <3>1 DEF UsedIn
  <2> QED  BY <2>3, <2>4
<1> QED  BY <1>1, <1>2 DEF UsedIn

(* Release() of a buffer that is held *)
LEMMA ReleaseOK ==
  ASSUME NEW w \in WorldType, NEW b \in Buffers, w.buffer[b] = "held"
  PROVE  /\ Release(w, b) \in WorldType
         /\ Release(w, b).buffer = [w.buffer EXCEPT ![b] = "free"]
         /\ Release(w, b).stray = w.stray /\ Release(w, b).surface = w.surface
         /\ Release(w, b).output = w.output /\ Release(w, b).feedback = w.feedback
BY DEF Release, WorldType, BufferStates

(* The buffer of a slot is given back when nothing else has it. *)
LEMMA ReleaseScanoutBufferOK ==
  ASSUME NEW w, WorldOK(w), NEW o \in Outputs
  PROVE  LET u == ReleaseScanoutBuffer(w, o, 2) IN
         /\ WorldOK(u)
         /\ u.stray = w.stray /\ u.surface = w.surface /\ u.feedback = w.feedback
         /\ u.output = [w.output EXCEPT ![o].slots[2] = NoSlot]
         /\ \A x \in Buffers : w.buffer[x] = "held" /\ UsedIn(w, x) => u.buffer[x] # "held" \/ UsedIn(u, x)
<1> USE NoneIsNone
<1> DEFINE b == w.output[o].slots[2].buffer
           t == w.output[o].slots[2].surface
           kept == \/ \E p \in Outputs \ {o} : b \in Held(w.output[p].slots)
                   \/ t # None /\ w.surface[t].current = b
                   \/ w.output[o].slots[1].buffer = b
           returned == IF b = None \/ kept THEN w ELSE Release(w, b)
           u == [returned EXCEPT !.output[o].slots[2] = NoSlot]
<1>1. ReleaseScanoutBuffer(w, o, 2) = u
  BY DEF ReleaseScanoutBuffer
<1>2. /\ w \in WorldType /\ w.output \in [Outputs -> OutputType]
      /\ w.output[o].slots \in [1..2 -> SlotType] /\ w.output[o] \in OutputType
      /\ b \in BufferRefs /\ t \in SurfaceRefs
  <2>1. w \in WorldType
    BY DEF WorldOK
  <2> QED  BY <2>1, TypeFacts DEF SlotType
<1>3. b # None => b \in Buffers /\ HeldOK(w, b) /\ w.buffer[b] = "held" /\ b \notin Copied
  BY <1>2 DEF WorldOK, BuffersOK, BufferOK, CopiedOK, HeldOK, Shown, BufferRefs
<1> HIDE DEF b, t
<1>4. b # None => (kept <=> \/ \E p \in Outputs, i \in 1..2 :
                                  <<p, i>> # <<o, 2>> /\ w.output[p].slots[i].buffer = b
                            \/ \E s \in Surfaces : w.surface[s].current = b)
  <2> SUFFICES ASSUME b # None
               PROVE  kept <=> \/ \E p \in Outputs, i \in 1..2 :
                                    <<p, i>> # <<o, 2>> /\ w.output[p].slots[i].buffer = b
                               \/ \E s \in Surfaces : w.surface[s].current = b
    OBVIOUS
  <2>1. \A p \in Outputs :
          b \in Held(w.output[p].slots) <=> \E i \in 1..2 : w.output[p].slots[i].buffer = b
    BY DEF Held
  <2>2. ASSUME NEW s \in Surfaces, w.surface[s].current = b
        PROVE  t = s
    BY <1>3, <2>2, SMTT(20) DEF HeldOK, OwnerOK, Owns, b, t
  <2>3. t # None => t \in Surfaces
    BY <1>2 DEF SurfaceRefs
  <2> QED  BY <2>1, <2>2, <2>3
<1> HIDE DEF kept
<1>5. /\ returned \in WorldType
      /\ returned.stray = w.stray /\ returned.surface = w.surface
      /\ returned.output = w.output /\ returned.feedback = w.feedback
      /\ returned.buffer = [x \in Buffers |-> IF x = b /\ ~kept THEN "free" ELSE w.buffer[x]]
  <2>1. w.buffer \in [Buffers -> BufferStates]
    BY <1>2, TypeFacts
  <2>2. CASE b = None \/ kept
    BY <1>2, <2>1, <2>2
  <2>3. CASE b # None /\ ~kept
    <3>1. returned = Release(w, b)
      BY <2>3
    <3> HIDE DEF returned
    <3> QED  BY <1>2, <1>3, <2>1, <2>3, <3>1, ReleaseOK
  <2> QED  BY <2>2, <2>3
<1> HIDE DEF returned
<1>6. /\ u \in WorldType /\ u.buffer = returned.buffer
      /\ u.stray = w.stray /\ u.surface = w.surface /\ u.feedback = w.feedback
      /\ u.output = [w.output EXCEPT ![o].slots[2] = NoSlot]
  BY <1>2, <1>5, Constants DEF WorldType, OutputType
<1> HIDE DEF u
<1>7. \A p \in Outputs : /\ u.output[p].on = w.output[p].on
                         /\ \A i \in 1..2 : u.output[p].slots[i] =
                              IF <<p, i>> = <<o, 2>> THEN NoSlot ELSE w.output[p].slots[i]
                         /\ u.output[p].slots \in [1..2 -> SlotType]
  <2>1. \A p \in Outputs : w.output[p] \in OutputType
    BY <1>2
  <2> QED  BY <1>2, <1>6, <2>1, Constants DEF OutputType
<1>8. \A p \in Outputs, i \in 1..2 : ~u.output[p].on => u.output[p].slots[i] = NoSlot
  BY <1>7 DEF WorldOK, BuffersOK, IdleOK
<1>9. ASSUME NEW x \in Buffers
      PROVE  u.buffer[x] = IF /\ \E i \in 1..2 : w.output[o].slots[i].buffer = x
                              /\ \A p \in Outputs, i \in 1..2 : u.output[p].slots[i].buffer # x
                              /\ \A s \in Surfaces : w.surface[s].current # x
                           THEN "free" ELSE w.buffer[x]
  <2>1. NoSlot.buffer = None
    BY DEF NoSlot
  <2>2. CASE x = b
    BY <1>4, <1>5, <1>6, <1>7, <2>1, <2>2, SMTT(20) DEF b
  <2>3. CASE x # b
    <3>1. \A i \in 1..2 : w.output[o].slots[i].buffer = x => i = 1 /\ u.output[o].slots[i].buffer = x
      BY <1>7, <2>3 DEF b
    <3> QED  BY <1>5, <1>6, <2>3, <3>1
  <2> QED  BY <2>2, <2>3
<1>10. WorldOK(u)
  <2>1. \A p \in Outputs, i \in 1..2 :
          \/ u.output[p].slots[i] = w.output[p].slots[i]
          \/ p = o /\ u.output[p].slots[i] = NoSlot
    BY <1>7
  <2> QED  BY <1>6, <1>8, <1>9, <2>1, SlotsEmptied
<1>11. ASSUME NEW x \in Buffers, UsedIn(w, x), u.buffer[x] = "held"
       PROVE  UsedIn(u, x)
  <2>1. \A p \in Outputs, i \in 1..2 :
          \/ u.output[p].slots[i] = w.output[p].slots[i]
          \/ p = o /\ u.output[p].slots[i] = NoSlot
    BY <1>7
  <2>2. \A i \in 1..2 : w.output[o].slots[i].buffer = x =>
          \/ \E p \in Outputs, j \in 1..2 : u.output[p].slots[j].buffer = x
          \/ \E s \in Surfaces : w.surface[s].current = x
    BY <1>9, <1>11
  <2>3. u.surface = w.surface
    BY <1>6
  <2>4. WorldOK(w) /\ UsedIn(w, x)
    BY <1>11
  <2> QED  BY <2>1, <2>2, <2>3, <2>4, UsedAfterSlots, SMTT(30)
<1> QED  BY <1>1, <1>6, <1>10, <1>11
-----------------------------------------------------------------------------
(* The actions *)

LEMMA NoSlotSlots ==
  /\ NoSlot.buffer = None /\ NoSlot.surface = None
  /\ <<NoSlot, NoSlot>> \in [1..2 -> SlotType]
  /\ \A i \in 1..2 : <<NoSlot, NoSlot>>[i] = NoSlot
BY Constants DEF NoSlot

(* What leaves the buffers, the surfaces and the slots alone. *)
LEMMA SameSlots ==
  ASSUME NEW w, WorldOK(w), NEW u \in WorldType,
         u.buffer = w.buffer, u.surface = w.surface,
         \A p \in Outputs : u.output[p].slots = w.output[p].slots,
         \A p \in Outputs, i \in 1..2 : ~u.output[p].on => u.output[p].slots[i] = NoSlot,
         \A f \in Feedbacks : FeedbackOK(u, f)
  PROVE  WorldOK(u)
<1>1. IdleOK(u) /\ SlotSurfaceOK(u)
  BY DEF WorldOK, BuffersOK, IdleOK, SlotSurfaceOK
<1>2. ASSUME NEW b \in Buffers PROVE BufferOK(u, b)
  <2>1. BufferOK(w, b)
    BY DEF WorldOK, BuffersOK
  <2>2. CASE b \in Copied
    BY <2>1, <2>2 DEF BufferOK, CopiedOK
  <2>3. CASE b \notin Copied
    <3>1. OwnerOK(u, b)
      BY <2>1, <2>3, OwnerKept DEF BufferOK, HeldOK
    <3>2. Shown(u, b) <=> Shown(w, b)
      BY DEF Shown
    <3> QED  BY <2>1, <2>3, <3>1, <3>2 DEF BufferOK, HeldOK
  <2> QED  BY <2>2, <2>3
<1> QED  BY <1>1, <1>2 DEF WorldOK, BuffersOK

LEMMA CreateBufferOK ==
  ASSUME IInv, NEW b \in Buffers, CreateBuffer(b)
  PROVE  IInv' /\ stray' = {} /\ GivenBack
<1> DEFINE w == World
           u == [w EXCEPT !.buffer[b] = "free"]
<1>1. WorldOK(w) /\ w \in WorldType /\ w.stray = {} /\ w.buffer[b] = "none" /\ Become(u)
  BY WorldIsOK DEF WorldOK, CreateBuffer, World
<1> HIDE DEF w
<1>2. /\ u \in WorldType /\ u.stray = {} /\ u.surface = w.surface /\ u.output = w.output
      /\ u.feedback = w.feedback
      /\ \A x \in Buffers : u.buffer[x] = IF x = b THEN "free" ELSE w.buffer[x]
  BY <1>1 DEF WorldType, BufferStates
<1> HIDE DEF u
<1>3. IdleOK(u) /\ SlotSurfaceOK(u)
  BY <1>1, <1>2 DEF WorldOK, BuffersOK, IdleOK, SlotSurfaceOK
<1>4. ASSUME NEW x \in Buffers PROVE BufferOK(u, x)
  <2>1. BufferOK(w, x)
    BY <1>1 DEF WorldOK, BuffersOK
  <2>2. CASE x \in Copied
    BY <1>1, <1>2, <2>1, <2>2 DEF BufferOK, CopiedOK
  <2>3. CASE x \notin Copied
    <3>1. OwnerOK(u, x)
      BY <1>2, <2>1, <2>3, OwnerKept DEF BufferOK, HeldOK
    <3>2. Shown(u, x) <=> Shown(w, x)
      BY <1>2 DEF Shown
    <3> QED  BY <1>1, <1>2, <2>1, <2>3, <3>1, <3>2 DEF BufferOK, HeldOK
  <2> QED  BY <2>2, <2>3
<1>5. \A f \in Feedbacks : FeedbackOK(u, f)
  BY <1>1, <1>2 DEF WorldOK, FeedbackOK
<1>6. WorldOK(u)
  BY <1>2, <1>3, <1>4, <1>5 DEF WorldOK, BuffersOK
<1>7. GivenBack
  <2>1. \A o \in Outputs, i \in 1..2 : u.output[o].slots[i].buffer = World.output[o].slots[i].buffer
    BY <1>2 DEF w
  <2> QED  BY <1>1, <1>2, <2>1, KeepsSame DEF w
<1> QED  BY <1>1, <1>2, <1>6, <1>7, BecomeOK DEF Become

LEMMA DestroyBufferOK ==
  ASSUME IInv, NEW b \in Buffers, DestroyBuffer(b)
  PROVE  IInv' /\ stray' = {} /\ GivenBack
<1> USE NoneIsNone
<1> DEFINE w == World
           forget(x) == IF x = b THEN None ELSE x
           empty(slot) == IF slot.buffer = b THEN NoSlot ELSE slot
           ss == [s \in Surfaces |-> [w.surface[s] EXCEPT !.pending = forget(w.surface[s].pending),
                                                          !.current = forget(w.surface[s].current)]]
           os == [o \in Outputs |-> [w.output[o] EXCEPT
                    !.slots = <<empty(w.output[o].slots[1]), empty(w.output[o].slots[2])>>]]
           u == [w EXCEPT !.buffer[b] = "none", !.surface = ss, !.output = os]
<1>1. WorldOK(w) /\ w \in WorldType /\ w.stray = {} /\ Become(u)
  BY WorldIsOK DEF WorldOK, DestroyBuffer, World
<1> HIDE DEF w
<1>2. ASSUME NEW s \in Surfaces
      PROVE  /\ ss[s] \in SurfaceType /\ ss[s].exists = w.surface[s].exists
             /\ ss[s].copied = w.surface[s].copied
             /\ ss[s].pending = forget(w.surface[s].pending)
             /\ ss[s].current = forget(w.surface[s].current)
  <2>1. w.surface[s] \in SurfaceType
    BY <1>1, TypeFacts
  <2> QED  BY <2>1 DEF SurfaceType, BufferRefs
<1>3. ASSUME NEW o \in Outputs
      PROVE  /\ os[o] \in OutputType /\ os[o].on = w.output[o].on
             /\ \A i \in 1..2 : os[o].slots[i] = empty(w.output[o].slots[i])
             /\ os[o].slots \in [1..2 -> SlotType]
  <2>1. /\ w.output[o] \in OutputType /\ w.output[o].slots \in [1..2 -> SlotType]
        /\ w.output[o].slots[1] \in SlotType /\ w.output[o].slots[2] \in SlotType
    BY <1>1, TypeFacts
  <2>2. empty(w.output[o].slots[1]) \in SlotType /\ empty(w.output[o].slots[2]) \in SlotType
    BY <2>1, Constants
  <2> HIDE DEF empty
  <2> QED  BY <2>1, <2>2 DEF OutputType
<1>4. /\ u \in WorldType /\ u.stray = {} /\ u.feedback = w.feedback
      /\ \A x \in Buffers : u.buffer[x] = IF x = b THEN "none" ELSE w.buffer[x]
      /\ \A s \in Surfaces : u.surface[s] = ss[s]
      /\ \A o \in Outputs : u.output[o] = os[o]
  <2>1. ss \in [Surfaces -> SurfaceType] /\ os \in [Outputs -> OutputType]
    BY <1>2, <1>3
  <2> HIDE DEF ss, os
  <2> QED  BY <1>1, <2>1 DEF WorldType, BufferStates
<1> HIDE DEF u, ss, os
<1>5. IdleOK(u)
  <2>1. IdleOK(w)
    BY <1>1 DEF WorldOK, BuffersOK
  <2>2. \A o \in Outputs, i \in 1..2 : ~u.output[o].on => u.output[o].slots[i] = NoSlot
    BY <1>3, <1>4, <2>1, NoSlotSlots DEF IdleOK
  <2> QED  BY <1>2, <1>4, <2>1, <2>2 DEF IdleOK
<1>6. SlotSurfaceOK(u)
  <2>1. \A o \in Outputs, i \in 1..2 :
          u.output[o].slots[i].surface # None => u.output[o].slots[i] = w.output[o].slots[i]
    BY <1>3, <1>4, NoSlotSlots
  <2> QED  BY <1>1, <1>2, <1>4, <2>1, SlotSurfaceKept
<1>7. ASSUME NEW x \in Buffers PROVE BufferOK(u, x)
  <2>1. BufferOK(w, x)
    BY <1>1 DEF WorldOK, BuffersOK
  <2>2. /\ \A s \in Surfaces : Owns(u.surface[s], x) <=> Owns(w.surface[s], x) /\ x # b
        /\ \A s \in Surfaces : u.surface[s].current = x <=> w.surface[s].current = x /\ x # b
    BY <1>2, <1>4 DEF Owns
  <2>3. /\ \A o \in Outputs, i \in 1..2 :
             u.output[o].slots[i].buffer = x => u.output[o].slots[i] = w.output[o].slots[i]
        /\ \A o \in Outputs, i \in 1..2 :
             u.output[o].slots[i].buffer = x <=> w.output[o].slots[i].buffer = x /\ x # b
    BY <1>3, <1>4, NoSlotSlots
  <2>4. CASE x \in Copied
    BY <1>4, <2>1, <2>2, <2>3, <2>4 DEF BufferOK, CopiedOK
  <2>5. CASE x \notin Copied
    <3>1. OwnerOK(u, x)
      BY <2>1, <2>2, <2>3, <2>5, OwnerKept DEF BufferOK, HeldOK
    <3>2. Shown(u, x) <=> Shown(w, x) /\ x # b
      BY <2>2, <2>3 DEF Shown
    <3> QED  BY <1>4, <2>1, <2>2, <2>5, <3>1, <3>2 DEF BufferOK, HeldOK
  <2> QED  BY <2>4, <2>5
<1>8. \A f \in Feedbacks : FeedbackOK(u, f)
  BY <1>1, <1>2, <1>4, FeedbackKept
<1>9. WorldOK(u)
  BY <1>4, <1>5, <1>6, <1>7, <1>8 DEF WorldOK, BuffersOK
<1>10. GivenBack
  <2> SUFFICES ASSUME NEW x \in Buffers, UsedIn(w, x)
               PROVE  u.buffer[x] # "held" \/ UsedIn(u, x)
    BY <1>1, KeepsOK DEF w
  <2>1. CASE x = b
    BY <1>4, <2>1
  <2>2. CASE x # b
    <3>1. \A s \in Surfaces : /\ w.surface[s].pending = x => u.surface[s].pending = x
                              /\ w.surface[s].current = x => u.surface[s].current = x
      BY <1>2, <1>4, <2>2
    <3>2. \A o \in Outputs, i \in 1..2 :
            w.output[o].slots[i].buffer = x => u.output[o].slots[i].buffer = x
      BY <1>3, <1>4, <2>2
    <3> QED  BY <3>1, <3>2 DEF UsedIn
  <2> QED  BY <2>1, <2>2
<1> QED  BY <1>1, <1>4, <1>9, <1>10, BecomeOK DEF Become

LEMMA CreateSurfaceOK ==
  ASSUME IInv, NEW s \in Surfaces, CreateSurface(s)
  PROVE  IInv' /\ stray' = {} /\ GivenBack
<1> USE NoneIsNone
<1> DEFINE w == World
           u == [w EXCEPT !.surface[s].exists = TRUE]
<1>1. WorldOK(w) /\ w \in WorldType /\ w.stray = {} /\ ~w.surface[s].exists /\ Become(u)
  BY WorldIsOK DEF WorldOK, CreateSurface, World
<1> HIDE DEF w
<1>2. w.surface[s].pending = None /\ w.surface[s].current = None
  BY <1>1 DEF WorldOK, BuffersOK, IdleOK
<1>3. /\ u \in WorldType /\ u.stray = {} /\ u.buffer = w.buffer /\ u.output = w.output
      /\ u.feedback = w.feedback
      /\ \A t \in Surfaces : t # s => u.surface[t] = w.surface[t]
      /\ u.surface[s].exists /\ u.surface[s].pending = None /\ u.surface[s].current = None
  <2>1. w.surface \in [Surfaces -> SurfaceType] /\ w.surface[s] \in SurfaceType
    BY <1>1, TypeFacts
  <2> DEFINE r == [w.surface[s] EXCEPT !.exists = TRUE]
  <2>2. r \in SurfaceType /\ r.exists /\ r.pending = None /\ r.current = None
    BY <1>2, <2>1 DEF SurfaceType
  <2>3. u = [w EXCEPT !.surface = [w.surface EXCEPT ![s] = r]]
    BY <1>1, <2>1 DEF WorldType, SurfaceType
  <2> HIDE DEF r, u
  <2> QED  BY <1>1, <2>1, <2>2, <2>3 DEF WorldType
<1> HIDE DEF u
<1>4. IdleOK(u) /\ SlotSurfaceOK(u)
  <2>1. \A t \in Surfaces : w.surface[t].exists => u.surface[t].exists
    BY <1>3
  <2>2. SlotSurfaceOK(u)
    BY <1>1, <1>3, <2>1, SlotSurfaceKept
  <2> QED  BY <1>1, <1>3, <2>2 DEF WorldOK, BuffersOK, IdleOK
<1>5. ASSUME NEW x \in Buffers PROVE BufferOK(u, x)
  <2>1. BufferOK(w, x)
    BY <1>1 DEF WorldOK, BuffersOK
  <2>2. /\ \A t \in Surfaces : Owns(u.surface[t], x) <=> Owns(w.surface[t], x)
        /\ \A t \in Surfaces : u.surface[t].current = x <=> w.surface[t].current = x
    BY <1>2, <1>3 DEF Owns
  <2>3. CASE x \in Copied
    BY <1>3, <2>1, <2>2, <2>3 DEF BufferOK, CopiedOK
  <2>4. CASE x \notin Copied
    <3>1. OwnerOK(u, x)
      BY <1>3, <2>1, <2>2, <2>4, OwnerKept DEF BufferOK, HeldOK
    <3>2. Shown(u, x) <=> Shown(w, x)
      BY <1>3, <2>2 DEF Shown
    <3> QED  BY <1>3, <2>1, <2>2, <2>4, <3>1, <3>2 DEF BufferOK, HeldOK
  <2> QED  BY <2>3, <2>4
<1>6. \A f \in Feedbacks : FeedbackOK(u, f)
  BY <1>1, <1>3, FeedbackKept
<1>7. WorldOK(u)
  BY <1>3, <1>4, <1>5, <1>6 DEF WorldOK, BuffersOK
<1>8. GivenBack
  <2> SUFFICES ASSUME NEW x \in Buffers, UsedIn(w, x)
               PROVE  UsedIn(u, x)
    BY <1>1, KeepsOK DEF w
  <2> QED  BY <1>2, <1>3 DEF UsedIn
<1> QED  BY <1>1, <1>3, <1>7, <1>8, BecomeOK DEF Become

LEMMA DestroySurfaceOK ==
  ASSUME IInv, NEW s \in Surfaces, DestroySurface(s)
  PROVE  IInv' /\ stray' = {} /\ GivenBack
<1> USE NoneIsNone
<1> DEFINE w == World
           leave(slot) == IF slot.surface = s THEN [slot EXCEPT !.surface = None] ELSE slot
           os == [o \in Outputs |-> [w.output[o] EXCEPT
                    !.slots = <<leave(w.output[o].slots[1]), leave(w.output[o].slots[2])>>]]
           fs == [f \in Feedbacks |-> IF w.feedback[f].surface = s THEN NoFeedback ELSE w.feedback[f]]
           u == [w EXCEPT !.surface[s] = NoSurface, !.output = os, !.feedback = fs]
<1>1. WorldOK(w) /\ w \in WorldType /\ w.stray = {} /\ w.surface[s].exists /\ Become(u)
  BY WorldIsOK DEF WorldOK, DestroySurface, World
<1> HIDE DEF w
<1>3. ASSUME NEW o \in Outputs
      PROVE  /\ os[o] \in OutputType /\ os[o].on = w.output[o].on
             /\ \A i \in 1..2 : os[o].slots[i] = leave(w.output[o].slots[i])
  <2>1. /\ w.output[o] \in OutputType /\ w.output[o].slots \in [1..2 -> SlotType]
        /\ w.output[o].slots[1] \in SlotType /\ w.output[o].slots[2] \in SlotType
    BY <1>1, TypeFacts
  <2>2. \A slot \in SlotType : leave(slot) \in SlotType
    BY DEF SlotType, SurfaceRefs
  <2>3. leave(w.output[o].slots[1]) \in SlotType /\ leave(w.output[o].slots[2]) \in SlotType
    BY <2>1, <2>2
  <2> HIDE DEF leave
  <2> QED  BY <2>1, <2>3 DEF OutputType
<1>4. \A o \in Outputs, i \in 1..2 :
        /\ os[o].slots[i].buffer = w.output[o].slots[i].buffer
        /\ os[o].slots[i].surface = IF w.output[o].slots[i].surface = s THEN None
                                   ELSE w.output[o].slots[i].surface
        /\ os[o].slots[i].surface # None => os[o].slots[i] = w.output[o].slots[i]
  <2> TAKE o \in Outputs, i \in 1..2
  <2>1. w.output[o].slots[i] \in SlotType
    <3>1. w.output[o].slots \in [1..2 -> SlotType]
      BY <1>1, TypeFacts
    <3> QED  BY <3>1
  <2>2. os[o].slots[i] = leave(w.output[o].slots[i])
    BY <1>3
  <2> HIDE DEF os
  <2> QED  BY <2>1, <2>2 DEF SlotType
<1>5. /\ fs \in [Feedbacks -> FeedbackType]
      /\ os \in [Outputs -> OutputType]
  <2>1. w.buffer \in [Buffers -> BufferStates] /\ w.feedback \in [Feedbacks -> FeedbackType]
    BY <1>1, TypeFacts
  <2>2. fs \in [Feedbacks -> FeedbackType]
    BY <2>1, Constants
  <2>3. os \in [Outputs -> OutputType]
    BY <1>3
  <2> QED  BY <2>2, <2>3
<1>6. /\ u \in WorldType /\ u.stray = {} /\ u.buffer = w.buffer /\ u.output = os /\ u.feedback = fs
      /\ \A t \in Surfaces : u.surface[t] = IF t = s THEN NoSurface ELSE w.surface[t]
  <2> HIDE DEF os, fs
  <2> QED  BY <1>1, <1>5, Constants DEF WorldType
<1> HIDE DEF u, os
<1>7. NoSurface.pending = None /\ NoSurface.current = None
  BY DEF NoSurface
<1>8. IdleOK(u)
  <2>1. IdleOK(w)
    BY <1>1 DEF WorldOK, BuffersOK
  <2>2. \A o \in Outputs, i \in 1..2 : ~u.output[o].on => u.output[o].slots[i] = NoSlot
    <3> SUFFICES ASSUME NEW o \in Outputs, NEW i \in 1..2, ~u.output[o].on
                 PROVE  u.output[o].slots[i] = NoSlot
      OBVIOUS
    <3>1. w.output[o].slots[i] = NoSlot
      BY <1>3, <1>6, <2>1 DEF IdleOK
    <3> QED  BY <1>3, <1>6, <3>1, NoSlotSlots, Zenon
  <2> QED  BY <1>6, <1>7, <2>1, <2>2 DEF IdleOK
<1>9. SlotSurfaceOK(u)
  <2> SUFFICES ASSUME NEW o \in Outputs, NEW i \in 1..2, u.output[o].slots[i].surface # None
               PROVE  u.surface[u.output[o].slots[i].surface].exists
    BY DEF SlotSurfaceOK
  <2>1. /\ w.output[o].slots[i].surface = u.output[o].slots[i].surface
        /\ w.output[o].slots[i].surface # s /\ w.output[o].slots[i].surface # None
    BY <1>4, <1>6
  <2>2. w.output[o].slots[i].surface \in SurfaceRefs
    <3>1. w.output[o].slots \in [1..2 -> SlotType]
      BY <1>1, TypeFacts
    <3> QED  BY <3>1 DEF SlotType
  <2>3. w.surface[w.output[o].slots[i].surface].exists
    BY <1>1, <2>1 DEF WorldOK, BuffersOK, SlotSurfaceOK
  <2> QED  BY <1>6, <2>1, <2>2, <2>3 DEF SurfaceRefs
<1>10. ASSUME NEW x \in Buffers PROVE BufferOK(u, x)
  <2>1. BufferOK(w, x)
    BY <1>1 DEF WorldOK, BuffersOK
  <2>2. /\ \A t \in Surfaces : Owns(u.surface[t], x) <=> t # s /\ Owns(w.surface[t], x)
        /\ \A t \in Surfaces : u.surface[t].current = x <=> t # s /\ w.surface[t].current = x
    BY <1>6, <1>7 DEF Owns
  <2>3. \A t \in Surfaces : Owns(u.surface[t], x) => u.buffer[x] # "none"
    BY <1>6, <2>1, <2>2 DEF BufferOK
  <2>4. CASE x \in Copied
    BY <1>4, <1>6, <2>3, <2>4, <2>1 DEF BufferOK, CopiedOK
  <2>5. CASE x \notin Copied
    <3>1. OwnerOK(w, x) /\ (Shown(w, x) => w.buffer[x] = "held")
      BY <2>1, <2>5 DEF BufferOK, HeldOK
    <3>2. ASSUME NEW t \in Surfaces, NEW o \in Outputs, NEW i \in 1..2,
                 Owns(u.surface[t], x), u.output[o].slots[i].buffer = x
          PROVE  u.output[o].slots[i].surface = t
      <4>1. t # s /\ Owns(w.surface[t], x) /\ w.output[o].slots[i].buffer = x
        BY <1>4, <1>6, <2>2, <3>2
      <4>2. w.output[o].slots[i].surface = t
        BY <3>1, <4>1 DEF OwnerOK
      <4> QED  BY <1>4, <1>6, <4>1, <4>2
    <3>3. ASSUME NEW o \in Outputs, NEW p \in Outputs, NEW i \in 1..2, NEW j \in 1..2,
                 u.output[o].slots[i].buffer = x, u.output[p].slots[j].buffer = x
          PROVE  u.output[o].slots[i].surface = u.output[p].slots[j].surface
      <4>1. w.output[o].slots[i].buffer = x /\ w.output[p].slots[j].buffer = x
        BY <1>4, <1>6, <3>3
      <4>2. w.output[o].slots[i].surface = w.output[p].slots[j].surface
        BY <3>1, <4>1 DEF OwnerOK
      <4>3. u.output[o].slots[i].surface = IF w.output[o].slots[i].surface = s THEN None
                                           ELSE w.output[o].slots[i].surface
        BY <1>4, <1>6
      <4>4. u.output[p].slots[j].surface = IF w.output[p].slots[j].surface = s THEN None
                                           ELSE w.output[p].slots[j].surface
        BY <1>4, <1>6
      <4> QED  BY <4>2, <4>3, <4>4
    <3>4. \A t, v \in Surfaces : Owns(u.surface[t], x) /\ Owns(u.surface[v], x) => t = v
      BY <2>2, <3>1 DEF OwnerOK
    <3>5. OwnerOK(u, x)
      BY <3>2, <3>3, <3>4 DEF OwnerOK
    <3>6. Shown(u, x) => Shown(w, x)
      BY <1>4, <1>6, <2>2 DEF Shown
    <3> QED  BY <1>6, <2>3, <2>5, <3>1, <3>5, <3>6 DEF BufferOK, HeldOK
  <2> QED  BY <2>4, <2>5
<1>11. \A f \in Feedbacks : FeedbackOK(u, f)
  <2> TAKE f \in Feedbacks
  <2>1. FeedbackOK(w, f) /\ w.feedback[f] \in FeedbackType
    BY <1>1, TypeFacts DEF WorldOK
  <2>2. CASE w.feedback[f].surface = s
    <3>1. u.feedback[f] = NoFeedback
      BY <1>6, <2>2
    <3>2. NoFeedback.surface = None /\ NoFeedback.output = None /\ NoFeedback.answer = "none"
      BY DEF NoFeedback
    <3> QED  BY <3>1, <3>2 DEF FeedbackOK
  <2>3. CASE w.feedback[f].surface # s
    <3>1. u.feedback[f] = w.feedback[f]
      BY <1>6, <2>3
    <3>2. w.feedback[f].surface \in SurfaceRefs
      BY <2>1 DEF FeedbackType
    <3> QED  BY <1>6, <2>1, <2>3, <3>1, <3>2 DEF FeedbackOK, SurfaceRefs
  <2> QED  BY <2>2, <2>3
<1>12. WorldOK(u)
  BY <1>6, <1>8, <1>9, <1>10, <1>11 DEF WorldOK, BuffersOK
<1>13. GivenBack
  <2> SUFFICES ASSUME NEW x \in Buffers, UsedIn(w, x), ~UsedIn(u, x)
               PROVE  Destroyed(x)
    BY <1>1, KeepsOK DEF w
  <2>1. \A o \in Outputs, i \in 1..2 : w.output[o].slots[i].buffer # x
    BY <1>4, <1>6 DEF UsedIn
  <2>2. x \in {w.surface[s].current, w.surface[s].pending}
    BY <1>6, <2>1 DEF UsedIn
  <2>3. w.surface = surface /\ surface' = u.surface
    BY <1>1 DEF w, World, Become
  <2>4. surface[s].exists /\ ~surface'[s].exists
    BY <1>1, <1>6, <2>3 DEF NoSurface
  <2> QED  BY <2>2, <2>3, <2>4 DEF Destroyed
<1> QED  BY <1>1, <1>6, <1>12, <1>13, BecomeOK DEF Become

LEMMA AttachOK ==
  ASSUME IInv, NEW s \in Surfaces, NEW b \in Buffers \cup {None}, Attach(s, b)
  PROVE  IInv' /\ stray' = {} /\ GivenBack
<1> USE NoneIsNone
<1> DEFINE w == World
           u == [w EXCEPT !.surface[s].attached = TRUE, !.surface[s].pending = b]
<1>1. /\ WorldOK(w) /\ w \in WorldType /\ w.stray = {} /\ w.surface[s].exists /\ Become(u)
      /\ \/ b = None
         \/ /\ b \in Buffers /\ w.buffer[b] = "free"
            /\ \A t \in Surfaces \ {s} : w.surface[t].pending # b
         \/ b \in {w.surface[s].pending, w.surface[s].current}
         \/ \E o \in Outputs, i \in 1..2 : w.output[o].slots[i] = [buffer |-> b, surface |-> s]
  BY WorldIsOK DEF WorldOK, Attach, World
<1> HIDE DEF w
<1>2. /\ u \in WorldType /\ u.stray = {} /\ u.buffer = w.buffer /\ u.output = w.output
      /\ u.feedback = w.feedback
      /\ \A t \in Surfaces : /\ u.surface[t].exists = w.surface[t].exists
                             /\ u.surface[t].current = w.surface[t].current
                             /\ u.surface[t].copied = w.surface[t].copied
                             /\ u.surface[t].pending = IF t = s THEN b ELSE w.surface[t].pending
  <2>1. w.surface \in [Surfaces -> SurfaceType] /\ w.surface[s] \in SurfaceType
    BY <1>1, TypeFacts
  <2> DEFINE r == [w.surface[s] EXCEPT !.attached = TRUE, !.pending = b]
  <2>2. /\ r \in SurfaceType /\ r.exists = w.surface[s].exists /\ r.pending = b
        /\ r.current = w.surface[s].current /\ r.copied = w.surface[s].copied
    BY <2>1 DEF SurfaceType, BufferRefs
  <2>3. u = [w EXCEPT !.surface = [w.surface EXCEPT ![s] = r]]
    BY <1>1, <2>1 DEF WorldType, SurfaceType
  <2> HIDE DEF r, u
  <2> QED  BY <1>1, <2>1, <2>2, <2>3 DEF WorldType
<1> HIDE DEF u
<1>3. IdleOK(u) /\ SlotSurfaceOK(u)
  <2>1. SlotSurfaceOK(u)
    BY <1>1, <1>2, SlotSurfaceKept
  <2> QED  BY <1>1, <1>2, <2>1 DEF WorldOK, BuffersOK, IdleOK
<1>4. ASSUME NEW x \in Buffers PROVE BufferOK(u, x)
  <2>1. BufferOK(w, x)
    BY <1>1 DEF WorldOK, BuffersOK
  <2>2. \A t \in Surfaces : Owns(u.surface[t], x) =>
          Owns(w.surface[t], x) \/ (t = s /\ x = b)
    BY <1>2 DEF Owns
  <2>3. x = b => \/ /\ w.buffer[x] = "free"
                    /\ \A t \in Surfaces \ {s} : w.surface[t].pending # x
                 \/ Owns(w.surface[s], x)
                 \/ \E o \in Outputs, i \in 1..2 :
                      w.output[o].slots[i].buffer = x /\ w.output[o].slots[i].surface = s
    <3> SUFFICES ASSUME x = b, w.buffer[x] # "free" \/ \E t \in Surfaces \ {s} : w.surface[t].pending = x,
                        ~Owns(w.surface[s], x)
                 PROVE  \E o \in Outputs, i \in 1..2 :
                          w.output[o].slots[i].buffer = x /\ w.output[o].slots[i].surface = s
      OBVIOUS
    <3>1. PICK o \in Outputs, i \in 1..2 : w.output[o].slots[i] = [buffer |-> b, surface |-> s]
      BY <1>1 DEF Owns
    <3> QED  BY <3>1
  <2>4. CASE x \in Copied
    <3>1. x = b => w.buffer[x] # "none"
      BY <2>1, <2>3, <2>4 DEF BufferOK, CopiedOK
    <3> QED  BY <1>2, <2>1, <2>2, <2>4, <3>1 DEF BufferOK, CopiedOK
  <2>5. CASE x \notin Copied
    <3>1. OwnerOK(w, x) /\ (Shown(w, x) => w.buffer[x] = "held")
      BY <2>1, <2>5 DEF BufferOK, HeldOK
    <3>2. x = b => w.buffer[x] # "none"
      BY <2>1, <2>3, <3>1 DEF BufferOK, Shown
    <3>3. x = b => \A t \in Surfaces : Owns(w.surface[t], x) => t = s
      <4> SUFFICES ASSUME x = b, NEW t \in Surfaces, Owns(w.surface[t], x), t # s PROVE FALSE
        OBVIOUS
      <4>1. CASE w.buffer[x] = "free" /\ w.surface[t].pending # x
        BY <3>1, <4>1 DEF Shown, Owns
      <4>2. CASE Owns(w.surface[s], x)
        BY <3>1, <4>2 DEF OwnerOK
      <4>3. CASE \E o \in Outputs, i \in 1..2 :
                   w.output[o].slots[i].buffer = x /\ w.output[o].slots[i].surface = s
        BY <3>1, <4>3 DEF OwnerOK
      <4> QED  BY <2>3, <4>1, <4>2, <4>3
    <3>4. x = b => \A o \in Outputs, i \in 1..2 :
                     w.output[o].slots[i].buffer = x => w.output[o].slots[i].surface = s
      <4> SUFFICES ASSUME x = b, NEW o \in Outputs, NEW i \in 1..2, w.output[o].slots[i].buffer = x
                   PROVE  w.output[o].slots[i].surface = s
        OBVIOUS
      <4>1. w.buffer[x] # "free"
        BY <3>1 DEF Shown
      <4>2. CASE Owns(w.surface[s], x)
        BY <3>1, <4>2 DEF OwnerOK
      <4>3. CASE \E p \in Outputs, j \in 1..2 :
                   w.output[p].slots[j].buffer = x /\ w.output[p].slots[j].surface = s
        <5>1. PICK p \in Outputs, j \in 1..2 :
                     w.output[p].slots[j].buffer = x /\ w.output[p].slots[j].surface = s
          BY <4>3
        <5>2. w.output[o].slots[i].surface = w.output[p].slots[j].surface
          BY <3>1, <5>1 DEF OwnerOK
        <5> QED  BY <5>1, <5>2
      <4> QED  BY <2>3, <4>1, <4>2, <4>3
    <3>5. ASSUME NEW t \in Surfaces, NEW v \in Surfaces, Owns(u.surface[t], x), Owns(u.surface[v], x)
          PROVE  t = v
      BY <2>2, <3>1, <3>3, <3>5 DEF OwnerOK
    <3>6. ASSUME NEW t \in Surfaces, NEW o \in Outputs, NEW i \in 1..2,
                 Owns(u.surface[t], x), w.output[o].slots[i].buffer = x
          PROVE  w.output[o].slots[i].surface = t
      BY <2>2, <3>1, <3>4, <3>6 DEF OwnerOK
    <3>7. OwnerOK(u, x)
      BY <1>2, <3>1, <3>5, <3>6 DEF OwnerOK
    <3>8. Shown(u, x) <=> Shown(w, x)
      BY <1>2 DEF Shown
    <3> QED  BY <1>2, <2>1, <2>2, <2>5, <3>1, <3>2, <3>7, <3>8 DEF BufferOK, HeldOK
  <2> QED  BY <2>4, <2>5
<1>5. \A f \in Feedbacks : FeedbackOK(u, f)
  BY <1>1, <1>2, FeedbackKept
<1>6. WorldOK(u)
  BY <1>2, <1>3, <1>4, <1>5 DEF WorldOK, BuffersOK
<1>7. GivenBack
  <2> SUFFICES ASSUME NEW x \in Buffers, UsedIn(w, x), ~UsedIn(u, x)
               PROVE  Overtaken(x)
    BY <1>1, KeepsOK DEF w
  <2>1. w.surface[s].pending = x /\ u.surface[s].pending # x
    BY <1>2 DEF UsedIn
  <2>2. u.surface[s].attached
    <3>1. w.surface \in [Surfaces -> SurfaceType] /\ w.surface[s] \in SurfaceType
      BY <1>1, TypeFacts
    <3> QED  BY <1>1, <3>1 DEF WorldType, SurfaceType, u
  <2>3. w.surface = surface /\ surface' = u.surface
    BY <1>1 DEF w, World, Become
  <2> QED  BY <2>1, <2>2, <2>3 DEF Overtaken
<1> QED  BY <1>1, <1>2, <1>6, <1>7, BecomeOK DEF Become

LEMMA FeedbackActionOK ==
  ASSUME IInv, NEW f \in Feedbacks, NEW s \in Surfaces, Feedback(f, s)
  PROVE  IInv' /\ stray' = {} /\ GivenBack
<1> DEFINE w == World
           r == [NoFeedback EXCEPT !.surface = s]
           fs == [w.feedback EXCEPT ![f] = r]
           u == [w EXCEPT !.feedback = fs]
<1>1. /\ WorldOK(w) /\ w \in WorldType /\ w.stray = {} /\ w.surface[s].exists
      /\ Become([w EXCEPT !.feedback[f] = r])
  BY WorldIsOK DEF WorldOK, Feedback, World
<1>2. [w EXCEPT !.feedback[f] = r] = u
  BY <1>1 DEF WorldType
<1> HIDE DEF w
<1>3. /\ r \in FeedbackType /\ r.surface = s /\ r.output = None /\ r.answer = "none"
  BY Constants DEF NoFeedback, FeedbackType, SurfaceRefs
<1> HIDE DEF r
<1>4. w.feedback \in [Feedbacks -> FeedbackType] /\ fs \in [Feedbacks -> FeedbackType]
  BY <1>1, <1>3, TypeFacts
<1>5. \A g \in Feedbacks : FeedbackOK(u, g)
  <2> TAKE g \in Feedbacks
  <2>1. u.surface = w.surface /\ u.feedback[g] = IF g = f THEN r ELSE w.feedback[g]
    BY <1>1, <1>4 DEF WorldType
  <2>2. FeedbackOK(w, g)
    BY <1>1 DEF WorldOK
  <2> HIDE DEF u
  <2> QED  BY <1>1, <1>3, <2>1, <2>2 DEF FeedbackOK
<1>6. u.stray = {}
  BY <1>1 DEF WorldType
<1>7. WorldOK(u)
  BY <1>1, <1>4, <1>5, OnlyFeedback
<1> HIDE DEF u
<1>8. GivenBack
  <2>1. u.surface = w.surface /\ u.output = w.output /\ Become(u)
    BY <1>1, <1>2 DEF WorldType, u
  <2> QED  BY <2>1, KeepsSame DEF w
<1> QED  BY <1>1, <1>2, <1>6, <1>7, <1>8, BecomeOK DEF Become

LEMMA NumberedOK ==
  ASSUME NEW w, WorldOK(w), NEW s \in Surfaces
  PROVE  /\ WorldOK(Numbered(w, s))
         /\ Numbered(w, s).stray = w.stray /\ Numbered(w, s).surface = w.surface
         /\ Numbered(w, s).buffer = w.buffer /\ Numbered(w, s).output = w.output
<1> DEFINE next(r) == IF r.surface # s THEN r
                      ELSE CASE r.update = "to come" -> [r EXCEPT !.update = "last"]
                             [] r.update = "last" -> [r EXCEPT !.update = "past"]
                             [] OTHER -> r
           fs == [f \in Feedbacks |-> next(w.feedback[f])]
           u == [w EXCEPT !.feedback = fs]
<1>1. Numbered(w, s) = u /\ w \in WorldType
  BY DEF Numbered, WorldOK
<1>2. ASSUME NEW f \in Feedbacks
      PROVE  fs[f] \in FeedbackType /\ FeedbackOK(u, f)
  <2>1. w.feedback[f] \in FeedbackType /\ FeedbackOK(w, f)
    BY <1>1, TypeFacts DEF WorldOK
  <2>2. /\ fs[f] \in FeedbackType /\ fs[f].surface = w.feedback[f].surface
        /\ fs[f].output = w.feedback[f].output /\ fs[f].seen = w.feedback[f].seen
        /\ fs[f].answer = w.feedback[f].answer /\ fs[f].by = w.feedback[f].by
        /\ fs[f].zeroCopy = w.feedback[f].zeroCopy
    BY <2>1 DEF FeedbackType
  <2>3. u.feedback[f] = fs[f] /\ u.surface = w.surface
    BY <1>1 DEF WorldType
  <2> HIDE DEF u, fs
  <2> QED  BY <2>1, <2>2, <2>3 DEF FeedbackOK
<1>3. fs \in [Feedbacks -> FeedbackType]
  BY <1>2
<1>4. /\ u.stray = w.stray /\ u.surface = w.surface
      /\ u.buffer = w.buffer /\ u.output = w.output
  BY <1>1 DEF WorldType
<1>5. WorldOK(u)
  <2> HIDE DEF fs
  <2> QED  BY <1>2, <1>3, OnlyFeedback
<1> QED  BY <1>1, <1>4, <1>5

(* The surface of a world is replaced. *)
LEMMA PutSurface ==
  ASSUME NEW w \in WorldType, NEW s \in Surfaces, NEW r \in SurfaceType
  PROVE  LET u == [w EXCEPT !.surface[s] = r] IN
         /\ u \in WorldType /\ u.buffer = w.buffer /\ u.stray = w.stray /\ u.output = w.output
         /\ u.feedback = w.feedback
         /\ \A t \in Surfaces : u.surface[t] = IF t = s THEN r ELSE w.surface[t]
BY DEF WorldType

(* apply_commit(): the buffer that was current is given back if nothing shows it, the
   one that is copied at once, the other one is held. *)
LEMMA AppliedOK ==
  ASSUME NEW w, WorldOK(w), NEW s \in Surfaces, w.surface[s].exists
  PROVE  /\ WorldOK(BufferToTexture(Swap(w, s), s))
         /\ BufferToTexture(Swap(w, s), s).stray = w.stray
         /\ \A x \in Buffers : w.buffer[x] = "held" /\ UsedIn(w, x) =>
              \/ BufferToTexture(Swap(w, s), s).buffer[x] # "held"
              \/ UsedIn(BufferToTexture(Swap(w, s), s), x)
<1> USE NoneIsNone
<1> DEFINE r == w.surface[s]
           c == r.current
           b == r.pending
           replaced == c # None /\ c \notin Copied \cup Scanned(w.output) \cup {b}
           v1 == IF replaced THEN Release(w, c) ELSE w
           r2 == [r EXCEPT !.attached = FALSE, !.current = b, !.pending = None,
                           !.copied = r.copied /\ b = None]
           v2 == [v1 EXCEPT !.surface[s] = r2]
           v3 == IF b = None THEN v2 ELSE [v2 EXCEPT !.buffer[b] = "held"]
<1>1. /\ w \in WorldType /\ r \in SurfaceType /\ c \in BufferRefs /\ b \in BufferRefs
      /\ w.buffer \in [Buffers -> BufferStates] /\ (c \in Copied => r.copied)
  <2>1. w \in WorldType /\ IdleOK(w)
    BY DEF WorldOK, BuffersOK
  <2>2. r \in SurfaceType /\ w.buffer \in [Buffers -> BufferStates]
    BY <2>1, TypeFacts
  <2> QED  BY <2>1, <2>2 DEF IdleOK, SurfaceType
<1>2. ASSUME c \in Buffers \ Copied PROVE w.buffer[c] = "held"
  <2>1. HeldOK(w, c)
    BY <1>2 DEF WorldOK, BuffersOK, BufferOK
  <2>2. Shown(w, c)
    BY DEF Shown
  <2> HIDE DEF c
  <2> QED  BY <2>1, <2>2 DEF HeldOK
<1>3. CASE ~r.attached
  <2>1. Swap(w, s) = w
    BY <1>3 DEF Swap
  <2>2. BufferToTexture(w, s) = w
    BY <1>1 DEF BufferToTexture
  <2> QED  BY <2>1, <2>2
<1>4. CASE r.attached
  <2>1. Swap(w, s) = v3
    BY <1>4 DEF Swap
  <2>2. /\ v1 \in WorldType /\ v1.stray = w.stray /\ v1.surface = w.surface
        /\ v1.output = w.output /\ v1.feedback = w.feedback
        /\ \A x \in Buffers : v1.buffer[x] = IF replaced /\ x = c THEN "free" ELSE w.buffer[x]
    <3>1. CASE ~replaced
      BY <1>1, <3>1
    <3>2. CASE replaced
      <4>1. c \in Buffers \ Copied
        BY <1>1, <3>2 DEF BufferRefs
      <4>2. w.buffer[c] = "held"
        BY <1>2, <4>1
      <4>3. v1 = Release(w, c)
        BY <3>2
      <4> HIDE DEF v1, replaced, c
      <4>4. /\ v1 \in WorldType /\ v1.stray = w.stray /\ v1.surface = w.surface
            /\ v1.output = w.output /\ v1.feedback = w.feedback
            /\ v1.buffer = [w.buffer EXCEPT ![c] = "free"]
        BY <1>1, <4>1, <4>2, <4>3, ReleaseOK
      <4> QED  BY <1>1, <3>2, <4>1, <4>4
    <3> QED  BY <3>1, <3>2
  <2> HIDE DEF v1, replaced
  <2>3. /\ r2 \in SurfaceType /\ r2.exists = r.exists /\ r2.pending = None /\ r2.current = b
        /\ r2.copied = (r.copied /\ b = None)
    BY <1>1 DEF SurfaceType, BufferRefs
  <2> HIDE DEF r2
  <2>4. /\ v2 \in WorldType /\ v2.stray = w.stray /\ v2.output = w.output
        /\ v2.feedback = w.feedback /\ v2.buffer = v1.buffer
        /\ \A t \in Surfaces : v2.surface[t] = IF t = s THEN r2 ELSE w.surface[t]
    BY <2>2, <2>3, PutSurface
  <2> HIDE DEF v2
  <2>5. /\ v3 \in WorldType /\ v3.stray = w.stray /\ v3.output = w.output
        /\ v3.feedback = w.feedback /\ v3.surface = v2.surface
        /\ \A x \in Buffers : v3.buffer[x] = IF x = b THEN "held" ELSE v1.buffer[x]
    <3>1. CASE b = None
      BY <2>4, <3>1
    <3>2. CASE b # None
      <4>1. b \in Buffers /\ v3 = [v2 EXCEPT !.buffer[b] = "held"]
        BY <1>1, <3>2 DEF BufferRefs
      <4> HIDE DEF v3, b
      <4> QED  BY <2>4, <4>1 DEF WorldType, BufferStates
    <3> QED  BY <3>1, <3>2
  <2> HIDE DEF v3
  <2> DEFINE u == BufferToTexture(v3, s)
  <2>6. /\ u \in WorldType /\ u.stray = w.stray /\ u.output = w.output /\ u.feedback = w.feedback
        /\ \A t \in Surfaces : t # s => u.surface[t] = w.surface[t]
        /\ u.surface[s].exists = r.exists /\ u.surface[s].pending = None
        /\ u.surface[s].current = b /\ (b \in Copied => u.surface[s].copied)
        /\ \A x \in Buffers : u.buffer[x] = IF x = b THEN (IF b \in Copied THEN "free" ELSE "held")
                                            ELSE IF replaced /\ x = c THEN "free" ELSE w.buffer[x]
    <3>1. v3.surface[s] = r2 /\ r2 \in SurfaceType
      BY <2>3, <2>4, <2>5
    <3>2. CASE b \notin Copied
      <4>1. u = v3
        BY <2>3, <3>1, <3>2 DEF BufferToTexture
      <4> HIDE DEF u, b, c, r
      <4> QED  BY <2>2, <2>3, <2>4, <2>5, <3>1, <3>2, <4>1
    <3>3. CASE b \in Copied
      <4>1. b \in Buffers /\ b # None
        BY <3>3
      <4>2. u = [Release(v3, b) EXCEPT !.surface[s].copied = TRUE]
        BY <2>3, <3>1, <3>3, <4>1 DEF BufferToTexture
      <4> DEFINE v4 == Release(v3, b)
                 r4 == [r2 EXCEPT !.copied = TRUE]
      <4>3. v3.buffer[b] = "held"
        BY <2>5, <4>1
      <4> HIDE DEF b, c, r
      <4>4. /\ v4 \in WorldType /\ v4.stray = v3.stray /\ v4.output = v3.output
            /\ v4.feedback = v3.feedback /\ v4.surface = v3.surface
            /\ v4.buffer = [v3.buffer EXCEPT ![b] = "free"]
        BY <2>5, <4>1, <4>3, ReleaseOK
      <4> HIDE DEF v4
      <4>5. /\ r4 \in SurfaceType /\ r4.exists = r.exists /\ r4.pending = None
            /\ r4.current = b /\ r4.copied
        BY <2>3 DEF SurfaceType
      <4>6. u = [v4 EXCEPT !.surface[s] = r4]
        <5>1. v4.surface[s] = r2
          BY <3>1, <4>4
        <5>2. [v4 EXCEPT !.surface[s].copied = TRUE] = [v4 EXCEPT !.surface[s] = r4]
          BY <4>4, <5>1 DEF WorldType
        <5> HIDE DEF u, r4
        <5> QED  BY <4>2, <5>2 DEF v4
      <4> HIDE DEF u, r4
      <4>7. /\ u \in WorldType /\ u.stray = w.stray /\ u.output = w.output /\ u.feedback = w.feedback
            /\ u.buffer = v4.buffer
            /\ \A t \in Surfaces : u.surface[t] = IF t = s THEN r4 ELSE v4.surface[t]
        BY <2>5, <4>4, <4>5, <4>6, PutSurface
      <4>8. v3.buffer \in [Buffers -> BufferStates]
        BY <2>5, TypeFacts
      <4>9. \A x \in Buffers : u.buffer[x] = IF x = b THEN "free" ELSE v1.buffer[x]
        BY <2>5, <4>4, <4>7, <4>8
      <4> QED  BY <2>2, <2>4, <2>5, <3>3, <4>4, <4>5, <4>7, <4>9
    <3> QED  BY <3>2, <3>3
  <2> HIDE DEF u
  <2>7. IdleOK(u) /\ SlotSurfaceOK(u)
    <3>1. \A t \in Surfaces : w.surface[t].exists => u.surface[t].exists
      BY <2>6
    <3>2. SlotSurfaceOK(u)
      BY <2>6, <3>1, SlotSurfaceKept
    <3>3. IdleOK(w)
      BY DEF WorldOK, BuffersOK
    <3>4. ASSUME NEW t \in Surfaces
          PROVE  /\ ~u.surface[t].exists => u.surface[t].pending = None /\ u.surface[t].current = None
                 /\ u.surface[t].current \in Copied => u.surface[t].copied
      <4>1. CASE t = s
        BY <2>6, <4>1
      <4>2. CASE t # s
        BY <2>6, <3>3, <4>2 DEF IdleOK
      <4> QED  BY <4>1, <4>2
    <3> QED  BY <2>6, <3>2, <3>3, <3>4 DEF IdleOK
  <2>8. ASSUME NEW x \in Buffers PROVE BufferOK(u, x)
    <3>1. BufferOK(w, x)
      BY DEF WorldOK, BuffersOK
    <3>2. \A t \in Surfaces : Owns(u.surface[t], x) => Owns(w.surface[t], x)
      BY <2>6 DEF Owns
    <3>3. \A t \in Surfaces : Owns(u.surface[t], x) => u.buffer[x] # "none"
      BY <2>6, <3>1, <3>2 DEF BufferOK
    <3>4. CASE x \in Copied
      <4>1. replaced => c # x
        BY <3>4 DEF replaced
      <4> QED  BY <2>6, <3>1, <3>3, <3>4, <4>1 DEF BufferOK, CopiedOK
    <3>5. CASE x \notin Copied
      <4>0. OwnerOK(w, x) /\ (Shown(w, x) => w.buffer[x] = "held")
        BY <3>1, <3>5 DEF BufferOK, HeldOK
      <4>1. OwnerOK(u, x)
        BY <2>6, <3>2, <4>0, OwnerKept
      <4>2. Shown(u, x) => u.buffer[x] = "held"
        <5>1. CASE x = b
          BY <2>6, <3>5, <5>1 DEF Shown
        <5>2. CASE x # b /\ x = c
          <6>1. \A t \in Surfaces : t # s => w.surface[t].current # x
            BY <4>0, <5>2 DEF OwnerOK, Owns
          <6>2. Shown(u, x) <=> \E o \in Outputs, i \in 1..2 : w.output[o].slots[i].buffer = x
            BY <2>6, <5>2, <6>1 DEF Shown
          <6>3. w.buffer[x] = "held"
            BY <4>0, <5>2 DEF Shown
          <6>4. replaced <=> x \notin Scanned(w.output)
            BY <3>5, <5>2 DEF replaced
          <6>5. x \in Scanned(w.output) <=> \E o \in Outputs, i \in 1..2 : w.output[o].slots[i].buffer = x
            BY <1>1, ScannedOK
          <6> QED  BY <2>6, <5>2, <6>2, <6>3, <6>4, <6>5
        <5>3. CASE x # b /\ x # c
          <6>1. Shown(u, x) <=> Shown(w, x)
            BY <2>6, <5>3 DEF Shown
          <6> QED  BY <2>6, <4>0, <5>3, <6>1
        <5> QED  BY <5>1, <5>2, <5>3
      <4> QED  BY <3>3, <3>5, <4>1, <4>2 DEF BufferOK, HeldOK
    <3> QED  BY <3>4, <3>5
  <2>9. \A f \in Feedbacks : FeedbackOK(u, f)
    BY <2>6, FeedbackKept
  <2>10. WorldOK(u)
    BY <2>6, <2>7, <2>8, <2>9 DEF WorldOK, BuffersOK
  <2>11. ASSUME NEW x \in Buffers, UsedIn(w, x), u.buffer[x] = "held"
         PROVE  UsedIn(u, x)
    <3>1. CASE x = b
      <4>1. x \notin Copied
        BY <2>6, <2>11, <3>1
      <4> QED  BY <2>6, <3>1, <4>1 DEF UsedIn
    <3>2. CASE x # b /\ x = c /\ x \notin Copied
      <4>1. x \in Scanned(w.output)
        <5>1. ~replaced
          BY <2>6, <2>11, <3>2
        <5> QED  BY <3>2, <5>1 DEF replaced
      <4>2. PICK o \in Outputs, i \in 1..2 : w.output[o].slots[i].buffer = x
        BY <1>1, <4>1, ScannedOK
      <4> QED  BY <2>6, <4>2 DEF UsedIn
    <3>3. CASE x # b /\ (x # c \/ x \in Copied)
      BY <2>6, <2>11, <3>3 DEF UsedIn
    <3> QED  BY <3>1, <3>2, <3>3
  <2> QED  BY <2>1, <2>6, <2>10, <2>11 DEF u
<1> QED  BY <1>3, <1>4

LEMMA CommitOK ==
  ASSUME IInv, NEW s \in Surfaces, Commit(s)
  PROVE  IInv' /\ stray' = {} /\ GivenBack
<1> DEFINE w == Numbered(World, s)
           u == BufferToTexture(Swap(w, s), s)
<1>1. surface[s].exists /\ Become(u) /\ World.surface[s].exists
  BY DEF Commit, World
<1>2. /\ WorldOK(w) /\ w.stray = {} /\ w.surface[s].exists
      /\ w.buffer = World.buffer /\ w.surface = World.surface /\ w.output = World.output
  BY <1>1, WorldIsOK, NumberedOK
<1> HIDE DEF w
<1>3. /\ WorldOK(u) /\ u.stray = {}
      /\ \A x \in Buffers : w.buffer[x] = "held" /\ UsedIn(w, x) => u.buffer[x] # "held" \/ UsedIn(u, x)
  BY <1>2, AppliedOK
<1> HIDE DEF u
<1>4. GivenBack
  <2>1. \A x \in Buffers : UsedIn(World, x) => UsedIn(w, x)
    BY <1>2 DEF UsedIn
  <2> QED  BY <1>1, <1>2, <1>3, <2>1, KeepsOK
<1> QED  BY <1>1, <1>3, <1>4, BecomeOK DEF Become

LEMMA CommitDeferredOK ==
  ASSUME IInv, NEW s \in Surfaces, CommitDeferred(s)
  PROVE  IInv' /\ stray' = {} /\ GivenBack
<1> USE NoneIsNone
<1> DEFINE w == World
           b == w.surface[s].pending
           u == [w EXCEPT !.buffer[b] = "held"]
<1>1. WorldOK(w) /\ w \in WorldType /\ w.stray = {} /\ b # None /\ Become(u)
  BY WorldIsOK DEF WorldOK, CommitDeferred, World
<1>2. b \in Buffers
  <2>1. w.surface[s] \in SurfaceType
    BY <1>1, TypeFacts
  <2> QED  BY <1>1, <2>1 DEF SurfaceType, BufferRefs
<1> HIDE DEF w, b
<1>3. /\ u \in WorldType /\ u.stray = {} /\ u.surface = w.surface /\ u.output = w.output
      /\ u.feedback = w.feedback
      /\ \A x \in Buffers : u.buffer[x] = IF x = b THEN "held" ELSE w.buffer[x]
  BY <1>1, <1>2 DEF WorldType, BufferStates
<1> HIDE DEF u
<1>4. IdleOK(u) /\ SlotSurfaceOK(u)
  BY <1>1, <1>3 DEF WorldOK, BuffersOK, IdleOK, SlotSurfaceOK
<1>5. ASSUME NEW x \in Buffers PROVE BufferOK(u, x)
  <2>1. BufferOK(w, x)
    BY <1>1 DEF WorldOK, BuffersOK
  <2>2. CASE x \in Copied
    BY <1>3, <2>1, <2>2 DEF BufferOK, CopiedOK
  <2>3. CASE x \notin Copied
    <3>1. OwnerOK(u, x)
      BY <1>3, <2>1, <2>3, OwnerKept DEF BufferOK, HeldOK
    <3>2. Shown(u, x) <=> Shown(w, x)
      BY <1>3 DEF Shown
    <3> QED  BY <1>3, <2>1, <2>3, <3>1, <3>2 DEF BufferOK, HeldOK
  <2> QED  BY <2>2, <2>3
<1>6. \A f \in Feedbacks : FeedbackOK(u, f)
  BY <1>1, <1>3, FeedbackKept
<1>7. WorldOK(u)
  BY <1>3, <1>4, <1>5, <1>6 DEF WorldOK, BuffersOK
<1>8. GivenBack
  <2>1. \A o \in Outputs, i \in 1..2 : u.output[o].slots[i].buffer = World.output[o].slots[i].buffer
    BY <1>3 DEF w
  <2> QED  BY <1>1, <1>3, <2>1, KeepsSame DEF w
<1> QED  BY <1>1, <1>3, <1>7, <1>8, BecomeOK DEF Become

(* An output is replaced. *)
LEMMA PutOutput ==
  ASSUME NEW w \in WorldType, NEW o \in Outputs, NEW r \in OutputType
  PROVE  LET u == [w EXCEPT !.output[o] = r] IN
         /\ u \in WorldType /\ u.buffer = w.buffer /\ u.stray = w.stray /\ u.surface = w.surface
         /\ u.feedback = w.feedback
         /\ \A p \in Outputs : u.output[p] = IF p = o THEN r ELSE w.output[p]
BY DEF WorldType

(* The buffer of the frame becomes the one of the frame before. *)
Shifted(w, o, flip) ==
  [w EXCEPT !.output[o].slots = <<NoSlot, w.output[o].slots[1]>>, !.output[o].flip = flip]

LEMMA ShiftedOK ==
  ASSUME NEW w, WorldOK(w), NEW o \in Outputs, w.output[o].slots[2] = NoSlot, w.output[o].on,
         NEW flip \in {"none", "awaited", "done"}
  PROVE  LET u == Shifted(w, o, flip)
         IN  /\ WorldOK(u) /\ u.stray = w.stray /\ u.surface = w.surface
             /\ u.output[o].on /\ u.output[o].slots[1] = NoSlot
             /\ u.buffer = w.buffer /\ \A x \in Buffers : UsedIn(w, x) => UsedIn(u, x)
<1> USE NoneIsNone
<1> DEFINE r == [w.output[o] EXCEPT !.slots = <<NoSlot, w.output[o].slots[1]>>, !.flip = flip]
           u == Shifted(w, o, flip)
<1>1. /\ w \in WorldType /\ w.output[o] \in OutputType /\ w.output[o].slots[1] \in SlotType
      /\ w.output \in [Outputs -> OutputType]
  <2>1. w \in WorldType
    BY DEF WorldOK
  <2> QED  BY <2>1, TypeFacts
<1>2. /\ r \in OutputType /\ r.on = w.output[o].on
      /\ r.slots[1] = NoSlot /\ r.slots[2] = w.output[o].slots[1]
  <2> DEFINE slots == <<NoSlot, w.output[o].slots[1]>>
  <2>1. slots \in [1..2 -> SlotType] /\ slots[1] = NoSlot /\ slots[2] = w.output[o].slots[1]
    BY <1>1, Constants
  <2>2. r = [w.output[o] EXCEPT !.slots = slots, !.flip = flip]
    OBVIOUS
  <2> HIDE DEF r, slots
  <2> QED  BY <1>1, <2>1, <2>2 DEF OutputType
<1>3. u = [w EXCEPT !.output[o] = r]
  BY <1>1 DEF WorldType, OutputType, Shifted
<1> HIDE DEF r, u
<1>4. /\ u \in WorldType /\ u.buffer = w.buffer /\ u.stray = w.stray /\ u.surface = w.surface
      /\ u.feedback = w.feedback
      /\ \A p \in Outputs : u.output[p] = IF p = o THEN r ELSE w.output[p]
  BY <1>1, <1>2, <1>3, PutOutput
<1>5. /\ \A p \in Outputs, i \in 1..2 : p # o => u.output[p].slots[i] = w.output[p].slots[i]
      /\ u.output[o].slots[1] = NoSlot /\ u.output[o].slots[2] = w.output[o].slots[1]
      /\ u.output[o].on /\ \A p \in Outputs : u.output[p].on = w.output[p].on
  BY <1>2, <1>4
<1>6. IdleOK(u)
  BY <1>4, <1>5 DEF WorldOK, BuffersOK, IdleOK
<1> DEFINE before(i) == IF i = 2 THEN 1 ELSE 2
<1>7. \A p \in Outputs, i \in 1..2 :
        u.output[p].slots[i] = IF p = o THEN w.output[p].slots[before(i)] ELSE w.output[p].slots[i]
  BY <1>5
<1>8. \A i \in 1..2 : before(i) \in 1..2
  OBVIOUS
<1> HIDE DEF before
<1>9. SlotSurfaceOK(u)
  <2> SUFFICES ASSUME NEW p \in Outputs, NEW i \in 1..2, u.output[p].slots[i].surface # None
               PROVE  u.surface[u.output[p].slots[i].surface].exists
    BY DEF SlotSurfaceOK
  <2>1. PICK k \in 1..2 : u.output[p].slots[i] = w.output[p].slots[k]
    BY <1>7, <1>8
  <2>2. w.surface[w.output[p].slots[k].surface].exists
    BY <2>1 DEF WorldOK, BuffersOK, SlotSurfaceOK
  <2> QED  BY <1>4, <2>1, <2>2
<1>10. ASSUME NEW x \in Buffers PROVE BufferOK(u, x)
  <2>1. BufferOK(w, x)
    BY DEF WorldOK, BuffersOK
  <2>2. CASE x \in Copied
    BY <1>4, <1>7, <1>8, <2>1, <2>2 DEF BufferOK, CopiedOK
  <2>3. CASE x \notin Copied
    <3>1. OwnerOK(w, x) /\ (Shown(w, x) => w.buffer[x] = "held")
      BY <2>1, <2>3 DEF BufferOK, HeldOK
    <3>2. ASSUME NEW s \in Surfaces, NEW p \in Outputs, NEW i \in 1..2,
                 Owns(u.surface[s], x), u.output[p].slots[i].buffer = x
          PROVE  u.output[p].slots[i].surface = s
      BY <1>4, <1>7, <1>8, <3>1, <3>2, SMTT(20) DEF OwnerOK
    <3>3. ASSUME NEW p \in Outputs, NEW q \in Outputs, NEW i \in 1..2, NEW j \in 1..2,
                 u.output[p].slots[i].buffer = x, u.output[q].slots[j].buffer = x
          PROVE  u.output[p].slots[i].surface = u.output[q].slots[j].surface
      <4>1. PICK k \in 1..2 : u.output[p].slots[i] = w.output[p].slots[k]
        BY <1>7, <1>8
      <4>2. PICK l \in 1..2 : u.output[q].slots[j] = w.output[q].slots[l]
        BY <1>7, <1>8
      <4>3. w.output[p].slots[k].buffer = x /\ w.output[q].slots[l].buffer = x
        BY <3>3, <4>1, <4>2
      <4>4. w.output[p].slots[k].surface = w.output[q].slots[l].surface
        BY <3>1, <4>3 DEF OwnerOK
      <4> QED  BY <4>1, <4>2, <4>4
    <3>4. \A s, t \in Surfaces : Owns(u.surface[s], x) /\ Owns(u.surface[t], x) => s = t
      BY <1>4, <3>1 DEF OwnerOK
    <3>5. OwnerOK(u, x)
      BY <3>2, <3>3, <3>4 DEF OwnerOK
    <3>6. Shown(u, x) => Shown(w, x)
      BY <1>4, <1>7, <1>8 DEF Shown
    <3> QED  BY <1>4, <2>1, <2>3, <3>1, <3>5, <3>6 DEF BufferOK, HeldOK
  <2> QED  BY <2>2, <2>3
<1>11. \A f \in Feedbacks : FeedbackOK(u, f)
  BY <1>4, FeedbackKept
<1>12. WorldOK(u)
  BY <1>4, <1>6, <1>9, <1>10, <1>11 DEF WorldOK, BuffersOK
<1>13. ASSUME NEW x \in Buffers, UsedIn(w, x) PROVE UsedIn(u, x)
  <2>1. ASSUME NEW p \in Outputs, NEW i \in 1..2, w.output[p].slots[i].buffer = x
        PROVE  \E j \in 1..2 : u.output[p].slots[j].buffer = x
    <3>1. CASE p # o
      BY <1>5, <2>1, <3>1
    <3>2. CASE p = o
      BY <1>5, <2>1, <3>2, NoSlotSlots
    <3> QED  BY <3>1, <3>2
  <2> QED  BY <1>4, <1>13, <2>1 DEF UsedIn
<1> QED  BY <1>4, <1>5, <1>12, <1>13 DEF u

(* The buffer of a surface, that is held, is put into a slot that is empty. *)
LEMMA SetCustomScanoutBufferOK ==
  ASSUME NEW w, WorldOK(w), NEW o \in Outputs, NEW s \in Surfaces,
         w.output[o].on, w.output[o].slots[1] = NoSlot, w.surface[s].current \in Buffers \ Copied
  PROVE  /\ WorldOK(SetCustomScanoutBuffer(w, o, s))
         /\ SetCustomScanoutBuffer(w, o, s).stray = w.stray
         /\ SetCustomScanoutBuffer(w, o, s).buffer = w.buffer
         /\ \A x \in Buffers : UsedIn(w, x) => UsedIn(SetCustomScanoutBuffer(w, o, s), x)
<1> USE NoneIsNone
<1> DEFINE v == RequestNextFrame(w, {s}, o)
           b == w.surface[s].current
           slot == [buffer |-> b, surface |-> s]
           u == [v EXCEPT !.output[o].slots[1] = slot]
           r == [v.output[o] EXCEPT !.slots[1] = slot]
<1>1. SetCustomScanoutBuffer(w, o, s) = u
  BY DEF SetCustomScanoutBuffer
<1>2. /\ WorldOK(v) /\ v.stray = w.stray /\ v.surface = w.surface /\ v.output = w.output
      /\ v.buffer = w.buffer
  BY RequestNextFrameOK DEF OutputRefs
<1>3. v \in WorldType /\ v.surface[s].current = b /\ v.output[o].on /\ v.output[o].slots[1] = NoSlot
  BY <1>2 DEF WorldOK
<1> HIDE DEF v
<1>4. v.surface[s].exists
  BY <1>2, <1>3 DEF WorldOK, BuffersOK, IdleOK
<1>5. v.output \in [Outputs -> OutputType] /\ v.output[o] \in OutputType
      /\ v.output[o].slots \in [1..2 -> SlotType]
  BY <1>3, TypeFacts
<1>6. slot \in SlotType /\ slot.buffer = b /\ slot.surface = s
  BY <1>3 DEF SlotType, BufferRefs, SurfaceRefs
<1> HIDE DEF slot, b
<1>7. /\ r \in OutputType /\ r.on = v.output[o].on
      /\ r.slots[1] = slot /\ r.slots[2] = v.output[o].slots[2]
  BY <1>5, <1>6 DEF OutputType
<1>8. u = [v EXCEPT !.output[o] = r]
  BY <1>3, <1>5 DEF WorldType, OutputType
<1> HIDE DEF u, r
<1>9. /\ u \in WorldType /\ u.buffer = v.buffer /\ u.stray = v.stray /\ u.surface = v.surface
      /\ u.feedback = v.feedback
      /\ \A p \in Outputs : u.output[p] = IF p = o THEN r ELSE v.output[p]
  BY <1>3, <1>7, <1>8, PutOutput
<1>10. /\ \A p \in Outputs, i \in 1..2 :
             u.output[p].slots[i] = IF <<p, i>> = <<o, 1>> THEN slot ELSE v.output[p].slots[i]
       /\ \A p \in Outputs : u.output[p].on = v.output[p].on
  BY <1>7, <1>9
<1>11. IdleOK(u)
  <2>1. IdleOK(v)
    BY <1>2 DEF WorldOK, BuffersOK
  <2> QED  BY <1>3, <1>9, <1>10, <2>1 DEF IdleOK
<1>12. SlotSurfaceOK(u)
  BY <1>2, <1>4, <1>6, <1>9, <1>10, SMTT(20) DEF WorldOK, BuffersOK, SlotSurfaceOK
<1>13. ASSUME NEW x \in Buffers PROVE BufferOK(u, x)
  <2>1. BufferOK(v, x)
    BY <1>2 DEF WorldOK, BuffersOK
  <2>2. b \in Buffers \ Copied
    BY DEF b
  <2>3. CASE x \in Copied
    BY <1>6, <1>9, <1>10, <2>1, <2>2, <2>3 DEF BufferOK, CopiedOK
  <2>4. CASE x \notin Copied
    <3>1. OwnerOK(v, x) /\ (Shown(v, x) => v.buffer[x] = "held")
      BY <2>1, <2>4 DEF BufferOK, HeldOK
    <3>2. x = b => Owns(v.surface[s], x)
      BY <1>3 DEF Owns
    <3>3. \A p \in Outputs, i \in 1..2 : u.output[p].slots[i].buffer = x =>
            \/ u.output[p].slots[i] = v.output[p].slots[i]
            \/ x = b /\ u.output[p].slots[i].surface = s
      BY <1>6, <1>10
    <3>4. \A p \in Outputs, i \in 1..2 : x = b /\ v.output[p].slots[i].buffer = x
            => v.output[p].slots[i].surface = s
      BY <3>1, <3>2 DEF OwnerOK
    <3>5. ASSUME NEW t \in Surfaces, NEW p \in Outputs, NEW i \in 1..2,
                 Owns(u.surface[t], x), u.output[p].slots[i].buffer = x
          PROVE  u.output[p].slots[i].surface = t
      <4>1. CASE u.output[p].slots[i] = v.output[p].slots[i]
        BY <1>9, <3>1, <3>5, <4>1 DEF OwnerOK
      <4>2. CASE x = b /\ u.output[p].slots[i].surface = s
        BY <1>9, <3>1, <3>2, <3>5, <4>2 DEF OwnerOK
      <4> QED  BY <3>3, <3>5, <4>1, <4>2
    <3>6. ASSUME NEW p \in Outputs, NEW q \in Outputs, NEW i \in 1..2, NEW j \in 1..2,
                 u.output[p].slots[i].buffer = x, u.output[q].slots[j].buffer = x
          PROVE  u.output[p].slots[i].surface = u.output[q].slots[j].surface
      <4>1. CASE x = b
        BY <3>3, <3>4, <3>6, <4>1, Zenon
      <4>2. CASE x # b
        <5>1. u.output[p].slots[i] = v.output[p].slots[i] /\ u.output[q].slots[j] = v.output[q].slots[j]
          BY <3>3, <3>6, <4>2
        <5>2. v.output[p].slots[i].surface = v.output[q].slots[j].surface
          BY <3>1, <3>6, <5>1 DEF OwnerOK
        <5> QED  BY <5>1, <5>2
      <4> QED  BY <4>1, <4>2
    <3>7. \A t, p \in Surfaces : Owns(u.surface[t], x) /\ Owns(u.surface[p], x) => t = p
      BY <1>9, <3>1 DEF OwnerOK
    <3>8. OwnerOK(u, x)
      BY <3>5, <3>6, <3>7 DEF OwnerOK
    <3>9. Shown(u, x) <=> Shown(v, x)
      <4>1. CASE x = b
        BY <1>3, <1>9, <4>1 DEF Shown
      <4>2. CASE x # b
        <5>1. \A p \in Outputs, i \in 1..2 :
                u.output[p].slots[i].buffer = x <=> v.output[p].slots[i].buffer = x
          BY <1>3, <1>6, <1>10, <4>2, NoSlotSlots
        <5> QED  BY <1>9, <5>1 DEF Shown
      <4> QED  BY <4>1, <4>2
    <3> QED  BY <1>9, <2>1, <2>4, <3>1, <3>8, <3>9 DEF BufferOK, HeldOK
  <2> QED  BY <2>3, <2>4
<1>14. \A f \in Feedbacks : FeedbackOK(u, f)
  BY <1>2, <1>9, FeedbackKept
<1>15. WorldOK(u)
  BY <1>9, <1>11, <1>12, <1>13, <1>14 DEF WorldOK, BuffersOK
<1>16. ASSUME NEW x \in Buffers, UsedIn(w, x) PROVE UsedIn(u, x)
  <2>1. \A p \in Outputs, i \in 1..2 :
          w.output[p].slots[i].buffer = x => u.output[p].slots[i].buffer = x
    BY <1>2, <1>3, <1>10, NoSlotSlots
  <2> QED  BY <1>2, <1>9, <1>16, <2>1 DEF UsedIn
<1> QED  BY <1>1, <1>2, <1>9, <1>15, <1>16

LEMMA OrdersOK == \A order \in Orders : \E n : order \in [1..n -> Outputs]
<1> SUFFICES ASSUME NEW order \in Orders PROVE \E n : order \in [1..n -> Outputs]
  OBVIOUS
<1> DEFINE flipped == {o \in Outputs : output[o].on /\ output[o].flip = "done"}
           n == Cardinality(flipped)
<1>1. order \in [1..n -> flipped]
  BY DEF Orders
<1> HIDE DEF n
<1>2. order \in [1..n -> Outputs]
  BY <1>1
<1> QED  BY <1>2

LEMMA TickOK ==
  ASSUME IInv, Tick
  PROVE  IInv' /\ stray' = {} /\ GivenBack
<1>1. PICK order \in Orders : Become(SendPresentationTime(World, order))
  BY DEF Tick
<1>2. PICK n : order \in [1..n -> Outputs]
  BY OrdersOK
<1> DEFINE u == SendPresentationTime(World, order)
<1>3. /\ WorldOK(u) /\ u.stray = {}
      /\ u.surface = World.surface /\ u.output = World.output
  BY <1>2, WorldIsOK, SendPresentationTimeOK
<1> HIDE DEF u
<1> QED  BY <1>1, <1>3, BecomeOK, KeepsSame DEF Become, u

LEMMA PaintOK ==
  ASSUME IInv, NEW o \in Outputs, Paint(o)
  PROVE  IInv' /\ stray' = {} /\ GivenBack
<1>1. PICK order \in Orders, shown \in SUBSET Surfaces, s \in Surfaces \cup {None} :
        LET told == SendPresentationTime(World, order)
            returned == ReleaseScanoutBuffer(told, o, 2)
            shifted == [returned EXCEPT !.output[o].slots = <<NoSlot, @[1]>>,
                                        !.output[o].flip = IF @ = "none" THEN "awaited" ELSE @]
            painted == RequestNextFrame(shifted, shown, o)
        IN /\ output[o].on
           /\ \A t \in shown : surface[t].exists
           /\ \/ s = None /\ Become(painted)
              \/ /\ s # None /\ surface[s].current \in Buffers \ Copied
                 /\ Become(SetCustomScanoutBuffer(painted, o, s))
  BY DEF Paint
<1>2. PICK n : order \in [1..n -> Outputs]
  BY OrdersOK
<1> DEFINE told == SendPresentationTime(World, order)
           returned == ReleaseScanoutBuffer(told, o, 2)
           before == returned.output[o]
           flip == IF before.flip = "none" THEN "awaited" ELSE before.flip
           shifted == Shifted(returned, o, flip)
           painted == RequestNextFrame(shifted, shown, o)
           u == IF s = None THEN painted ELSE SetCustomScanoutBuffer(painted, o, s)
<1>3. /\ WorldOK(told) /\ told.stray = {} /\ told.surface = surface /\ told.output = output
      /\ told.buffer = buffer
  BY <1>2, WorldIsOK, SendPresentationTimeOK DEF World
<1> HIDE DEF told
<1>4. /\ WorldOK(returned) /\ returned.stray = {} /\ returned.surface = surface
      /\ returned.output = [output EXCEPT ![o].slots[2] = NoSlot]
      /\ \A x \in Buffers : told.buffer[x] = "held" /\ UsedIn(told, x)
           => returned.buffer[x] # "held" \/ UsedIn(returned, x)
  BY <1>3, ReleaseScanoutBufferOK
<1>5. told.output \in [Outputs -> OutputType] /\ output[o].slots \in [1..2 -> SlotType]
      /\ output[o] \in OutputType
  BY <1>3, TypeFacts DEF WorldOK
<1>6. returned \in WorldType /\ returned.output \in [Outputs -> OutputType] /\ before \in OutputType
      /\ before.slots \in [1..2 -> SlotType]
  BY <1>4, TypeFacts DEF WorldOK
<1>7. before.on /\ before.slots[2] = NoSlot
  <2>1. output[o].on
    BY <1>1
  <2>2. output \in [Outputs -> OutputType]
    BY <1>3, <1>5
  <2>3. before = [output[o] EXCEPT !.slots[2] = NoSlot]
    BY <1>4, <2>2
  <2> HIDE DEF before
  <2> QED  BY <1>5, <2>1, <2>3 DEF OutputType
<1>8. shifted = [returned EXCEPT !.output[o].slots = <<NoSlot, @[1]>>,
                                 !.output[o].flip = IF @ = "none" THEN "awaited" ELSE @]
  BY <1>6 DEF WorldType, OutputType, Shifted
<1>9. Become(u) /\ (s # None => surface[s].current \in Buffers \ Copied)
  BY <1>1, <1>8 DEF told
<1> HIDE DEF returned
<1>10. flip \in {"none", "awaited", "done"}
  BY <1>6 DEF OutputType
<1> HIDE DEF flip
<1>11. /\ WorldOK(shifted) /\ shifted.stray = {} /\ shifted.surface = surface
       /\ shifted.output[o].on /\ shifted.output[o].slots[1] = NoSlot
       /\ shifted.buffer = returned.buffer
       /\ \A x \in Buffers : UsedIn(returned, x) => UsedIn(shifted, x)
  <2>1. returned.output[o].slots[2] = NoSlot /\ returned.output[o].on
    BY <1>7
  <2>2. /\ WorldOK(shifted) /\ shifted.stray = returned.stray /\ shifted.surface = returned.surface
        /\ shifted.output[o].on /\ shifted.output[o].slots[1] = NoSlot
        /\ shifted.buffer = returned.buffer
        /\ \A x \in Buffers : UsedIn(returned, x) => UsedIn(shifted, x)
    <3>1. WorldOK(returned)
      BY <1>4
    <3> HIDE DEF before
    <3> QED  BY <1>10, <2>1, <3>1, ShiftedOK, Zenon
  <2> HIDE DEF shifted
  <2> QED  BY <1>4, <2>2
<1> HIDE DEF shifted
<1>12. /\ WorldOK(painted) /\ painted.stray = {} /\ painted.surface = surface
       /\ painted.output[o].on /\ painted.output[o].slots[1] = NoSlot
       /\ painted.output = shifted.output /\ painted.buffer = shifted.buffer
  BY <1>11, RequestNextFrameOK DEF OutputRefs
<1> HIDE DEF painted
<1>13. /\ WorldOK(u) /\ u.stray = {} /\ u.buffer = painted.buffer
       /\ \A x \in Buffers : UsedIn(painted, x) => UsedIn(u, x)
  BY <1>9, <1>12, SetCustomScanoutBufferOK
<1> HIDE DEF u
<1>14. GivenBack
  <2>1. \A x \in Buffers : UsedIn(World, x) => UsedIn(told, x)
    BY <1>3 DEF UsedIn, World
  <2>2. \A x \in Buffers : UsedIn(shifted, x) => UsedIn(painted, x)
    BY <1>11, <1>12 DEF UsedIn
  <2>3. \A x \in Buffers : World.buffer[x] = told.buffer[x]
    BY <1>3 DEF World
  <2> QED  BY <1>4, <1>9, <1>11, <1>12, <1>13, <2>1, <2>2, <2>3, KeepsOK
<1> QED  BY <1>9, <1>13, <1>14, BecomeOK DEF Become

LEMMA NextFrameOutsideOK ==
  ASSUME IInv, NEW s \in Surfaces, NextFrameOutside(s)
  PROVE  IInv' /\ stray' = {} /\ GivenBack
<1> DEFINE u == RequestNextFrame(World, {s}, None)
<1>1. Become(u)
  BY DEF NextFrameOutside
<1>2. /\ WorldOK(u) /\ u.stray = {}
      /\ u.surface = World.surface /\ u.output = World.output
  BY WorldIsOK, RequestNextFrameOK DEF OutputRefs
<1> HIDE DEF u
<1> QED  BY <1>1, <1>2, BecomeOK, KeepsSame DEF Become

LEMMA PageFlipOK ==
  ASSUME IInv, NEW o \in Outputs, PageFlip(o)
  PROVE  IInv' /\ stray' = {} /\ GivenBack
<1> DEFINE w == World
           r == [w.output[o] EXCEPT !.flip = "done"]
           u == [w EXCEPT !.output[o] = r]
<1>1. WorldOK(w) /\ w \in WorldType /\ w.stray = {} /\ Become([w EXCEPT !.output[o].flip = "done"])
  BY WorldIsOK DEF WorldOK, PageFlip, World
<1> HIDE DEF w
<1>2. /\ w.output[o] \in OutputType /\ r \in OutputType
      /\ r.slots = w.output[o].slots /\ r.on = w.output[o].on
  BY <1>1, TypeFacts DEF OutputType
<1>3. Become(u)
  <2>1. [w EXCEPT !.output[o].flip = "done"] = u
    BY <1>1, <1>2 DEF WorldType, OutputType
  <2> QED  BY <1>1, <2>1
<1> HIDE DEF r, u
<1>4. /\ u \in WorldType /\ u.buffer = w.buffer /\ u.stray = {} /\ u.surface = w.surface
      /\ u.feedback = w.feedback
      /\ \A p \in Outputs : u.output[p] = IF p = o THEN r ELSE w.output[p]
  BY <1>1, <1>2, PutOutput DEF u
<1>5. \A f \in Feedbacks : FeedbackOK(u, f)
  BY <1>1, <1>4, FeedbackKept
<1>6. \A p \in Outputs : u.output[p].slots = w.output[p].slots /\ u.output[p].on = w.output[p].on
  BY <1>2, <1>4
<1>7. \A p \in Outputs, i \in 1..2 : ~u.output[p].on => u.output[p].slots[i] = NoSlot
  BY <1>1, <1>6 DEF WorldOK, BuffersOK, IdleOK
<1>8. WorldOK(u)
  BY <1>1, <1>4, <1>5, <1>6, <1>7, SameSlots
<1>9. GivenBack
  BY <1>3, <1>4, <1>6, KeepsSame DEF w
<1> QED  BY <1>3, <1>4, <1>8, <1>9, BecomeOK DEF Become

LEMMA InitializeOK ==
  ASSUME IInv, NEW o \in Outputs, Initialize(o)
  PROVE  IInv' /\ stray' = {} /\ GivenBack
<1> DEFINE w == World
           r == [w.output[o] EXCEPT !.on = TRUE]
           u == [w EXCEPT !.output[o] = r]
<1>1. WorldOK(w) /\ w \in WorldType /\ w.stray = {} /\ Become([w EXCEPT !.output[o].on = TRUE])
  BY WorldIsOK DEF WorldOK, Initialize, World
<1> HIDE DEF w
<1>2. w.output[o] \in OutputType /\ r \in OutputType /\ r.slots = w.output[o].slots /\ r.on
  BY <1>1, TypeFacts DEF OutputType
<1>3. Become(u)
  <2>1. [w EXCEPT !.output[o].on = TRUE] = u
    BY <1>1, <1>2 DEF WorldType, OutputType
  <2> QED  BY <1>1, <2>1
<1> HIDE DEF r, u
<1>4. /\ u \in WorldType /\ u.buffer = w.buffer /\ u.stray = {} /\ u.surface = w.surface
      /\ u.feedback = w.feedback
      /\ \A p \in Outputs : u.output[p] = IF p = o THEN r ELSE w.output[p]
  BY <1>1, <1>2, PutOutput DEF u
<1>5. \A f \in Feedbacks : FeedbackOK(u, f)
  BY <1>1, <1>4, FeedbackKept
<1>6. \A p \in Outputs : /\ u.output[p].slots = w.output[p].slots
                         /\ ~u.output[p].on => ~w.output[p].on
  BY <1>2, <1>4
<1>7. \A p \in Outputs, i \in 1..2 : ~u.output[p].on => u.output[p].slots[i] = NoSlot
  BY <1>1, <1>6 DEF WorldOK, BuffersOK, IdleOK
<1>8. WorldOK(u)
  BY <1>1, <1>4, <1>5, <1>6, <1>7, SameSlots
<1>9. GivenBack
  BY <1>3, <1>4, <1>6, KeepsSame DEF w
<1> QED  BY <1>3, <1>4, <1>8, <1>9, BecomeOK DEF Become

LEMMA DeleteOutputOK ==
  ASSUME IInv, NEW o \in Outputs, DeleteOutput(o)
  PROVE  IInv' /\ stray' = {} /\ GivenBack
<1> DEFINE w == World
           fs == [f \in Feedbacks |-> IF w.feedback[f].output = o
                                      THEN [w.feedback[f] EXCEPT !.output = None] ELSE w.feedback[f]]
           v == [w EXCEPT !.feedback = fs]
           u == [v EXCEPT !.output[o] = NoOutput]
<1>1. WorldOK(w) /\ w \in WorldType /\ w.stray = {} /\ ~w.output[o].on
      /\ Become([w EXCEPT !.output[o] = NoOutput, !.feedback = fs])
  BY WorldIsOK DEF WorldOK, DeleteOutput, World
<1> HIDE DEF w
<1>2. ASSUME NEW f \in Feedbacks
      PROVE  fs[f] \in FeedbackType /\ FeedbackOK(v, f)
  <2>1. w.feedback[f] \in FeedbackType /\ FeedbackOK(w, f)
    BY <1>1, TypeFacts DEF WorldOK
  <2>2. /\ fs[f] \in FeedbackType /\ fs[f].surface = w.feedback[f].surface
        /\ fs[f].output \in {None, w.feedback[f].output} /\ fs[f].seen = w.feedback[f].seen
        /\ fs[f].answer = w.feedback[f].answer /\ fs[f].by = w.feedback[f].by
        /\ fs[f].zeroCopy = w.feedback[f].zeroCopy
    BY <2>1 DEF FeedbackType, OutputRefs
  <2>3. v.feedback[f] = fs[f] /\ v.surface = w.surface
    BY <1>1 DEF WorldType
  <2> HIDE DEF v, fs
  <2> QED  BY <2>1, <2>2, <2>3 DEF FeedbackOK
<1>3. fs \in [Feedbacks -> FeedbackType]
  BY <1>2
<1> HIDE DEF fs
<1>4. /\ WorldOK(v) /\ v \in WorldType /\ v.stray = {} /\ v.output = w.output
      /\ v.surface = w.surface
  <2>1. WorldOK(v)
    BY <1>1, <1>2, <1>3, OnlyFeedback
  <2> QED  BY <1>1, <2>1 DEF WorldOK, WorldType
<1>5. Become(u)
  <2>1. [w EXCEPT !.output[o] = NoOutput, !.feedback = fs] = u
    BY <1>1, <1>3 DEF WorldType
  <2> QED  BY <1>1, <2>1
<1> HIDE DEF u, v
<1>6. /\ u \in WorldType /\ u.buffer = v.buffer /\ u.stray = {} /\ u.surface = v.surface
      /\ u.feedback = v.feedback
      /\ \A p \in Outputs : u.output[p] = IF p = o THEN NoOutput ELSE v.output[p]
  BY <1>4, Constants, PutOutput DEF u
<1>7. \A f \in Feedbacks : FeedbackOK(u, f)
  BY <1>4, <1>6, FeedbackKept
<1>8. \A p \in Outputs, i \in 1..2 : ~v.output[p].on => v.output[p].slots[i] = NoSlot
  BY <1>4 DEF WorldOK, BuffersOK, IdleOK
<1>9. v.output[o].slots = <<NoSlot, NoSlot>> /\ NoOutput.slots = <<NoSlot, NoSlot>>
  <2>1. v.output[o].slots \in [1..2 -> SlotType]
    BY <1>4, TypeFacts
  <2>2. v.output[o].slots[1] = NoSlot /\ v.output[o].slots[2] = NoSlot
    BY <1>1, <1>4, <1>8
  <2> QED  BY <2>1, <2>2 DEF NoOutput
<1>10. \A p \in Outputs : u.output[p].slots = v.output[p].slots
  BY <1>6, <1>9
<1>11. \A p \in Outputs, i \in 1..2 : ~u.output[p].on => u.output[p].slots[i] = NoSlot
  BY <1>1, <1>4, <1>6, <1>8, <1>10
<1>12. WorldOK(u)
  BY <1>4, <1>6, <1>7, <1>10, <1>11, SameSlots
<1>13. GivenBack
  BY <1>4, <1>5, <1>6, <1>10, KeepsSame DEF w
<1> QED  BY <1>5, <1>6, <1>12, <1>13, BecomeOK DEF Become

(* One call of releaseScanoutBuffer(), whatever the other slot has *)
Kept(w, o, i) ==
  LET slot == w.output[o].slots[i]
      b == slot.buffer
  IN  \/ \E p \in Outputs \ {o} : b \in Held(w.output[p].slots)
      \/ slot.surface # None /\ w.surface[slot.surface].current = b
      \/ i = 2 /\ w.output[o].slots[1].buffer = b

LEMMA ReleaseScanoutBufferFacts ==
  ASSUME NEW w \in WorldType, NEW o \in Outputs, NEW i \in 1..2
  PROVE  LET u == ReleaseScanoutBuffer(w, o, i)
             b == w.output[o].slots[i].buffer
         IN  /\ u \in WorldType /\ u.surface = w.surface /\ u.feedback = w.feedback
             /\ u.output = [w.output EXCEPT ![o].slots[i] = NoSlot]
             /\ \A x \in Buffers : u.buffer[x] =
                  IF x = b /\ ~Kept(w, o, i) /\ w.buffer[x] = "held" THEN "free" ELSE w.buffer[x]
             /\ u.stray = IF b # None /\ ~Kept(w, o, i) /\ w.buffer[b] # "held"
                          THEN w.stray \cup {b} ELSE w.stray
<1> USE NoneIsNone
<1> DEFINE b == w.output[o].slots[i].buffer
           returned == IF b = None \/ Kept(w, o, i) THEN w ELSE Release(w, b)
           u == [returned EXCEPT !.output[o].slots[i] = NoSlot]
           r == [w.output[o] EXCEPT !.slots[i] = NoSlot]
<1>1. ReleaseScanoutBuffer(w, o, i) = u
  BY DEF ReleaseScanoutBuffer, Kept
<1>2. /\ w.output \in [Outputs -> OutputType] /\ w.output[o] \in OutputType
      /\ w.output[o].slots \in [1..2 -> SlotType] /\ w.buffer \in [Buffers -> BufferStates]
      /\ b \in BufferRefs
  <2>1. w.output[o].slots \in [1..2 -> SlotType]
    BY TypeFacts
  <2>2. b \in BufferRefs
    BY <2>1 DEF SlotType
  <2> QED  BY <2>1, <2>2, TypeFacts
<1> HIDE DEF b
<1>3. /\ returned \in WorldType
      /\ returned.surface = w.surface /\ returned.output = w.output /\ returned.feedback = w.feedback
      /\ \A x \in Buffers : returned.buffer[x] =
           IF x = b /\ ~Kept(w, o, i) /\ w.buffer[x] = "held" THEN "free" ELSE w.buffer[x]
      /\ returned.stray = IF b # None /\ ~Kept(w, o, i) /\ w.buffer[b] # "held"
                          THEN w.stray \cup {b} ELSE w.stray
  <2>1. CASE b = None \/ Kept(w, o, i)
    BY <2>1
  <2>2. CASE b # None /\ ~Kept(w, o, i) /\ w.buffer[b] = "held"
    <3>1. returned = Release(w, b) /\ b \in Buffers
      BY <1>2, <2>2 DEF BufferRefs
    <3> HIDE DEF returned
    <3>2. /\ returned \in WorldType /\ returned.buffer = [w.buffer EXCEPT ![b] = "free"]
          /\ returned.stray = w.stray /\ returned.surface = w.surface
          /\ returned.output = w.output /\ returned.feedback = w.feedback
      BY <2>2, <3>1, ReleaseOK
    <3> QED  BY <1>2, <2>2, <3>1, <3>2
  <2>3. CASE b # None /\ ~Kept(w, o, i) /\ w.buffer[b] # "held"
    <3>1. returned = [w EXCEPT !.stray = w.stray \cup {b}] /\ b \in Buffers
      BY <1>2, <2>3 DEF BufferRefs, Release
    <3> HIDE DEF returned
    <3>2. /\ returned \in WorldType /\ returned.buffer = w.buffer
          /\ returned.stray = w.stray \cup {b} /\ returned.surface = w.surface
          /\ returned.output = w.output /\ returned.feedback = w.feedback
      BY <3>1 DEF WorldType
    <3> QED  BY <2>3, <3>2
  <2> QED  BY <2>1, <2>2, <2>3
<1> HIDE DEF returned
<1>4. r \in OutputType
  BY <1>2, Constants DEF OutputType
<1>5. u = [returned EXCEPT !.output[o] = r]
  BY <1>2, <1>3 DEF WorldType, OutputType
<1>6. [w.output EXCEPT ![o] = r] = [w.output EXCEPT ![o].slots[i] = NoSlot]
  BY <1>2 DEF OutputType
<1> HIDE DEF u, r
<1>7. /\ u \in WorldType /\ u.buffer = returned.buffer /\ u.stray = returned.stray
      /\ u.surface = returned.surface /\ u.feedback = returned.feedback
      /\ u.output = [returned.output EXCEPT ![o] = r]
  BY <1>3, <1>4, <1>5 DEF WorldType
<1> QED  BY <1>1, <1>3, <1>6, <1>7 DEF b

(* releaseScanoutBuffer() of both slots: a buffer is given back once for each slot
   that has it, so a release is stray only if both have the same. *)
LEMMA UninitializeOK ==
  ASSUME IInv, NEW o \in Outputs, Uninitialize(o)
  PROVE  IInv' /\ ~output'[o].on /\ GivenBack
         /\ \A b \in stray' : \A i \in 1..2 : output[o].slots[i].buffer = b
<1> USE NoneIsNone
<1> DEFINE w == World
           v1 == ReleaseScanoutBuffer(w, o, 1)
           v2 == ReleaseScanoutBuffer(v1, o, 2)
           flip == IF v2.output[o].flip = "awaited" THEN "none" ELSE v2.output[o].flip
           r == [v2.output[o] EXCEPT !.on = FALSE, !.flip = flip]
           u == [v2 EXCEPT !.output[o] = r]
           b(i) == w.output[o].slots[i].buffer
           loose(x) == /\ \A p \in Outputs \ {o}, i \in 1..2 : w.output[p].slots[i].buffer # x
                       /\ \A s \in Surfaces : w.surface[s].current # x
<1>1. /\ WorldOK(w) /\ w \in WorldType /\ w.stray = {} /\ w.output = output
      /\ Become([v2 EXCEPT !.output[o].on = FALSE,
                            !.output[o].flip = IF @ = "awaited" THEN "none" ELSE @])
  <2>1. w.output = output
    BY DEF World
  <2> QED  BY <2>1, WorldIsOK DEF WorldOK, Uninitialize
<1> HIDE DEF w
<1>2. /\ w.output \in [Outputs -> OutputType] /\ w.output[o] \in OutputType
      /\ w.output[o].slots \in [1..2 -> SlotType]
  BY <1>1, TypeFacts
<1>3. /\ v1 \in WorldType /\ v1.surface = w.surface /\ v1.feedback = w.feedback
      /\ v1.output = [w.output EXCEPT ![o].slots[1] = NoSlot]
      /\ \A x \in Buffers : v1.buffer[x] =
           IF x = b(1) /\ ~Kept(w, o, 1) /\ w.buffer[x] = "held" THEN "free" ELSE w.buffer[x]
      /\ v1.stray = IF b(1) # None /\ ~Kept(w, o, 1) /\ w.buffer[b(1)] # "held"
                    THEN w.stray \cup {b(1)} ELSE w.stray
  <2>1. 1 \in 1..2 /\ w \in WorldType
    BY <1>1
  <2> QED  BY <2>1, ReleaseScanoutBufferFacts, Zenon
<1> HIDE DEF v1
<1>4. /\ v1.output[o].slots[1] = NoSlot /\ v1.output[o].slots[2] = w.output[o].slots[2]
      /\ \A p \in Outputs \ {o} : v1.output[p] = w.output[p]
      /\ v1.output[o].slots \in [1..2 -> SlotType] /\ v1.output[o] \in OutputType
      /\ v1.output \in [Outputs -> OutputType]
  <2>1. v1.output \in [Outputs -> OutputType] /\ v1.output[o] \in OutputType
        /\ v1.output[o].slots \in [1..2 -> SlotType]
    BY <1>3, TypeFacts
  <2>2. v1.output[o] = [w.output[o] EXCEPT !.slots[1] = NoSlot]
        /\ \A p \in Outputs \ {o} : v1.output[p] = w.output[p]
    BY <1>2, <1>3
  <2> QED  BY <1>2, <2>1, <2>2 DEF OutputType
<1>5. /\ v2 \in WorldType /\ v2.surface = v1.surface /\ v2.feedback = v1.feedback
      /\ v2.output = [v1.output EXCEPT ![o].slots[2] = NoSlot]
      /\ \A x \in Buffers : v2.buffer[x] =
           IF x = b(2) /\ ~Kept(v1, o, 2) /\ v1.buffer[x] = "held" THEN "free" ELSE v1.buffer[x]
      /\ v2.stray = IF b(2) # None /\ ~Kept(v1, o, 2) /\ v1.buffer[b(2)] # "held"
                    THEN v1.stray \cup {b(2)} ELSE v1.stray
  <2>1. v1.output[o].slots[2].buffer = b(2)
    BY <1>4
  <2>2. 2 \in 1..2 /\ v1 \in WorldType
    BY <1>3
  <2> DEFINE c == v1.output[o].slots[2].buffer
  <2>3. /\ v2 \in WorldType /\ v2.surface = v1.surface /\ v2.feedback = v1.feedback
        /\ v2.output = [v1.output EXCEPT ![o].slots[2] = NoSlot]
        /\ \A x \in Buffers : v2.buffer[x] =
             IF x = c /\ ~Kept(v1, o, 2) /\ v1.buffer[x] = "held" THEN "free" ELSE v1.buffer[x]
        /\ v2.stray = IF c # None /\ ~Kept(v1, o, 2) /\ v1.buffer[c] # "held"
                      THEN v1.stray \cup {c} ELSE v1.stray
    BY <2>2, ReleaseScanoutBufferFacts, Zenon
  <2>4. c = b(2)
    BY <2>1
  <2> HIDE DEF b, c, v2
  <2> QED  BY <2>3, <2>4
<1> HIDE DEF v2
<1>6. /\ v2.output[o].slots[1] = NoSlot /\ v2.output[o].slots[2] = NoSlot
      /\ \A p \in Outputs \ {o} : v2.output[p] = w.output[p]
      /\ v2.output[o] \in OutputType /\ v2.output \in [Outputs -> OutputType]
      /\ v2.output[o].slots \in [1..2 -> SlotType]
  <2>1. v2.output \in [Outputs -> OutputType] /\ v2.output[o] \in OutputType
        /\ v2.output[o].slots \in [1..2 -> SlotType]
    BY <1>5, TypeFacts
  <2>2. v2.output[o] = [v1.output[o] EXCEPT !.slots[2] = NoSlot]
        /\ \A p \in Outputs \ {o} : v2.output[p] = v1.output[p]
    BY <1>4, <1>5
  <2> QED  BY <1>4, <2>1, <2>2 DEF OutputType
<1>7. ASSUME NEW i \in 1..2, b(i) # None
      PROVE  /\ b(i) \in Buffers /\ w.buffer[b(i)] = "held"
             /\ (\/ \E p \in Outputs \ {o} : b(i) \in Held(w.output[p].slots)
                 \/ w.output[o].slots[i].surface # None
                    /\ w.surface[w.output[o].slots[i].surface].current = b(i)) <=> ~loose(b(i))
  <2> DEFINE x == b(i)
             t == w.output[o].slots[i].surface
  <2>1. x \in Buffers /\ t \in SurfaceRefs
    BY <1>2, <1>7 DEF SlotType, BufferRefs
  <2>2. BufferOK(w, x)
    BY <1>1, <2>1 DEF WorldOK, BuffersOK
  <2>3. OwnerOK(w, x) /\ w.buffer[x] = "held"
    BY <2>2 DEF BufferOK, CopiedOK, HeldOK, Shown
  <2>4. \A p \in Outputs : x \in Held(w.output[p].slots) <=> \E j \in 1..2 : w.output[p].slots[j].buffer = x
    BY <1>7 DEF Held
  <2>5. ASSUME NEW s \in Surfaces, w.surface[s].current = x
        PROVE  t = s
    BY <2>3, <2>5 DEF OwnerOK, Owns
  <2> QED  BY <2>1, <2>3, <2>4, <2>5 DEF SurfaceRefs
<1>8. ASSUME b(1) # None PROVE Kept(w, o, 1) <=> ~loose(b(1))
  BY <1>7, <1>8 DEF Kept
<1>9. ASSUME b(2) # None PROVE Kept(v1, o, 2) <=> ~loose(b(2))
  <2>1. \A p \in Outputs \ {o} : v1.output[p].slots = w.output[p].slots
    BY <1>4
  <2>2. v1.output[o].slots[1].buffer # b(2)
    BY <1>4, <1>9, NoSlotSlots
  <2>3. v1.output[o].slots[2] = w.output[o].slots[2] /\ v1.surface = w.surface
    BY <1>3, <1>4
  <2>4. Kept(v1, o, 2) <=>
          \/ \E p \in Outputs \ {o} : b(2) \in Held(w.output[p].slots)
          \/ w.output[o].slots[2].surface # None
             /\ w.surface[w.output[o].slots[2].surface].current = b(2)
    BY <2>1, <2>2, <2>3 DEF Kept
  <2> QED  BY <1>7, <1>9, <2>4
<1>10. \A x \in Buffers : v2.buffer[x] = IF x \in {b(1), b(2)} /\ loose(x) THEN "free" ELSE w.buffer[x]
  <2> TAKE x \in Buffers
  <2> HIDE DEF loose, b
  <2>1. v1.buffer[x] = IF x = b(1) /\ loose(x) THEN "free" ELSE w.buffer[x]
    BY <1>3, <1>7, <1>8
  <2>2. x = b(2) => w.buffer[x] = "held" /\ (Kept(v1, o, 2) <=> ~loose(x))
    BY <1>7, <1>9
  <2> QED  BY <1>5, <2>1, <2>2
<1>11. \A x \in v2.stray : b(1) = x /\ b(2) = x
  <2> HIDE DEF loose, b
  <2>1. v1.stray = {}
    BY <1>1, <1>3, <1>7
  <2>2. SUFFICES ASSUME b(2) # None, v1.buffer[b(2)] # "held"
                 PROVE  b(1) = b(2)
    BY <1>5, <2>1
  <2>3. b(2) \in Buffers /\ w.buffer[b(2)] = "held"
    BY <1>7, <2>2
  <2> QED  BY <1>3, <2>2, <2>3
<1>12. r \in OutputType /\ r.slots = v2.output[o].slots /\ ~r.on
  BY <1>6 DEF OutputType
<1>13. Become(u)
  <2>1. [v2 EXCEPT !.output[o].on = FALSE,
                   !.output[o].flip = IF @ = "awaited" THEN "none" ELSE @] = u
    BY <1>5, <1>6, Zenon DEF WorldType, OutputType
  <2> QED  BY <1>1, <2>1
<1> HIDE DEF r, u
<1>14. /\ u \in WorldType /\ u.buffer = v2.buffer /\ u.stray = v2.stray /\ u.surface = w.surface
       /\ u.feedback = w.feedback
       /\ \A p \in Outputs : u.output[p] = IF p = o THEN r ELSE v2.output[p]
  <2>1. /\ u \in WorldType /\ u.buffer = v2.buffer /\ u.stray = v2.stray /\ u.surface = v2.surface
        /\ u.feedback = v2.feedback
        /\ \A p \in Outputs : u.output[p] = IF p = o THEN r ELSE v2.output[p]
    BY <1>5, <1>12, PutOutput, Zenon DEF u
  <2> QED  BY <1>3, <1>5, <2>1
<1>15. \A p \in Outputs, i \in 1..2 :
         u.output[p].slots[i] = IF p = o THEN NoSlot ELSE w.output[p].slots[i]
  BY <1>6, <1>12, <1>14
<1>16. \A p \in Outputs, i \in 1..2 : ~u.output[p].on => u.output[p].slots[i] = NoSlot
  <2>1. \A p \in Outputs : p # o => u.output[p].on = w.output[p].on
    BY <1>6, <1>14
  <2> QED  BY <1>1, <1>15, <2>1 DEF WorldOK, BuffersOK, IdleOK
<1>17. ASSUME NEW x \in Buffers
       PROVE  u.buffer[x] = IF /\ \E i \in 1..2 : w.output[o].slots[i].buffer = x
                               /\ \A p \in Outputs, i \in 1..2 : u.output[p].slots[i].buffer # x
                               /\ \A s \in Surfaces : w.surface[s].current # x
                            THEN "free" ELSE w.buffer[x]
  <2>1. x \in {b(1), b(2)} <=> \E i \in 1..2 : w.output[o].slots[i].buffer = x
    OBVIOUS
  <2>2. loose(x) <=> /\ \A p \in Outputs, i \in 1..2 : u.output[p].slots[i].buffer # x
                     /\ \A s \in Surfaces : w.surface[s].current # x
    BY <1>15, NoSlotSlots
  <2> HIDE DEF loose, b
  <2> QED  BY <1>10, <1>14, <2>1, <2>2
<1>18. WorldOK(u)
  <2>1. \A p \in Outputs, i \in 1..2 :
          \/ u.output[p].slots[i] = w.output[p].slots[i]
          \/ p = o /\ u.output[p].slots[i] = NoSlot
    BY <1>15
  <2> QED  BY <1>1, <1>14, <1>16, <1>17, <2>1, SlotsEmptied
<1>19. output' = u.output /\ stray' = u.stray
  BY <1>13 DEF Become
<1>20. ~output'[o].on
  BY <1>12, <1>14, <1>19
<1>21. \A x \in stray' : \A i \in 1..2 : output[o].slots[i].buffer = x
  BY <1>1, <1>11, <1>14, <1>19
<1>22. GivenBack
  <2> SUFFICES ASSUME NEW x \in Buffers, UsedIn(w, x), u.buffer[x] = "held"
               PROVE  UsedIn(u, x)
    BY <1>13, KeepsOK DEF w
  <2>1. \A p \in Outputs, i \in 1..2 :
          \/ u.output[p].slots[i] = w.output[p].slots[i]
          \/ p = o /\ u.output[p].slots[i] = NoSlot
    BY <1>15
  <2>2. \A i \in 1..2 : w.output[o].slots[i].buffer = x =>
          \/ \E p \in Outputs, j \in 1..2 : u.output[p].slots[j].buffer = x
          \/ \E s \in Surfaces : w.surface[s].current = x
    BY <1>17
  <2> QED  BY <1>1, <1>14, <2>1, <2>2, UsedAfterSlots
<1> QED  BY <1>13, <1>18, <1>20, <1>21, <1>22, BecomeOK

-----------------------------------------------------------------------------
(* The theorems *)

LEMMA StepOK ==
  ASSUME IInv, Next
  PROVE  /\ IInv' /\ GivenBack
         /\ \/ stray' = {}
            \/ \E o \in Outputs : /\ ~output'[o].on
                                  /\ \A b \in stray' : \A i \in 1..2 : output[o].slots[i].buffer = b
<1>1. CASE \E b \in Buffers : CreateBuffer(b) \/ DestroyBuffer(b)
  BY <1>1, CreateBufferOK, DestroyBufferOK
<1>2. CASE \E s \in Surfaces :
             \/ CreateSurface(s) \/ DestroySurface(s) \/ Commit(s) \/ CommitDeferred(s)
             \/ NextFrameOutside(s)
             \/ \E b \in Buffers \cup {None} : Attach(s, b)
             \/ \E f \in Feedbacks : Feedback(f, s)
  BY <1>2, CreateSurfaceOK, DestroySurfaceOK, CommitOK, CommitDeferredOK, NextFrameOutsideOK, AttachOK, FeedbackActionOK
<1>3. CASE \E o \in Outputs : \/ Paint(o) \/ PageFlip(o) \/ Initialize(o) \/ Uninitialize(o)
                             \/ DeleteOutput(o)
  BY <1>3, PaintOK, PageFlipOK, InitializeOK, UninitializeOK, DeleteOutputOK
<1>4. CASE Tick
  BY <1>4, TickOK
<1> QED  BY <1>1, <1>2, <1>3, <1>4 DEF Next

LEMMA NextIInv == IInv /\ [Next]_vars => IInv'
<1> SUFFICES ASSUME IInv, [Next]_vars PROVE IInv'
  OBVIOUS
<1>1. CASE Next
  BY <1>1, StepOK
<1>2. CASE UNCHANGED vars
  <2>1. State' = State
    BY <1>2 DEF State, vars
  <2> QED  BY <2>1 DEF IInv
<1> QED  BY <1>1, <1>2

(* The invariant holds in every state, for any surfaces, buffers and outputs. *)
THEOREM Invariance == Spec => []IInv
<1>1. Init => IInv  BY InitIInv
<1>2. IInv /\ [Next]_vars => IInv'  BY NextIInv
<1> QED  BY <1>1, <1>2, PTL DEF Spec

LEMMA StateFields ==
  /\ State.buffer = buffer /\ State.stray = stray /\ State.surface = surface
  /\ State.output = output /\ State.feedback = feedback
BY DEF State

LEMMA Facts ==
  ASSUME IInv
  PROVE  /\ buffer \in [Buffers -> BufferStates]
         /\ \A s \in Surfaces : surface[s] \in SurfaceType
         /\ \A o \in Outputs, i \in 1..2 : output[o].slots[i] \in SlotType
         /\ \A f \in Feedbacks : feedback[f] \in FeedbackType
         /\ IdleOK(State) /\ SlotSurfaceOK(State)
         /\ \A b \in Buffers : BufferOK(State, b)
         /\ \A f \in Feedbacks : FeedbackOK(State, f)
<1>1. /\ State \in WorldType /\ IdleOK(State) /\ SlotSurfaceOK(State)
      /\ \A b \in Buffers : BufferOK(State, b)
      /\ \A f \in Feedbacks : FeedbackOK(State, f)
  BY DEF IInv, WorldOK, BuffersOK
<1>2. /\ State.buffer \in [Buffers -> BufferStates]
      /\ \A s \in Surfaces : State.surface[s] \in SurfaceType
      /\ \A o \in Outputs : State.output[o].slots \in [1..2 -> SlotType]
      /\ \A f \in Feedbacks : State.feedback[f] \in FeedbackType
  BY <1>1, TypeFacts
<1> QED  BY <1>1, <1>2, StateFields

(* Types; the buffers and the surfaces that are referred to exist, and an output that
   is not initialized has no buffer. *)
THEOREM TypeCorrect == Spec => []TypeOK
<1>1. IInv => TypeOK
  <2> SUFFICES ASSUME IInv PROVE TypeOK
    OBVIOUS
  <2> DEFINE living == {b \in Buffers : buffer[b] # "none"} \cup {None}
             surfaces == {s \in Surfaces : surface[s].exists} \cup {None}
  <2>1. ASSUME NEW s \in Surfaces
        PROVE  surface[s].pending \in living /\ surface[s].current \in living
    <3>1. surface[s].pending \in BufferRefs /\ surface[s].current \in BufferRefs
      BY Facts DEF SurfaceType
    <3>2. \A b \in Buffers : Owns(surface[s], b) => buffer[b] # "none"
      BY Facts, StateFields DEF BufferOK
    <3> QED  BY <3>1, <3>2 DEF Owns, BufferRefs
  <2>2. ASSUME NEW o \in Outputs, NEW i \in 1..2
        PROVE  output[o].slots[i] \in [buffer : living, surface : surfaces]
    <3>1. output[o].slots[i] \in SlotType
      BY Facts
    <3>2. \A b \in Buffers : output[o].slots[i].buffer = b => buffer[b] # "none"
      <4> SUFFICES ASSUME NEW b \in Buffers, output[o].slots[i].buffer = b PROVE buffer[b] # "none"
        OBVIOUS
      <4>1. BufferOK(State, b)
        BY Facts
      <4> QED  BY <4>1, StateFields DEF BufferOK, CopiedOK, HeldOK, Shown
    <3>3. output[o].slots[i].surface # None => surface[output[o].slots[i].surface].exists
      BY Facts, StateFields DEF SlotSurfaceOK
    <3> QED  BY <3>1, <3>2, <3>3 DEF SlotType, BufferRefs, SurfaceRefs
  <2>3. ASSUME NEW o \in Outputs, ~output[o].on
        PROVE  Held(output[o].slots) = {}
    <3>1. \A i \in 1..2 : output[o].slots[i].buffer = None
      BY <2>3, Facts, StateFields, NoSlotSlots DEF IdleOK
    <3> QED  BY <3>1 DEF Held
  <2>4. ASSUME NEW f \in Feedbacks PROVE feedback[f].surface \in surfaces
    <3>1. feedback[f].surface \in SurfaceRefs
      BY Facts DEF FeedbackType
    <3>2. feedback[f].surface # None => surface[feedback[f].surface].exists
      BY Facts, StateFields DEF FeedbackOK
    <3> QED  BY <3>1, <3>2 DEF SurfaceRefs
  <2>5. buffer \in [Buffers -> BufferStates]
    BY Facts
  <2> HIDE DEF living, surfaces
  <2> QED  BY <2>1, <2>2, <2>3, <2>4, <2>5 DEF TypeOK, living, surfaces
<1> QED  BY <1>1, Invariance, PTL

LEMMA ScannedHeldOK == IInv => ScannedIsHeld
<1> SUFFICES ASSUME IInv, NEW b \in Scanned(output) PROVE buffer[b] = "held"
  BY DEF ScannedIsHeld
<1>1. PICK o \in Outputs, i \in 1..2 : output[o].slots[i].buffer = b /\ b # None
  BY DEF Scanned, Held
<1>2. b \in Buffers
  <2>1. output[o].slots[i] \in SlotType
    BY Facts
  <2> QED  BY <1>1, <2>1 DEF SlotType, BufferRefs
<1>3. BufferOK(State, b)
  BY <1>2, Facts
<1> QED  BY <1>1, <1>3, StateFields DEF BufferOK, CopiedOK, HeldOK, Shown

(* No buffer is given back while an output scans it out; one that stops being used is,
   except that of a surface that is destroyed, and that of a deferred commit which
   another attach overtakes. *)
THEOREM BuffersKeptCorrect == Spec => BuffersKept
<1>1. IInv /\ [Next]_vars => [GivenBack]_vars
  BY StepOK
<1>2. Spec => [][ScannedIsHeld' /\ GivenBack]_vars
  <2> HIDE DEF GivenBack
  <2> QED  BY <1>1, ScannedHeldOK, Invariance, PTL DEF Spec
<1> QED  BY <1>2 DEF BuffersKept

(* Feedback that is presented names an output that painted the commit it is about, or
   else one that scanned the surface out, and says so with the flag of zero copy. *)
THEOREM PresentedCorrect == Spec => []PresentedWasPainted
<1>1. IInv => PresentedWasPainted
  BY Facts, StateFields DEF FeedbackOK, PresentedWasPainted
<1> QED  BY <1>1, Invariance, PTL

(* No buffer is released that was not held, but for the one that both slots of an
   output have when it is uninitialized. *)
THEOREM ReleasedOnceCorrect == Spec => ReleasedOnce
<1> DEFINE A == \A b \in stray' :
                  \E o \in Outputs : ~output'[o].on /\ \A i \in 1..2 : output[o].slots[i].buffer = b
<1>1. IInv /\ [Next]_vars => [A]_vars
  BY StepOK
<1>2. Spec => [][A]_vars
  <2> HIDE DEF A
  <2> QED  BY <1>1, Invariance, PTL DEF Spec
<1> QED  BY <1>2 DEF ReleasedOnce
=============================================================================

-------------------------- MODULE SurfaceTreeProofs --------------------------
(***************************************************************************)
(* Proofs about SurfaceTree, for any finite set of surfaces: the links     *)
(* between surfaces are valid, the commits of subsurfaces are applied with *)
(* their parent's, and what is mapped should be.                           *)
(*                                                                         *)
(* LinksValid is not inductive: that a parent exists depends on no list    *)
(* holding a surface that is gone, and on a surface being destroyed only   *)
(* when no other call is in progress.  IInv adds these facts.  CallInv     *)
(* says which calls may be in progress together, and that what a commit    *)
(* owes its children is done by the calls it has made.  ShowInv says who   *)
(* will check or unmap each mapped subsurface that should not be mapped;   *)
(* it holds when no client sets the parent of a toplevel that has one, and *)
(* so does CommitInv, which follows the commits down the tree while they   *)
(* change it.  MappedInv says who will unmap each surface that is mapped   *)
(* and has no role any more.                                               *)
(***************************************************************************)
EXTENDS SurfaceTree, SequenceTheorems, FiniteSetTheorems, WellFoundedInduction, TLAPS

\* ~RSurface is only ever the outermost call.
RemoveLast(st) == \A i \in 1 .. Len(st) : st[i].op = "remove" => i = Len(st)

StackOK(A, st) == st \in Seq(Frame(A)) /\ RemoveLast(st)

\* The calls a handler that runs may make.
CallFrame(A) == [op : Ops \ {"remove"}, s : A, on : BOOLEAN, todo : SUBSET A]

\* A surface that is gone is linked to no other.
DeadUnlinked ==
  \A s \in Surfaces \ alive :
    /\ parent[s] = None /\ pendingParent[s] = None
    /\ children[s] = {} /\ pendingChildren[s] = {}

\* No list of children holds a surface that is gone.
ChildrenAlive == mode # "undefined" => \A p \in Surfaces : children[p] \subseteq alive

LinkInv ==
  /\ LinksValid
  /\ PendingChildrenExact
  /\ DeadUnlinked
  /\ ChildrenAlive

IInv == TypeOK /\ RemoveLast(stack) /\ LinkInv

-----------------------------------------------------------------------------
(***************************************************************************)
(* The stack.                                                              *)
(***************************************************************************)

\* Calls made before the others leave a well-formed stack.
LEMMA PushOK ==
  ASSUME NEW A, NEW fs \in Seq(CallFrame(A)), NEW st, StackOK(A, st)
  PROVE  StackOK(A, fs \o st)
<1>1. st \in Seq(Frame(A)) /\ RemoveLast(st)
  BY DEF StackOK
<1>2. \A f \in CallFrame(A) : f \in Frame(A) /\ f.op # "remove"
  BY DEF CallFrame, Frame
<1>3. fs \in Seq(Frame(A))
  BY <1>2, SeqMonotonic
<1>4. \A i \in 1 .. Len(fs) : fs[i].op # "remove"
  BY <1>2, ElementOfSeq
<1>5. /\ fs \o st \in Seq(Frame(A))
      /\ Len(fs \o st) = Len(fs) + Len(st)
      /\ \A i \in 1 .. Len(fs) + Len(st) :
           (fs \o st)[i] = IF i <= Len(fs) THEN fs[i] ELSE st[i - Len(fs)]
  BY <1>1, <1>3, ConcatProperties
<1>6. Len(fs) \in Nat /\ Len(st) \in Nat
  BY <1>1, <1>3, LenProperties
<1>7. ASSUME NEW i \in 1 .. Len(fs \o st), (fs \o st)[i].op = "remove"
      PROVE  i = Len(fs \o st)
  <2>1. i > Len(fs)
    BY <1>4, <1>5, <1>6, <1>7
  <2>2. i - Len(fs) \in 1 .. Len(st) /\ st[i - Len(fs)].op = "remove"
    BY <1>5, <1>6, <1>7, <2>1
  <2>3. i - Len(fs) = Len(st)
    BY <1>1, <2>2 DEF RemoveLast
  <2>4. QED
    BY <1>5, <1>6, <2>3
<1>8. QED
  BY <1>5, <1>7 DEF StackOK, RemoveLast

\* The call on top of the stack, and what is left when it returns.
LEMMA TopOK ==
  ASSUME NEW A, NEW st, StackOK(A, st), st # << >>
  PROVE  /\ Head(st) \in Frame(A)
         /\ StackOK(A, Tail(st))
         /\ Head(st).op = "remove" => Tail(st) = << >>
<1>1. st \in Seq(Frame(A)) /\ RemoveLast(st)
  BY DEF StackOK
<1>2. /\ Head(st) \in Frame(A)
      /\ Tail(st) \in Seq(Frame(A))
      /\ Len(Tail(st)) = Len(st) - 1
      /\ \A i \in 1 .. Len(Tail(st)) : Tail(st)[i] = st[i+1]
  BY <1>1, HeadTailProperties
<1>3. Len(st) \in Nat \ {0} /\ Head(st) = st[1]
  BY <1>1, EmptySeq
<1>. DEFINE tl == Tail(st)
            n  == Len(st)
            k  == Len(tl)
<1>4. /\ n \in Nat \ {0} /\ k = n - 1
      /\ \A i \in 1 .. k : tl[i] = st[i+1]
      /\ \A i \in 1 .. n : st[i].op = "remove" => i = n
  BY <1>1, <1>2, <1>3 DEF RemoveLast
<1>. HIDE DEF n
<1>5. \A i \in 1 .. k : tl[i].op = "remove" => i = k
  <2>. HIDE DEF tl, k
  <2>. QED BY <1>4
<1>6. ASSUME Head(st).op = "remove"
      PROVE  tl = << >>
  <2>1. k = 0
    <3>1. st[1].op = "remove"
      BY <1>3, <1>6
    <3>. HIDE DEF tl, k
    <3>2. QED
      BY <1>4, <3>1
  <2>2. QED
    BY <1>2, <2>1, EmptySeq
<1>7. QED
  BY <1>2, <1>5, <1>6 DEF StackOK, RemoveLast

\* The call on top of the stack returns after making the calls fs.
LEMMA ReturnOK ==
  ASSUME NEW A, NEW fs \in Seq(CallFrame(A)), StackOK(A, stack), stack # << >>, Return(fs)
  PROVE  StackOK(A, stack')
<1>1. StackOK(A, Tail(stack))
  BY TopOK
<1>2. QED
  BY <1>1, PushOK DEF Return

\* The calls made by the helpers of the handlers.
LEMMA OneCall ==
  ASSUME NEW A, NEW f \in CallFrame(A)
  PROVE  <<f>> \in Seq(CallFrame(A))
OBVIOUS

\* No call at all is a sequence of calls.
LEMMA NoCall == ASSUME NEW A PROVE << >> \in Seq(CallFrame(A))
OBVIOUS

\* Two calls in a row.
LEMMA TwoCalls ==
  ASSUME NEW A, NEW f \in CallFrame(A), NEW g \in CallFrame(A)
  PROVE  <<f, g>> \in Seq(CallFrame(A))
OBVIOUS

\* A call before others.
LEMMA MoreCalls ==
  ASSUME NEW A, NEW fs \in Seq(CallFrame(A)), NEW f \in CallFrame(A)
  PROVE  fs \o <<f>> \in Seq(CallFrame(A))
BY OneCall, ConcatProperties

\* A frame is a call on a surface that exists.
LEMMA FrameOK ==
  ASSUME NEW A, NEW s \in A, NEW op \in Ops \ {"remove"}
  PROVE  /\ Fr(op, s) \in CallFrame(A)
         /\ \A on \in BOOLEAN : FrOn(op, s, on) \in CallFrame(A)
         /\ \A todo \in SUBSET A : FrTodo(op, s, todo) \in CallFrame(A)
BY DEF Fr, FrOn, FrTodo, CallFrame

\* setMapped makes at most one call.
LEMMA SetMappedOK ==
  ASSUME NEW A, NEW s \in A, NEW on \in BOOLEAN
  PROVE  CallSetMapped(s, on) \in Seq(CallFrame(A))
<1>1. FrOn("setMapped", s, on) \in CallFrame(A)
  BY FrameOK DEF Ops
<1>2. QED
  BY <1>1, OneCall, NoCall DEF CallSetMapped

\* checkMapping makes at most one call.
LEMMA CheckMappingOK ==
  ASSUME NEW A, NEW s \in A, NEW p, NEW hb
  PROVE  CallCheckMapping(s, p, hb) \in Seq(CallFrame(A))
BY SetMappedOK DEF CallCheckMapping

\* handleParentChange makes at most one call.
LEMMA HandleParentChangeOK ==
  ASSUME NEW A, NEW s \in A, NEW p
  PROVE  HandleParentChange(s, p) \in Seq(CallFrame(A))
BY CheckMappingOK, NoCall DEF HandleParentChange

-----------------------------------------------------------------------------
(***************************************************************************)
(* The invariant.                                                          *)
(***************************************************************************)

\* The invariant holds when there is no surface.
LEMMA InitIInv == Init => IInv
<1>. SUFFICES ASSUME Init PROVE IInv
  OBVIOUS
<1>1. stack \in Seq(Frame(alive)) /\ RemoveLast(stack)
  BY DEF Init, RemoveLast
<1>2. TypeOK
  BY <1>1 DEF Init, TypeOK, Roles, Attach, Flags, Modes
<1>3. LinksValid /\ PendingChildrenExact /\ DeadUnlinked /\ ChildrenAlive
  BY DEF Init, LinksValid, PendingChildrenExact, DeadUnlinked, ChildrenAlive
<1>4. QED
  BY <1>1, <1>2, <1>3 DEF IInv, LinkInv

\* A step that changes no link keeps the invariant when what it does change
\* has its type.
LEMMA SameLinks ==
  ASSUME IInv, mode # "undefined", UNCHANGED <<alive, links>>,
         role' \in [Surfaces -> Roles], mapped' \in [Surfaces -> BOOLEAN],
         hasBuffer' \in [Surfaces -> BOOLEAN], attached' \in [Surfaces -> Attach],
         synced' \in [Surfaces -> BOOLEAN], hasCache' \in [Surfaces -> BOOLEAN],
         flags' \in [Surfaces -> SUBSET Flags], mode' \in Modes,
         StackOK(alive, stack')
  PROVE  IInv'
<1>1. TypeOK'
  BY DEF IInv, TypeOK, links, StackOK
<1>2. LinkInv'
  BY DEF IInv, links, LinkInv, LinksValid, PendingChildrenExact, DeadUnlinked, ChildrenAlive
<1>3. QED
  BY <1>1, <1>2 DEF IInv, StackOK

\* Subsurfaces of a surface exist.
LEMMA SubsurfacesAlive ==
  ASSUME IInv, mode # "undefined", NEW s \in Surfaces
  PROVE  Subsurfaces(s) \subseteq alive
BY DEF IInv, LinkInv, ChildrenAlive, Subsurfaces

\* The calls that change no link: commits, mapping, synchronization.
LEMMA PlainStepIInv ==
  ASSUME IInv, stack # << >>, mode # "undefined",
         \/ ApplyCommit \/ AdoptDone \/ NotifyParentCommit \/ ApplyContent
         \/ SetMapped \/ CascadeMapping \/ Sync \/ SyncChildren \/ DropRole
  PROVE  IInv'
<1>. DEFINE s == Top.s
            Fs == Seq(CallFrame(alive))
<1>1. TypeOK /\ StackOK(alive, stack)
  BY DEF IInv, TypeOK, StackOK
<1>2. /\ Top \in Frame(alive)
      /\ s \in alive /\ s \in Surfaces /\ Top.on \in BOOLEAN /\ Top.todo \subseteq alive
  BY <1>1, TopOK DEF Top, Frame, TypeOK
<1>3. ASSUME NEW fs \in Fs, Return(fs)
      PROVE  StackOK(alive, stack')
  BY <1>1, <1>3, ReturnOK
<1>4. /\ Subsurfaces(s) \subseteq alive
      /\ mode \in Modes
  BY <1>1, <1>2, SubsurfacesAlive DEF TypeOK
<1>5. CASE ApplyCommit
  <2>1. StackOK(alive, stack')
    <3>1. Fr("adopt", s) \in CallFrame(alive) /\ Fr("content", s) \in CallFrame(alive)
      BY <1>2, FrameOK DEF Ops
    <3>2. <<Fr("adopt", s), Fr("content", s)>> \in Fs
      BY <3>1
    <3>3. QED
      BY <1>3, <1>5, <3>2, NoCall DEF ApplyCommit
  <2>2. hasCache' \in [Surfaces -> BOOLEAN]
    BY <1>1, <1>2, <1>5 DEF ApplyCommit, TypeOK
  <2>3. QED
    BY <1>1, <1>5, <2>1, <2>2, SameLinks DEF ApplyCommit, TypeOK, content
<1>6. CASE AdoptDone
  <2>1. FrTodo("notify", s, children[s]) \in CallFrame(alive)
    BY <1>2, FrameOK DEF Ops, IInv, LinkInv, ChildrenAlive
  <2>2. StackOK(alive, stack')
    BY <1>3, <1>6, <2>1, OneCall DEF AdoptDone
  <2>3. QED
    BY <1>1, <1>6, <2>2, SameLinks DEF AdoptDone, TypeOK, content, roles
<1>7. CASE NotifyParentCommit
  <2>1. ASSUME NEW c \in Subsurfaces(s), NEW left \in SUBSET Subsurfaces(s)
        PROVE  <<FrOn("apply", c, TRUE), FrTodo("notify", s, left)>> \in Fs
    <3>1. FrOn("apply", c, TRUE) \in CallFrame(alive)
      BY <1>4, FrameOK DEF Ops
    <3>2. FrTodo("notify", s, left) \in CallFrame(alive)
      BY <1>2, <1>4, FrameOK DEF Ops
    <3>3. QED
      BY <3>1, <3>2, TwoCalls
  <2>2. StackOK(alive, stack')
    BY <1>3, <1>7, <2>1, NoCall DEF NotifyParentCommit
  <2>3. QED
    BY <1>1, <1>7, <2>2, SameLinks DEF NotifyParentCommit, TypeOK, content, roles
<1>8. CASE ApplyContent
  <2>. DEFINE hb == IF attached[s] = "no" THEN hasBuffer[s] ELSE attached[s] = "buffer"
  <2>1. /\ hb \in BOOLEAN
        /\ hasBuffer' = [hasBuffer EXCEPT ![s] = hb]
        /\ attached' = [attached EXCEPT ![s] = "no"]
        /\ UNCHANGED <<alive, links, mapped, role, synced>>
    BY <1>1, <1>2, <1>8 DEF ApplyContent, TypeOK
  <2>2. hasBuffer' \in [Surfaces -> BOOLEAN] /\ attached' \in [Surfaces -> Attach]
    BY <1>1, <1>2, <2>1 DEF TypeOK, Attach
  <2>3. SUFFICES /\ StackOK(alive, stack')
                 /\ hasCache' \in [Surfaces -> BOOLEAN]
                 /\ flags' \in [Surfaces -> SUBSET Flags]
                 /\ mode' \in Modes
    BY <1>1, <2>1, <2>2, SameLinks DEF TypeOK
  <2>4. CASE role[s] = "toplevel" /\ ToplevelCommit(s, hb) /\ UNCHANGED hasCache
    <3>1. flags' \in [Surfaces -> SUBSET Flags] /\ mode' \in Modes
      <4>1. /\ flags' = flags \/ flags' = [flags EXCEPT ![s] = @ \ {"HasPendingInitialConf"}]
            /\ mode' = mode \/ mode' = "dying"
        BY <2>4 DEF ToplevelCommit
      <4>2. QED
        BY <1>1, <1>2, <1>4, <4>1 DEF TypeOK, Modes
    <3>2. CallSetMapped(s, FALSE) \o <<Fr("reset", s)>> \in Fs
      BY <1>2, SetMappedOK, FrameOK, MoreCalls DEF Ops
    <3>3. CallSetMapped(s, TRUE) \in Fs /\ << >> \in Fs
      BY <1>2, SetMappedOK, NoCall
    <3>4. StackOK(alive, stack')
      BY <1>3, <2>4, <3>2, <3>3 DEF ToplevelCommit
    <3>5. QED
      BY <1>1, <2>4, <3>1, <3>4 DEF TypeOK
  <2>5. CASE IsSub(s) /\ hasCache' = [hasCache EXCEPT ![s] = FALSE]
               /\ Return(CallCheckMapping(s, parent[s], hb)) /\ UNCHANGED <<flags, mode>>
    BY <1>1, <1>2, <1>3, <1>4, <2>5, CheckMappingOK DEF TypeOK
  <2>6. CASE Return(<< >>) /\ UNCHANGED <<hasCache, flags>> /\ mode' \in {mode, "dying"}
    BY <1>1, <1>3, <1>4, <2>6, NoCall DEF TypeOK, Modes
  <2>7. QED
    BY <1>8, <2>4, <2>5, <2>6 DEF ApplyContent
<1>9. CASE SetMapped
  <2>1. FrTodo("cascade", s, Subsurfaces(s)) \in CallFrame(alive)
    BY <1>2, <1>4, FrameOK DEF Ops
  <2>2. StackOK(alive, stack')
    BY <1>3, <1>9, <2>1, OneCall DEF SetMapped
  <2>3. mapped' \in [Surfaces -> BOOLEAN]
    BY <1>1, <1>2, <1>9 DEF SetMapped, TypeOK
  <2>4. QED
    BY <1>1, <1>9, <2>2, <2>3, SameLinks DEF SetMapped, TypeOK, content, roles
<1>10. CASE CascadeMapping
  <2>1. ASSUME NEW c \in Top.todo
        PROVE  CallCheckMapping(c, parent[c], hasBuffer[c])
                 \o <<FrTodo("cascade", s, Top.todo \ {c})>> \in Fs
    <3>1. CallCheckMapping(c, parent[c], hasBuffer[c]) \in Fs
      BY <1>2, CheckMappingOK
    <3>2. FrTodo("cascade", s, Top.todo \ {c}) \in CallFrame(alive)
      BY <1>2, FrameOK DEF Ops
    <3>3. QED
      BY <3>1, <3>2, MoreCalls
  <2>2. StackOK(alive, stack')
    BY <1>3, <1>10, <2>1, NoCall DEF CascadeMapping
  <2>3. QED
    BY <1>1, <1>10, <2>2, SameLinks DEF CascadeMapping, TypeOK, content, roles
<1>11. CASE Sync
  <2>1. FrTodo("syncChildren", s, Subsurfaces(s)) \in CallFrame(alive)
    BY <1>2, <1>4, FrameOK DEF Ops
  <2>2. StackOK(alive, stack')
    BY <1>3, <1>11, <2>1, OneCall DEF Sync
  <2>3. synced' \in [Surfaces -> BOOLEAN]
    BY <1>1, <1>2, <1>11 DEF Sync, TypeOK
  <2>4. QED
    BY <1>1, <1>11, <2>2, <2>3, SameLinks DEF Sync, TypeOK, content
<1>12. CASE SyncChildren
  <2>1. ASSUME NEW c \in Top.todo, NEW left \in SUBSET Top.todo
        PROVE  <<Fr("sync", c), FrTodo("syncChildren", s, left)>> \in Fs
    <3>1. Fr("sync", c) \in CallFrame(alive)
      BY <1>2, FrameOK DEF Ops
    <3>2. FrTodo("syncChildren", s, left) \in CallFrame(alive)
      BY <1>2, FrameOK DEF Ops
    <3>3. QED
      BY <3>1, <3>2, TwoCalls
  <2>2. StackOK(alive, stack')
    BY <1>3, <1>12, <2>1, NoCall DEF SyncChildren
  <2>3. QED
    BY <1>1, <1>12, <2>2, SameLinks DEF SyncChildren, TypeOK, content, roles
<1>13. CASE DropRole
  <2>1. StackOK(alive, stack')
    BY <1>2, <1>3, <1>13, SetMappedOK DEF DropRole
  <2>2. /\ role' \in [Surfaces -> Roles] /\ synced' \in [Surfaces -> BOOLEAN]
        /\ hasCache' \in [Surfaces -> BOOLEAN] /\ flags' \in [Surfaces -> SUBSET Flags]
    BY <1>1, <1>2, <1>13 DEF DropRole, NoRole, TypeOK, Roles, Flags
  <2>3. QED
    BY <1>1, <1>13, <2>1, <2>2, SameLinks DEF DropRole, TypeOK, content
<1>14. QED
  BY <1>5, <1>6, <1>7, <1>8, <1>9, <1>10, <1>11, <1>12, <1>13

-----------------------------------------------------------------------------
(***************************************************************************)
(* The steps that change links.                                            *)
(***************************************************************************)

LinkType ==
  /\ alive \subseteq Surfaces
  /\ parent \in [Surfaces -> Surfaces \cup {None}]
  /\ pendingParent \in [Surfaces -> Surfaces \cup {None}]
  /\ children \in [Surfaces -> SUBSET Surfaces]
  /\ pendingChildren \in [Surfaces -> SUBSET Surfaces]

\* A surface leaves its pending parent and is given the parent p, or none.
LEMMA SetParentLinks ==
  ASSUME LinkType, LinkInv, mode # "undefined", UNCHANGED <<alive, mode>>,
         NEW s \in alive, NEW p \in alive \cup {None}, SetParent(s, p)
  PROVE  LinkType' /\ LinkInv'
<1>1. /\ s \in Surfaces /\ (p # None => p \in Surfaces)
      /\ pendingParent' = [pendingParent EXCEPT ![s] = None]
      /\ parent' = [parent EXCEPT ![s] = p]
      /\ pendingChildren' = [q \in Surfaces |-> IF q = pendingParent[s]
                                                THEN pendingChildren[q] \ {s}
                                                ELSE pendingChildren[q]]
      /\ children' = IF p = parent[s] THEN children
                     ELSE IF p = None THEN [children EXCEPT ![parent[s]] = @ \ {s}]
                     ELSE [children EXCEPT ![p] = @ \cup {s}]
  BY DEF SetParent, LinkType
<1>2. LinkType'
  <2>1. children' \in [Surfaces -> SUBSET Surfaces]
    BY <1>1 DEF LinkType
  <2>2. pendingChildren' \in [Surfaces -> SUBSET Surfaces]
    BY <1>1 DEF LinkType
  <2>3. QED
    BY <1>1, <2>1, <2>2 DEF LinkType
<1>3. LinksValid'
  <2>1. ASSUME NEW c \in alive, parent'[c] # None
        PROVE  parent'[c] \in alive /\ c \in children'[parent'[c]]
    <3>1. CASE c = s
      BY <1>1, <2>1, <3>1, NoneAssumption DEF LinkType, LinkInv, LinksValid
    <3>2. CASE c # s
      <4>1. parent'[c] = parent[c] /\ parent[c] \in alive /\ c \in children[parent[c]]
        BY <1>1, <2>1, <3>2 DEF LinkType, LinkInv, LinksValid
      <4>2. QED
        BY <1>1, <3>2, <4>1, NoneAssumption DEF LinkType
    <3>3. QED
      BY <3>1, <3>2
  <2>2. ASSUME NEW c \in alive, pendingParent'[c] # None
        PROVE  pendingParent'[c] \in alive /\ c \in pendingChildren'[pendingParent'[c]]
    <3>1. c # s /\ pendingParent'[c] = pendingParent[c]
      BY <1>1, <2>2 DEF LinkType
    <3>2. pendingParent[c] \in alive /\ c \in pendingChildren[pendingParent[c]]
      BY <2>2, <3>1 DEF LinkInv, LinksValid
    <3>3. QED
      BY <1>1, <3>1, <3>2 DEF LinkType
  <2>3. QED
    BY <2>1, <2>2 DEF LinksValid
<1>4. PendingChildrenExact'
  BY <1>1 DEF LinkType, LinkInv, PendingChildrenExact
<1>5. DeadUnlinked'
  BY <1>1, NoneAssumption DEF LinkType, LinkInv, DeadUnlinked, LinksValid
<1>6. ChildrenAlive'
  BY <1>1 DEF LinkType, LinkInv, ChildrenAlive
<1>7. QED
  BY <1>2, <1>3, <1>4, <1>5, <1>6 DEF LinkInv

\* A surface that is told to wait for the parent p leaves the one it waited for.
LEMMA SetPendingParentLinks ==
  ASSUME LinkType, LinkInv, mode # "undefined", UNCHANGED <<alive, mode, parent, children>>,
         NEW s \in alive, NEW p \in alive, SetPendingParent(s, p)
  PROVE  LinkType' /\ LinkInv'
<1>1. /\ s \in Surfaces /\ p \in Surfaces
      /\ pendingParent' = [pendingParent EXCEPT ![s] = p]
      /\ pendingChildren' = [q \in Surfaces |->
                              IF q = p THEN pendingChildren[q] \cup {s}
                              ELSE IF q = pendingParent[s] THEN pendingChildren[q] \ {s}
                              ELSE pendingChildren[q]]
  BY DEF SetPendingParent, LinkType
<1>2. LinkType'
  BY <1>1 DEF LinkType
<1>3. LinksValid'
  BY <1>1, NoneAssumption DEF LinkType, LinkInv, LinksValid
<1>4. PendingChildrenExact'
  BY <1>1 DEF LinkType, LinkInv, PendingChildrenExact
<1>5. DeadUnlinked' /\ ChildrenAlive'
  BY <1>1 DEF LinkType, LinkInv, DeadUnlinked, ChildrenAlive
<1>6. QED
  BY <1>2, <1>3, <1>4, <1>5 DEF LinkInv

\* A pending child is adopted, or popped when it waits for another surface.
LEMMA AdoptOneLinks ==
  ASSUME LinkType, LinkInv, mode # "undefined", Top.s \in alive, AdoptOne
  PROVE  LinkType' /\ LinkInv'
<1>. DEFINE s == Top.s
<1>1. PICK c \in pendingChildren[s] :
        /\ pendingChildren' = [pendingChildren EXCEPT ![s] = @ \ {c}]
        /\ pendingParent[c] = s =>
             /\ parent' = [parent EXCEPT ![c] = s]
             /\ pendingParent' = [pendingParent EXCEPT ![c] = None]
             /\ children' = [q \in Surfaces |->
                               IF q = s THEN children[q] \cup {c}
                               ELSE IF q = parent[c] THEN children[q] \ {c}
                               ELSE children[q]]
  BY DEF AdoptOne
<1>2. /\ c \in alive /\ c \in Surfaces /\ s \in Surfaces /\ pendingParent[c] = s
      /\ UNCHANGED <<alive, mode>>
  BY DEF AdoptOne, LinkType, LinkInv, PendingChildrenExact
<1>3. LinkType'
  BY <1>1, <1>2 DEF LinkType
<1>4. LinksValid'
  <2>1. ASSUME NEW d \in alive, parent'[d] # None
        PROVE  parent'[d] \in alive /\ d \in children'[parent'[d]]
    <3>1. CASE d = c
      BY <1>1, <1>2, <3>1 DEF LinkType
    <3>2. CASE d # c
      <4>1. parent'[d] = parent[d] /\ parent[d] \in alive /\ d \in children[parent[d]]
        BY <1>1, <1>2, <2>1, <3>2 DEF LinkType, LinkInv, LinksValid
      <4>2. QED
        BY <1>1, <1>2, <3>2, <4>1 DEF LinkType
    <3>3. QED
      BY <3>1, <3>2
  <2>2. ASSUME NEW d \in alive, pendingParent'[d] # None
        PROVE  pendingParent'[d] \in alive /\ d \in pendingChildren'[pendingParent'[d]]
    BY <1>1, <1>2, <2>2 DEF LinkType, LinkInv, LinksValid
  <2>3. QED
    BY <1>2, <2>1, <2>2 DEF LinksValid
<1>5. PendingChildrenExact'
  BY <1>1, <1>2 DEF LinkType, LinkInv, PendingChildrenExact
<1>6. DeadUnlinked' /\ ChildrenAlive'
  BY <1>1, <1>2 DEF LinkType, LinkInv, DeadUnlinked, ChildrenAlive
<1>7. QED
  BY <1>3, <1>4, <1>5, <1>6 DEF LinkInv

\* A surface is destroyed: either nothing is linked to it any more, or the
\* program has done something undefined.
LEMMA RemoveLinks ==
  ASSUME LinkType, LinkInv, mode # "undefined", Top.s \in alive, Remove
  PROVE  LinkType' /\ LinkInv'
<1>. DEFINE s == Top.s
<1>1. /\ s \in Surfaces
      /\ alive' = alive \ {s}
      /\ parent' = [c \in Surfaces |-> IF c = s \/ c \in children[s] THEN None ELSE parent[c]]
      /\ pendingParent' = [c \in Surfaces |-> IF c = s \/ c \in pendingChildren[s]
                                              THEN None ELSE pendingParent[c]]
      /\ children' = [p \in Surfaces |-> IF p = s THEN {}
                                         ELSE IF p = parent[s] THEN children[p] \ {s}
                                         ELSE children[p]]
      /\ pendingChildren' = [p \in Surfaces |-> IF p = s THEN {}
                                                ELSE IF p = pendingParent[s]
                                                     THEN pendingChildren[p] \ {s}
                                                     ELSE pendingChildren[p]]
      /\ mode' # "undefined" =>
           \A p \in alive : \A c \in children[p] : (p = s \/ c = s) => parent[c] = p
  BY DEF Remove, LinkType
<1>2. LinkType'
  BY <1>1 DEF LinkType
<1>3. LinksValid'
  <2>1. SUFFICES ASSUME mode' # "undefined", NEW c \in alive'
                 PROVE  /\ parent'[c] # None =>
                             parent'[c] \in alive' /\ c \in children'[parent'[c]]
                        /\ pendingParent'[c] # None =>
                             /\ pendingParent'[c] \in alive'
                             /\ c \in pendingChildren'[pendingParent'[c]]
    BY DEF LinksValid
  <2>2. c \in alive /\ c # s /\ c \in Surfaces
    BY <1>1, <2>1 DEF LinkType
  <2>3. ASSUME parent'[c] # None
        PROVE  parent'[c] \in alive' /\ c \in children'[parent'[c]]
    <3>1. parent'[c] = parent[c] /\ c \notin children[s]
      BY <1>1, <2>2, <2>3
    <3>2. parent[c] \in alive /\ c \in children[parent[c]]
      BY <2>2, <2>3, <3>1 DEF LinkInv, LinksValid
    <3>3. QED
      BY <1>1, <2>2, <3>1, <3>2 DEF LinkType
  <2>4. ASSUME pendingParent'[c] # None
        PROVE  pendingParent'[c] \in alive' /\ c \in pendingChildren'[pendingParent'[c]]
    <3>1. pendingParent'[c] = pendingParent[c] /\ c \notin pendingChildren[s]
      BY <1>1, <2>2, <2>4
    <3>2. pendingParent[c] \in alive /\ c \in pendingChildren[pendingParent[c]]
      BY <2>2, <2>4, <3>1 DEF LinkInv, LinksValid
    <3>3. QED
      BY <1>1, <2>2, <3>1, <3>2 DEF LinkType
  <2>5. QED
    BY <2>3, <2>4
<1>4. PendingChildrenExact'
  <2>1. SUFFICES ASSUME NEW p \in Surfaces, NEW c \in pendingChildren'[p]
                 PROVE  c \in alive' /\ pendingParent'[c] = p
    BY DEF PendingChildrenExact
  <2>2. p # s /\ c \in pendingChildren[p]
    BY <1>1, <2>1
  <2>3. c \in alive /\ c \in Surfaces /\ pendingParent[c] = p
    BY <2>2 DEF LinkType, LinkInv, PendingChildrenExact
  <2>4. c # s /\ c \notin pendingChildren[s]
    BY <1>1, <2>1, <2>2, <2>3 DEF LinkType, LinkInv, PendingChildrenExact
  <2>5. QED
    BY <1>1, <2>3, <2>4
<1>5. DeadUnlinked'
  BY <1>1 DEF LinkType, LinkInv, DeadUnlinked
<1>6. ChildrenAlive'
  <2>1. SUFFICES ASSUME mode' # "undefined", NEW p \in Surfaces, NEW c \in children'[p]
                 PROVE  c \in alive'
    BY DEF ChildrenAlive
  <2>2. p # s /\ c \in children[p] /\ c \in alive
    BY <1>1, <2>1 DEF LinkType, LinkInv, ChildrenAlive
  <2>3. p \in alive
    BY <2>2 DEF LinkType, LinkInv, DeadUnlinked
  <2>4. c # s
    BY <1>1, <2>1, <2>2, <2>3 DEF LinkType
  <2>5. QED
    BY <1>1, <2>2, <2>4
<1>7. QED
  BY <1>2, <1>3, <1>4, <1>5, <1>6 DEF LinkInv

\* The invariant is made of its three parts.
LEMMA NewLinks ==
  ASSUME LinkType', LinkInv', StackOK(alive', stack'),
         role' \in [Surfaces -> Roles], mapped' \in [Surfaces -> BOOLEAN],
         hasBuffer' \in [Surfaces -> BOOLEAN], attached' \in [Surfaces -> Attach],
         synced' \in [Surfaces -> BOOLEAN], hasCache' \in [Surfaces -> BOOLEAN],
         flags' \in [Surfaces -> SUBSET Flags], mode' \in Modes
  PROVE  IInv'
<1>1. TypeOK'
  BY DEF TypeOK, LinkType, StackOK
<1>2. QED
  BY <1>1 DEF IInv, StackOK

\* The calls that change links preserve the invariant.
LEMMA LinkStepIInv ==
  ASSUME IInv, stack # << >>, mode # "undefined",
         AdoptOne \/ ResetChild \/ ResetDone \/ Remove
  PROVE  IInv'
<1>. DEFINE s == Top.s
            Fs == Seq(CallFrame(alive))
<1>1. TypeOK /\ StackOK(alive, stack) /\ LinkType /\ LinkInv
  BY DEF IInv, TypeOK, StackOK, LinkType
<1>2. /\ Top \in Frame(alive) /\ StackOK(alive, Tail(stack))
      /\ s \in alive /\ s \in Surfaces /\ (Top.op = "remove" => Tail(stack) = << >>)
  BY <1>1, TopOK DEF Top, Frame, TypeOK
<1>3. CASE AdoptOne
  <2>1. StackOK(alive, stack')
    <3>1. \A c \in pendingChildren[s] : HandleParentChange(c, s) \in Fs
      BY <1>1, <1>2, HandleParentChangeOK DEF LinkInv, PendingChildrenExact
    <3>2. stack' = stack \/ \E c \in pendingChildren[s] : stack' = HandleParentChange(c, s) \o stack
      BY <1>3 DEF AdoptOne
    <3>3. QED
      BY <1>1, <3>1, <3>2, PushOK
  <2>2. LinkType' /\ LinkInv'
    BY <1>1, <1>2, <1>3, AdoptOneLinks
  <2>3. QED
    BY <1>1, <1>3, <2>1, <2>2, NewLinks DEF AdoptOne, TypeOK, content, roles
<1>4. CASE ResetChild
  <2>1. PICK c \in children[s] :
          \/ /\ IsSub(c) /\ mapped[c]
             /\ stack' = CallSetMapped(c, FALSE) \o stack
             /\ UNCHANGED links
          \/ /\ ~(IsSub(c) /\ mapped[c])
             /\ SetParent(c, parent[s])
             /\ stack' = IF parent[s] \in {None, parent[c]} THEN stack
                         ELSE HandleParentChange(c, parent[s]) \o stack
    BY <1>4 DEF ResetChild
  <2>2. c \in alive /\ parent[s] \in alive \cup {None} /\ UNCHANGED <<alive, mode>>
    BY <1>1, <1>2, <1>4 DEF LinkInv, LinksValid, ChildrenAlive, LinkType, ResetChild
  <2>3. StackOK(alive, stack')
    <3>1. HandleParentChange(c, parent[s]) \in Fs /\ CallSetMapped(c, FALSE) \in Fs
      BY <2>2, HandleParentChangeOK, SetMappedOK
    <3>2. QED
      BY <1>1, <2>1, <3>1, PushOK
  <2>4. LinkType' /\ LinkInv'
    <3>1. CASE UNCHANGED links
      BY <1>1, <2>2, <3>1 DEF links, LinkType, LinkInv, LinksValid,
                              PendingChildrenExact, DeadUnlinked, ChildrenAlive
    <3>2. CASE SetParent(c, parent[s])
      BY <1>1, <2>2, <3>2, SetParentLinks
    <3>3. QED
      BY <2>1, <3>1, <3>2
  <2>5. QED
    BY <1>1, <1>4, <2>2, <2>3, <2>4, NewLinks DEF ResetChild, TypeOK, content, roles
<1>5. CASE ResetDone
  <2>1. StackOK(alive, stack')
    BY <1>1, <1>5, NoCall, ReturnOK DEF ResetDone
  <2>2. LinkType' /\ LinkInv'
    BY <1>1, <1>2, <1>5, SetParentLinks DEF ResetDone
  <2>3. flags' \in [Surfaces -> SUBSET Flags]
    BY <1>1, <1>2, <1>5 DEF ResetDone, TypeOK, Flags
  <2>4. QED
    BY <1>1, <1>5, <2>1, <2>2, <2>3, NewLinks DEF ResetDone, TypeOK, content
<1>6. CASE Remove
  <2>1. StackOK(alive', stack')
    <3>1. Tail(stack) = << >> /\ stack' = << >> \o Tail(stack)
      BY <1>2, <1>6 DEF Remove, Return
    <3>2. stack' = << >>
      BY <3>1
    <3>3. QED
      BY <3>2 DEF StackOK, RemoveLast
  <2>2. LinkType' /\ LinkInv'
    BY <1>1, <1>2, <1>6, RemoveLinks
  <2>3. /\ hasBuffer' \in [Surfaces -> BOOLEAN] /\ attached' \in [Surfaces -> Attach]
        /\ mapped' \in [Surfaces -> BOOLEAN]
    BY <1>1, <1>2, <1>6 DEF Remove, TypeOK, Attach
  <2>4. /\ role' \in [Surfaces -> Roles] /\ synced' \in [Surfaces -> BOOLEAN]
        /\ hasCache' \in [Surfaces -> BOOLEAN] /\ flags' \in [Surfaces -> SUBSET Flags]
    BY <1>1, <1>2, <1>6 DEF Remove, NoRole, TypeOK, Roles, Flags
  <2>5. mode' \in Modes
    BY <1>1, <1>6 DEF Remove, TypeOK, Modes
  <2>6. QED
    BY <2>1, <2>2, <2>3, <2>4, <2>5, NewLinks
<1>7. QED
  BY <1>3, <1>4, <1>5, <1>6

-----------------------------------------------------------------------------
(***************************************************************************)
(* The requests and the theorems.                                          *)
(***************************************************************************)

\* A request is a single call, or two of which the second destroys.
LEMMA OneCallStack ==
  ASSUME NEW A, NEW f \in CallFrame(A)
  PROVE  StackOK(A, <<f>>)
<1>1. <<f>> \in Seq(CallFrame(A)) /\ StackOK(A, << >>)
  BY OneCall DEF StackOK, RemoveLast
<1>2. StackOK(A, <<f>> \o << >>)
  BY <1>1, PushOK
<1>3. <<f>> \o << >> = <<f>>
  OBVIOUS
<1>4. QED
  BY <1>2, <1>3

\* The stack of a request that unmaps a surface and makes one more call.
LEMMA UnmapStack ==
  ASSUME NEW A, NEW s \in A, NEW op \in Ops
  PROVE  StackOK(A, CallSetMapped(s, FALSE) \o <<Fr(op, s)>>)
<1>1. StackOK(A, <<Fr(op, s)>>)
  BY DEF StackOK, RemoveLast, Frame, Fr
<1>2. QED
  BY <1>1, SetMappedOK, PushOK

\* Every request preserves the invariant.
LEMMA RequestIInv ==
  ASSUME IInv, Request
  PROVE  IInv'
<1>1. TypeOK /\ StackOK(alive, stack) /\ LinkType /\ LinkInv
  BY DEF IInv, TypeOK, StackOK, LinkType
<1>2. ASSUME NEW s \in Surfaces, CreateSurface(s)
      PROVE  IInv'
  <2>1. LinkType' /\ LinkInv'
    BY <1>1, <1>2 DEF CreateSurface, Serving, links, LinkType, LinkInv, LinksValid,
                      PendingChildrenExact, DeadUnlinked, ChildrenAlive
  <2>2. StackOK(alive', stack')
    BY <1>2 DEF CreateSurface, Serving, StackOK, RemoveLast
  <2>3. QED
    BY <1>1, <1>2, <2>1, <2>2, NewLinks DEF CreateSurface, TypeOK, content, roles
<1>3. ASSUME NEW s \in Surfaces, NEW a \in {"null", "buffer"}, AttachBuffer(s, a)
      PROVE  IInv'
  <2>1. attached' \in [Surfaces -> Attach]
    BY <1>1, <1>3 DEF AttachBuffer, TypeOK, Attach
  <2>2. QED
    BY <1>1, <1>3, <2>1, SameLinks DEF AttachBuffer, Serving, TypeOK, roles
<1>4. ASSUME NEW s \in Surfaces, Commit(s)
      PROVE  IInv'
  <2>1. StackOK(alive, stack')
    BY <1>4, FrameOK, OneCallStack DEF Commit, Ops
  <2>2. QED
    BY <1>1, <1>4, <2>1, SameLinks DEF Commit, Serving, TypeOK, content, roles
<1>5. ASSUME NEW s \in Surfaces, NEW p \in Surfaces, GetSubsurface(s, p)
      PROVE  IInv'
  <2>1. LinkType' /\ LinkInv'
    BY <1>1, <1>5, SetPendingParentLinks DEF GetSubsurface, Serving
  <2>2. role' \in [Surfaces -> Roles]
    BY <1>1, <1>5 DEF GetSubsurface, TypeOK, Roles
  <2>3. QED
    BY <1>1, <1>5, <2>1, <2>2, NewLinks DEF GetSubsurface, TypeOK, content
<1>6. ASSUME NEW s \in Surfaces, SetSync(s)
      PROVE  IInv'
  <2>1. StackOK(alive, stack')
    BY <1>6, FrameOK, OneCallStack DEF SetSync, Ops
  <2>2. QED
    BY <1>1, <1>6, <2>1, SameLinks DEF SetSync, Serving, TypeOK, content, roles
<1>7. ASSUME NEW s \in Surfaces, SetDesync(s)
      PROVE  IInv'
  <2>1. StackOK(alive, stack')
    BY <1>1, <1>7, FrameOK, OneCallStack DEF SetDesync, Ops
  <2>2. synced' \in [Surfaces -> BOOLEAN] /\ hasCache' \in [Surfaces -> BOOLEAN]
    BY <1>1, <1>7 DEF SetDesync, TypeOK
  <2>3. QED
    BY <1>1, <1>7, <2>1, <2>2, SameLinks DEF SetDesync, Serving, TypeOK, content
<1>8. ASSUME NEW s \in Surfaces, GetToplevel(s)
      PROVE  IInv'
  <2>1. role' \in [Surfaces -> Roles]
    BY <1>1, <1>8 DEF GetToplevel, TypeOK, Roles
  <2>2. QED
    BY <1>1, <1>8, <2>1, SameLinks DEF GetToplevel, Serving, TypeOK, content
<1>9. ASSUME NEW s \in Surfaces, NEW p \in Surfaces \cup {None}, SetToplevelParent(s, p)
      PROVE  IInv'
  <2>1. PICK c \in alive, q \in alive \cup {None} : SetParent(c, q)
    BY <1>9 DEF SetToplevelParent
  <2>2. UNCHANGED <<alive, mode>> /\ mode # "undefined"
    BY <1>9 DEF SetToplevelParent, Serving
  <2>3. LinkType' /\ LinkInv'
    BY <1>1, <2>1, <2>2, SetParentLinks
  <2>4. QED
    BY <1>1, <1>9, <2>3, NewLinks DEF SetToplevelParent, TypeOK, content, roles
<1>10. ASSUME NEW s \in Surfaces, Close(s)
       PROVE  IInv'
  <2>1. flags' \in [Surfaces -> SUBSET Flags]
    BY <1>1, <1>10 DEF Close, TypeOK, Flags
  <2>2. QED
    BY <1>1, <1>10, <2>1, SameLinks DEF Close, Serving, TypeOK, content
<1>11. ASSUME NEW s \in Surfaces, DestroyRole(s)
       PROVE  IInv'
  <2>1. StackOK(alive, stack')
    BY <1>11, UnmapStack DEF DestroyRole, Ops
  <2>2. QED
    BY <1>1, <1>11, <2>1, SameLinks DEF DestroyRole, TypeOK, content, roles
<1>12. ASSUME NEW s \in Surfaces, DestroySurface(s)
       PROVE  IInv'
  <2>1. StackOK(alive, stack')
    BY <1>12, UnmapStack DEF DestroySurface, Ops
  <2>2. QED
    BY <1>1, <1>12, <2>1, SameLinks DEF DestroySurface, TypeOK, content, roles
<1>13. ASSUME Disconnect \/ Reconnect
       PROVE  IInv'
  BY <1>1, <1>13, SameLinks DEF Disconnect, Reconnect, Serving, TypeOK, Modes, content, roles
<1>14. QED
  BY <1>2, <1>3, <1>4, <1>5, <1>6, <1>7, <1>8, <1>9, <1>10, <1>11, <1>12, <1>13 DEF Request

\* Every step preserves the invariant.
LEMMA NextIInv ==
  ASSUME IInv, [Next]_vars
  PROVE  IInv'
<1>1. CASE Step
  <2>1. stack # << >> /\ mode # "undefined"
    BY <1>1 DEF Step
  <2>2. QED
    BY <1>1, <2>1, PlainStepIInv, LinkStepIInv DEF Step
<1>2. CASE Request
  BY <1>2, RequestIInv
<1>3. CASE UNCHANGED vars
  BY <1>3 DEF vars, links, content, roles, IInv, TypeOK, RemoveLast, LinkInv, LinksValid,
              PendingChildrenExact, DeadUnlinked, ChildrenAlive
<1>4. QED
  BY <1>1, <1>2, <1>3 DEF Next


\* The inductive invariant holds of every surface tree the requests lead to.
THEOREM Invariance == Spec => []IInv
BY InitIInv, NextIInv, PTL DEF Spec

\* The variables keep their types, and no handler ever runs on a surface that
\* was destroyed under it.
THEOREM TypeCorrect == Spec => []TypeOK
<1>1. IInv => TypeOK
  BY DEF IInv
<1>2. QED
  BY <1>1, Invariance, PTL

\* setParent, setPendingParent, applyPendingChildren, reset and ~RSurface
\* never leave a surface with a parent that is gone or whose list does not
\* hold it, so the iterators parentLink and pendingParentLink are valid.
THEOREM LinksStayValid == Spec => []LinksValid
<1>1. IInv => LinksValid
  BY DEF IInv, LinkInv
<1>2. QED
  BY <1>1, Invariance, PTL

\* applyPendingChildren only ever meets surfaces that exist and wait for it.
THEOREM PendingExact == Spec => []PendingChildrenExact
<1>1. IInv => PendingChildrenExact
  BY DEF IInv, LinkInv
<1>2. QED
  BY <1>1, Invariance, PTL
-----------------------------------------------------------------------------
(***************************************************************************)
(* The order of the calls in progress.                                     *)
(***************************************************************************)

Mapping    == {"setMapped", "cascade"}
Committing == {"apply", "adopt", "notify", "content"}
Syncing    == {"sync", "syncChildren"}
Ending     == {"reset", "dropRole", "remove"}

\* A surface that may be mapped when its roles and flags are ro and fl.
Mappable(s, ro, fl) ==
  ro[s] = "subsurface" \/ (ro[s] = "toplevel" /\ "HasPendingInitialConf" \notin fl[s])

\* What is known of a call: the innermost one when first, the request when last.
CallOK(f, first, last, ro, sy, fl) ==
  /\ f.op = "apply" => IF f.on THEN ro[f.s] = "subsurface" /\ sy[f.s] ELSE last
  /\ f.op = "content" => ro[f.s] = "subsurface" \/ last
  /\ f.op = "cascade" => \A c \in f.todo : ro[c] = "subsurface"
  /\ f.op = "setMapped" => first /\ (f.on => Mappable(f.s, ro, fl))
  /\ f.op = "reset" => ro[f.s] = "toplevel"
  /\ f.op \in Ending => last

CallsInv == \A i \in 1 .. Len(stack) :
  CallOK(stack[i], i = 1, i = Len(stack), role, synced, flags)

\* Synchronization makes no other calls, and a surface is unmapped, and nothing
\* else, before it is reset or destroyed or loses its role.
KindsOK(st) == \A i, j \in 1 .. Len(st) :
  /\ st[i].op \in Syncing => st[j].op \in Syncing
  /\ st[i].op \in Ending /\ i # j => st[j].op \in Mapping

\* c is a child whose cached commit the commit of s has to apply, and a call
\* that will do it.
Owed(s, c) == c \in Subsurfaces(s) /\ synced[c] /\ hasCache[c]

Handles(f, s, c) ==
  \/ f.op \in {"apply", "content"} /\ f.s = c
  \/ f.op \in {"adopt", "content"} /\ f.s = s
  \/ f.op = "notify" /\ f.s = s /\ c \in f.todo

\* What a commit owes its children is done by the calls it has made.
FlushInv == mode = "running" =>
  \A i \in 1 .. Len(stack) : stack[i].op = "content" =>
    \A c \in Surfaces : Owed(stack[i].s, c) => \E j \in 1 .. (i - 1) : Handles(stack[j], stack[i].s, c)

CallInv == CallsInv /\ KindsOK(stack) /\ FlushInv

\* The first call of st returns after making the calls fs.
Returned(st, fs, new) ==
  /\ Len(st) \in Nat \ {0} /\ Len(fs) \in Nat /\ Len(new) = Len(fs) + Len(st) - 1
  /\ \A i \in 1 .. Len(fs) : new[i] = fs[i]
  /\ \A i \in 2 .. Len(st) : new[Len(fs) + i - 1] = st[i]

LEMMA ReturnedOK ==
  ASSUME NEW S, NEW st \in Seq(S), st # << >>, NEW fs \in Seq(S)
  PROVE  Returned(st, fs, fs \o Tail(st))
<1>. DEFINE tl == Tail(st)
            new == fs \o tl
<1>1. Len(st) \in Nat \ {0} /\ Len(fs) \in Nat
  BY LenProperties, EmptySeq
<1>2. tl \in Seq(S) /\ Len(tl) = Len(st) - 1 /\ \A i \in 1 .. Len(tl) : tl[i] = st[i + 1]
  BY HeadTailProperties
<1>. HIDE DEF tl
<1>3. /\ Len(new) = Len(fs) + Len(tl)
      /\ \A i \in 1 .. Len(fs) + Len(tl) : new[i] = IF i <= Len(fs) THEN fs[i] ELSE tl[i - Len(fs)]
  BY <1>2, ConcatProperties
<1>. HIDE DEF new
<1>4. \A i \in 1 .. Len(fs) : new[i] = fs[i]
  BY <1>1, <1>2, <1>3
<1>5. ASSUME NEW i \in 2 .. Len(st) PROVE new[Len(fs) + i - 1] = st[i]
  <2>1. Len(fs) + i - 1 \in 1 .. Len(fs) + Len(tl) /\ ~(Len(fs) + i - 1 <= Len(fs))
    BY <1>1, <1>2
  <2>2. new[Len(fs) + i - 1] = tl[Len(fs) + i - 1 - Len(fs)]
    BY <1>3, <2>1
  <2>3. Len(fs) + i - 1 - Len(fs) = i - 1 /\ i - 1 \in 1 .. Len(tl)
    BY <1>1, <1>2
  <2>4. QED
    BY <1>2, <2>2, <2>3
<1>6. QED
  BY <1>1, <1>2, <1>3, <1>4, <1>5 DEF Returned, new, tl

\* The call on top of the stack.
LEMMA TopFacts ==
  ASSUME IInv, stack # << >>
  PROVE  /\ stack \in Seq(Frame(alive)) /\ Len(stack) \in Nat \ {0}
         /\ Top = stack[1] /\ Top \in Frame(alive)
         /\ Top.op \in Ops /\ Top.s \in alive /\ Top.s \in Surfaces
         /\ Top.on \in BOOLEAN /\ Top.todo \subseteq alive
         /\ alive \subseteq Surfaces
         /\ \A i \in 1 .. Len(stack) : stack[i] \in Frame(alive)
<1>1. stack \in Seq(Frame(alive)) /\ alive \subseteq Surfaces
  BY DEF IInv, TypeOK
<1>2. Len(stack) \in Nat \ {0} /\ \A i \in 1 .. Len(stack) : stack[i] \in Frame(alive)
  BY <1>1, LenProperties, EmptySeq, ElementOfSeq
<1>3. Top = stack[1]
  BY <1>1, HeadTailProperties DEF Top
<1>4. stack[1] \in Frame(alive)
  BY <1>2
<1>5. QED
  BY <1>1, <1>2, <1>3, <1>4 DEF Frame

\* A call that returns makes no, one or two calls before that.
LEMMA ReturnNone ==
  ASSUME IInv, stack # << >>, Return(<< >>)
  PROVE  Returned(stack, << >>, stack')
<1>1. << >> \in Seq(Frame(alive))
  OBVIOUS
<1>2. QED
  BY <1>1, TopFacts, ReturnedOK DEF Return

LEMMA ReturnOne ==
  ASSUME IInv, stack # << >>, NEW f, Return(<<f>>)
  PROVE  Returned(stack, <<f>>, stack')
<1>. DEFINE S == Frame(alive) \cup {f}
<1>1. stack \in Seq(S)
  BY TopFacts, SeqMonotonic
<1>2. <<f>> \in Seq(S)
  OBVIOUS
<1>. HIDE DEF S
<1>3. QED
  BY <1>1, <1>2, ReturnedOK DEF Return

LEMMA ReturnTwo ==
  ASSUME IInv, stack # << >>, NEW f, NEW g, Return(<<f, g>>)
  PROVE  Returned(stack, <<f, g>>, stack')
<1>. DEFINE S == Frame(alive) \cup {f, g}
<1>1. stack \in Seq(S)
  BY TopFacts, SeqMonotonic
<1>2. <<f, g>> \in Seq(S)
  OBVIOUS
<1>. HIDE DEF S
<1>3. QED
  BY <1>1, <1>2, ReturnedOK DEF Return

\* A sequence of one before another.
LEMMA ConcatOne ==
  ASSUME NEW f
  PROVE  << >> \o <<f>> = <<f>> /\ \A g : <<g>> \o <<f>> = <<g, f>>
<1>1. ASSUME NEW g PROVE <<g>> \o <<f>> = <<g, f>>
  <2>. DEFINE S == {f, g}
              c == <<g>> \o <<f>>
  <2>1. <<g>> \in Seq(S) /\ <<f>> \in Seq(S) /\ <<g, f>> \in Seq(S)
    OBVIOUS
  <2>2. c \in Seq(S) /\ Len(c) = Len(<<g>>) + Len(<<f>>)
        /\ \A i \in 1 .. Len(<<g>>) + Len(<<f>>) :
             c[i] = IF i <= Len(<<g>>) THEN <<g>>[i] ELSE <<f>>[i - Len(<<g>>)]
    BY <2>1, ConcatProperties
  <2>3. Len(<<g>>) = 1 /\ Len(<<f>>) = 1 /\ Len(<<g, f>>) = 2
    OBVIOUS
  <2>4. Len(c) = 2 /\ c[1] = g /\ c[2] = f
    <3>. HIDE DEF c, S
    <3>. QED  BY <2>2, <2>3
  <2>5. \A i \in 1 .. Len(c) : c[i] = <<g, f>>[i]
    <3>. HIDE DEF c, S
    <3>. QED  BY <2>4
  <2>. HIDE DEF c, S
  <2>6. QED
    BY <2>1, <2>2, <2>3, <2>4, <2>5, SeqEqual DEF c
<1>2. << >> \o <<f>> = <<f>>
  <2>1. <<f>> \in Seq({f})
    OBVIOUS
  <2>2. QED
    BY <2>1, ConcatEmptySeq
<1>3. QED
  BY <1>1, <1>2

\* A call that goes on has returned and is made again.
LEMMA GoesOn ==
  ASSUME IInv, stack # << >>, NEW st, st = stack
  PROVE  /\ Returned(stack, <<Top>>, st)
         /\ \A f : Returned(stack, <<f, Top>>, <<f>> \o st)
<1>1. stack = <<Top>> \o Tail(stack)
  BY TopFacts DEF Top
<1>2. Returned(stack, <<Top>>, st)
  <2>1. <<Top>> \in Seq(Frame(alive))
    BY TopFacts
  <2>2. QED
    BY <1>1, <2>1, TopFacts, ReturnedOK
<1>3. ASSUME NEW f PROVE Returned(stack, <<f, Top>>, <<f>> \o st)
  <2>. DEFINE S == Frame(alive) \cup {f}
  <2>1. stack \in Seq(S) /\ Top \in S
    BY TopFacts, SeqMonotonic
  <2>2. <<f>> \in Seq(S) /\ <<Top>> \in Seq(S) /\ <<f, Top>> \in Seq(S) /\ Tail(stack) \in Seq(S)
    BY <2>1, HeadTailProperties
  <2>3. <<f>> \o <<Top>> = <<f, Top>>
    BY ConcatOne
  <2>. HIDE DEF S
  <2>4. <<f>> \o st = <<f, Top>> \o Tail(stack)
    BY <1>1, <2>2, <2>3, ConcatAssociative
  <2>5. QED
    BY <2>1, <2>2, <2>4, ReturnedOK
<1>4. QED
  BY <1>2, <1>3

\* setMapped is called when the flag changes.
LEMMA MapCalls ==
  ASSUME NEW s, NEW on
  PROVE  /\ CallSetMapped(s, on) \in {<< >>, <<FrOn("setMapped", s, on)>>}
         /\ CallSetMapped(s, on) = << >> <=> mapped[s] = on
         /\ \A f : CallSetMapped(s, on) \o <<f>> = IF mapped[s] = on THEN <<f>>
                                                   ELSE <<FrOn("setMapped", s, on), f>>
<1>2. \A g : <<g>> # << >>
  OBVIOUS
<1>3. QED
  BY <1>2, ConcatOne DEF CallSetMapped

\* The calls below the one that returns stay as they were.
LEMMA CallsStep ==
  ASSUME IInv, CallsInv, NEW fs, Returned(stack, fs, stack'),
         Len(stack) = 1 \/ (role' = role /\ \A s \in Surfaces : synced[s] => synced'[s]),
         \A i \in 1 .. Len(fs) :
           CallOK(fs[i], i = 1, i = Len(fs) /\ Len(stack) = 1, role', synced', flags')
  PROVE  CallsInv'
<1>1. stack # << >> => \A i \in 1 .. Len(stack) : stack[i].s \in Surfaces
  BY TopFacts DEF Frame
<1>2. ASSUME NEW i \in 1 .. Len(stack')
      PROVE  CallOK(stack'[i], i = 1, i = Len(stack'), role', synced', flags')
  <2>1. Len(stack) \in Nat \ {0} /\ Len(fs) \in Nat /\ Len(stack') = Len(fs) + Len(stack) - 1
    BY DEF Returned
  <2>2. CASE i <= Len(fs)
    <3>1. i \in 1 .. Len(fs) /\ stack'[i] = fs[i]
      BY <2>1, <2>2 DEF Returned
    <3>2. CallOK(fs[i], i = 1, i = Len(fs) /\ Len(stack) = 1, role', synced', flags')
      BY <3>1
    <3>3. (i = Len(fs) /\ Len(stack) = 1) => i = Len(stack')
      BY <2>1
    <3>4. QED
      BY <3>1, <3>2, <3>3 DEF CallOK
  <2>3. CASE i > Len(fs)
    <3>. DEFINE k == i - Len(fs) + 1
    <3>1. k \in 2 .. Len(stack) /\ i = Len(fs) + k - 1
      BY <2>1, <2>3
    <3>2. stack'[i] = stack[k] /\ Len(stack) # 1
      BY <2>1, <3>1 DEF Returned
    <3>3. k \in 1 .. Len(stack) /\ k # 1 /\ (k = Len(stack) => i = Len(stack'))
      BY <2>1, <3>1
    <3>4. CallOK(stack[k], k = 1, k = Len(stack), role, synced, flags)
      BY <3>3 DEF CallsInv
    <3>5. role' = role /\ \A s \in Surfaces : synced[s] => synced'[s]
      BY <3>2
    <3>6. stack[k].s \in Surfaces
      BY <1>1, <2>1, <3>3, <3>2
    <3>. HIDE DEF k
    <3>7. QED
      BY <3>2, <3>3, <3>4, <3>5, <3>6 DEF CallOK
  <2>4. QED
    BY <2>1, <2>2, <2>3
<1>3. QED
  BY <1>2 DEF CallsInv

\* What a call of each kind may call.
LEMMA KindsStep ==
  ASSUME KindsOK(stack), NEW fs, NEW new, Returned(stack, fs, new),
         \/ stack[1].op \notin Syncing /\ \A i \in 1 .. Len(fs) : fs[i].op \in Mapping
         \/ /\ stack[1].op \in Committing
            /\ \A i \in 1 .. Len(fs) : fs[i].op \in Committing \cup Mapping
         \/ stack[1].op \in Syncing /\ \A i \in 1 .. Len(fs) : fs[i].op \in Syncing
         \/ Len(stack) = 1 /\ KindsOK(fs)
  PROVE  KindsOK(new)
<1>. DEFINE n == Len(fs)
            m == Len(stack)
<1>1. m \in Nat \ {0} /\ n \in Nat /\ Len(new) = n + m - 1
  BY DEF Returned
<1>2. ASSUME NEW i \in 1 .. Len(new)
      PROVE  \/ i \in 1 .. n /\ new[i] = fs[i]
             \/ i - n + 1 \in 2 .. m /\ new[i] = stack[i - n + 1]
  <2>1. i <= n \/ (i - n + 1 \in 2 .. m /\ i = n + (i - n + 1) - 1)
    BY <1>1
  <2>2. QED
    BY <1>1, <2>1 DEF Returned
<1>3. 1 \in 1 .. m /\ \A k \in 2 .. m : k \in 1 .. m /\ k # 1
  BY <1>1
<1>4. SUFFICES ASSUME NEW i \in 1 .. Len(new), NEW j \in 1 .. Len(new)
               PROVE  /\ new[i].op \in Syncing => new[j].op \in Syncing
                      /\ new[i].op \in Ending /\ i # j => new[j].op \in Mapping
  BY DEF KindsOK
<1>5. CASE m = 1 /\ KindsOK(fs)
  BY <1>1, <1>2, <1>5 DEF KindsOK
<1>6. ASSUME NEW k \in 1 .. m, NEW l \in 1 .. m
      PROVE  /\ stack[k].op \in Syncing => stack[l].op \in Syncing
             /\ stack[k].op \in Ending /\ k # l => stack[l].op \in Mapping
  BY DEF KindsOK
<1>. HIDE DEF n, m
<1>7. CASE stack[1].op \notin Syncing /\ \A k \in 1 .. n : fs[k].op \in Mapping
  <2>1. \A k \in 2 .. m : stack[k].op \notin Syncing
    BY <1>3, <1>6, <1>7
  <2>2. new[i].op \notin Syncing
    BY <1>2, <1>7, <2>1 DEF Mapping, Syncing
  <2>3. ASSUME new[i].op \in Ending, i # j PROVE new[j].op \in Mapping
    <3>1. i - n + 1 \in 2 .. m /\ new[i] = stack[i - n + 1]
      BY <1>2, <1>7, <2>3 DEF Mapping, Ending
    <3>2. CASE j \in 1 .. n /\ new[j] = fs[j]
      BY <1>7, <3>2
    <3>3. CASE j - n + 1 \in 2 .. m /\ new[j] = stack[j - n + 1]
      BY <1>1, <1>3, <1>6, <2>3, <3>1, <3>3
    <3>4. QED
      BY <1>2, <3>2, <3>3
  <2>4. QED
    BY <2>2, <2>3
<1>8. CASE stack[1].op \in Committing /\ \A k \in 1 .. n : fs[k].op \in Committing \cup Mapping
  <2>1. \A k \in 2 .. m : stack[k].op \notin Syncing \cup Ending
    BY <1>3, <1>6, <1>8 DEF Committing, Syncing, Mapping
  <2>2. new[i].op \notin Syncing \cup Ending
    BY <1>2, <1>8, <2>1 DEF Committing, Mapping, Syncing, Ending
  <2>3. QED
    BY <2>2
<1>9. CASE stack[1].op \in Syncing /\ \A k \in 1 .. n : fs[k].op \in Syncing
  <2>1. \A k \in 2 .. m : stack[k].op \in Syncing
    BY <1>3, <1>6, <1>9
  <2>2. new[i].op \in Syncing /\ new[j].op \in Syncing
    BY <1>2, <1>9, <2>1
  <2>3. QED
    BY <2>2 DEF Syncing, Ending
<1>10. QED
  BY <1>5, <1>7, <1>8, <1>9 DEF n, m

\* A commit below the call that returns is still owed only what that call, or
\* the calls it has made, were to do.
LEMMA FlushStep ==
  ASSUME FlushInv, NEW fs, Returned(stack, fs, stack'),
         mode' = "running" => mode = "running",
         mode' = "running" =>
           \A i \in 1 .. Len(fs) : fs[i].op = "content" =>
             \A c \in Surfaces : Owed(fs[i].s, c)' =>
               \E j \in 1 .. (i - 1) : Handles(fs[j], fs[i].s, c),
         mode' = "running" =>
           \A k \in 2 .. Len(stack) : \A x, c \in Surfaces :
             stack[k].op = "content" /\ stack[k].s = x /\ Owed(x, c)' =>
               \/ \E j \in 1 .. Len(fs) : Handles(fs[j], x, c)
               \/ Owed(x, c) /\ ~Handles(stack[1], x, c),
         \A k \in 1 .. Len(stack) : stack[k].s \in Surfaces
  PROVE  FlushInv'
<1>. DEFINE n == Len(fs)
            m == Len(stack)
<1>1. m \in Nat \ {0} /\ n \in Nat /\ Len(stack') = n + m - 1
  BY DEF Returned
<1>2. SUFFICES ASSUME mode' = "running", NEW i \in 1 .. Len(stack'), stack'[i].op = "content",
                      NEW x, x = stack'[i].s, NEW c \in Surfaces, Owed(x, c)'
               PROVE  \E j \in 1 .. (i - 1) : Handles(stack'[j], x, c)
  BY DEF FlushInv
<1>3. CASE i <= n
  <2>1. i \in 1 .. n /\ stack'[i] = fs[i]
    BY <1>1, <1>3 DEF Returned
  <2>2. PICK j \in 1 .. (i - 1) : Handles(fs[j], x, c)
    BY <1>2, <2>1
  <2>3. j \in 1 .. n /\ stack'[j] = fs[j]
    BY <1>1, <1>3, <2>2 DEF Returned
  <2>4. QED
    BY <2>2, <2>3
<1>4. CASE i > n
  <2>. DEFINE k == i - n + 1
  <2>1. k \in 2 .. m /\ i = n + k - 1 /\ k \in 1 .. m
    BY <1>1, <1>4
  <2>2. stack'[i] = stack[k]
    BY <2>1 DEF Returned
  <2>3. x \in Surfaces /\ stack[k].op = "content" /\ stack[k].s = x
    BY <1>2, <2>1, <2>2
  <2>4. CASE \E j \in 1 .. n : Handles(fs[j], x, c)
    <3>1. PICK j \in 1 .. n : Handles(fs[j], x, c)
      BY <2>4
    <3>2. j \in 1 .. (i - 1) /\ stack'[j] = fs[j]
      BY <1>1, <1>4 DEF Returned
    <3>3. QED
      BY <3>1, <3>2
  <2>5. CASE Owed(x, c) /\ ~Handles(stack[1], x, c)
    <3>1. PICK j \in 1 .. (k - 1) : Handles(stack[j], x, c)
      BY <1>2, <2>1, <2>3, <2>5 DEF FlushInv
    <3>2. j # 1
      BY <2>5, <3>1
    <3>3. j \in 2 .. m /\ n + j - 1 \in 1 .. (i - 1)
      BY <1>1, <2>1, <3>1, <3>2
    <3>4. stack'[n + j - 1] = stack[j]
      BY <3>3 DEF Returned
    <3>5. QED
      BY <3>1, <3>3, <3>4
  <2>6. QED
    BY <1>2, <2>1, <2>3, <2>4, <2>5
<1>5. QED
  BY <1>1, <1>3, <1>4

-----------------------------------------------------------------------------
(***************************************************************************)
(* What each call makes of the calls in progress.                          *)
(***************************************************************************)

None0(fs)      == Len(fs) = 0
One1(fs, f)    == Len(fs) = 1 /\ fs[1] = f
Two2(fs, f, g) == Len(fs) = 2 /\ fs[1] = f /\ fs[2] = g

\* The calls fs are setMapped(s, on), when the flag changes, and then f.
Map1(fs, s, on, f) == IF mapped[s] = on THEN One1(fs, f)
                      ELSE Two2(fs, FrOn("setMapped", s, on), f)

\* The lengths and the members of the tuples of calls.
LEMMA Tuples ==
  /\ None0(<< >>)
  /\ \A f : One1(<<f>>, f)
  /\ \A f, g : Two2(<<f, g>>, f, g)
BY DEF None0, One1, Two2

\* The call on top returns after checking the mapping of a surface.
LEMMA ReturnMap ==
  ASSUME IInv, stack # << >>, NEW s, NEW on, Return(CallSetMapped(s, on))
  PROVE  \E fs : /\ Returned(stack, fs, stack')
                 /\ IF mapped[s] = on THEN None0(fs) ELSE One1(fs, FrOn("setMapped", s, on))
<1>1. CASE mapped[s] = on
  BY <1>1, ReturnNone, Tuples DEF CallSetMapped
<1>2. CASE mapped[s] # on
  BY <1>2, ReturnOne, Tuples DEF CallSetMapped
<1>3. QED
  BY <1>1, <1>2

\* It makes one more call after that.
LEMMA ReturnMapOne ==
  ASSUME IInv, stack # << >>, NEW s, NEW on, NEW f, Return(CallSetMapped(s, on) \o <<f>>)
  PROVE  \E fs : Returned(stack, fs, stack') /\ Map1(fs, s, on, f)
<1>1. CASE mapped[s] = on
  <2>1. Return(<<f>>)
    BY <1>1, MapCalls
  <2>2. QED
    BY <1>1, <2>1, ReturnOne, Tuples DEF Map1
<1>2. CASE mapped[s] # on
  <2>1. Return(<<FrOn("setMapped", s, on), f>>)
    BY <1>2, MapCalls
  <2>2. QED
    BY <1>2, <2>1, ReturnTwo, Tuples DEF Map1
<1>3. QED
  BY <1>1, <1>2

\* It checks the mapping of a surface and goes on.
LEMMA GoesOnMap ==
  ASSUME IInv, stack # << >>, NEW s, NEW on, stack' = CallSetMapped(s, on) \o stack
  PROVE  \E fs : Returned(stack, fs, stack') /\ Map1(fs, s, on, Top)
<1>1. CASE mapped[s] = on
  <2>1. stack' = stack
    BY <1>1, TopFacts DEF CallSetMapped
  <2>2. QED
    BY <1>1, <2>1, GoesOn, Tuples DEF Map1
<1>2. CASE mapped[s] # on
  <2>1. stack' = <<FrOn("setMapped", s, on)>> \o stack
    BY <1>2 DEF CallSetMapped
  <2>2. Returned(stack, <<FrOn("setMapped", s, on), Top>>, stack')
    BY <2>1, GoesOn
  <2>3. QED
    BY <1>2, <2>2, Tuples DEF Map1
<1>3. QED
  BY <1>1, <1>2

\* It tells a child that its parent has changed, and goes on.
LEMMA GoesOnChange ==
  ASSUME IInv, stack # << >>, NEW c, NEW p, stack' = HandleParentChange(c, p) \o stack
  PROVE  \E fs : /\ Returned(stack, fs, stack')
                 /\ IF IsSub(c) THEN Map1(fs, c, p # None /\ mapped[p] /\ hasBuffer[c], Top)
                    ELSE One1(fs, Top)
<1>1. CASE IsSub(c)
  BY <1>1, GoesOnMap DEF HandleParentChange, CallCheckMapping
<1>2. CASE ~IsSub(c)
  <2>1. stack' = stack
    BY <1>2, TopFacts DEF HandleParentChange
  <2>2. QED
    BY <1>2, <2>1, GoesOn, Tuples
<1>3. QED
  BY <1>1, <1>2

\* A commit is owed nothing by the calls that set the mapping.
LEMMA NothingOwed ==
  ASSUME IInv, FlushInv, stack # << >>, NEW fs, Returned(stack, fs, stack'),
         mode' = "running" => mode = "running",
         \A i \in 1 .. Len(fs) : fs[i].op # "content",
         Len(stack) = 1 \/ (stack[1].op \notin Committing
                            /\ \A x, c \in Surfaces : Owed(x, c)' => Owed(x, c))
  PROVE  FlushInv'
<1>1. \A k \in 1 .. Len(stack) : stack[k].s \in Surfaces
  BY TopFacts DEF Frame
<1>2. ~\E k \in 2 .. 1 : TRUE
  OBVIOUS
<1>3. \A x, c \in Surfaces : stack[1].op \notin Committing => ~Handles(stack[1], x, c)
  BY DEF Handles, Committing
<1>4. QED
  BY <1>1, <1>2, <1>3, FlushStep

\* What is known of the call on top of the stack.
LEMMA TopCall ==
  ASSUME IInv, CallsInv, stack # << >>
  PROVE  /\ Top.op = "apply" => IF Top.on THEN role[Top.s] = "subsurface" /\ synced[Top.s]
                                ELSE Len(stack) = 1
         /\ Top.op = "content" => role[Top.s] = "subsurface" \/ Len(stack) = 1
         /\ Top.op = "cascade" => \A c \in Top.todo : role[c] = "subsurface"
         /\ Top.op = "setMapped" => (Top.on => Mappable(Top.s, role, flags))
         /\ Top.op = "reset" => role[Top.s] = "toplevel"
         /\ Top.op \in Ending => Len(stack) = 1
<1>1. Top = stack[1] /\ 1 \in 1 .. Len(stack)
  BY TopFacts
<1>2. CallOK(stack[1], 1 = 1, 1 = Len(stack), role, synced, flags)
  BY <1>1 DEF CallsInv
<1>3. QED
  BY <1>1, <1>2 DEF CallOK

\* A commit that is accepted adopts the pending children and goes on to the
\* content; one that is not is the request itself.
LEMMA ApplyCommitCalls ==
  ASSUME IInv, CallInv, stack # << >>, ApplyCommit
  PROVE  CallInv'
<1>. DEFINE s == Top.s
            accepted == IsSub(s) => synced[s] = Top.on
<1>1. /\ Top = stack[1] /\ Top.op = "apply" /\ s \in Surfaces
      /\ Len(stack) \in Nat \ {0} /\ Top.on \in BOOLEAN
      /\ \A k \in 1 .. Len(stack) : stack[k].s \in Surfaces
  BY TopFacts DEF ApplyCommit, Frame
<1>2. /\ UNCHANGED <<children, role, synced, flags, mode>>
      /\ hasCache' = IF IsSub(s) /\ synced[s] THEN [hasCache EXCEPT ![s] = TRUE] ELSE hasCache
      /\ hasCache \in [Surfaces -> BOOLEAN] /\ synced \in [Surfaces -> BOOLEAN]
  BY DEF ApplyCommit, links, IInv, TypeOK
<1>3. IF Top.on THEN role[s] = "subsurface" /\ synced[s] ELSE Len(stack) = 1
  BY TopCall, <1>1 DEF CallInv
<1>4. CASE accepted
  <2>1. PICK fs : Returned(stack, fs, stack') /\ Two2(fs, Fr("adopt", s), Fr("content", s))
    BY <1>4, ReturnTwo, Tuples DEF ApplyCommit
  <2>2. /\ Len(fs) = 2 /\ fs[1].op = "adopt" /\ fs[2].op = "content"
        /\ fs[1].s = s /\ fs[2].s = s
    BY <2>1 DEF Two2, Fr
  <2>3. CallsInv'
    <3>1. role[s] = "subsurface" \/ Len(stack) = 1
      BY <1>3
    <3>2. \A i \in 1 .. Len(fs) :
            CallOK(fs[i], i = 1, i = Len(fs) /\ Len(stack) = 1, role', synced', flags')
      BY <1>1, <1>2, <2>2, <3>1 DEF CallOK, Ending
    <3>3. QED
      BY <1>2, <2>1, <3>2, CallsStep DEF CallInv
  <2>4. KindsOK(stack')
    BY <1>1, <2>1, <2>2, KindsStep DEF CallInv, Committing
  <2>5. FlushInv'
    <3>1. ASSUME NEW x \in Surfaces, NEW c \in Surfaces, Owed(x, c)'
          PROVE  c = s \/ (Owed(x, c) /\ (x = s \/ ~Handles(Top, x, c)))
      BY <1>1, <1>2, <3>1 DEF Owed, Subsurfaces, IsSub, Handles
    <3>2. \A x, c \in Surfaces : Owed(x, c)' =>
            (\E j \in 1 .. Len(fs) : Handles(fs[j], x, c)) \/ (Owed(x, c) /\ ~Handles(stack[1], x, c))
      BY <1>1, <2>2, <3>1 DEF Handles
    <3>3. \A i \in 1 .. Len(fs) : fs[i].op = "content" =>
            \A c \in Surfaces : \E j \in 1 .. (i - 1) : Handles(fs[j], fs[i].s, c)
      BY <2>2 DEF Handles
    <3>4. QED
      BY <1>1, <1>2, <2>1, <3>2, <3>3, FlushStep DEF CallInv
  <2>6. QED
    BY <2>3, <2>4, <2>5 DEF CallInv
<1>5. CASE ~accepted
  <2>1. PICK fs : Returned(stack, fs, stack') /\ None0(fs)
    BY <1>5, ReturnNone, Tuples DEF ApplyCommit
  <2>2. Len(fs) = 0 /\ Len(stack) = 1
    <3>1. synced[s] \in BOOLEAN /\ Top.on \in BOOLEAN /\ ~(synced[s] /\ Top.on)
      BY <1>1, <1>2, <1>5
    <3>2. QED
      BY <1>3, <2>1, <3>1 DEF None0
  <2>3. CallsInv'
    BY <1>1, <1>2, <2>1, <2>2, CallsStep DEF CallInv
  <2>4. KindsOK(stack')
    BY <1>1, <2>1, <2>2, KindsStep DEF CallInv, Committing
  <2>5. FlushInv'
    BY <1>1, <1>2, <2>1, <2>2, NothingOwed DEF CallInv
  <2>6. QED
    BY <2>3, <2>4, <2>5 DEF CallInv
<1>6. QED
  BY <1>4, <1>5

\* The calls of a step that may set a mapping first.
LEMMA MapFrames ==
  ASSUME NEW fs, NEW s, NEW on, NEW f, Map1(fs, s, on, f)
  PROVE  /\ \A i \in 1 .. Len(fs) : \/ i = 1 /\ fs[i] = FrOn("setMapped", s, on)
                                    \/ i = Len(fs) /\ fs[i] = f
         /\ \E j \in 1 .. Len(fs) : fs[j] = f
<1>1. One1(fs, f) \/ Two2(fs, FrOn("setMapped", s, on), f)
  BY DEF Map1
<1>2. CASE One1(fs, f)
  BY <1>2 DEF One1
<1>3. CASE Two2(fs, FrOn("setMapped", s, on), f)
  <2>. DEFINE n == Len(fs)
              g == FrOn("setMapped", s, on)
  <2>1. n = 2 /\ fs[1] = g /\ fs[2] = f
    BY <1>3 DEF Two2
  <2>. HIDE DEF n, g
  <2>2. \A i \in 1 .. n : (i = 1 /\ fs[i] = g) \/ (i = n /\ fs[i] = f)
    BY <2>1
  <2>3. \E j \in 1 .. n : fs[j] = f
    BY <2>1
  <2>4. QED
    BY <2>2, <2>3 DEF n, g
<1>4. QED
  BY <1>1, <1>2, <1>3

\* A call that goes on, after setting a mapping or not, keeps the order of the
\* calls and what they owe.
LEMMA GoesOnCalls ==
  ASSUME IInv, CallInv, stack # << >>, NEW fs, Returned(stack, fs, stack'),
         UNCHANGED <<role, synced, flags>>, mode' = mode,
         Top.op \notin {"setMapped", "content", "apply"} \cup Syncing,
         NEW c, NEW on, on => Mappable(c, role, flags),
         One1(fs, Top) \/ Map1(fs, c, on, Top),
         \/ Len(stack) = 1
         \/ \A x, y \in Surfaces : Owed(x, y)' => Owed(x, y) \/ (x = Top.s /\ Top.op = "adopt")
  PROVE  CallInv'
<1>. DEFINE F == FrOn("setMapped", c, on)
<1>1. /\ Top = stack[1] /\ Len(stack) \in Nat \ {0} /\ Top.op \in Ops
      /\ \A k \in 1 .. Len(stack) : stack[k].s \in Surfaces
  BY TopFacts DEF Frame
<1>2. /\ \A i \in 1 .. Len(fs) : (i = 1 /\ fs[i] = F) \/ (i = Len(fs) /\ fs[i] = Top)
      /\ \E j \in 1 .. Len(fs) : fs[j] = Top
  <2>1. CASE One1(fs, Top)
    BY <2>1 DEF One1
  <2>2. CASE Map1(fs, c, on, Top)
    BY <2>2, MapFrames
  <2>3. QED
    BY <2>1, <2>2
<1>3. F.op = "setMapped" /\ F.s = c /\ F.on = on
  BY DEF FrOn
<1>. HIDE DEF F
<1>4. CallsInv'
  <2>1. \A i \in 1 .. Len(fs) :
          CallOK(fs[i], i = 1, i = Len(fs) /\ Len(stack) = 1, role', synced', flags')
    <3>1. CallOK(F, TRUE, FALSE, role, synced, flags)
      BY <1>3 DEF CallOK, Ending
    <3>2. CallOK(Top, FALSE, Len(stack) = 1, role, synced, flags)
      BY <1>1, TopCall DEF CallOK, CallInv
    <3>3. ASSUME NEW i \in 1 .. Len(fs)
          PROVE  CallOK(fs[i], i = 1, i = Len(fs) /\ Len(stack) = 1, role, synced, flags)
      <4>1. CASE i = 1 /\ fs[i] = F
        BY <3>1, <4>1 DEF CallOK
      <4>2. CASE i = Len(fs) /\ fs[i] = Top
        BY <3>2, <4>2 DEF CallOK
      <4>3. QED
        BY <1>2, <4>1, <4>2
    <3>4. QED
      BY <3>3
  <2>2. QED
    BY <2>1, CallsStep DEF CallInv
<1>5. KindsOK(stack')
  <2>1. CASE Top.op \in Mapping
    BY <1>1, <1>2, <1>3, <2>1, KindsStep DEF CallInv, Mapping, Syncing
  <2>2. CASE Top.op \in Committing
    BY <1>1, <1>2, <1>3, <2>2, KindsStep DEF CallInv, Mapping, Committing
  <2>3. CASE Top.op \in Ending
    <3>1. Len(stack) = 1
      BY <2>3, TopCall DEF CallInv
    <3>2. KindsOK(fs)
      <4>1. \A i, j \in 1 .. Len(fs) : i = 1 \/ j = 1 \/ i = j
        <5>1. Len(fs) = 1 \/ Len(fs) = 2
          BY DEF Map1, One1, Two2
        <5>2. \A i, j \in 1 .. 1 : i = j
          OBVIOUS
        <5>3. \A i, j \in 1 .. 2 : i = 1 \/ j = 1 \/ i = j
          OBVIOUS
        <5>4. QED
          BY <5>1, <5>2, <5>3
      <4>2. QED
        BY <1>2, <1>3, <2>3, <4>1 DEF KindsOK, Mapping, Syncing, Ending
    <3>3. QED
      BY <3>1, <3>2, KindsStep DEF CallInv
  <2>4. QED
    BY <1>1, <2>1, <2>2, <2>3 DEF Ops, Mapping, Committing, Ending, Syncing
<1>6. FlushInv'
  <2>1. ASSUME Len(stack) # 1, NEW x \in Surfaces, NEW y \in Surfaces, Owed(x, y)'
        PROVE  \/ \E j \in 1 .. Len(fs) : Handles(fs[j], x, y)
               \/ Owed(x, y) /\ ~Handles(stack[1], x, y)
    <3>1. Handles(Top, x, y) \/ (Owed(x, y) /\ ~Handles(Top, x, y))
      BY <2>1 DEF Handles
    <3>2. QED
      BY <1>1, <1>2, <3>1
  <2>2. \A i \in 1 .. Len(fs) : fs[i].op # "content"
    BY <1>2, <1>3
  <2>3. CASE Len(stack) = 1
    BY <2>2, <2>3, NothingOwed DEF CallInv
  <2>4. CASE Len(stack) # 1
    BY <1>1, <2>1, <2>2, <2>4, FlushStep DEF CallInv
  <2>5. QED
    BY <2>3, <2>4
<1>7. QED
  BY <1>4, <1>5, <1>6 DEF CallInv

\* A pending child is adopted and checks its mapping.
LEMMA AdoptOneCalls ==
  ASSUME IInv, CallInv, stack # << >>, AdoptOne
  PROVE  CallInv'
<1>. DEFINE s == Top.s
<1>1. s \in Surfaces /\ children \in [Surfaces -> SUBSET Surfaces]
  BY TopFacts DEF IInv, TypeOK
<1>2. PICK c \in pendingChildren[s] :
        IF pendingParent[c] # s THEN UNCHANGED <<parent, pendingParent, children, stack>>
        ELSE /\ children' = [q \in Surfaces |-> IF q = s THEN children[q] \cup {c}
                                                ELSE IF q = parent[c] THEN children[q] \ {c}
                                                ELSE children[q]]
             /\ stack' = HandleParentChange(c, s) \o stack
  BY DEF AdoptOne
<1>3. Top.op = "adopt" /\ UNCHANGED <<role, synced, hasCache, flags, mode>>
  BY DEF AdoptOne, roles
<1>4. \A x, y \in Surfaces : Owed(x, y)' => Owed(x, y) \/ x = s
  BY <1>1, <1>2, <1>3 DEF Owed, Subsurfaces, IsSub
<1>5. \E fs : /\ Returned(stack, fs, stack')
              /\ \/ One1(fs, Top)
                 \/ \E on : IsSub(c) /\ Map1(fs, c, on, Top)
  <2>1. CASE stack' = stack
    BY <2>1, GoesOn, Tuples
  <2>2. CASE stack' = HandleParentChange(c, s) \o stack
    BY <2>2, GoesOnChange
  <2>3. QED
    BY <1>2, <2>1, <2>2
<1>6. IsSub(c) => Mappable(c, role, flags)
  BY DEF IsSub, Mappable
<1>7. QED
  <2>1. PICK fs : /\ Returned(stack, fs, stack')
                  /\ \/ One1(fs, Top)
                     \/ \E on : IsSub(c) /\ Map1(fs, c, on, Top)
    BY <1>5
  <2>2. CASE One1(fs, Top)
    <3>1. \A d : FALSE => Mappable(d, role, flags)
      OBVIOUS
    <3>2. QED
      BY <1>3, <1>4, <2>1, <2>2, <3>1, GoesOnCalls DEF Syncing
  <2>3. ASSUME NEW on, IsSub(c), Map1(fs, c, on, Top)
        PROVE  CallInv'
    BY <1>3, <1>4, <1>6, <2>1, <2>3, GoesOnCalls DEF Syncing
  <2>4. QED
    BY <2>1, <2>2, <2>3

\* When every pending child is adopted the children are notified.
LEMMA AdoptDoneCalls ==
  ASSUME IInv, CallInv, stack # << >>, AdoptDone
  PROVE  CallInv'
<1>. DEFINE s == Top.s
<1>1. /\ Top = stack[1] /\ Top.op = "adopt" /\ Len(stack) \in Nat \ {0}
      /\ \A k \in 1 .. Len(stack) : stack[k].s \in Surfaces
  BY TopFacts DEF AdoptDone, Frame
<1>2. UNCHANGED <<children, role, synced, hasCache, flags, mode>>
  BY DEF AdoptDone, links, roles
<1>3. PICK fs : Returned(stack, fs, stack') /\ One1(fs, FrTodo("notify", s, children[s]))
  BY ReturnOne, Tuples DEF AdoptDone
<1>4. Len(fs) = 1 /\ fs[1].op = "notify" /\ fs[1].s = s /\ fs[1].todo = children[s]
  BY <1>3 DEF One1, FrTodo
<1>5. CallsInv'
  <2>1. \A i \in 1 .. Len(fs) :
          CallOK(fs[i], i = 1, i = Len(fs) /\ Len(stack) = 1, role', synced', flags')
    BY <1>4 DEF CallOK, Ending
  <2>2. QED
    BY <1>2, <1>3, <2>1, CallsStep DEF CallInv
<1>6. KindsOK(stack')
  BY <1>1, <1>3, <1>4, KindsStep DEF CallInv, Committing
<1>7. FlushInv'
  <2>1. ASSUME NEW x \in Surfaces, NEW y \in Surfaces, Owed(x, y)'
        PROVE  \/ \E j \in 1 .. Len(fs) : Handles(fs[j], x, y)
               \/ Owed(x, y) /\ ~Handles(stack[1], x, y)
    <3>1. Owed(x, y)
      BY <1>2, <2>1 DEF Owed, Subsurfaces, IsSub
    <3>2. CASE x = s
      BY <1>4, <3>1, <3>2 DEF Handles, Owed, Subsurfaces
    <3>3. CASE x # s
      BY <1>1, <3>1, <3>3 DEF Handles
    <3>4. QED
      BY <3>2, <3>3
  <2>2. \A i \in 1 .. Len(fs) : fs[i].op # "content"
    BY <1>4
  <2>3. QED
    BY <1>1, <1>2, <1>3, <2>1, <2>2, FlushStep DEF CallInv
<1>8. QED
  BY <1>5, <1>6, <1>7 DEF CallInv

\* A child that has a commit in its cache applies it.
LEMMA NotifyCalls ==
  ASSUME IInv, CallInv, stack # << >>, NotifyParentCommit
  PROVE  CallInv'
<1>. DEFINE s == Top.s
            left == {c \in Top.todo \cap Subsurfaces(s) : synced[c] /\ hasCache[c]}
<1>1. /\ Top = stack[1] /\ Top.op = "notify" /\ Len(stack) \in Nat \ {0}
      /\ \A k \in 1 .. Len(stack) : stack[k].s \in Surfaces
  BY TopFacts DEF NotifyParentCommit, Frame
<1>2. UNCHANGED <<children, role, synced, hasCache, flags, mode>>
  BY DEF NotifyParentCommit, links, roles
<1>3. \A x, y \in Surfaces : Owed(x, y)' => Owed(x, y) /\ (x = s /\ y \in Top.todo => y \in left)
  BY <1>2 DEF Owed, Subsurfaces, IsSub
<1>4. ASSUME left = {}, Return(<< >>)
      PROVE  CallInv'
  <2>1. PICK fs : Returned(stack, fs, stack') /\ None0(fs)
    BY <1>4, ReturnNone, Tuples
  <2>2. Len(fs) = 0
    BY <2>1 DEF None0
  <2>3. CallsInv' /\ KindsOK(stack')
    BY <1>1, <1>2, <2>1, <2>2, CallsStep, KindsStep DEF CallInv, Committing
  <2>4. \A x, y \in Surfaces : Owed(x, y)' => Owed(x, y) /\ ~Handles(Top, x, y)
    BY <1>1, <1>3, <1>4 DEF Handles
  <2>5. FlushInv'
    BY <1>1, <1>2, <2>1, <2>2, <2>4, FlushStep DEF CallInv
  <2>6. QED
    BY <2>3, <2>5 DEF CallInv
<1>5. ASSUME NEW c \in left, Return(<<FrOn("apply", c, TRUE), FrTodo("notify", s, left \ {c})>>)
      PROVE  CallInv'
  <2>1. PICK fs : /\ Returned(stack, fs, stack')
                  /\ Two2(fs, FrOn("apply", c, TRUE), FrTodo("notify", s, left \ {c}))
    BY <1>5, ReturnTwo, Tuples
  <2>2. /\ Len(fs) = 2 /\ fs[1].op = "apply" /\ fs[2].op = "notify"
        /\ fs[1].s = c /\ fs[1].on = TRUE /\ fs[2].s = s /\ fs[2].todo = left \ {c}
    BY <2>1 DEF Two2, FrOn, FrTodo
  <2>3. role[c] = "subsurface" /\ synced[c]
    BY DEF Subsurfaces, IsSub
  <2>. HIDE DEF left
  <2>4. CallsInv'
    <3>1. \A i \in 1 .. Len(fs) :
            CallOK(fs[i], i = 1, i = Len(fs) /\ Len(stack) = 1, role', synced', flags')
      BY <1>2, <2>2, <2>3 DEF CallOK, Ending
    <3>2. QED
      BY <1>2, <2>1, <3>1, CallsStep DEF CallInv
  <2>5. KindsOK(stack')
    BY <1>1, <2>1, <2>2, KindsStep DEF CallInv, Committing
  <2>6. FlushInv'
    <3>1. \A x, y \in Surfaces : Owed(x, y)' =>
            (\E j \in 1 .. Len(fs) : Handles(fs[j], x, y)) \/ (Owed(x, y) /\ ~Handles(stack[1], x, y))
      BY <1>1, <1>3, <2>2 DEF Handles
    <3>2. \A i \in 1 .. Len(fs) : fs[i].op # "content"
      BY <2>2
    <3>3. QED
      BY <1>1, <1>2, <2>1, <3>1, <3>2, FlushStep DEF CallInv
  <2>7. QED
    BY <2>4, <2>5, <2>6 DEF CallInv
<1>6. QED
  BY <1>4, <1>5 DEF NotifyParentCommit

\* The request itself returns, after making other calls or not.
LEMMA LastCall ==
  ASSUME IInv, CallInv, stack # << >>, Len(stack) = 1, NEW fs, Returned(stack, fs, stack'),
         mode' = "running" => mode = "running",
         \A i \in 1 .. Len(fs) : /\ CallOK(fs[i], i = 1, i = Len(fs), role', synced', flags')
                                 /\ fs[i].op # "content",
         KindsOK(fs)
  PROVE  CallInv'
<1>1. \A i \in 1 .. Len(fs) :
        CallOK(fs[i], i = 1, i = Len(fs) /\ Len(stack) = 1, role', synced', flags')
  BY DEF CallOK
<1>2. CallsInv'
  BY <1>1, CallsStep DEF CallInv
<1>3. KindsOK(stack')
  BY KindsStep DEF CallInv
<1>4. FlushInv'
  BY NothingOwed DEF CallInv
<1>5. QED
  BY <1>2, <1>3, <1>4 DEF CallInv

\* It returns and makes no call.
LEMMA LastReturn ==
  ASSUME IInv, CallInv, stack # << >>, Len(stack) = 1, Return(<< >>),
         mode' = "running" => mode = "running"
  PROVE  CallInv'
<1>1. PICK fs : Returned(stack, fs, stack') /\ None0(fs)
  BY ReturnNone, Tuples
<1>2. Len(fs) = 0
  BY <1>1 DEF None0
<1>3. KindsOK(fs)
  BY <1>2 DEF KindsOK
<1>4. QED
  BY <1>1, <1>2, <1>3, LastCall

\* It maps or unmaps a surface, and then does op.
LEMMA LastMap ==
  ASSUME IInv, CallInv, stack # << >>, Len(stack) = 1, UNCHANGED <<role, synced, flags, mode>>,
         NEW s, NEW on, on => Mappable(s, role, flags),
         \/ Return(CallSetMapped(s, on))
         \/ /\ role[s] = "toplevel"
            /\ Return(CallSetMapped(s, on) \o <<Fr("reset", s)>>)
  PROVE  CallInv'
<1>. DEFINE F == FrOn("setMapped", s, on)
            R == Fr("reset", s)
<1>1. /\ F.op = "setMapped" /\ F.s = s /\ F.on = on
      /\ R.op = "reset" /\ R.s = s
  BY DEF FrOn, Fr
<1>2. CASE Return(CallSetMapped(s, on))
  <2>1. PICK fs : /\ Returned(stack, fs, stack')
                  /\ IF mapped[s] = on THEN None0(fs) ELSE One1(fs, F)
    BY <1>2, ReturnMap
  <2>. HIDE DEF F
  <2>2. \A i \in 1 .. Len(fs) : i = 1 /\ fs[i] = F
    BY <2>1 DEF None0, One1
  <2>3. \A i \in 1 .. Len(fs) : /\ CallOK(fs[i], i = 1, i = Len(fs), role', synced', flags')
                                /\ fs[i].op # "content"
    BY <1>1, <2>2 DEF CallOK, Ending
  <2>4. KindsOK(fs)
    BY <1>1, <2>2 DEF KindsOK, Syncing, Ending
  <2>5. QED
    BY <2>1, <2>3, <2>4, LastCall
<1>3. CASE role[s] = "toplevel" /\ Return(CallSetMapped(s, on) \o <<R>>)
  <2>1. PICK fs : Returned(stack, fs, stack') /\ Map1(fs, s, on, R)
    BY <1>3, ReturnMapOne
  <2>2. \A i \in 1 .. Len(fs) : (i = 1 /\ fs[i] = F) \/ (i = Len(fs) /\ fs[i] = R)
    BY <2>1, MapFrames
  <2>. HIDE DEF F, R
  <2>3. \A i \in 1 .. Len(fs) : /\ CallOK(fs[i], i = 1, i = Len(fs), role', synced', flags')
                                /\ fs[i].op # "content"
    BY <1>1, <1>3, <2>2 DEF CallOK, Ending
  <2>4. KindsOK(fs)
    BY <1>1, <2>2 DEF KindsOK, Syncing, Ending, Mapping
  <2>5. QED
    BY <2>1, <2>3, <2>4, LastCall
<1>4. QED
  BY <1>2, <1>3

\* The content of a surface is applied when its children have applied theirs,
\* and its own commit is no longer in the cache.
LEMMA ApplyContentCalls ==
  ASSUME IInv, CallInv, stack # << >>, ApplyContent
  PROVE  CallInv'
<1>. DEFINE s  == Top.s
            hb == IF attached[s] = "no" THEN hasBuffer[s] ELSE attached[s] = "buffer"
<1>1. /\ Top = stack[1] /\ Top.op = "content" /\ s \in Surfaces /\ Len(stack) \in Nat \ {0}
      /\ \A k \in 1 .. Len(stack) : stack[k].s \in Surfaces
  BY TopFacts DEF ApplyContent, Frame
<1>2. /\ role[s] = "subsurface" \/ Len(stack) = 1
      /\ UNCHANGED <<children, role, synced>>
      /\ hasCache \in [Surfaces -> BOOLEAN]
  BY <1>1, TopCall DEF CallInv, ApplyContent, links, IInv, TypeOK
<1>3. ASSUME mode' = "dying", Return(<< >>), UNCHANGED <<hasCache, flags>>
      PROVE  CallInv'
  <2>1. PICK fs : Returned(stack, fs, stack') /\ None0(fs)
    BY <1>3, ReturnNone, Tuples
  <2>2. Len(fs) = 0
    BY <2>1 DEF None0
  <2>3. CallsInv' /\ KindsOK(stack')
    BY <1>1, <1>2, <1>3, <2>1, <2>2, CallsStep, KindsStep DEF CallInv, Committing
  <2>4. FlushInv'
    BY <1>3 DEF FlushInv
  <2>5. QED
    BY <2>3, <2>4 DEF CallInv
<1>4. CASE role[s] = "none" /\ Return(<< >>) /\ UNCHANGED mode
  BY <1>2, <1>4, LastReturn
<1>5. ASSUME IsSub(s), hasCache' = [hasCache EXCEPT ![s] = FALSE],
             Return(CallCheckMapping(s, parent[s], hb)), UNCHANGED <<flags, mode>>
      PROVE  CallInv'
  <2>. DEFINE on == parent[s] # None /\ mapped[parent[s]] /\ hb
              F  == FrOn("setMapped", s, on)
  <2>1. PICK fs : /\ Returned(stack, fs, stack')
                  /\ IF mapped[s] = on THEN None0(fs) ELSE One1(fs, F)
    BY <1>5, ReturnMap DEF CallCheckMapping
  <2>2. F.op = "setMapped" /\ F.s = s
    BY DEF FrOn
  <2>. HIDE DEF F, on, hb
  <2>3. \A i \in 1 .. Len(fs) : i = 1 /\ fs[i] = F
    BY <2>1 DEF None0, One1
  <2>4. CallsInv'
    <3>1. \A i \in 1 .. Len(fs) :
            CallOK(fs[i], i = 1, i = Len(fs) /\ Len(stack) = 1, role', synced', flags')
      BY <1>2, <1>5, <2>2, <2>3 DEF CallOK, Ending, Mappable, IsSub
    <3>2. QED
      BY <1>2, <2>1, <3>1, CallsStep DEF CallInv
  <2>5. KindsOK(stack')
    BY <1>1, <2>1, <2>2, <2>3, KindsStep DEF CallInv, Syncing, Mapping
  <2>6. FlushInv'
    <3>1. ASSUME NEW x \in Surfaces, NEW y \in Surfaces, Owed(x, y)', mode = "running"
          PROVE  Owed(x, y) /\ ~Handles(Top, x, y)
      <4>1. y # s /\ Owed(x, y)
        BY <1>1, <1>2, <1>5, <3>1 DEF Owed, Subsurfaces, IsSub
      <4>2. x # s
        <5>1. x = s => \E j \in 1 .. (1 - 1) : Handles(stack[j], s, y)
          BY <1>1, <3>1, <4>1 DEF CallInv, FlushInv
        <5>2. QED
          BY <5>1
      <4>3. QED
        BY <1>1, <4>1, <4>2 DEF Handles
    <3>2. \A i \in 1 .. Len(fs) : fs[i].op # "content"
      BY <2>2, <2>3
    <3>3. QED
      BY <1>1, <1>5, <2>1, <3>1, <3>2, FlushStep DEF CallInv
  <2>7. QED
    BY <2>4, <2>5, <2>6 DEF CallInv
<1>6. ASSUME role[s] = "toplevel", ToplevelCommit(s, hb)
      PROVE  CallInv'
  <2>1. Len(stack) = 1
    BY <1>2, <1>6
  <2>2. \/ Return(<< >>) /\ (mode' = "running" => mode = "running")
        \/ /\ UNCHANGED <<flags, mode>> /\ "HasPendingInitialConf" \notin flags[s]
           /\ \/ Return(<< >>)
              \/ Return(CallSetMapped(s, FALSE) \o <<Fr("reset", s)>>)
              \/ Return(CallSetMapped(s, TRUE))
    BY <1>6 DEF ToplevelCommit
  <2>3. "HasPendingInitialConf" \notin flags[s] => Mappable(s, role, flags)
    BY <1>6 DEF Mappable
  <2>4. QED
    BY <1>2, <1>6, <2>1, <2>2, <2>3, LastReturn, LastMap
<1>7. QED
  BY <1>3, <1>4, <1>5, <1>6 DEF ApplyContent

\* The calls of setMapped on the children.
LEMMA MappingCalls ==
  ASSUME IInv, CallInv, stack # << >>, SetMapped \/ CascadeMapping
  PROVE  CallInv'
<1>. DEFINE s == Top.s
<1>1. /\ Top = stack[1] /\ Top.op \in Mapping /\ s \in Surfaces /\ Len(stack) \in Nat \ {0}
      /\ \A k \in 1 .. Len(stack) : stack[k].s \in Surfaces
  BY TopFacts DEF SetMapped, CascadeMapping, Frame, Mapping
<1>2. UNCHANGED <<children, role, synced, hasCache, flags, mode>>
  BY DEF SetMapped, CascadeMapping, links, roles
<1>3. ASSUME NEW fs, Returned(stack, fs, stack'), NEW F, NEW C,
             \A i \in 1 .. Len(fs) : fs[i] = C \/ (i = 1 /\ fs[i] = F),
             F.op = "setMapped", F.on => Mappable(F.s, role, flags),
             C.op = "cascade", \A c \in C.todo : role[c] = "subsurface"
      PROVE  CallInv'
  <2>1. CallsInv'
    <3>1. \A i \in 1 .. Len(fs) :
            CallOK(fs[i], i = 1, i = Len(fs) /\ Len(stack) = 1, role', synced', flags')
      BY <1>2, <1>3 DEF CallOK, Ending
    <3>2. QED
      BY <1>2, <1>3, <3>1, CallsStep DEF CallInv
  <2>2. KindsOK(stack')
    BY <1>1, <1>3, KindsStep DEF CallInv, Mapping, Syncing
  <2>3. FlushInv'
    <3>1. \A x, y \in Surfaces : Owed(x, y)' => Owed(x, y)
      BY <1>2 DEF Owed, Subsurfaces, IsSub
    <3>2. QED
      BY <1>1, <1>2, <1>3, <3>1, NothingOwed DEF CallInv, Mapping, Committing
  <2>4. QED
    BY <2>1, <2>2, <2>3 DEF CallInv
<1>. DEFINE F0 == FrOn("setMapped", s, FALSE)
<1>4. F0.op = "setMapped" /\ (F0.on => Mappable(F0.s, role, flags))
  BY DEF FrOn
<1>5. CASE SetMapped
  <2>. DEFINE C == FrTodo("cascade", s, Subsurfaces(s))
  <2>1. PICK fs : Returned(stack, fs, stack') /\ One1(fs, C)
    BY <1>5, ReturnOne, Tuples DEF SetMapped
  <2>2. C.op = "cascade" /\ \A c \in C.todo : role[c] = "subsurface"
    BY DEF FrTodo, Subsurfaces, IsSub
  <2>. HIDE DEF C, F0
  <2>3. QED
    BY <1>3, <1>4, <2>1, <2>2 DEF One1
<1>6. CASE CascadeMapping
  <2>1. Top.op = "cascade" /\ \A c \in Top.todo : role[c] = "subsurface"
    BY <1>6, TopCall DEF CallInv, CascadeMapping
  <2>2. ASSUME Return(<< >>)
        PROVE  CallInv'
    <3>1. PICK fs : Returned(stack, fs, stack') /\ None0(fs)
      BY <2>2, ReturnNone, Tuples
    <3>. HIDE DEF F0
    <3>2. QED
      BY <1>3, <1>4, <2>1, <3>1 DEF None0
  <2>3. ASSUME NEW c \in Top.todo,
               Return(CallCheckMapping(c, parent[c], hasBuffer[c])
                        \o <<FrTodo("cascade", s, Top.todo \ {c})>>)
        PROVE  CallInv'
    <3>. DEFINE on == parent[c] # None /\ mapped[parent[c]] /\ hasBuffer[c]
                F  == FrOn("setMapped", c, on)
                C  == FrTodo("cascade", s, Top.todo \ {c})
    <3>1. PICK fs : Returned(stack, fs, stack') /\ Map1(fs, c, on, C)
      BY <2>3, ReturnMapOne DEF CallCheckMapping
    <3>2. \A i \in 1 .. Len(fs) : (i = 1 /\ fs[i] = F) \/ (i = Len(fs) /\ fs[i] = C)
      BY <3>1, MapFrames
    <3>3. /\ F.op = "setMapped" /\ F.s = c
          /\ C.op = "cascade" /\ C.todo = Top.todo \ {c}
      BY DEF FrOn, FrTodo
    <3>4. Mappable(c, role, flags)
      BY <2>1 DEF Mappable
    <3>. HIDE DEF F, C, on
    <3>5. QED
      BY <1>3, <2>1, <3>1, <3>2, <3>3, <3>4
  <2>4. QED
    BY <1>6, <2>2, <2>3 DEF CascadeMapping
<1>7. QED
  BY <1>5, <1>6

\* A surface becomes synchronized, and then its children.
LEMMA SyncCalls ==
  ASSUME IInv, CallInv, stack # << >>, Sync \/ SyncChildren
  PROVE  CallInv'
<1>1. /\ Top = stack[1] /\ Top.op \in Syncing /\ Top.s \in Surfaces /\ Len(stack) \in Nat \ {0}
  BY TopFacts DEF Sync, SyncChildren, Syncing
<1>2. role' = role /\ \A s \in Surfaces : synced[s] => synced'[s]
  BY <1>1 DEF Sync, SyncChildren, roles, IInv, TypeOK
<1>3. PICK fs : Returned(stack, fs, stack') /\ \A i \in 1 .. Len(fs) : fs[i].op \in Syncing
  <2>1. \A s, todo : Fr("sync", s).op \in Syncing /\ FrTodo("syncChildren", s, todo).op \in Syncing
    BY DEF Fr, FrTodo, Syncing
  <2>2. CASE Sync
    <3>1. Return(<<FrTodo("syncChildren", Top.s, Subsurfaces(Top.s))>>)
      BY <2>2 DEF Sync
    <3>2. PICK fs : Returned(stack, fs, stack') /\ One1(fs, FrTodo("syncChildren", Top.s, Subsurfaces(Top.s)))
      BY <3>1, ReturnOne, Tuples
    <3>3. QED
      BY <2>1, <3>2 DEF One1
  <2>3. CASE SyncChildren
    <3>1. ASSUME Return(<< >>)
          PROVE  \E fs : Returned(stack, fs, stack') /\ \A i \in 1 .. Len(fs) : fs[i].op \in Syncing
      BY <3>1, ReturnNone, Tuples DEF None0
    <3>2. ASSUME NEW c, NEW todo, Return(<<Fr("sync", c), FrTodo("syncChildren", Top.s, todo)>>)
          PROVE  \E fs : Returned(stack, fs, stack') /\ \A i \in 1 .. Len(fs) : fs[i].op \in Syncing
      <4>1. PICK fs : /\ Returned(stack, fs, stack')
                      /\ Two2(fs, Fr("sync", c), FrTodo("syncChildren", Top.s, todo))
        BY <3>2, ReturnTwo, Tuples
      <4>2. \A i \in 1 .. Len(fs) : fs[i].op \in Syncing
        <5>1. Len(fs) = 2 /\ fs[1].op \in Syncing /\ fs[2].op \in Syncing
          BY <2>1, <4>1 DEF Two2
        <5>2. \A i \in 1 .. 2 : i = 1 \/ i = 2
          OBVIOUS
        <5>3. QED
          BY <5>1, <5>2
      <4>3. QED
        BY <4>1, <4>2
    <3>3. QED
      BY <2>3, <3>1, <3>2 DEF SyncChildren
  <2>4. QED
    BY <2>2, <2>3
<1>4. CallsInv'
  <2>1. \A i \in 1 .. Len(fs) :
          CallOK(fs[i], i = 1, i = Len(fs) /\ Len(stack) = 1, role', synced', flags')
    BY <1>3 DEF CallOK, Syncing, Ending
  <2>2. QED
    BY <1>2, <1>3, <2>1, CallsStep DEF CallInv
<1>5. KindsOK(stack')
  BY <1>1, <1>3, KindsStep DEF CallInv
<1>6. FlushInv'
  <2>1. \A i \in 1 .. Len(stack) : stack[i].op \in Syncing
    BY <1>1 DEF CallInv, KindsOK
  <2>2. ASSUME NEW i \in 1 .. Len(stack')
        PROVE  stack'[i].op \in Syncing
    <3>. DEFINE n == Len(fs)
                m == Len(stack)
    <3>1. m \in Nat \ {0} /\ n \in Nat /\ Len(stack') = n + m - 1
      BY <1>3 DEF Returned
    <3>2. (i \in 1 .. n) \/ (i - n + 1 \in 2 .. m /\ i = n + (i - n + 1) - 1)
      BY <3>1
    <3>3. CASE i \in 1 .. n
      BY <1>3, <3>3 DEF Returned
    <3>4. CASE i - n + 1 \in 2 .. m /\ i = n + (i - n + 1) - 1
      <4>1. stack'[i] = stack[i - n + 1]
        BY <1>3, <3>4 DEF Returned
      <4>2. QED
        BY <2>1, <3>1, <3>4, <4>1
    <3>5. QED
      BY <3>2, <3>3, <3>4
  <2>3. QED
    BY <2>2 DEF FlushInv, Syncing
<1>7. QED
  BY <1>4, <1>5, <1>6 DEF CallInv

\* A role is reset, a role or a surface is destroyed: the request itself.
LEMMA EndingCalls ==
  ASSUME IInv, CallInv, stack # << >>, DropRole \/ ResetDone \/ Remove
  PROVE  CallInv'
<1>1. Top.op \in Ending
  BY DEF DropRole, ResetDone, Remove, Ending
<1>2. Len(stack) = 1
  BY <1>1, TopCall DEF CallInv
<1>3. mode' = "running" => mode = "running"
  BY DEF DropRole, ResetDone, Remove
<1>4. CASE ResetDone \/ Remove
  BY <1>2, <1>3, <1>4, LastReturn DEF ResetDone, Remove
<1>5. CASE DropRole
  <2>. DEFINE F == FrOn("setMapped", Top.s, FALSE)
  <2>1. F.op = "setMapped" /\ F.on = FALSE
    BY DEF FrOn
  <2>2. PICK fs : /\ Returned(stack, fs, stack')
                  /\ IF mapped[Top.s] = FALSE THEN None0(fs) ELSE One1(fs, F)
    BY <1>5, ReturnMap DEF DropRole
  <2>. HIDE DEF F
  <2>3. \A i \in 1 .. Len(fs) : i = 1 /\ fs[i] = F
    BY <2>2 DEF None0, One1
  <2>4. \A i \in 1 .. Len(fs) : /\ CallOK(fs[i], i = 1, i = Len(fs), role', synced', flags')
                                /\ fs[i].op # "content"
    BY <2>1, <2>3 DEF CallOK, Ending
  <2>5. KindsOK(fs)
    BY <2>1, <2>3 DEF KindsOK, Syncing, Ending
  <2>6. QED
    BY <1>2, <1>3, <2>2, <2>4, <2>5, LastCall
<1>6. QED
  BY <1>4, <1>5

\* reset unmaps a child or gives it away, and goes on.
LEMMA ResetChildCalls ==
  ASSUME IInv, CallInv, stack # << >>, ResetChild
  PROVE  CallInv'
<1>1. Top.op = "reset" /\ UNCHANGED <<role, synced, flags, mode>>
  BY DEF ResetChild, roles
<1>2. Len(stack) = 1
  BY <1>1, TopCall DEF CallInv, Ending
<1>3. PICK c \in children[Top.s] :
        \/ IsSub(c) /\ stack' = CallSetMapped(c, FALSE) \o stack
        \/ stack' = stack
        \/ stack' = HandleParentChange(c, parent[Top.s]) \o stack
  BY DEF ResetChild
<1>4. \E fs : /\ Returned(stack, fs, stack')
              /\ \/ One1(fs, Top)
                 \/ \E on : IsSub(c) /\ Map1(fs, c, on, Top)
  <2>1. CASE IsSub(c) /\ stack' = CallSetMapped(c, FALSE) \o stack
    BY <2>1, GoesOnMap
  <2>2. CASE stack' = stack
    BY <2>2, GoesOn, Tuples
  <2>3. CASE stack' = HandleParentChange(c, parent[Top.s]) \o stack
    BY <2>3, GoesOnChange
  <2>4. QED
    BY <1>3, <2>1, <2>2, <2>3
<1>5. PICK fs : /\ Returned(stack, fs, stack')
                /\ \/ One1(fs, Top)
                   \/ \E on : IsSub(c) /\ Map1(fs, c, on, Top)
  BY <1>4
<1>6. CASE One1(fs, Top)
  <2>1. \A d : FALSE => Mappable(d, role, flags)
    OBVIOUS
  <2>2. QED
    BY <1>1, <1>2, <1>5, <1>6, <2>1, GoesOnCalls DEF Syncing
<1>7. ASSUME NEW on, IsSub(c), Map1(fs, c, on, Top)
      PROVE  CallInv'
  <2>1. Mappable(c, role, flags)
    BY <1>7 DEF IsSub, Mappable
  <2>2. QED
    BY <1>1, <1>2, <1>5, <1>7, <2>1, GoesOnCalls DEF Syncing
<1>8. QED
  BY <1>5, <1>6, <1>7

\* Every call keeps the order of the calls and what they owe.
LEMMA StepCallInv ==
  ASSUME IInv, CallInv, Step
  PROVE  CallInv'
BY ApplyCommitCalls, AdoptOneCalls, AdoptDoneCalls, NotifyCalls, ApplyContentCalls, MappingCalls,
   SyncCalls, EndingCalls, ResetChildCalls DEF Step

\* No call is in progress.
LEMMA NoCallInv ==
  ASSUME stack' = << >>
  PROVE  CallInv'
BY DEF CallInv, CallsInv, KindsOK, FlushInv

\* A request is a single call, or two of which the first unmaps.
LEMMA OneCallInv ==
  ASSUME NEW f, stack' = <<f>>, f.op \notin {"content", "setMapped", "reset", "cascade"},
         f.op = "apply" => ~f.on
  PROVE  CallInv'
<1>1. Len(stack') = 1 /\ stack'[1] = f
  OBVIOUS
<1>2. \A i \in 1 .. Len(stack') : i = 1 /\ stack'[i] = f
  BY <1>1
<1>3. CallsInv'
  BY <1>1, <1>2 DEF CallsInv, CallOK
<1>4. KindsOK(stack')
  BY <1>1, <1>2 DEF KindsOK
<1>5. FlushInv'
  BY <1>1, <1>2 DEF FlushInv
<1>6. QED
  BY <1>3, <1>4, <1>5 DEF CallInv

\* A surface is unmapped before its role or itself is destroyed.
LEMMA UnmapCallInv ==
  ASSUME NEW s, NEW op \in {"dropRole", "remove"},
         stack' = CallSetMapped(s, FALSE) \o <<Fr(op, s)>>
  PROVE  CallInv'
<1>1. Fr(op, s).op = op
  BY DEF Fr
<1>2. CASE mapped[s] = FALSE
  <2>1. stack' = <<Fr(op, s)>>
    BY <1>2, MapCalls
  <2>2. QED
    BY <1>1, <2>1, OneCallInv
<1>3. CASE mapped[s] # FALSE
  <2>. DEFINE F == FrOn("setMapped", s, FALSE)
              R == Fr(op, s)
  <2>1. stack' = <<F, R>>
    BY <1>3, MapCalls
  <2>2. F.op = "setMapped" /\ F.on = FALSE /\ R.op \in {"dropRole", "remove"}
    BY <1>1 DEF FrOn
  <2>. HIDE DEF F, R
  <2>3. Len(stack') = 2 /\ stack'[1] = F /\ stack'[2] = R
    <3>1. Two2(<<F, R>>, F, R)
      BY Tuples, Zenon
    <3>2. Two2(stack', F, R)
      BY <2>1, <3>1, Zenon
    <3>3. QED
      BY <3>2 DEF Two2
  <2>4. \A i \in 1 .. Len(stack') : (i = 1 /\ stack'[i] = F) \/ (i = Len(stack') /\ stack'[i] = R)
    <3>1. \A i \in 1 .. 2 : i = 1 \/ i = 2
      OBVIOUS
    <3>2. QED
      BY <2>3, <3>1
  <2>5. CallsInv'
    <3>1. /\ CallOK(F, TRUE, FALSE, role', synced', flags')
          /\ CallOK(R, FALSE, TRUE, role', synced', flags')
      BY <2>2 DEF CallOK, Ending
    <3>2. ASSUME NEW i \in 1 .. Len(stack')
          PROVE  CallOK(stack'[i], i = 1, i = Len(stack'), role', synced', flags')
      <4>1. CASE i = 1 /\ stack'[i] = F
        BY <3>1, <4>1 DEF CallOK
      <4>2. CASE i = Len(stack') /\ stack'[i] = R
        BY <3>1, <4>2 DEF CallOK
      <4>3. QED
        BY <2>4, <4>1, <4>2
    <3>3. QED
      BY <3>2 DEF CallsInv
  <2>6. KindsOK(stack')
    BY <2>2, <2>3, <2>4 DEF KindsOK, Syncing, Ending, Mapping
  <2>7. FlushInv'
    BY <2>2, <2>3, <2>4 DEF FlushInv
  <2>8. QED
    BY <2>5, <2>6, <2>7 DEF CallInv
<1>4. QED
  BY <1>2, <1>3

\* Every request makes its calls in that order.
LEMMA RequestCallInv ==
  ASSUME IInv, CallInv, Request
  PROVE  CallInv'
<1>1. ASSUME NEW s \in Surfaces, Commit(s) \/ SetSync(s) \/ SetDesync(s)
      PROVE  CallInv'
  <2>1. /\ FrOn("apply", s, FALSE).op = "apply" /\ FrOn("apply", s, FALSE).on = FALSE
        /\ Fr("sync", s).op = "sync"
    BY DEF FrOn, Fr
  <2>2. stack' \in {<<FrOn("apply", s, FALSE)>>, <<Fr("sync", s)>>, << >>}
    BY <1>1 DEF Commit, SetSync, SetDesync, Serving
  <2>3. QED
    BY <2>1, <2>2, OneCallInv, NoCallInv
<1>2. ASSUME NEW s \in Surfaces, DestroyRole(s) \/ DestroySurface(s)
      PROVE  CallInv'
  BY <1>2, UnmapCallInv DEF DestroyRole, DestroySurface
<1>3. CASE stack' = << >>
  BY <1>3, NoCallInv
<1>4. QED
  BY <1>1, <1>2, <1>3 DEF Request, CreateSurface, AttachBuffer, GetSubsurface, GetToplevel,
                          SetToplevelParent, Close, Disconnect, Reconnect, Serving

\* The order of the calls, and what they owe, are invariant.
LEMMA CallInvariance == Spec => []CallInv
<1>1. Init => CallInv
  BY DEF Init, CallInv, CallsInv, KindsOK, FlushInv
<1>2. ASSUME IInv, CallInv, [Next]_vars
      PROVE  CallInv'
  <2>1. CASE UNCHANGED vars
    BY <1>2, <2>1 DEF vars, links, roles, CallInv, CallsInv, FlushInv, Owed, Subsurfaces, IsSub
  <2>2. QED
    BY <1>2, <2>1, StepCallInv, RequestCallInv DEF Next
<1>3. QED
  BY <1>1, <1>2, Invariance, PTL DEF Spec

\* When the commit of a surface reaches its content every synchronized child
\* has applied the commit of its cache.
THEOREM CachesFlushed == Spec => []CachesFlushedWithParent
<1>1. IInv /\ CallInv => CachesFlushedWithParent
  <2>1. SUFFICES ASSUME IInv, CallInv, stack # << >>, Top.op = "content", mode = "running",
                        NEW c \in Subsurfaces(Top.s), synced[c]
                 PROVE  ~hasCache[c]
    BY DEF CachesFlushedWithParent
  <2>2. Top = stack[1] /\ 1 \in 1 .. Len(stack) /\ Top.s \in Surfaces
    BY <2>1, TopFacts
  <2>3. c \in Surfaces
    BY <2>1, <2>2 DEF Subsurfaces, IInv, TypeOK
  <2>4. Owed(stack[1].s, c) => \E j \in 1 .. (1 - 1) : Handles(stack[j], stack[1].s, c)
    BY <2>1, <2>2, <2>3 DEF CallInv, FlushInv
  <2>5. ~Owed(Top.s, c)
    BY <2>2, <2>4
  <2>6. QED
    BY <2>1, <2>5 DEF Owed
<1>2. QED
  BY <1>1, Invariance, CallInvariance, PTL

-----------------------------------------------------------------------------
(***************************************************************************)
(* The mapping.                                                            *)
(***************************************************************************)

\* The calls of a stack, in any order, and the calls in progress.
CallsOf(st) == {st[i] : i \in 1 .. Len(st)}

Calls == CallsOf(stack)

\* The loop of reset never ends: the surface has a parent and children, which
\* are given to that parent and not erased from the list (README, section 5).
Doomed == \E f \in Calls :
  f.op = "reset" /\ parent[f.s] # None /\ children[f.s] # {}

\* Every child in a list has the owner of the list for parent.
NoStale == \A p \in Surfaces : \A c \in children[p] : parent[c] = p

\* A surface is unmapped, with its subsurfaces, before it is reset or destroyed
\* or loses its role, and no surface is mapped by that.
UnmapInv == \A e \in Calls : e.op \in Ending =>
  /\ mapped[e.s] => \E f \in Calls : f.op = "setMapped" /\ f.s = e.s
  /\ \A f \in Calls :
       /\ f.op = "setMapped" => ~f.on
       /\ f.op = "cascade" => ~mapped[f.s] /\ \A c \in f.todo : parent[c] = f.s

RoleInv ==
  /\ \A s \in Surfaces : mapped[s] => Mappable(s, role, flags)
  /\ \A s \in Surfaces \ alive : role[s] = "none"

\* What checkMapping computes; a call that will unmap s, and one that will
\* check its mapping.
Wanted(s)    == parent[s] # None /\ mapped[parent[s]] /\ hasBuffer[s]
Unmapping(s) == \E f \in Calls : f.op = "setMapped" /\ f.s = s /\ ~f.on
Visited(s)   == \E f \in Calls : f.op = "cascade" /\ f.s = parent[s] /\ s \in f.todo

\* A mapped subsurface is one that checkMapping would map, or is about to be
\* checked; a subsurface is mapped only when it would be.
ShownInv ==
  /\ \A s \in alive : IsSub(s) /\ mapped[s] => Wanted(s) \/ Unmapping(s) \/ Visited(s)
  /\ \A f \in Calls : f.op = "setMapped" /\ f.on /\ IsSub(f.s) => Wanted(f.s)

MapInv == NoStale /\ UnmapInv /\ RoleInv /\ ShownInv

\* No list has ever held a dangling pointer, and the mapping is right unless
\* the client is stuck in reset.
ShowInv == mode # "undefined" /\ (Doomed \/ MapInv)

\* What is known of all calls when one returns: those below it stay.
LEMMA CallsReturn ==
  ASSUME IInv, CallInv, stack # << >>, NEW fs, Returned(stack, fs, stack')
  PROVE  \E rest :
           /\ Calls = {Top} \cup rest
           /\ Calls' = CallsOf(fs) \cup rest
           /\ \A f \in rest : f.op # "setMapped"
           /\ Top.op \in Ending \/ Len(stack) = 1 => rest = {}
           /\ Top.op \in Committing \cup Syncing => \A f \in rest : f.op \notin Ending
           /\ \A f \in rest : f.s \in Surfaces
<1>. DEFINE n == Len(fs)
            m == Len(stack)
            rest == {stack[k] : k \in 2 .. m}
<1>1. /\ m \in Nat \ {0} /\ n \in Nat /\ Len(stack') = n + m - 1
      /\ Top = stack[1] /\ \A k \in 1 .. m : stack[k].s \in Surfaces
  BY TopFacts DEF Returned, Frame
<1>2. Calls = {Top} \cup rest
  <2>1. \A i : i \in 1 .. m <=> i = 1 \/ i \in 2 .. m
    BY <1>1
  <2>2. QED
    BY <1>1, <2>1 DEF Calls, CallsOf
<1>3. Calls' = CallsOf(fs) \cup rest
  <2>1. ASSUME NEW i \in 1 .. Len(stack')
        PROVE  stack'[i] \in {fs[j] : j \in 1 .. n} \cup rest
    <3>1. (i \in 1 .. n) \/ (i - n + 1 \in 2 .. m /\ i = n + (i - n + 1) - 1)
      BY <1>1
    <3>2. CASE i \in 1 .. n
      BY <3>2 DEF Returned
    <3>3. CASE i - n + 1 \in 2 .. m /\ i = n + (i - n + 1) - 1
      BY <3>3 DEF Returned
    <3>4. QED
      BY <3>1, <3>2, <3>3
  <2>2. ASSUME NEW j \in 1 .. n
        PROVE  \E i \in 1 .. Len(stack') : stack'[i] = fs[j]
    BY <1>1 DEF Returned
  <2>3. ASSUME NEW k \in 2 .. m
        PROVE  \E i \in 1 .. Len(stack') : stack'[i] = stack[k]
    <3>1. n + k - 1 \in 1 .. Len(stack') /\ stack'[n + k - 1] = stack[k]
      BY <1>1 DEF Returned
    <3>2. QED
      BY <3>1
  <2>4. Calls' = CallsOf(stack')
    BY DEF Calls
  <2>5. CallsOf(fs) = {fs[j] : j \in 1 .. n}
    BY DEF CallsOf
  <2>. HIDE DEF n, m
  <2>6. QED
    BY <2>1, <2>2, <2>3, <2>4, <2>5 DEF CallsOf
<1>4. ASSUME NEW k \in 2 .. m
      PROVE  /\ stack[k].op # "setMapped" /\ stack[k].s \in Surfaces
             /\ Len(stack) # 1 /\ Top.op \notin Ending
             /\ Top.op \in Committing \cup Syncing => stack[k].op \notin Ending
  <2>1. k \in 1 .. m /\ 1 \in 1 .. m /\ k # 1 /\ m # 1
    BY <1>1
  <2>2. CallOK(stack[k], k = 1, k = m, role, synced, flags)
    BY <2>1 DEF CallInv, CallsInv
  <2>3. stack[k].op # "setMapped"
    BY <2>1, <2>2 DEF CallOK
  <2>4. Top.op \in Ending => m = 1
    BY TopCall DEF CallInv
  <2>5. Top.op \in Committing \cup Syncing => stack[k].op \notin Ending
    BY <1>1, <2>1 DEF CallInv, KindsOK, Mapping, Committing, Syncing
  <2>6. QED
    BY <1>1, <2>1, <2>3, <2>4, <2>5
<1>5. /\ \A f \in rest : f.op # "setMapped"
      /\ Top.op \in Ending \/ Len(stack) = 1 => rest = {}
      /\ Top.op \in Committing \cup Syncing => \A f \in rest : f.op \notin Ending
      /\ \A f \in rest : f.s \in Surfaces
  <2>1. \A f \in rest : \E k \in 2 .. m : f = stack[k]
    OBVIOUS
  <2>. HIDE DEF rest
  <2>2. QED
    BY <1>4, <2>1
<1>. HIDE DEF rest
<1>6. QED
  BY <1>2, <1>3, <1>5

\* The calls made, as a set.
LEMMA MadeCalls ==
  ASSUME NEW fs
  PROVE  /\ None0(fs) => CallsOf(fs) = {}
         /\ \A f : One1(fs, f) => CallsOf(fs) = {f}
         /\ \A f, g : Two2(fs, f, g) => CallsOf(fs) = {f, g}
<1>1. /\ \A i : i \notin 1 .. 0
      /\ \A i : i \in 1 .. 1 <=> i = 1
      /\ \A i : i \in 1 .. 2 <=> i = 1 \/ i = 2
  OBVIOUS
<1>2. QED
  BY <1>1 DEF None0, One1, Two2, CallsOf

\* The call that sets the mapping, if it is made.
MapCall(s, on) == IF mapped[s] = on THEN {} ELSE {FrOn("setMapped", s, on)}

LEMMA MadeMap ==
  ASSUME NEW fs, NEW s, NEW on, NEW f
  PROVE  /\ Map1(fs, s, on, f) => CallsOf(fs) = MapCall(s, on) \cup {f}
         /\ (IF mapped[s] = on THEN None0(fs) ELSE One1(fs, FrOn("setMapped", s, on)))
              => CallsOf(fs) = MapCall(s, on)
<1>1. CASE mapped[s] = on
  BY <1>1, MadeCalls DEF Map1, MapCall
<1>2. CASE mapped[s] # on
  <2>. DEFINE F == FrOn("setMapped", s, on)
  <2>1. /\ One1(fs, F) => CallsOf(fs) = {F}
        /\ Two2(fs, F, f) => CallsOf(fs) = {F, f}
    BY MadeCalls
  <2>2. MapCall(s, on) = {F} /\ (Map1(fs, s, on, f) => Two2(fs, F, f))
    BY <1>2 DEF MapCall, Map1
  <2>. HIDE DEF F
  <2>3. {F} \cup {f} = {F, f}
    OBVIOUS
  <2>4. QED
    BY <1>2, <2>1, <2>2, <2>3 DEF F
<1>3. QED
  BY <1>1, <1>2

\* A step that maps nothing, unmaps nothing and changes no link.
LEMMA QuietShow ==
  ASSUME ShowInv, UNCHANGED <<alive, parent, children, mapped, hasBuffer, role, flags>>,
         mode' # "undefined",
         \A f : f.op \in Mapping \cup Ending => (f \in Calls' <=> f \in Calls)
  PROVE  ShowInv'
<1>1. Doomed => Doomed'
  BY DEF Doomed, Ending
<1>2. UnmapInv => UnmapInv'
  BY DEF UnmapInv, Mapping, Ending
<1>3. NoStale => NoStale'
  BY DEF NoStale
<1>4. RoleInv => RoleInv'
  BY DEF RoleInv, Mappable
<1>5. ASSUME ShownInv
      PROVE  ShownInv'
  <2>1. \A s : (Wanted(s) => Wanted(s)') /\ (Unmapping(s) => Unmapping(s)') /\ (Visited(s) => Visited(s)')
    BY DEF Wanted, Unmapping, Visited, Mapping
  <2>2. QED
    BY <1>5, <2>1 DEF ShownInv, IsSub, Wanted, Mapping
<1>6. QED
  BY <1>1, <1>2, <1>3, <1>4, <1>5 DEF ShowInv, MapInv

\* The calls in progress when the call on top makes the calls of the set new and
\* returns.
Replaced(new, rest) ==
  /\ Calls = {Top} \cup rest
  /\ Calls' = new \cup rest
  /\ \A f \in rest : f.op # "setMapped"
  /\ Top.op \in Ending \/ Len(stack) = 1 => rest = {}
  /\ Top.op \in Committing \cup Syncing => \A f \in rest : f.op \notin Ending
  /\ \A f \in rest : f.s \in Surfaces

LEMMA ReplacedBy ==
  ASSUME IInv, CallInv, stack # << >>
  PROVE  /\ Return(<< >>) => \E rest : Replaced({}, rest)
         /\ \A f : Return(<<f>>) => \E rest : Replaced({f}, rest)
         /\ \A f, g : Return(<<f, g>>) => \E rest : Replaced({f, g}, rest)
         /\ \A s, on : Return(CallSetMapped(s, on)) => \E rest : Replaced(MapCall(s, on), rest)
         /\ \A s, on, f : Return(CallSetMapped(s, on) \o <<f>>)
              => \E rest : Replaced(MapCall(s, on) \cup {f}, rest)
         /\ stack' = stack => \E rest : Replaced({Top}, rest)
         /\ \A s, on : stack' = CallSetMapped(s, on) \o stack
              => \E rest : Replaced(MapCall(s, on) \cup {Top}, rest)
         /\ \A c, p : stack' = HandleParentChange(c, p) \o stack
              => \E rest : Replaced((IF IsSub(c)
                                     THEN MapCall(c, p # None /\ mapped[p] /\ hasBuffer[c])
                                     ELSE {}) \cup {Top}, rest)
<1>1. ASSUME NEW fs, Returned(stack, fs, stack')
      PROVE  \E rest : Replaced(CallsOf(fs), rest)
  BY <1>1, CallsReturn DEF Replaced
<1>2. ASSUME Return(<< >>) PROVE \E rest : Replaced({}, rest)
  <2>1. Returned(stack, << >>, stack')
    BY <1>2, ReturnNone
  <2>2. CallsOf(<< >>) = {}
    BY Tuples, MadeCalls
  <2>3. QED
    BY <1>1, <2>1, <2>2
<1>3. ASSUME NEW f, Return(<<f>>) PROVE \E rest : Replaced({f}, rest)
  <2>1. PICK fs : Returned(stack, fs, stack') /\ One1(fs, f)
    BY <1>3, ReturnOne, Tuples
  <2>2. CallsOf(fs) = {f}
    BY <2>1, MadeCalls
  <2>3. QED
    BY <1>1, <2>1, <2>2
<1>4. ASSUME NEW f, NEW g, Return(<<f, g>>) PROVE \E rest : Replaced({f, g}, rest)
  <2>1. PICK fs : Returned(stack, fs, stack') /\ Two2(fs, f, g)
    BY <1>4, ReturnTwo, Tuples
  <2>2. CallsOf(fs) = {f, g}
    BY <2>1, MadeCalls
  <2>3. QED
    BY <1>1, <2>1, <2>2
<1>5. ASSUME NEW s, NEW on, Return(CallSetMapped(s, on))
      PROVE  \E rest : Replaced(MapCall(s, on), rest)
  <2>1. PICK fs : /\ Returned(stack, fs, stack')
                  /\ IF mapped[s] = on THEN None0(fs) ELSE One1(fs, FrOn("setMapped", s, on))
    BY <1>5, ReturnMap
  <2>2. CallsOf(fs) = MapCall(s, on)
    BY <2>1, MadeMap
  <2>3. QED
    BY <1>1, <2>1, <2>2
<1>6. ASSUME NEW s, NEW on, NEW f, NEW fs, Returned(stack, fs, stack'), Map1(fs, s, on, f)
      PROVE  \E rest : Replaced(MapCall(s, on) \cup {f}, rest)
  <2>1. CallsOf(fs) = MapCall(s, on) \cup {f}
    BY <1>6, MadeMap
  <2>2. QED
    BY <1>1, <1>6, <2>1
<1>7. ASSUME NEW s, NEW on, NEW f, Return(CallSetMapped(s, on) \o <<f>>)
      PROVE  \E rest : Replaced(MapCall(s, on) \cup {f}, rest)
  BY <1>6, <1>7, ReturnMapOne
<1>8. ASSUME NEW fs, Returned(stack, fs, stack'), One1(fs, Top)
      PROVE  \E rest : Replaced({Top}, rest)
  <2>1. CallsOf(fs) = {Top}
    BY <1>8, MadeCalls
  <2>2. QED
    BY <1>1, <1>8, <2>1
<1>9. ASSUME stack' = stack PROVE \E rest : Replaced({Top}, rest)
  BY <1>8, <1>9, GoesOn, Tuples
<1>10. ASSUME NEW s, NEW on, stack' = CallSetMapped(s, on) \o stack
       PROVE  \E rest : Replaced(MapCall(s, on) \cup {Top}, rest)
  BY <1>6, <1>10, GoesOnMap
<1>11. ASSUME NEW c, NEW p, stack' = HandleParentChange(c, p) \o stack
       PROVE  \E rest : Replaced((IF IsSub(c)
                                  THEN MapCall(c, p # None /\ mapped[p] /\ hasBuffer[c])
                                  ELSE {}) \cup {Top}, rest)
  <2>. DEFINE on == p # None /\ mapped[p] /\ hasBuffer[c]
  <2>1. PICK fs : /\ Returned(stack, fs, stack')
                  /\ IF IsSub(c) THEN Map1(fs, c, on, Top) ELSE One1(fs, Top)
    BY <1>11, GoesOnChange
  <2>. HIDE DEF on
  <2>2. CASE IsSub(c)
    <3>1. \E rest : Replaced(MapCall(c, on) \cup {Top}, rest)
      BY <1>6, <2>1, <2>2
    <3>2. QED
      BY <2>2, <3>1 DEF on
  <2>3. CASE ~IsSub(c)
    <3>1. \E rest : Replaced({Top}, rest)
      BY <1>8, <2>1, <2>3
    <3>2. {} \cup {Top} = {Top}
      OBVIOUS
    <3>3. QED
      BY <2>3, <3>1, <3>2
  <2>4. QED
    BY <2>2, <2>3
<1>12. QED
  BY <1>2, <1>3, <1>4, <1>5, <1>7, <1>9, <1>10, <1>11

\* The members of the set of a call of setMapped.
LEMMA MapCallIs ==
  ASSUME NEW s, NEW on, NEW f
  PROVE  f \in MapCall(s, on) <=>
           mapped[s] # on /\ f = FrOn("setMapped", s, on)
BY DEF MapCall

\* The calls that do nothing to the mapping or to the links make others of
\* that kind.
LEMMA QuietStepCalls ==
  ASSUME IInv, CallInv, stack # << >>,
         ApplyCommit \/ AdoptDone \/ NotifyParentCommit \/ Sync \/ SyncChildren
  PROVE  \E new, rest : Replaced(new, rest) /\ \A f \in new : f.op \in Committing \cup Syncing
<1>. DEFINE Quiet == \E new, rest : /\ Replaced(new, rest)
                                    /\ \A f \in new : f.op \in Committing \cup Syncing
<1>. SUFFICES Quiet
  OBVIOUS
<1>1. /\ \A op, s : Fr(op, s).op = op
      /\ \A op, s, on : FrOn(op, s, on).op = op
      /\ \A op, s, todo : FrTodo(op, s, todo).op = op
  BY DEF Fr, FrOn, FrTodo
<1>2. Return(<< >>) => Quiet
  BY ReplacedBy
<1>3. ASSUME NEW f, Return(<<f>>), f.op \in Committing \cup Syncing PROVE Quiet
  <2>1. \E rest : Replaced({f}, rest)
    BY <1>3, ReplacedBy
  <2>2. QED
    BY <1>3, <2>1
<1>4. ASSUME NEW f, NEW g, Return(<<f, g>>), {f.op, g.op} \subseteq Committing \cup Syncing
      PROVE  Quiet
  <2>1. \E rest : Replaced({f, g}, rest)
    BY <1>4, ReplacedBy
  <2>2. QED
    BY <1>4, <2>1
<1>. HIDE DEF Quiet
<1>5. \A s, on, todo :
        /\ {Fr("adopt", s).op, Fr("content", s).op, Fr("sync", s).op} \subseteq Committing \cup Syncing
        /\ FrOn("apply", s, on).op \in Committing \cup Syncing
        /\ {FrTodo("notify", s, todo).op, FrTodo("syncChildren", s, todo).op} \subseteq Committing \cup Syncing
  BY <1>1 DEF Committing, Syncing
<1>6. CASE ApplyCommit
  BY <1>2, <1>4, <1>5, <1>6 DEF ApplyCommit
<1>7. CASE AdoptDone
  BY <1>3, <1>5, <1>7 DEF AdoptDone
<1>8. CASE NotifyParentCommit
  <2>1. ASSUME NEW c, NEW todo, Return(<<FrOn("apply", c, TRUE), FrTodo("notify", Top.s, todo)>>)
        PROVE  Quiet
    BY <1>4, <1>5, <2>1
  <2>2. QED
    BY <1>2, <1>8, <2>1 DEF NotifyParentCommit
<1>9. CASE Sync \/ SyncChildren
  BY <1>2, <1>3, <1>4, <1>5, <1>9 DEF Sync, SyncChildren
<1>10. QED
  BY <1>6, <1>7, <1>8, <1>9

LEMMA QuietStepShow ==
  ASSUME IInv, CallInv, ShowInv, stack # << >>,
         ApplyCommit \/ AdoptDone \/ NotifyParentCommit \/ Sync \/ SyncChildren
  PROVE  ShowInv'
<1>1. /\ UNCHANGED <<alive, parent, children, mapped, hasBuffer, role, flags>>
      /\ mode' = mode /\ Top.op \in Committing \cup Syncing
  BY DEF ApplyCommit, AdoptDone, NotifyParentCommit, Sync, SyncChildren, links, roles, content,
         Committing, Syncing
<1>2. PICK new, rest : Replaced(new, rest) /\ \A f \in new : f.op \in Committing \cup Syncing
  BY QuietStepCalls
<1>3. \A f : f.op \in Mapping \cup Ending => (f \in Calls' <=> f \in Calls)
  BY <1>1, <1>2 DEF Replaced, Mapping, Ending, Committing, Syncing
<1>4. QED
  BY <1>1, <1>3, QuietShow DEF ShowInv

\* A call of setMapped, when it is made, and that it is made.
LEMMA MapCallFacts ==
  ASSUME NEW s, NEW on \in BOOLEAN, mapped[s] \in BOOLEAN
  PROVE  /\ \A f \in MapCall(s, on) : f.op = "setMapped" /\ f.s = s /\ (f.on <=> on)
         /\ mapped[s] /\ ~on => \E f \in MapCall(s, on) : f.op = "setMapped" /\ f.s = s /\ ~f.on
<1>1. LET f == FrOn("setMapped", s, on) IN f.op = "setMapped" /\ f.s = s /\ f.on = on
  BY DEF FrOn
<1>2. QED
  BY <1>1 DEF MapCall

\* The types that the lemmas below rest on.
LEMMA ShowType ==
  ASSUME IInv
  PROVE  /\ alive \subseteq Surfaces
         /\ mapped \in [Surfaces -> BOOLEAN] /\ hasBuffer \in [Surfaces -> BOOLEAN]
         /\ role \in [Surfaces -> Roles] /\ flags \in [Surfaces -> SUBSET Flags]
         /\ parent \in [Surfaces -> Surfaces \cup {None}]
         /\ children \in [Surfaces -> SUBSET Surfaces]
         /\ \A f \in Calls : f \in Frame(alive) /\ f.s \in Surfaces /\ f.todo \subseteq Surfaces
<1>1. TypeOK
  BY DEF IInv
<1>2. \A i \in 1 .. Len(stack) : stack[i] \in Frame(alive)
  BY <1>1, ElementOfSeq DEF TypeOK
<1>3. QED
  BY <1>1, <1>2 DEF TypeOK, Frame, Calls, CallsOf

\* No surface is being unmapped, reset or destroyed when a commit is applied.
LEMMA CommittingShow ==
  ASSUME IInv, ShowInv, NEW new, NEW rest, Replaced(new, rest), Top.op \in Committing
  PROVE  /\ MapInv
         /\ \A s \in Surfaces : ~Unmapping(s)
         /\ \A s \in Surfaces : Visited(s) =>
              \E f \in Calls \cap Calls' : f.op = "cascade" /\ f.s = parent[s] /\ s \in f.todo
         /\ (\A f \in new : f.op \notin Ending) => UnmapInv' /\ ~Doomed'
         /\ \A f \in Calls' : f.op = "setMapped" => f \in new
<1>1. \A f \in Calls : f.op \notin Ending /\ f.op # "setMapped"
  BY DEF Replaced, Committing, Ending
<1>2. ~Doomed
  BY <1>1 DEF Doomed, Ending
<1>3. (\A f \in new : f.op \notin Ending) => UnmapInv' /\ ~Doomed'
  <2>1. SUFFICES ASSUME \A f \in new : f.op \notin Ending PROVE UnmapInv' /\ ~Doomed'
    OBVIOUS
  <2>2. \A f \in Calls' : f.op \notin Ending
    BY <1>1, <2>1 DEF Replaced
  <2>3. QED
    BY <2>2 DEF UnmapInv, Doomed, Ending
<1>4. \A s \in Surfaces : Visited(s) =>
        \E f \in Calls \cap Calls' : f.op = "cascade" /\ f.s = parent[s] /\ s \in f.todo
  BY DEF Visited, Replaced, Committing
<1>5. QED
  BY <1>1, <1>2, <1>3, <1>4 DEF ShowInv, Unmapping, Replaced

\* An adopted child is in the list of its parent alone, and is checked.
LEMMA AdoptOneShow ==
  ASSUME IInv, CallInv, ShowInv, stack # << >>, AdoptOne
  PROVE  ShowInv'
<1>. DEFINE s == Top.s
<1>1. s \in Surfaces /\ s \in alive /\ Top.op \in Committing /\ s # None
      /\ UNCHANGED <<alive, mapped, hasBuffer, role, flags, mode>>
  BY TopFacts, NoneAssumption DEF AdoptOne, Committing, content, roles
<1>2. PICK c \in pendingChildren[s] :
        IF pendingParent[c] # s THEN UNCHANGED <<parent, pendingParent, children, stack>>
        ELSE /\ parent' = [parent EXCEPT ![c] = s]
             /\ children' = [q \in Surfaces |-> IF q = s THEN children[q] \cup {c}
                                                ELSE IF q = parent[c] THEN children[q] \ {c}
                                                ELSE children[q]]
             /\ stack' = HandleParentChange(c, s) \o stack
  BY DEF AdoptOne
<1>3. c \in alive /\ c \in Surfaces /\ pendingParent[c] = s
  BY <1>1, <1>2, ShowType DEF IInv, LinkInv, PendingChildrenExact
<1>4. \A d \in Surfaces : parent'[d] = IF d = c THEN s ELSE parent[d]
  BY <1>2, <1>3, ShowType
<1>. DEFINE on == s # None /\ mapped[s] /\ hasBuffer[c]
            new == (IF IsSub(c) THEN MapCall(c, on) ELSE {}) \cup {Top}
<1>5. PICK rest : Replaced(new, rest)
  BY <1>2, <1>3, ReplacedBy
<1>6. on \in BOOLEAN /\ mapped[c] \in BOOLEAN
  BY <1>3, ShowType
<1>7. /\ \A f \in MapCall(c, on) : f.op = "setMapped" /\ f.s = c /\ (f.on <=> on)
      /\ mapped[c] /\ ~on => \E f \in MapCall(c, on) : f.op = "setMapped" /\ f.s = c /\ ~f.on
  BY <1>6, MapCallFacts
<1>8. on <=> Wanted(c)'
  BY <1>1, <1>3, <1>4 DEF Wanted
<1>. HIDE DEF on
<1>9. /\ \A f \in new : f.op # "setMapped" => f = Top
      /\ \A f \in new : f.op = "setMapped" => f \in MapCall(c, on) /\ IsSub(c)
  BY <1>1, <1>7 DEF Committing
<1>10. /\ MapInv /\ UnmapInv' /\ ~Doomed'
       /\ \A d \in Surfaces : ~Unmapping(d)
       /\ \A d \in Surfaces : Visited(d) =>
            \E f \in Calls \cap Calls' : f.op = "cascade" /\ f.s = parent[d] /\ d \in f.todo
       /\ \A f \in Calls' : f.op = "setMapped" => f \in new
  <2>1. \A f \in new : f.op \notin Ending
    BY <1>1, <1>7, <1>9 DEF Ending, Committing
  <2>. HIDE DEF new
  <2>2. QED
    BY <1>1, <1>5, <2>1, CommittingShow
<1>11. NoStale'
  <2>1. SUFFICES ASSUME NEW p \in Surfaces, NEW d \in children'[p] PROVE parent'[d] = p
    BY DEF NoStale
  <2>2. children'[p] = IF p = s THEN children[p] \cup {c}
                       ELSE IF p = parent[c] THEN children[p] \ {c} ELSE children[p]
    BY <1>2, <1>3
  <2>3. d \in Surfaces
    BY <1>3, <2>1, <2>2, ShowType
  <2>4. QED
    BY <1>3, <1>4, <1>10, <2>1, <2>2, <2>3 DEF MapInv, NoStale
<1>12. RoleInv'
  BY <1>1, <1>10 DEF MapInv, RoleInv, Mappable
<1>13. ShownInv'
  <2>1. ASSUME NEW d \in alive, IsSub(d), mapped[d]
        PROVE  Wanted(d)' \/ Unmapping(d)' \/ Visited(d)'
    <3>1. d \in Surfaces
      BY ShowType
    <3>2. CASE d = c
      <4>1. ~on => \E f \in Calls' : f.op = "setMapped" /\ f.s = c /\ ~f.on
        BY <1>5, <1>7, <2>1, <3>2 DEF Replaced
      <4>2. QED
        BY <1>8, <3>2, <4>1 DEF Unmapping
    <3>3. CASE d # c
      <4>1. Wanted(d) => Wanted(d)'
        BY <1>1, <1>4, <3>1, <3>3 DEF Wanted
      <4>2. Visited(d) => Visited(d)'
        BY <1>4, <1>10, <3>1, <3>3 DEF Visited
      <4>3. QED
        BY <1>10, <2>1, <3>1, <4>1, <4>2 DEF MapInv, ShownInv
    <3>4. QED
      BY <3>2, <3>3
  <2>2. ASSUME NEW f \in Calls', f.op = "setMapped", f.on
        PROVE  Wanted(f.s)'
    <3>1. f.s = c /\ on
      BY <1>7, <1>9, <1>10, <2>2
    <3>2. QED
      BY <1>8, <3>1
  <2>3. QED
    BY <1>1, <2>1, <2>2 DEF ShownInv, IsSub
<1>14. QED
  BY <1>1, <1>10, <1>11, <1>12, <1>13 DEF ShowInv, MapInv

\* The content of a surface is committed: a subsurface is checked, a toplevel
\* is mapped, or unmapped and reset.
LEMMA ApplyContentShow ==
  ASSUME IInv, CallInv, ShowInv, stack # << >>, ApplyContent
  PROVE  ShowInv'
<1>. SUFFICES ASSUME NEW s, s = Top.s PROVE ShowInv'
  OBVIOUS
<1>. DEFINE hb == IF attached[s] = "no" THEN hasBuffer[s] ELSE attached[s] = "buffer"
<1>1. /\ s \in Surfaces /\ Top.op = "content" /\ Top.op \in Committing
      /\ UNCHANGED <<alive, parent, children, mapped, role>>
      /\ hasBuffer' = [hasBuffer EXCEPT ![s] = hb]
      /\ hb \in BOOLEAN
      /\ \A d \in Surfaces : hasBuffer'[d] = IF d = s THEN hb ELSE hasBuffer[d]
  BY TopFacts, ShowType DEF ApplyContent, Committing, links
<1>. HIDE DEF hb
<1>2. ASSUME NEW new, NEW rest, Replaced(new, rest), mode' # "undefined",
             \A f \in new : f.op \notin Ending /\ (f.op = "setMapped" /\ f.on /\ IsSub(f.s) => Wanted(f.s)'),
             IsSub(s) /\ mapped[s] =>
               (Wanted(s) => Wanted(s)') \/ \E f \in new : f.op = "setMapped" /\ f.s = s /\ ~f.on,
             \A d \in Surfaces : mapped[d] => Mappable(d, role', flags')
      PROVE  ShowInv'
  <2>1. /\ MapInv /\ UnmapInv' /\ ~Doomed'
        /\ \A d \in Surfaces : ~Unmapping(d)
        /\ \A d \in Surfaces : Visited(d) =>
             \E f \in Calls \cap Calls' : f.op = "cascade" /\ f.s = parent[d] /\ d \in f.todo
        /\ \A f \in Calls' : f.op = "setMapped" => f \in new
    BY <1>1, <1>2, CommittingShow
  <2>2. NoStale' /\ RoleInv'
    BY <1>1, <1>2, <2>1 DEF MapInv, NoStale, RoleInv
  <2>3. ShownInv'
    <3>1. ASSUME NEW d \in alive, IsSub(d), mapped[d]
          PROVE  Wanted(d)' \/ Unmapping(d)' \/ Visited(d)'
      <4>1. d \in Surfaces
        BY ShowType
      <4>2. CASE d = s /\ ~(Wanted(s) => Wanted(s)')
        BY <1>2, <3>1, <4>2 DEF Unmapping, Replaced
      <4>3. CASE d # s \/ (Wanted(s) => Wanted(s)')
        <5>1. Wanted(d) => Wanted(d)'
          BY <1>1, <4>1, <4>3 DEF Wanted
        <5>2. Visited(d) => Visited(d)'
          BY <1>1, <2>1, <4>1 DEF Visited
        <5>3. QED
          BY <2>1, <3>1, <4>1, <5>1, <5>2 DEF MapInv, ShownInv
      <4>4. QED
        BY <4>2, <4>3
    <3>2. \A f \in Calls' : f.op = "setMapped" /\ f.on /\ IsSub(f.s) => Wanted(f.s)'
      BY <1>2, <2>1
    <3>3. QED
      BY <1>1, <3>1, <3>2 DEF ShownInv, IsSub
  <2>4. QED
    BY <1>2, <2>1, <2>2, <2>3 DEF ShowInv, MapInv
<1>3. /\ mode # "undefined" /\ MapInv
      /\ \A d \in Surfaces : ~Unmapping(d)
      /\ Len(stack) # 1 => role[s] = "subsurface"
      /\ \A d \in Surfaces : mapped[d] => Mappable(d, role, flags)
  <2>1. \A f \in Calls : f.op \notin Ending /\ f.op # "setMapped"
    <3>1. ASSUME NEW i \in 1 .. Len(stack)
          PROVE  stack[i].op \notin Ending /\ stack[i].op # "setMapped"
      <4>1. CallOK(stack[i], i = 1, i = Len(stack), role, synced, flags)
        BY DEF CallInv, CallsInv
      <4>2. stack[1] = Top /\ 1 \in 1 .. Len(stack)
        BY TopFacts
      <4>3. stack[i].op \in Ending /\ i # 1 => Top.op \in Mapping
        BY <4>2 DEF CallInv, KindsOK
      <4>4. QED
        BY <1>1, <4>1, <4>2, <4>3 DEF CallOK, Ending, Mapping
    <3>2. QED
      BY <3>1 DEF Calls, CallsOf
  <2>2. MapInv
    BY <2>1 DEF ShowInv, Doomed, Ending
  <2>3. QED
    BY <1>1, <2>1, <2>2, TopCall DEF ShowInv, MapInv, RoleInv, Unmapping, CallInv
<1>4. ASSUME Return(<< >>), mode' # "undefined", IsSub(s) /\ Wanted(s) => Wanted(s)',
             \A d \in Surfaces : mapped[d] => Mappable(d, role', flags')
      PROVE  ShowInv'
  <2>1. PICK rest : Replaced({}, rest)
    BY <1>4, ReplacedBy
  <2>2. QED
    BY <1>2, <1>4, <2>1
<1>5. ASSUME hb, mode' = "dying", Return(<< >>), UNCHANGED flags
      PROVE  ShowInv'
  <2>1. Wanted(s) => Wanted(s)'
    BY <1>1, <1>5 DEF Wanted
  <2>2. QED
    BY <1>1, <1>3, <1>4, <1>5, <2>1
<1>6. CASE role[s] = "none" /\ Return(<< >>) /\ UNCHANGED <<flags, mode>>
  BY <1>1, <1>3, <1>4, <1>6 DEF IsSub
<1>7. ASSUME IsSub(s), Return(CallCheckMapping(s, parent[s], hb)), UNCHANGED <<flags, mode>>
      PROVE  ShowInv'
  <2>. DEFINE on == parent[s] # None /\ mapped[parent[s]] /\ hb
  <2>1. PICK rest : Replaced(MapCall(s, on), rest)
    BY <1>7, ReplacedBy DEF CallCheckMapping
  <2>2. on \in BOOLEAN /\ mapped[s] \in BOOLEAN
    <3>1. parent[s] # None => mapped[parent[s]] \in BOOLEAN
      BY <1>1, ShowType
    <3>2. QED
      BY <1>1, <3>1, ShowType
  <2>3. on <=> Wanted(s)'
    BY <1>1 DEF Wanted
  <2>. HIDE DEF on
  <2>4. /\ \A f \in MapCall(s, on) : f.op = "setMapped" /\ f.s = s /\ (f.on <=> on)
        /\ mapped[s] /\ ~on => \E f \in MapCall(s, on) : f.op = "setMapped" /\ f.s = s /\ ~f.on
    BY <2>2, MapCallFacts
  <2>5. \A f \in MapCall(s, on) :
          f.op \notin Ending /\ (f.op = "setMapped" /\ f.on /\ IsSub(f.s) => Wanted(f.s)')
    BY <2>3, <2>4 DEF Ending
  <2>6. QED
    BY <1>1, <1>2, <1>3, <1>7, <2>1, <2>3, <2>4, <2>5
<1>8. ASSUME role[s] = "toplevel", ToplevelCommit(s, hb)
      PROVE  ShowInv'
  <2>1. ~IsSub(s) /\ Len(stack) = 1
    BY <1>3, <1>8 DEF IsSub
  <2>2. \/ /\ Return(<< >>) /\ mode' # "undefined"
           /\ flags' \in {flags, [flags EXCEPT ![s] = @ \ {"HasPendingInitialConf"}]}
        \/ /\ UNCHANGED <<flags, mode>> /\ "HasPendingInitialConf" \notin flags[s]
           /\ \/ mapped[s] /\ Return(CallSetMapped(s, FALSE) \o <<Fr("reset", s)>>)
              \/ Return(CallSetMapped(s, TRUE))
    BY <1>3, <1>8 DEF ToplevelCommit
  <2>3. CASE /\ Return(<< >>) /\ mode' # "undefined"
             /\ flags' \in {flags, [flags EXCEPT ![s] = @ \ {"HasPendingInitialConf"}]}
    <3>1. \A d \in Surfaces : "HasPendingInitialConf" \notin flags[d] => "HasPendingInitialConf" \notin flags'[d]
      BY <1>1, <2>3, ShowType
    <3>2. \A d \in Surfaces : mapped[d] => Mappable(d, role', flags')
      BY <1>1, <1>3, <3>1 DEF Mappable
    <3>3. QED
      BY <1>4, <2>1, <2>3, <3>2
  <2>4. CASE Return(CallSetMapped(s, TRUE)) /\ UNCHANGED <<flags, mode>>
    <3>1. PICK rest : Replaced(MapCall(s, TRUE), rest)
      BY <2>4, ReplacedBy
    <3>2. \A f \in MapCall(s, TRUE) : f.op = "setMapped" /\ f.s = s
      BY <1>1, ShowType, MapCallFacts
    <3>3. \A f \in MapCall(s, TRUE) :
            f.op \notin Ending /\ (f.op = "setMapped" /\ f.on /\ IsSub(f.s) => Wanted(f.s)')
      BY <2>1, <3>2 DEF Ending
    <3>4. QED
      BY <1>1, <1>2, <1>3, <2>1, <2>4, <3>1, <3>3
  <2>5. CASE /\ mapped[s] /\ Return(CallSetMapped(s, FALSE) \o <<Fr("reset", s)>>)
             /\ UNCHANGED <<flags, mode>>
    <3>. DEFINE R == Fr("reset", s)
    <3>1. PICK rest : Replaced(MapCall(s, FALSE) \cup {R}, rest)
      BY <2>5, ReplacedBy
    <3>2. R.op = "reset" /\ R.s = s
      BY DEF Fr
    <3>. HIDE DEF R
    <3>3. rest = {} /\ Calls = {Top} /\ Calls' = MapCall(s, FALSE) \cup {R}
      BY <2>1, <3>1 DEF Replaced
    <3>4. /\ \A f \in MapCall(s, FALSE) : f.op = "setMapped" /\ f.s = s /\ ~f.on
          /\ \E f \in MapCall(s, FALSE) : f.op = "setMapped" /\ f.s = s /\ ~f.on
      BY <1>1, <2>5, ShowType, MapCallFacts
    <3>5. NoStale' /\ RoleInv'
      BY <1>1, <1>3, <2>5 DEF MapInv, NoStale, RoleInv, Mappable
    <3>6. UnmapInv'
      BY <3>2, <3>3, <3>4 DEF UnmapInv, Ending
    <3>7. ShownInv'
      <4>1. ASSUME NEW d \in alive, IsSub(d), mapped[d]
            PROVE  Wanted(d)'
        <5>1. d \in Surfaces /\ d # s
          BY <2>1, <4>1, ShowType
        <5>2. Wanted(d)
          BY <1>1, <1>3, <3>3, <4>1, <5>1 DEF MapInv, ShownInv, Visited
        <5>3. QED
          BY <1>1, <5>1, <5>2 DEF Wanted
      <4>2. QED
        BY <1>1, <3>2, <3>3, <3>4, <4>1 DEF ShownInv, IsSub
    <3>8. QED
      BY <1>3, <2>5, <3>5, <3>6, <3>7 DEF ShowInv, MapInv
  <2>6. QED
    BY <2>2, <2>3, <2>4, <2>5
<1>9. \/ hb /\ mode' = "dying" /\ Return(<< >>) /\ UNCHANGED flags
      \/ role[s] = "none" /\ Return(<< >>) /\ UNCHANGED <<flags, mode>>
      \/ IsSub(s) /\ Return(CallCheckMapping(s, parent[s], hb)) /\ UNCHANGED <<flags, mode>>
      \/ role[s] = "toplevel" /\ ToplevelCommit(s, hb)
  BY DEF ApplyContent, hb
<1>10. QED
  BY <1>5, <1>6, <1>7, <1>8, <1>9

\* A loop of reset that never ends goes on for ever.
LEMMA DoomedStays ==
  ASSUME IInv, Doomed, NEW new, NEW rest, Replaced(new, rest), UNCHANGED <<parent, children>>,
         Top.op = "reset" => Top \in new
  PROVE  Doomed'
BY DEF Doomed, Replaced

\* The surface is mapped or unmapped, and its subsurfaces will be checked.
LEMMA SetMappedShow ==
  ASSUME IInv, CallInv, ShowInv, stack # << >>, SetMapped
  PROVE  ShowInv'
<1>. SUFFICES ASSUME NEW s, s = Top.s, NEW on, on = Top.on PROVE ShowInv'
  OBVIOUS
<1>. DEFINE C == FrTodo("cascade", s, Subsurfaces(s))
<1>1. /\ s \in Surfaces /\ s \in alive /\ Top.op = "setMapped" /\ on \in BOOLEAN
      /\ Top \in Calls
      /\ UNCHANGED <<alive, parent, children, hasBuffer, role, flags, mode>>
      /\ \A d \in Surfaces : mapped'[d] = IF d = s THEN on ELSE mapped[d]
  BY TopFacts, ShowType DEF SetMapped, links, content, roles, Calls, CallsOf
<1>2. PICK rest : Replaced({C}, rest)
  BY ReplacedBy DEF SetMapped
<1>3. C.op = "cascade" /\ C.s = s /\ C.todo = Subsurfaces(s)
  BY DEF FrTodo
<1>. HIDE DEF C
<1>4. CASE Doomed
  BY <1>1, <1>2, <1>4, DoomedStays DEF ShowInv
<1>5. CASE MapInv
  <2>1. /\ Calls = {Top} \cup rest /\ Calls' = {C} \cup rest
        /\ \A f \in rest : f.op # "setMapped" /\ f.s \in Surfaces
    BY <1>2 DEF Replaced
  <2>2. NoStale'
    BY <1>1, <1>5 DEF MapInv, NoStale
  <2>3. RoleInv'
    <3>1. on => Mappable(s, role, flags)
      BY <1>1, TopCall DEF CallInv
    <3>2. QED
      BY <1>1, <1>5, <3>1 DEF MapInv, RoleInv, Mappable
  <2>4. UnmapInv'
    <3>1. SUFFICES ASSUME NEW e \in Calls', e.op \in Ending
                   PROVE  /\ ~mapped'[e.s]
                          /\ \A f \in Calls' :
                               /\ f.op # "setMapped"
                               /\ f.op = "cascade" =>
                                    ~mapped'[f.s] /\ \A c \in f.todo : parent'[c] = f.s
      BY DEF UnmapInv
    <3>2. e \in rest /\ e.s \in Surfaces
      BY <1>3, <2>1, <3>1 DEF Ending
    <3>3. /\ mapped[e.s] => \E f \in Calls : f.op = "setMapped" /\ f.s = e.s
          /\ \A f \in Calls :
               /\ f.op = "setMapped" => ~f.on
               /\ f.op = "cascade" => ~mapped[f.s] /\ \A c \in f.todo : parent[c] = f.s
      BY <1>5, <2>1, <3>1, <3>2 DEF MapInv, UnmapInv
    <3>4. ~on
      BY <1>1, <3>3
    <3>5. ~mapped'[e.s]
      BY <1>1, <2>1, <3>2, <3>3, <3>4
    <3>6. \A c \in Subsurfaces(s) : parent[c] = s
      BY <1>1, <1>5 DEF MapInv, NoStale, Subsurfaces
    <3>7. ASSUME NEW f \in Calls', f.op = "cascade"
          PROVE  ~mapped'[f.s] /\ \A c \in f.todo : parent'[c] = f.s
      <4>1. CASE f = C
        BY <1>1, <1>3, <3>4, <3>6, <4>1
      <4>2. CASE f \in rest
        BY <1>1, <2>1, <3>3, <3>4, <3>7, <4>2
      <4>3. QED
        BY <2>1, <4>1, <4>2
    <3>8. QED
      BY <1>3, <2>1, <3>5, <3>7
  <2>5. ASSUME NEW d \in alive, IsSub(d), mapped'[d]
        PROVE  Wanted(d)' \/ Visited(d)'
    <3>1. d \in Surfaces /\ parent[d] \in Surfaces \cup {None}
      BY ShowType
    <3>2. CASE d = s
      <4>1. Wanted(s)
        BY <1>1, <1>5, <2>5, <3>2 DEF MapInv, ShownInv
      <4>2. QED
        BY <1>1, <2>5, <3>1, <3>2, <4>1, NoneAssumption DEF Wanted
    <3>3. CASE d # s
      <4>1. Wanted(d) \/ Unmapping(d) \/ Visited(d)
        BY <1>1, <1>5, <2>5, <3>1, <3>3 DEF MapInv, ShownInv
      <4>2. ~Unmapping(d)
        BY <1>1, <2>1, <3>3 DEF Unmapping
      <4>3. Visited(d) => Visited(d)'
        BY <1>1, <2>1 DEF Visited
      <4>4. CASE Wanted(d) /\ parent[d] # s
        BY <1>1, <3>1, <4>4 DEF Wanted
      <4>5. CASE Wanted(d) /\ parent[d] = s
        <5>1. d \in Subsurfaces(s)
          BY <1>1, <2>5, <4>5 DEF Wanted, Subsurfaces, IInv, LinkInv, LinksValid, ShowInv
        <5>2. QED
          BY <1>1, <1>3, <2>1, <4>5, <5>1 DEF Visited
      <4>6. QED
        BY <4>1, <4>2, <4>3, <4>4, <4>5
    <3>4. QED
      BY <3>2, <3>3
  <2>6. ShownInv'
    BY <1>1, <1>3, <2>1, <2>5 DEF ShownInv, IsSub
  <2>7. QED
    BY <1>1, <2>2, <2>3, <2>4, <2>6 DEF ShowInv, MapInv
<1>6. QED
  BY <1>4, <1>5 DEF ShowInv

\* A child checks its mapping.
LEMMA CascadeShow ==
  ASSUME IInv, CallInv, ShowInv, stack # << >>, CascadeMapping
  PROVE  ShowInv'
<1>. SUFFICES ASSUME NEW s, s = Top.s, NEW todo, todo = Top.todo PROVE ShowInv'
  OBVIOUS
<1>1. /\ s \in Surfaces /\ Top.op = "cascade" /\ todo \subseteq alive /\ Top \in Calls
      /\ UNCHANGED <<alive, parent, children, mapped, hasBuffer, role, flags, mode>>
  BY TopFacts DEF CascadeMapping, links, content, roles, Calls, CallsOf
<1>2. ASSUME NEW new, NEW rest, Replaced(new, rest), NEW c, NEW on \in BOOLEAN,
             \A f \in new : \/ f.op = "setMapped" /\ f.s = c /\ (f.on <=> on)
                            \/ f.op = "cascade" /\ f.s = s /\ f.todo \subseteq todo,
             on => Wanted(c) /\ parent[c] \in Surfaces,
             c \in todo \/ ~on,
             \A d \in todo : IsSub(d) /\ mapped[d] /\ parent[d] = s =>
               \/ Wanted(d)
               \/ \E f \in new : \/ f.op = "setMapped" /\ f.s = d /\ ~f.on
                                 \/ f.op = "cascade" /\ f.s = s /\ d \in f.todo
      PROVE  ShowInv'
  <2>1. /\ Calls = {Top} \cup rest /\ Calls' = new \cup rest
        /\ \A f \in rest : f.op # "setMapped" /\ f.s \in Surfaces
    BY <1>2 DEF Replaced
  <2>2. CASE Doomed
    BY <1>1, <1>2, <2>2, DoomedStays DEF ShowInv
  <2>3. CASE MapInv
    <3>1. NoStale' /\ RoleInv'
      BY <1>1, <2>3 DEF MapInv, NoStale, RoleInv, Mappable
    <3>2. UnmapInv'
      <4>1. SUFFICES ASSUME NEW e \in Calls', e.op \in Ending
                     PROVE  /\ ~mapped[e.s]
                            /\ \A f \in Calls' :
                                 /\ f.op = "setMapped" => ~f.on
                                 /\ f.op = "cascade" =>
                                      ~mapped[f.s] /\ \A d \in f.todo : parent[d] = f.s
        BY <1>1 DEF UnmapInv
      <4>2. e \in rest
        BY <1>2, <2>1, <4>1 DEF Ending
      <4>3. /\ mapped[e.s] => \E f \in Calls : f.op = "setMapped" /\ f.s = e.s
            /\ \A f \in Calls : f.op = "cascade" => ~mapped[f.s] /\ \A d \in f.todo : parent[d] = f.s
        BY <2>1, <2>3, <4>1, <4>2 DEF MapInv, UnmapInv
      <4>4. ~mapped[e.s]
        BY <1>1, <2>1, <4>3
      <4>5. ~mapped[s] /\ \A d \in todo : parent[d] = s
        BY <1>1, <4>3
      <4>6. ~on
        BY <1>2, <4>5 DEF Wanted
      <4>7. \A f \in new : /\ f.op = "setMapped" => ~f.on
                           /\ f.op = "cascade" =>
                                ~mapped[f.s] /\ \A d \in f.todo : parent[d] = f.s
        BY <1>2, <4>5, <4>6
      <4>8. QED
        BY <2>1, <4>3, <4>4, <4>7
    <3>3. ASSUME NEW d \in alive, IsSub(d), mapped[d]
          PROVE  Wanted(d)' \/ Unmapping(d)' \/ Visited(d)'
      <4>1. Wanted(d) \/ Visited(d)
        BY <1>1, <2>1, <2>3, <3>3 DEF MapInv, ShownInv, Unmapping
      <4>2. CASE Wanted(d)
        BY <1>1, <4>2 DEF Wanted
      <4>3. CASE \E f \in rest : f.op = "cascade" /\ f.s = parent[d] /\ d \in f.todo
        BY <1>1, <2>1, <4>3 DEF Visited
      <4>4. CASE parent[d] = s /\ d \in todo
        <5>1. Wanted(d) => Wanted(d)'
          BY <1>1 DEF Wanted
        <5>2. QED
          BY <1>1, <1>2, <2>1, <3>3, <4>4, <5>1 DEF Unmapping, Visited
      <4>5. QED
        BY <2>1, <4>1, <4>2, <4>3, <4>4 DEF Visited
    <3>4. ASSUME NEW f \in Calls', f.op = "setMapped", f.on
          PROVE  Wanted(f.s)'
      BY <1>1, <1>2, <2>1, <3>4 DEF Wanted
    <3>5. ShownInv'
      BY <1>1, <3>3, <3>4 DEF ShownInv, IsSub
    <3>6. QED
      BY <1>1, <3>1, <3>2, <3>5 DEF ShowInv, MapInv
  <2>4. QED
    BY <2>2, <2>3 DEF ShowInv
<1>3. CASE todo = {} /\ Return(<< >>)
  <2>1. PICK rest : Replaced({}, rest)
    BY <1>3, ReplacedBy
  <2>2. QED
    BY <1>2, <1>3, <2>1
<1>4. ASSUME NEW c \in todo,
             Return(CallCheckMapping(c, parent[c], hasBuffer[c])
                      \o <<FrTodo("cascade", s, todo \ {c})>>)
      PROVE  ShowInv'
  <2>. DEFINE on == parent[c] # None /\ mapped[parent[c]] /\ hasBuffer[c]
              C  == FrTodo("cascade", s, todo \ {c})
  <2>1. PICK rest : Replaced(MapCall(c, on) \cup {C}, rest)
    BY <1>4, ReplacedBy DEF CallCheckMapping
  <2>2. on \in BOOLEAN /\ mapped[c] \in BOOLEAN /\ (on <=> Wanted(c))
        /\ (parent[c] # None => parent[c] \in Surfaces)
    <3>1. c \in Surfaces /\ parent[c] \in Surfaces \cup {None}
      BY <1>1, <1>4, ShowType
    <3>2. QED
      BY <3>1, ShowType DEF Wanted
  <2>3. C.op = "cascade" /\ C.s = s /\ C.todo = todo \ {c}
    BY DEF FrTodo
  <2>. HIDE DEF on, C
  <2>4. /\ \A f \in MapCall(c, on) : f.op = "setMapped" /\ f.s = c /\ (f.on <=> on)
        /\ mapped[c] /\ ~on => \E f \in MapCall(c, on) : f.op = "setMapped" /\ f.s = c /\ ~f.on
    BY <2>2, MapCallFacts
  <2>5. \A f \in MapCall(c, on) \cup {C} :
           \/ f.op = "setMapped" /\ f.s = c /\ (f.on <=> on)
           \/ f.op = "cascade" /\ f.s = s /\ f.todo \subseteq todo
    BY <2>3, <2>4
  <2>6. on => Wanted(c) /\ parent[c] \in Surfaces
    BY <2>2 DEF Wanted
  <2>7. ASSUME NEW d \in todo, mapped[d]
        PROVE  \/ Wanted(d)
               \/ \E f \in MapCall(c, on) \cup {C} :
                    \/ f.op = "setMapped" /\ f.s = d /\ ~f.on
                    \/ f.op = "cascade" /\ f.s = s /\ d \in f.todo
    BY <2>2, <2>3, <2>4, <2>7
  <2>8. QED
    BY <1>2, <1>4, <2>1, <2>2, <2>5, <2>6, <2>7
<1>5. QED
  BY <1>3, <1>4 DEF CascadeMapping

\* When a surface is reset or destroyed, or loses its role, no other call is in
\* progress and it has been unmapped.
LEMMA EndingShow ==
  ASSUME IInv, CallInv, ShowInv, stack # << >>, Top.op \in Ending, NEW new, NEW rest,
         Replaced(new, rest)
  PROVE  /\ Calls = {Top} /\ Calls' = new
         /\ ~Doomed => /\ MapInv /\ ~mapped[Top.s]
                       /\ \A d \in alive : IsSub(d) /\ mapped[d] => Wanted(d)
<1>1. Calls = {Top} /\ Calls' = new
  BY DEF Replaced
<1>2. ASSUME MapInv PROVE ~mapped[Top.s]
  BY <1>1, <1>2 DEF MapInv, UnmapInv, Ending
<1>3. ASSUME MapInv PROVE \A d \in alive : IsSub(d) /\ mapped[d] => Wanted(d)
  BY <1>1, <1>3 DEF MapInv, ShownInv, Unmapping, Visited, Ending
<1>4. QED
  BY <1>1, <1>2, <1>3 DEF ShowInv

\* No call is left in progress.
LEMMA NoCallsShow ==
  ASSUME Calls' = {}, NoStale', RoleInv', mode' # "undefined",
         \A d \in alive' : IsSub(d)' /\ mapped'[d] => Wanted(d)'
  PROVE  ShowInv'
BY DEF ShowInv, MapInv, UnmapInv, ShownInv

\* A surface that is not mapped loses its role.
LEMMA NoRoleShow ==
  ASSUME IInv, NEW s \in Surfaces, NoRole(s), RoleInv, ~mapped[s], mapped' = mapped,
         alive' \in {alive, alive \ {s}}
  PROVE  RoleInv' /\ \A d \in Surfaces : IsSub(d)' => d # s /\ IsSub(d)
<1>1. \A d \in Surfaces : /\ role'[d] = IF d = s THEN "none" ELSE role[d]
                          /\ d # s => flags'[d] = flags[d]
  BY ShowType DEF NoRole
<1>2. \A d \in Surfaces : mapped'[d] => Mappable(d, role', flags')
  BY <1>1 DEF RoleInv, Mappable
<1>3. QED
  BY <1>1, <1>2 DEF RoleInv, IsSub

\* A role is destroyed.
LEMMA DropRoleShow ==
  ASSUME IInv, CallInv, ShowInv, stack # << >>, DropRole
  PROVE  ShowInv'
<1>. SUFFICES ASSUME NEW s, s = Top.s PROVE ShowInv'
  OBVIOUS
<1>1. /\ s \in Surfaces /\ Top.op = "dropRole" /\ Top.op \in Ending /\ NoRole(s)
      /\ UNCHANGED <<alive, parent, children, mapped, hasBuffer, mode>>
  BY TopFacts DEF DropRole, Ending, links, content
<1>2. PICK rest : Replaced(MapCall(s, FALSE), rest)
  BY ReplacedBy DEF DropRole
<1>3. /\ Calls = {Top} /\ Calls' = {} /\ MapInv /\ ~mapped[s]
      /\ \A d \in alive : IsSub(d) /\ mapped[d] => Wanted(d)
  <2>1. Calls = {Top}
    BY <1>1, <1>2, EndingShow
  <2>2. ~Doomed
    BY <1>1, <2>1 DEF Doomed
  <2>3. ~mapped[s] /\ Calls' = MapCall(s, FALSE)
    BY <1>1, <1>2, <2>2, EndingShow
  <2>4. MapCall(s, FALSE) = {}
    BY <1>1, <2>3, ShowType DEF MapCall
  <2>5. QED
    BY <1>1, <1>2, <2>2, <2>3, <2>4, EndingShow
<1>4. RoleInv' /\ \A d \in Surfaces : IsSub(d)' => IsSub(d)
  BY <1>1, <1>3, NoRoleShow DEF MapInv
<1>5. NoStale'
  BY <1>1, <1>3 DEF MapInv, NoStale
<1>6. \A d \in alive' : IsSub(d)' /\ mapped'[d] => Wanted(d)'
  BY <1>1, <1>3, <1>4, ShowType DEF Wanted
<1>7. QED
  BY <1>1, <1>3, <1>4, <1>5, <1>6, NoCallsShow DEF ShowInv

\* A surface that loses its parent leaves its list.
LEMMA OrphanShow ==
  ASSUME IInv, NoStale, NEW c \in Surfaces, SetParent(c, None)
  PROVE  /\ NoStale'
         /\ \A d \in Surfaces : d # c => parent'[d] = parent[d]
         /\ parent[c] # None => c \notin children'[parent[c]]
<1>1. \A d \in Surfaces : parent'[d] = IF d = c THEN None ELSE parent[d]
  BY ShowType DEF SetParent
<1>2. \A p \in Surfaces : children'[p] = IF p = parent[c] THEN children[p] \ {c} ELSE children[p]
  BY ShowType, NoneAssumption DEF SetParent
<1>3. NoStale'
  <2>1. SUFFICES ASSUME NEW p \in Surfaces, NEW d \in children'[p] PROVE parent'[d] = p
    BY DEF NoStale
  <2>2. d \in children[p] /\ d \in Surfaces
    BY <1>2, <2>1, ShowType
  <2>3. parent[d] = p
    BY <2>2 DEF NoStale
  <2>4. d # c
    BY <1>2, <2>1, <2>3
  <2>5. QED
    BY <1>1, <2>2, <2>3, <2>4
<1>4. QED
  BY <1>1, <1>2, <1>3, ShowType

\* The first child of a surface that is reset is unmapped or given away.
LEMMA ResetChildShow ==
  ASSUME IInv, CallInv, ShowInv, stack # << >>, ResetChild
  PROVE  ShowInv'
<1>. SUFFICES ASSUME NEW s, s = Top.s PROVE ShowInv'
  OBVIOUS
<1>1. /\ s \in Surfaces /\ Top.op = "reset" /\ Top.op \in Ending
      /\ UNCHANGED <<alive, mapped, hasBuffer, role, flags, mode>>
  BY TopFacts DEF ResetChild, Ending, content, roles
<1>2. PICK c \in children[s] :
        \/ /\ IsSub(c) /\ mapped[c]
           /\ stack' = CallSetMapped(c, FALSE) \o stack
           /\ UNCHANGED links
        \/ /\ ~(IsSub(c) /\ mapped[c])
           /\ SetParent(c, parent[s])
           /\ stack' = IF parent[s] \in {None, parent[c]} THEN stack
                       ELSE HandleParentChange(c, parent[s]) \o stack
  BY DEF ResetChild
<1>3. c \in Surfaces /\ parent[s] \in Surfaces \cup {None}
  BY <1>1, ShowType
<1>4. \E new, rest : Replaced(new, rest) /\ Top \in new
  <2>1. \A X, rest : Replaced(X \cup {Top}, rest) => \E new : Replaced(new, rest) /\ Top \in new
    OBVIOUS
  <2>2. CASE stack' = CallSetMapped(c, FALSE) \o stack
    BY <2>1, <2>2, ReplacedBy
  <2>3. CASE stack' = stack
    <3>1. \E rest : Replaced({Top}, rest)
      BY <2>3, ReplacedBy
    <3>2. QED
      BY <3>1
  <2>4. CASE stack' = HandleParentChange(c, parent[s]) \o stack
    <3>1. \E rest : Replaced((IF IsSub(c)
                             THEN MapCall(c, parent[s] # None /\ mapped[parent[s]] /\ hasBuffer[c])
                             ELSE {}) \cup {Top}, rest)
      BY <2>4, ReplacedBy
    <3>2. QED
      BY <2>1, <3>1
  <2>5. QED
    BY <1>2, <2>2, <2>3, <2>4
<1>5. Calls = {Top} /\ Top \in Calls'
  BY <1>1, <1>4, EndingShow
<1>6. CASE Doomed
  <2>1. parent[s] # None /\ children[s] # {}
    BY <1>5, <1>6 DEF Doomed
  <2>2. parent'[s] # None /\ children'[s] # {}
    <3>1. CASE UNCHANGED links
      BY <2>1, <3>1 DEF links
    <3>2. CASE SetParent(c, parent[s])
      <4>1. parent'[s] = parent[s]
        BY <1>1, <1>3, <3>2, ShowType DEF SetParent
      <4>2. children[s] \subseteq children'[s]
        BY <1>1, <1>3, <2>1, <3>2, ShowType DEF SetParent
      <4>3. QED
        BY <2>1, <4>1, <4>2
    <3>3. QED
      BY <1>2, <3>1, <3>2
  <2>3. Doomed'
    BY <1>1, <1>5, <2>2 DEF Doomed
  <2>4. QED
    BY <1>1, <2>3 DEF ShowInv
<1>7. CASE ~Doomed
  <2>1. /\ MapInv /\ ~mapped[s] /\ parent[s] = None
        /\ \A d \in alive : IsSub(d) /\ mapped[d] => Wanted(d)
    <3>1. parent[s] = None
      BY <1>1, <1>5, <1>7 DEF Doomed
    <3>2. QED
      BY <1>1, <1>4, <1>7, <3>1, EndingShow
  <2>2. RoleInv'
    BY <1>1, <2>1 DEF MapInv, RoleInv, Mappable
  <2>3. CASE IsSub(c) /\ mapped[c] /\ stack' = CallSetMapped(c, FALSE) \o stack /\ UNCHANGED links
    <3>1. PICK rest : Replaced(MapCall(c, FALSE) \cup {Top}, rest)
      BY <2>3, ReplacedBy
    <3>2. Calls' = MapCall(c, FALSE) \cup {Top}
      BY <1>1, <3>1, EndingShow
    <3>3. \A f \in MapCall(c, FALSE) : f.op = "setMapped" /\ ~f.on
      BY <1>3, ShowType, MapCallFacts
    <3>4. NoStale'
      BY <2>1, <2>3 DEF MapInv, NoStale, links
    <3>5. UnmapInv'
      BY <1>1, <2>1, <3>2, <3>3 DEF UnmapInv, Ending
    <3>6. ShownInv'
      <4>1. \A d \in alive : Wanted(d) => Wanted(d)'
        BY <1>1, <2>3 DEF Wanted, links
      <4>2. QED
        BY <1>1, <2>1, <3>2, <3>3, <4>1 DEF ShownInv, IsSub
    <3>7. QED
      BY <1>1, <2>2, <3>4, <3>5, <3>6 DEF ShowInv, MapInv
  <2>4. CASE ~(IsSub(c) /\ mapped[c]) /\ SetParent(c, None) /\ stack' = stack
    <3>1. Calls' = {Top}
      <4>1. PICK rest : Replaced({Top}, rest)
        BY <2>4, ReplacedBy
      <4>2. QED
        BY <1>1, <4>1, EndingShow
    <3>2. NoStale' /\ \A d \in Surfaces : d # c => parent'[d] = parent[d]
      BY <1>3, <2>1, <2>4, OrphanShow DEF MapInv
    <3>3. UnmapInv'
      BY <1>1, <2>1, <3>1 DEF UnmapInv, Ending
    <3>4. ShownInv'
      <4>1. ASSUME NEW d \in alive, IsSub(d), mapped[d] PROVE Wanted(d)'
        BY <1>1, <2>1, <2>4, <3>2, <4>1, ShowType DEF Wanted
      <4>2. QED
        BY <1>1, <3>1, <4>1 DEF ShownInv, IsSub
    <3>5. QED
      BY <1>1, <2>2, <3>2, <3>3, <3>4 DEF ShowInv, MapInv
  <2>5. QED
    BY <1>2, <2>1, <2>3, <2>4
<1>8. QED
  BY <1>6, <1>7

\* When it has no child left it loses its own parent and has to be configured
\* again.
LEMMA ResetDoneShow ==
  ASSUME IInv, CallInv, ShowInv, stack # << >>, ResetDone
  PROVE  ShowInv'
<1>. SUFFICES ASSUME NEW s, s = Top.s PROVE ShowInv'
  OBVIOUS
<1>1. /\ s \in Surfaces /\ Top.op = "reset" /\ Top.op \in Ending /\ SetParent(s, None)
      /\ children[s] = {} /\ flags' = [flags EXCEPT ![s] = {"HasPendingInitialConf"}]
      /\ UNCHANGED <<alive, mapped, hasBuffer, role, mode>>
  BY TopFacts DEF ResetDone, Ending, content
<1>2. PICK rest : Replaced({}, rest)
  BY ReplacedBy DEF ResetDone
<1>3. /\ Calls = {Top} /\ Calls' = {} /\ MapInv /\ ~mapped[s]
      /\ \A d \in alive : IsSub(d) /\ mapped[d] => Wanted(d)
  <2>1. Calls = {Top}
    BY <1>1, <1>2, EndingShow
  <2>2. ~Doomed
    BY <1>1, <2>1 DEF Doomed
  <2>3. QED
    BY <1>1, <1>2, <2>2, EndingShow
<1>4. role[s] = "toplevel"
  BY <1>1, TopCall DEF CallInv
<1>5. NoStale' /\ \A d \in Surfaces : d # s => parent'[d] = parent[d]
  BY <1>1, <1>3, OrphanShow DEF MapInv
<1>6. RoleInv'
  <2>1. \A d \in Surfaces : d # s => flags'[d] = flags[d]
    BY <1>1, ShowType
  <2>2. QED
    BY <1>1, <1>3, <2>1 DEF MapInv, RoleInv, Mappable
<1>7. \A d \in alive' : IsSub(d)' /\ mapped'[d] => Wanted(d)'
  BY <1>1, <1>3, <1>4, <1>5, ShowType DEF Wanted, IsSub
<1>8. QED
  BY <1>1, <1>3, <1>5, <1>6, <1>7, NoCallsShow DEF ShowInv

\* A surface is destroyed: no list is left with a pointer to it.
LEMMA RemoveShow ==
  ASSUME IInv, CallInv, ShowInv, stack # << >>, Remove
  PROVE  ShowInv'
<1>. SUFFICES ASSUME NEW s, s = Top.s PROVE ShowInv'
  OBVIOUS
<1>1. /\ s \in Surfaces /\ Top.op = "remove" /\ Top.op \in Ending /\ NoRole(s)
      /\ alive' = alive \ {s} /\ mapped' = [mapped EXCEPT ![s] = FALSE]
      /\ \A d \in Surfaces : d # s => hasBuffer'[d] = hasBuffer[d]
      /\ \A d \in Surfaces : parent'[d] = IF d = s \/ d \in children[s] THEN None ELSE parent[d]
      /\ \A p \in Surfaces : children'[p] = IF p = s THEN {}
                                            ELSE IF p = parent[s] THEN children[p] \ {s}
                                            ELSE children[p]
      /\ mode' = IF \E p \in alive : \E c \in children[p] : (p = s \/ c = s) /\ parent[c] # p
                 THEN "undefined" ELSE mode
  BY TopFacts, ShowType DEF Remove, Ending
<1>2. PICK rest : Replaced({}, rest)
  BY ReplacedBy DEF Remove
<1>3. /\ Calls = {Top} /\ Calls' = {} /\ MapInv /\ ~mapped[s]
      /\ \A d \in alive : IsSub(d) /\ mapped[d] => Wanted(d)
  <2>1. Calls = {Top}
    BY <1>1, <1>2, EndingShow
  <2>2. ~Doomed
    BY <1>1, <2>1 DEF Doomed
  <2>3. QED
    BY <1>1, <1>2, <2>2, EndingShow
<1>31. mapped' = mapped
  BY <1>1, <1>3, ShowType
<1>4. mode' # "undefined"
  BY <1>1, <1>3, ShowType DEF MapInv, NoStale, ShowInv
<1>5. RoleInv' /\ \A d \in Surfaces : IsSub(d)' => d # s /\ IsSub(d)
  BY <1>1, <1>3, <1>31, NoRoleShow DEF MapInv
<1>6. NoStale'
  <2>1. SUFFICES ASSUME NEW p \in Surfaces, NEW c \in children'[p] PROVE parent'[c] = p
    BY DEF NoStale
  <2>2. p # s /\ c \in children[p] /\ c \in Surfaces
    BY <1>1, <2>1, ShowType
  <2>3. parent[c] = p /\ c \notin children[s]
    BY <1>1, <1>3, <2>2 DEF MapInv, NoStale
  <2>4. c # s
    BY <1>1, <2>1, <2>2, <2>3
  <2>5. QED
    BY <1>1, <2>2, <2>3, <2>4
<1>7. ASSUME NEW d \in alive', IsSub(d)', mapped'[d] PROVE Wanted(d)'
  <2>1. d \in Surfaces /\ d \in alive /\ d # s /\ IsSub(d) /\ mapped[d]
    BY <1>1, <1>5, <1>7, <1>31, ShowType
  <2>2. parent[d] # None /\ mapped[parent[d]] /\ hasBuffer[d] /\ parent[d] # s
    BY <1>3, <2>1 DEF Wanted
  <2>3. d \notin children[s]
    BY <1>1, <1>3, <2>2 DEF MapInv, NoStale
  <2>4. QED
    BY <1>1, <1>31, <2>1, <2>2, <2>3 DEF Wanted
<1>8. QED
  BY <1>3, <1>4, <1>5, <1>6, <1>7, NoCallsShow

\* Every call keeps the mapping right.
LEMMA StepShowInv ==
  ASSUME IInv, CallInv, ShowInv, Step
  PROVE  ShowInv'
BY QuietStepShow, AdoptOneShow, ApplyContentShow, SetMappedShow, CascadeShow, DropRoleShow,
   ResetChildShow, ResetDoneShow, RemoveShow DEF Step

\* Between two requests a mapped subsurface is one that checkMapping would map.
LEMMA IdleShow ==
  ASSUME IInv, ShowInv, stack = << >>
  PROVE  /\ Calls = {} /\ MapInv /\ mode # "undefined"
         /\ \A d \in alive : IsSub(d) /\ mapped[d] => Wanted(d)
<1>1. Calls = {}
  <2>1. Len(stack) = 0
    OBVIOUS
  <2>2. QED
    BY <2>1 DEF Calls, CallsOf
<1>2. MapInv /\ mode # "undefined"
  BY <1>1 DEF ShowInv, Doomed
<1>3. QED
  BY <1>1, <1>2 DEF MapInv, ShownInv, Unmapping, Visited

\* The two calls that the destruction of a role or of a surface makes.
LEMMA DestroyCalls ==
  ASSUME NEW s, NEW op, stack' = CallSetMapped(s, FALSE) \o <<Fr(op, s)>>
  PROVE  Calls' = MapCall(s, FALSE) \cup {Fr(op, s)}
<1>. DEFINE R == Fr(op, s)
<1>. SUFFICES ASSUME NEW st, st = stack' PROVE Calls' = MapCall(s, FALSE) \cup {R}
  OBVIOUS
<1>1. Calls' = CallsOf(st)
  BY DEF Calls
<1>2. CASE mapped[s] = FALSE
  <2>1. st = <<R>>
    BY <1>2, MapCalls
  <2>2. One1(st, R)
    BY <2>1, Tuples
  <2>3. CallsOf(st) = {R}
    BY <2>2, MadeCalls
  <2>4. MapCall(s, FALSE) = {}
    BY <1>2 DEF MapCall
  <2>5. QED
    BY <1>1, <2>3, <2>4
<1>3. CASE mapped[s] # FALSE
  <2>. DEFINE F == FrOn("setMapped", s, FALSE)
  <2>1. st = <<F, R>>
    BY <1>3, MapCalls
  <2>2. Two2(st, F, R)
    <3>1. Two2(<<F, R>>, F, R)
      BY Tuples, Zenon
    <3>2. QED
      BY <2>1, <3>1, Zenon
  <2>3. CallsOf(st) = {F, R}
    BY <2>2, MadeCalls
  <2>4. MapCall(s, FALSE) = {F}
    BY <1>3 DEF MapCall
  <2>. HIDE DEF F, R
  <2>5. QED
    BY <1>1, <2>3, <2>4
<1>4. QED
  BY <1>2, <1>3

\* A role or a surface is unmapped before it is destroyed.
LEMMA DestroyShow ==
  ASSUME IInv, ShowInv, stack = << >>, NEW s \in Surfaces, NEW op \in {"dropRole", "remove"},
         stack' = CallSetMapped(s, FALSE) \o <<Fr(op, s)>>,
         UNCHANGED <<alive, parent, children, mapped, hasBuffer, role, flags, mode>>
  PROVE  ShowInv'
<1>. DEFINE R == Fr(op, s)
<1>1. R.op = op /\ R.s = s
  BY DEF Fr
<1>2. Calls' = MapCall(s, FALSE) \cup {R}
  BY DestroyCalls
<1>. HIDE DEF R
<1>3. /\ \A f \in MapCall(s, FALSE) : f.op = "setMapped" /\ f.s = s /\ ~f.on
      /\ mapped[s] => \E f \in MapCall(s, FALSE) : f.op = "setMapped" /\ f.s = s /\ ~f.on
  BY ShowType, MapCallFacts
<1>4. MapInv /\ mode # "undefined" /\ \A d \in alive : IsSub(d) /\ mapped[d] => Wanted(d)
  BY IdleShow
<1>5. NoStale' /\ RoleInv'
  BY <1>4 DEF MapInv, NoStale, RoleInv, Mappable
<1>6. UnmapInv'
  BY <1>1, <1>2, <1>3 DEF UnmapInv, Ending
<1>7. ShownInv'
  <2>1. \A d \in alive : Wanted(d) => Wanted(d)'
    BY DEF Wanted
  <2>2. QED
    BY <1>1, <1>2, <1>3, <1>4, <2>1 DEF ShownInv, IsSub
<1>8. QED
  BY <1>4, <1>5, <1>6, <1>7 DEF ShowInv, MapInv

\* A request that makes no call.
LEMMA NoCallShow ==
  ASSUME stack' = << >>, NoStale', RoleInv', mode' # "undefined",
         \A d \in alive' : IsSub(d)' /\ mapped'[d] => Wanted(d)'
  PROVE  ShowInv'
<1>1. Calls' = {}
  <2>1. Len(stack') = 0
    OBVIOUS
  <2>2. QED
    BY <2>1 DEF Calls, CallsOf
<1>2. QED
  BY <1>1, NoCallsShow

\* One that makes a single call, to commit or to synchronize.
LEMMA OneCallShow ==
  ASSUME IInv, ShowInv, stack = << >>, NEW f, stack' = <<f>>, f.op \in {"apply", "sync"},
         UNCHANGED <<alive, parent, children, mapped, hasBuffer, role, flags, mode>>
  PROVE  ShowInv'
<1>1. Calls' = {f}
  <2>1. Len(stack') = 1 /\ stack'[1] = f
    OBVIOUS
  <2>2. QED
    BY <2>1 DEF Calls, CallsOf
<1>2. Calls = {}
  BY IdleShow
<1>3. QED
  BY <1>1, <1>2, QuietShow DEF ShowInv, Mapping, Ending

\* A toplevel is given no parent, or a first one.
LEMMA ToplevelParentShow ==
  ASSUME IInv, ShowInv, "reparent" \notin Requests,
         NEW s \in Surfaces, NEW p \in Surfaces \cup {None}, SetToplevelParent(s, p)
  PROVE  ShowInv'
<1>1. /\ stack = << >> /\ stack' = << >>
      /\ UNCHANGED <<alive, mapped, hasBuffer, role, flags, mode>>
  BY DEF SetToplevelParent, Serving, content, roles
<1>2. MapInv /\ mode # "undefined" /\ \A d \in alive : IsSub(d) /\ mapped[d] => Wanted(d)
  BY <1>1, IdleShow
<1>3. PICK c \in Surfaces :
        /\ role[c] = "toplevel"
        /\ \/ SetParent(c, None)
           \/ parent[c] = None /\ p \in Surfaces /\ SetParent(c, p)
  <2>1. CASE SetParent(s, None) \/ SetParent(s, p)
    BY <2>1, ShowType DEF SetToplevelParent
  <2>2. CASE p \in alive /\ role[p] = "toplevel" /\ SetParent(p, None)
    BY <2>2, ShowType
  <2>3. QED
    BY <2>1, <2>2 DEF SetToplevelParent
<1>4. NoStale' /\ \A d \in Surfaces : d # c => parent'[d] = parent[d]
  <2>1. CASE SetParent(c, None)
    BY <1>2, <2>1, OrphanShow DEF MapInv
  <2>2. CASE parent[c] = None /\ p \in Surfaces /\ SetParent(c, p)
    <3>1. \A d \in Surfaces : parent'[d] = IF d = c THEN p ELSE parent[d]
      BY <2>2, ShowType DEF SetParent
    <3>2. \A q \in Surfaces : children'[q] = IF q = p THEN children[q] \cup {c} ELSE children[q]
      BY <2>2, ShowType, NoneAssumption DEF SetParent
    <3>3. NoStale'
      <4>1. SUFFICES ASSUME NEW q \in Surfaces, NEW d \in children'[q] PROVE parent'[d] = q
        BY DEF NoStale
      <4>2. CASE d \in children[q]
        <5>1. parent[d] = q /\ d \in Surfaces /\ d # c
          BY <1>2, <2>2, <4>2, ShowType, NoneAssumption DEF MapInv, NoStale
        <5>2. QED
          BY <3>1, <5>1
      <4>3. CASE d = c /\ q = p
        BY <3>1, <4>3
      <4>4. QED
        BY <3>2, <4>1, <4>2, <4>3
    <3>4. QED
      BY <3>1, <3>3
  <2>3. QED
    BY <1>3, <2>1, <2>2
<1>5. RoleInv'
  BY <1>1, <1>2 DEF MapInv, RoleInv, Mappable
<1>6. \A d \in alive' : IsSub(d)' /\ mapped'[d] => Wanted(d)'
  BY <1>1, <1>2, <1>3, <1>4, ShowType DEF Wanted, IsSub
<1>7. QED
  BY <1>1, <1>2, <1>4, <1>5, <1>6, NoCallShow

\* Every request keeps the mapping right.
LEMMA RequestShowInv ==
  ASSUME IInv, ShowInv, "reparent" \notin Requests, Request
  PROVE  ShowInv'
<1>1. ASSUME NEW s \in Surfaces, CreateSurface(s) PROVE ShowInv'
  <2>1. /\ stack = << >> /\ stack' = << >> /\ s \notin alive /\ alive' = alive \cup {s}
        /\ UNCHANGED <<parent, children, mapped, hasBuffer, role, flags, mode>>
    BY <1>1 DEF CreateSurface, Serving, links, content, roles
  <2>2. MapInv /\ mode # "undefined" /\ \A d \in alive : IsSub(d) /\ mapped[d] => Wanted(d)
    BY <2>1, IdleShow
  <2>3. NoStale' /\ RoleInv'
    BY <2>1, <2>2 DEF MapInv, NoStale, RoleInv, Mappable
  <2>4. role[s] = "none"
    BY <2>1, <2>2 DEF MapInv, RoleInv
  <2>5. \A d \in alive' : IsSub(d)' /\ mapped'[d] => Wanted(d)'
    BY <2>1, <2>2, <2>4 DEF Wanted, IsSub
  <2>6. QED
    BY <2>1, <2>2, <2>3, <2>5, NoCallShow
<1>2. ASSUME stack = << >>, stack' = << >>, mode' # "undefined",
             UNCHANGED <<alive, parent, children, mapped, hasBuffer, role, flags>>
      PROVE  ShowInv'
  <2>1. MapInv /\ \A d \in alive : IsSub(d) /\ mapped[d] => Wanted(d)
    BY <1>2, IdleShow
  <2>2. NoStale' /\ RoleInv' /\ \A d \in alive' : IsSub(d)' /\ mapped'[d] => Wanted(d)'
    BY <1>2, <2>1 DEF MapInv, NoStale, RoleInv, Mappable, Wanted, IsSub
  <2>3. QED
    BY <1>2, <2>2, NoCallShow
<1>3. ASSUME NEW s \in Surfaces, Commit(s) \/ SetSync(s) \/ SetDesync(s) PROVE ShowInv'
  <2>1. /\ stack = << >> /\ mode # "undefined"
        /\ UNCHANGED <<alive, parent, children, mapped, hasBuffer, role, flags, mode>>
    BY <1>3 DEF Commit, SetSync, SetDesync, Serving, links, content, roles
  <2>2. FrOn("apply", s, FALSE).op = "apply" /\ Fr("sync", s).op = "sync"
    BY DEF FrOn, Fr
  <2>3. stack' = <<FrOn("apply", s, FALSE)>> \/ stack' = <<Fr("sync", s)>> \/ stack' = << >>
    BY <1>3 DEF Commit, SetSync, SetDesync, Serving
  <2>4. QED
    BY <1>2, <2>1, <2>2, <2>3, OneCallShow
<1>4. ASSUME NEW s \in Surfaces, DestroyRole(s) \/ DestroySurface(s) PROVE ShowInv'
  <2>1. /\ stack = << >>
        /\ UNCHANGED <<alive, parent, children, mapped, hasBuffer, role, flags, mode>>
        /\ \E op \in {"dropRole", "remove"} : stack' = CallSetMapped(s, FALSE) \o <<Fr(op, s)>>
    BY <1>4 DEF DestroyRole, DestroySurface, links, content, roles
  <2>2. QED
    BY <2>1, DestroyShow
<1>5. ASSUME NEW s \in Surfaces, NEW p \in Surfaces, GetSubsurface(s, p) \/ GetToplevel(s)
      PROVE  ShowInv'
  <2>1. /\ stack = << >> /\ stack' = << >> /\ role[s] = "none" /\ s \in alive
        /\ \A d \in Surfaces : d # s => role'[d] = role[d]
        /\ UNCHANGED <<alive, parent, children, mapped, hasBuffer, flags, mode>>
    BY <1>5, ShowType DEF GetSubsurface, GetToplevel, Serving, SetPendingParent, links, content
  <2>2. MapInv /\ mode # "undefined" /\ \A d \in alive : IsSub(d) /\ mapped[d] => Wanted(d)
    BY <2>1, IdleShow
  <2>3. ~mapped[s]
    BY <2>1, <2>2 DEF MapInv, RoleInv, Mappable
  <2>4. NoStale' /\ RoleInv'
    BY <2>1, <2>2, <2>3 DEF MapInv, NoStale, RoleInv, Mappable
  <2>5. \A d \in alive' : IsSub(d)' /\ mapped'[d] => Wanted(d)'
    BY <2>1, <2>2, <2>3, ShowType DEF Wanted, IsSub
  <2>6. QED
    BY <2>1, <2>2, <2>4, <2>5, NoCallShow
<1>6. ASSUME NEW s \in Surfaces, Close(s) PROVE ShowInv'
  <2>1. /\ stack = << >> /\ stack' = << >>
        /\ \A d \in Surfaces : "HasPendingInitialConf" \in flags'[d] => "HasPendingInitialConf" \in flags[d]
        /\ UNCHANGED <<alive, parent, children, mapped, hasBuffer, role, mode>>
    BY <1>6, ShowType DEF Close, Serving, links, content
  <2>2. MapInv /\ mode # "undefined" /\ \A d \in alive : IsSub(d) /\ mapped[d] => Wanted(d)
    BY <2>1, IdleShow
  <2>3. NoStale' /\ RoleInv' /\ \A d \in alive' : IsSub(d)' /\ mapped'[d] => Wanted(d)'
    BY <2>1, <2>2 DEF MapInv, NoStale, RoleInv, Mappable, Wanted, IsSub
  <2>4. QED
    BY <2>1, <2>2, <2>3, NoCallShow
<1>7. ASSUME NEW s \in Surfaces, NEW a, AttachBuffer(s, a) PROVE ShowInv'
  <2>1. /\ stack = << >> /\ stack' = << >> /\ mode' # "undefined"
        /\ UNCHANGED <<alive, parent, children, mapped, hasBuffer, role, flags>>
    BY <1>7 DEF AttachBuffer, Serving, links, roles
  <2>2. QED
    BY <1>2, <2>1
<1>8. ASSUME Disconnect \/ Reconnect PROVE ShowInv'
  <2>1. /\ stack = << >> /\ stack' = << >> /\ mode' # "undefined"
        /\ UNCHANGED <<alive, parent, children, mapped, hasBuffer, role, flags>>
    BY <1>8 DEF Disconnect, Reconnect, Serving, links, content, roles
  <2>2. QED
    BY <1>2, <2>1
<1>9. QED
  BY <1>1, <1>3, <1>4, <1>5, <1>6, <1>7, <1>8, ToplevelParentShow DEF Request

\* The mapping is right in every surface tree the requests lead to, unless the
\* parent of a toplevel that has one is set.
LEMMA ShowInvariance ==
  ASSUME "reparent" \notin Requests
  PROVE  Spec => []ShowInv
<1>1. Init => ShowInv
  BY DEF Init, ShowInv, MapInv, NoStale, UnmapInv, RoleInv, ShownInv, Calls, CallsOf, IsSub
<1>2. ASSUME IInv, CallInv, ShowInv, [Next]_vars
      PROVE  ShowInv'
  <2>1. CASE UNCHANGED vars
    <3>1. UNCHANGED <<alive, parent, children, mapped, hasBuffer, role, flags, mode, stack>>
      BY <2>1 DEF vars, links, content, roles
    <3>2. Calls' = Calls
      BY <3>1 DEF Calls
    <3>3. QED
      BY <1>2, <3>1, <3>2, QuietShow DEF ShowInv
  <2>2. QED
    BY <1>2, <2>1, StepShowInv, RequestShowInv DEF Next
<1>3. QED
  BY <1>1, <1>2, Invariance, CallInvariance, PTL DEF Spec

\* The surfaces above s: s itself, the parents of those above it, no other.
LEMMA AncestorFacts ==
  ASSUME IInv, NEW s \in Surfaces
  PROVE  /\ s \in Ancestors(s) /\ Ancestors(s) \subseteq Surfaces
         /\ \A x \in Ancestors(s) : parent[x] # None => parent[x] \in Ancestors(s)
         /\ \A r \in Ancestors(s) : Ancestors(r) \subseteq Ancestors(s)
<1>. DEFINE up == [x \in Surfaces |-> {parent[x]} \ {None}]
            Closed(A) == \A y \in A : up[y] \subseteq A
<1>1. ASSUME NEW r \in Surfaces, NEW x
      PROVE  x \in Ancestors(r) <=>
               x \in Surfaces /\ \A A \in SUBSET Surfaces : r \in A /\ Closed(A) => x \in A
  BY DEF Ancestors, Reach
<1>2. \A y \in Surfaces : up[y] = {parent[y]} \ {None}
  OBVIOUS
<1>3. Ancestors(s) \in SUBSET Surfaces /\ s \in Ancestors(s)
  BY <1>1
<1>. HIDE DEF up
<1>4. \A x \in Ancestors(s) : up[x] \subseteq Ancestors(s)
  <2>1. SUFFICES ASSUME NEW x \in Ancestors(s), NEW y \in up[x] PROVE y \in Ancestors(s)
    OBVIOUS
  <2>2. y \in Surfaces
    BY <1>2, <1>3, <2>1, ShowType
  <2>3. ASSUME NEW A \in SUBSET Surfaces, s \in A, Closed(A) PROVE y \in A
    BY <1>1, <2>1, <2>3
  <2>4. QED
    BY <1>1, <2>2, <2>3
<1>5. \A r \in Ancestors(s) : Ancestors(r) \subseteq Ancestors(s)
  BY <1>1, <1>3, <1>4
<1>6. \A x \in Ancestors(s) : parent[x] # None => parent[x] \in Ancestors(s)
  BY <1>2, <1>3, <1>4
<1>7. QED
  BY <1>3, <1>5, <1>6

\* Above a mapped subsurface is a mapped toplevel, or a cycle of parents: else
\* a surface with the fewest surfaces above it would have a parent with fewer.
LEMMA RootOrCycle ==
  ASSUME IInv, ShowInv, stack = << >>, NEW s \in alive, IsSub(s), mapped[s]
  PROVE  \E r \in Ancestors(s) :
           /\ mapped[r]
           /\ role[r] = "toplevel" \/ (parent[r] # None /\ r \in Ancestors(parent[r]))
<1>1. MapInv /\ \A d \in alive : IsSub(d) /\ mapped[d] => Wanted(d)
  BY IdleShow
<1>2. s \in Surfaces /\ s \in Ancestors(s) /\ Ancestors(s) \subseteq Surfaces
  BY ShowType, AncestorFacts
<1>3. SUFFICES ASSUME \A r \in Ancestors(s) : mapped[r] => role[r] # "toplevel"
               PROVE  \E r \in Ancestors(s) :
                        mapped[r] /\ parent[r] # None /\ r \in Ancestors(parent[r])
  OBVIOUS
<1>4. ASSUME NEW r \in Ancestors(s), mapped[r]
      PROVE  parent[r] \in Ancestors(s) /\ mapped[parent[r]] /\ parent[r] # None
  <2>1. r \in Surfaces /\ Mappable(r, role, flags)
    BY <1>1, <1>2, <1>4 DEF MapInv, RoleInv
  <2>2. IsSub(r) /\ r \in alive
    BY <1>1, <1>3, <1>4, <2>1 DEF Mappable, IsSub, MapInv, RoleInv
  <2>3. QED
    BY <1>1, <1>2, <1>4, <2>2, AncestorFacts DEF Wanted
<1>. DEFINE T == {Ancestors(r) : r \in {x \in Ancestors(s) : mapped[x]}}
            L == StrictSubsetOrdering(Surfaces)
<1>5. PICK B \in T : \A C \in T : <<C, B>> \notin L
  <2>1. IsWellFoundedOn(L, SUBSET Surfaces)
    <3>1. FiniteSubsetsOf(Surfaces) = SUBSET Surfaces
      BY FiniteAssumption, FS_FiniteSubsetsOfFinite
    <3>2. IsWellFoundedOn(L, FiniteSubsetsOf(Surfaces))
      BY FS_StrictSubsetOrderingWellFounded
    <3>. HIDE DEF L
    <3>3. QED
      BY <3>1, <3>2
  <2>2. T \subseteq SUBSET Surfaces /\ T # {}
    BY <1>2, AncestorFacts
  <2>. HIDE DEF T, L
  <2>3. QED
    BY <2>1, <2>2, WFMin
<1>6. PICK r \in Ancestors(s) : mapped[r] /\ B = Ancestors(r)
  BY <1>5
<1>. DEFINE C == Ancestors(parent[r])
<1>7. /\ parent[r] \in Ancestors(s) /\ mapped[parent[r]] /\ parent[r] # None
      /\ r \in Surfaces /\ parent[r] \in Surfaces
  BY <1>2, <1>4, <1>6
<1>8. r \in B /\ C \subseteq B /\ C \in SUBSET Surfaces /\ B \in SUBSET Surfaces
  BY <1>6, <1>7, AncestorFacts
<1>9. C \in T
  BY <1>7
<1>10. C = B
  <2>. HIDE DEF T, C
  <2>1. <<C, B>> \notin L
    BY <1>5, <1>9
  <2>2. QED
    BY <1>8, <2>1 DEF StrictSubsetOrdering
<1>11. QED
  BY <1>6, <1>7, <1>8, <1>10

\* Unless a client sets the parent of a toplevel that has one, no request leaves
\* a subsurface mapped that has no content or whose parent is not mapped, or that
\* hangs neither from a mapped toplevel nor from a cycle of parents.
THEOREM MappedCorrect ==
  ASSUME "reparent" \notin Requests
  PROVE  Spec => []MappedSubsurfaces
<1>1. IInv /\ ShowInv => MappedSubsurfaces
  <2>1. SUFFICES ASSUME IInv, ShowInv, stack = << >>, NEW s \in alive, IsSub(s), mapped[s]
                 PROVE  /\ hasBuffer[s] /\ parent[s] # None /\ mapped[parent[s]]
                        /\ \E r \in Ancestors(s) :
                             /\ mapped[r]
                             /\ \/ role[r] = "toplevel"
                                \/ parent[r] # None /\ r \in Ancestors(parent[r])
    BY DEF MappedSubsurfaces
  <2>2. Wanted(s)
    BY <2>1, IdleShow
  <2>3. QED
    BY <2>1, <2>2, RootOrCycle DEF Wanted
<1>2. QED
  BY <1>1, Invariance, ShowInvariance, PTL

\* Nor does ~RSurface ever leave a dangling pointer in a list, and between two
\* requests a surface is in the list of its parent and in no other.
THEOREM ListsExact ==
  ASSUME "reparent" \notin Requests
  PROVE  Spec => [](/\ mode # "undefined"
                    /\ stack = << >> =>
                         \A p \in Surfaces, c \in alive : c \in children[p] <=> parent[c] = p)
<1>1. IInv /\ ShowInv => /\ mode # "undefined"
                         /\ stack = << >> =>
                              \A p \in Surfaces, c \in alive : c \in children[p] <=> parent[c] = p
  <2>1. SUFFICES ASSUME IInv, ShowInv, stack = << >>, NEW p \in Surfaces, NEW c \in alive
                 PROVE  c \in children[p] <=> parent[c] = p
    BY DEF ShowInv
  <2>2. mode # "undefined" /\ NoStale /\ p # None
    BY <2>1, IdleShow, NoneAssumption DEF MapInv
  <2>3. QED
    BY <2>1, <2>2 DEF NoStale, IInv, LinkInv, LinksValid
<1>2. QED
  BY <1>1, Invariance, ShowInvariance, PTL

-----------------------------------------------------------------------------
(***************************************************************************)
(* The commits in progress.                                                *)
(***************************************************************************)

\* The calls in progress by their depth, the request being at depth 0; those
\* that apply the content of a surface, and those of them that come from the
\* commit of the parent.
Depths        == 0 .. (Len(stack) - 1)
At(l)         == stack[Len(stack) - l]
Content(l)    == l \in Depths /\ At(l).op = "content"
FromParent(l) == Content(l) /\ IsSub(At(l).s) /\ synced[At(l).s]

\* Below a call of a commit is the content of its surface, or the notification
\* that made it.
Nested(l) ==
  /\ At(l).op \in {"adopt", "notify"} => l # 0 /\ Content(l - 1) /\ At(l - 1).s = At(l).s
  /\ At(l).op = "apply" /\ At(l).on =>
       /\ l = Len(stack) - 1 /\ l # 0 /\ At(l - 1).op = "notify"
       /\ At(l).s \in children[At(l - 1).s]
  /\ Content(l) => l = 0 \/ FromParent(l)
  /\ FromParent(l) => l - 2 \in Depths /\ ~Content(l - 1) /\ Content(l - 2)

NestInv == \A l \in Depths : Nested(l)

\* The content of the parent of the surface at depth l is at depth m or above.
Adopted(l, m) == \E i \in Depths : i >= m /\ Content(i) /\ At(i).s = parent[At(l).s]

\* From depth k on, the surfaces whose content comes from a parent wait for it in
\* their cache, and the parent is the one that notified them, or one above that
\* has adopted them since; whoever has one of them for child will notify it.
Settled(k) == \A l \in Depths : l >= k /\ FromParent(l) =>
  /\ hasCache[At(l).s] /\ Adopted(l, l - 2)
  /\ \A j \in Depths : j >= k /\ Content(j) /\ At(l).s \in children[At(j).s] =>
       \E i \in Depths : i > j /\ Handles(At(i), At(j).s, At(l).s)

\* The parents of all surfaces above depth k are above depth k: they are on a
\* cycle, or hang from one.
Looping(k) ==
  /\ \E l \in Depths : l >= k /\ FromParent(l)
  /\ \A l \in Depths : l >= k /\ FromParent(l) => Adopted(l, k)

\* The commits are settled from the request on, or from the depth where a cycle of
\* parents begins: those below it are never reached again (README, section 5).
ChainInv == \E k \in Nat : Settled(k) /\ (k = 0 \/ Looping(k))

CommitInv == NestInv /\ ChainInv

\* The calls below the one that returns stay at their depth.
LEMMA DepthStep ==
  ASSUME IInv, stack # << >>, NEW fs, Returned(stack, fs, stack')
  PROVE  \E n \in Nat :
           /\ Len(stack) = n + 1 /\ Depths = 0 .. n /\ At(n) = Top
           /\ Depths' = 0 .. (n - 1 + Len(fs))
           /\ \A l \in 0 .. (n - 1) : At(l)' = At(l)
           /\ Len(fs) = 0 => Depths' = 0 .. (n - 1)
           /\ \A f : One1(fs, f) => Depths' = 0 .. n /\ Len(stack') = n + 1 /\ At(n)' = f
           /\ \A f, g : Two2(fs, f, g) =>
                Depths' = 0 .. (n + 1) /\ Len(stack') = n + 2 /\ At(n)' = g /\ At(n + 1)' = f
<1>. DEFINE m == Len(fs)
<1>0. PICK n \in Nat : Len(stack) = n + 1
  <2>1. Len(stack) - 1 \in Nat /\ Len(stack) = Len(stack) - 1 + 1
    BY TopFacts
  <2>2. QED
    BY <2>1
<1>1. m \in Nat /\ Len(stack) = n + 1 /\ Len(stack') = m + n /\ Top = stack[1]
  BY <1>0, TopFacts DEF Returned
<1>2. Depths = 0 .. n /\ At(n) = Top
  BY <1>1 DEF Depths, At
<1>3. Depths' = 0 .. (n - 1 + m)
  BY <1>1 DEF Depths
<1>4. ASSUME NEW l \in 0 .. (n - 1) PROVE At(l)' = At(l)
  <2>1. n + 1 - l \in 2 .. Len(stack) /\ m + (n + 1 - l) - 1 = m + n - l
    BY <1>1
  <2>2. stack'[m + n - l] = stack[n + 1 - l]
    BY <2>1 DEF Returned
  <2>3. QED
    BY <1>1, <2>2 DEF At
<1>5. \A i \in 1 .. m : stack'[i] = fs[i]
  BY DEF Returned
<1>6. ASSUME NEW f, One1(fs, f) PROVE Depths' = 0 .. n /\ Len(stack') = n + 1 /\ At(n)' = f
  <2>1. m = 1 /\ stack'[1] = f
    BY <1>5, <1>6 DEF One1
  <2>2. Depths' = 0 .. n /\ Len(stack') = n + 1 /\ n + 1 - n = 1
    BY <1>1, <1>3, <2>1
  <2>3. QED
    BY <2>1, <2>2 DEF At
<1>7. ASSUME NEW f, NEW g, Two2(fs, f, g)
      PROVE  Depths' = 0 .. (n + 1) /\ Len(stack') = n + 2 /\ At(n)' = g /\ At(n + 1)' = f
  <2>1. m = 2 /\ stack'[1] = f /\ stack'[2] = g
    BY <1>5, <1>7 DEF Two2
  <2>2. /\ Depths' = 0 .. (n + 1) /\ Len(stack') = n + 2
        /\ n + 2 - n = 2 /\ n + 2 - (n + 1) = 1
    BY <1>1, <1>3, <2>1
  <2>3. QED
    BY <2>1, <2>2 DEF At
<1>8. Len(fs) = 0 => Depths' = 0 .. (n - 1)
  BY <1>3
<1>. HIDE DEF m
<1>9. QED
  BY <1>0, <1>2, <1>3, <1>4, <1>6, <1>7, <1>8 DEF m

\* No commit is in progress.
LEMMA NoCommit ==
  ASSUME IInv', \A f \in Calls' : f.op \notin Committing
  PROVE  CommitInv'
<1>1. \A l \in Depths' : At(l)' \in Calls'
  <2>1. Len(stack') \in Nat
    BY LenProperties DEF IInv, TypeOK
  <2>2. QED
    BY <2>1 DEF Depths, At, Calls, CallsOf
<1>2. \A l \in Depths' : At(l)'.op \notin Committing
  BY <1>1
<1>3. \A l : ~Content(l)' /\ ~FromParent(l)'
  BY <1>2 DEF Content, FromParent, Committing
<1>4. NestInv'
  BY <1>2, <1>3 DEF NestInv, Nested, Committing
<1>5. Settled(0)'
  BY <1>3 DEF Settled
<1>6. QED
  BY <1>4, <1>5 DEF CommitInv, ChainInv

\* The calls below the one that returns stay nested.
LEMMA NestStep ==
  ASSUME NestInv, NEW n \in Nat, Depths = 0 .. n, Len(stack) = n + 1, UNCHANGED <<role, synced>>,
         NEW m \in Int, Depths' = 0 .. m, m >= n - 1,
         \A l \in 0 .. (n - 1) : At(l)' = At(l),
         \A l \in n .. m : Nested(l)'
  PROVE  NestInv'
<1>1. SUFFICES ASSUME NEW l \in 0 .. (n - 1) PROVE Nested(l)'
  BY DEF NestInv
<1>2. /\ l \in Depths /\ l \in Depths' /\ l # n /\ At(l)' = At(l)
      /\ l # 0 => l - 1 \in 0 .. (n - 1) /\ l - 1 \in Depths'
      /\ l - 2 \in Depths => l - 2 \in 0 .. (n - 1) /\ l - 2 \in Depths'
  OBVIOUS
<1>3. Nested(l)
  BY <1>2 DEF NestInv
<1>4. ~(At(l).op = "apply" /\ At(l).on)
  BY <1>2, <1>3 DEF Nested
<1>5. \A i \in 0 .. (n - 1) : Content(i)' <=> Content(i)
  BY DEF Content
<1>6. l # 0 => At(l - 1)' = At(l - 1) /\ (Content(l - 1)' <=> Content(l - 1))
  BY <1>2, <1>5
<1>7. l - 2 \in Depths => (Content(l - 2)' <=> Content(l - 2))
  BY <1>2, <1>5
<1>8. FromParent(l)' <=> FromParent(l)
  BY <1>2, <1>5 DEF FromParent, IsSub
<1>9. ~Content(-1)'
  BY DEF Content
<1>10. l - 2 \in Depths => l # 0
  OBVIOUS
<1>11. QED
  BY <1>2, <1>3, <1>4, <1>5, <1>6, <1>7, <1>8, <1>10 DEF Nested

\* A surface whose commit its parent has to apply.
Waiting(c) == IsSub(c) /\ synced[c] /\ hasCache[c]

\* A call that is not that of a content returns, after making calls that are not
\* either: a surface that changes parent is adopted by the innermost one, and what
\* the call was to notify is left to those it has made.
LEMMA ChainStep ==
  ASSUME IInv, ChainInv, NEW n \in Nat, Depths = 0 .. n, UNCHANGED <<role, synced, hasCache>>,
         NEW m \in Int, Depths' = 0 .. m, m >= n - 1,
         \A l \in 0 .. (n - 1) : At(l)' = At(l),
         At(n).op # "content", \A l \in n .. m : At(l)'.op # "content",
         \A c \in Surfaces : \/ parent'[c] = parent[c]
                             \/ n # 0 /\ Content(n - 1) /\ At(n - 1).s = parent'[c],
         \A x, c \in Surfaces : c \in children'[x] /\ Waiting(c) =>
           \/ c \in children[x] /\ ~Handles(At(n), x, c)
           \/ \E i \in n .. m : Handles(At(i)', x, c)
  PROVE  ChainInv'
<1>1. PICK k \in Nat : Settled(k) /\ (k = 0 \/ Looping(k))
  BY DEF ChainInv
<1>2. /\ \A l \in Nat : Content(l) => l \in 0 .. (n - 1) /\ l \in Depths /\ l \in Depths'
      /\ \A l \in Nat : Content(l)' => l \in 0 .. (n - 1) /\ l \in Depths /\ l \in Depths'
  <2>1. \A l \in Depths' : l \in 0 .. (n - 1) \/ l \in n .. m
    OBVIOUS
  <2>2. \A l \in Depths : l \in 0 .. (n - 1) \/ l = n
    OBVIOUS
  <2>3. \A l \in 0 .. (n - 1) : l \in Depths /\ l \in Depths'
    OBVIOUS
  <2>4. QED
    BY <2>1, <2>2, <2>3 DEF Content
<1>3. \A l \in Nat : (Content(l)' <=> Content(l)) /\ (Content(l) => At(l)' = At(l))
  BY <1>2 DEF Content
<1>4. \A l \in Nat : FromParent(l)' <=> FromParent(l)
  BY <1>3 DEF FromParent, IsSub
<1>5. \A l \in Depths : At(l).s \in Surfaces
  BY TopFacts DEF Depths, At, Frame
<1>6. ASSUME NEW l \in Nat, FromParent(l), NEW d \in Int, d <= l, Adopted(l, d)
      PROVE  Adopted(l, d)'
  <2>1. Content(l) /\ At(l).s \in Surfaces /\ l <= n - 1 /\ At(l)' = At(l)
    BY <1>2, <1>3, <1>5, <1>6 DEF FromParent
  <2>2. CASE parent'[At(l).s] = parent[At(l).s]
    <3>1. PICK i \in Depths : i >= d /\ Content(i) /\ At(i).s = parent[At(l).s]
      BY <1>6 DEF Adopted
    <3>2. i \in Depths' /\ Content(i)' /\ At(i)' = At(i)
      BY <1>2, <1>3, <3>1
    <3>3. QED
      BY <2>1, <2>2, <3>1, <3>2 DEF Adopted
  <2>3. CASE n # 0 /\ Content(n - 1) /\ At(n - 1).s = parent'[At(l).s]
    <3>1. n - 1 \in Nat /\ n - 1 >= d
      BY <2>1, <2>3, <1>6
    <3>2. n - 1 \in Depths' /\ Content(n - 1)' /\ At(n - 1)' = At(n - 1)
      BY <1>2, <1>3, <2>3, <3>1
    <3>3. QED
      BY <2>1, <2>3, <3>1, <3>2 DEF Adopted
  <2>4. QED
    BY <2>1, <2>2, <2>3
<1>7. ASSUME NEW l \in Depths', l >= k, FromParent(l)'
      PROVE  /\ hasCache'[At(l)'.s] /\ Adopted(l, l - 2)'
             /\ \A j \in Depths' : j >= k /\ Content(j)' /\ At(l)'.s \in children'[At(j)'.s] =>
                  \E i \in Depths' : i > j /\ Handles(At(i)', At(j)'.s, At(l)'.s)
  <2>1. l \in Nat /\ FromParent(l) /\ l \in Depths /\ At(l)' = At(l)
    BY <1>2, <1>3, <1>4, <1>7 DEF FromParent
  <2>2. /\ hasCache[At(l).s] /\ Adopted(l, l - 2)
        /\ \A j \in Depths : j >= k /\ Content(j) /\ At(l).s \in children[At(j).s] =>
             \E i \in Depths : i > j /\ Handles(At(i), At(j).s, At(l).s)
    BY <1>1, <1>7, <2>1 DEF Settled
  <2>3. Adopted(l, l - 2)'
    BY <1>6, <2>1, <2>2
  <2>4. ASSUME NEW j \in Depths', j >= k, Content(j)', At(l)'.s \in children'[At(j)'.s]
        PROVE  \E i \in Depths' : i > j /\ Handles(At(i)', At(j)'.s, At(l)'.s)
    <3>1. /\ j \in Nat /\ j \in Depths /\ j <= n - 1 /\ Content(j) /\ At(j)' = At(j)
          /\ At(l).s \in Surfaces /\ At(j).s \in Surfaces
      BY <1>2, <1>3, <1>5, <2>1, <2>4
    <3>2. Waiting(At(l).s)
      BY <2>1, <2>2 DEF Waiting, FromParent
    <3>3. CASE \E i \in n .. m : Handles(At(i)', At(j).s, At(l).s)
      <4>1. \A i \in n .. m : i \in Depths' /\ i > j
        BY <3>1
      <4>2. QED
        BY <2>1, <3>1, <3>3, <4>1
    <3>4. CASE At(l).s \in children[At(j).s] /\ ~Handles(At(n), At(j).s, At(l).s)
      <4>1. PICK i \in Depths : i > j /\ Handles(At(i), At(j).s, At(l).s)
        BY <2>2, <2>4, <3>1, <3>4
      <4>2. i # n
        BY <3>4, <4>1
      <4>3. i \in 0 .. (n - 1) /\ i \in Depths' /\ At(i)' = At(i)
        BY <4>1, <4>2
      <4>4. QED
        BY <2>1, <3>1, <4>1, <4>3
    <3>5. QED
      BY <2>1, <2>4, <3>1, <3>2, <3>3, <3>4
  <2>5. QED
    BY <2>1, <2>2, <2>3, <2>4
<1>8. Settled(k)'
  BY <1>7 DEF Settled
<1>9. Looping(k) => Looping(k)'
  <2>1. \A l \in Nat : FromParent(l) => l \in Depths /\ l \in Depths'
    BY <1>2 DEF FromParent
  <2>2. (\A l \in Depths : l \in Nat) /\ \A l \in Depths' : l \in Nat
    OBVIOUS
  <2>3. QED
    BY <1>4, <1>6, <2>1, <2>2 DEF Looping
<1>10. QED
  BY <1>1, <1>8, <1>9 DEF ChainInv

\* The call on top of the stack, if it adopts or notifies, is above the content
\* of its surface.
LEMMA NestTop ==
  ASSUME NestInv, NEW n \in Nat, Depths = 0 .. n, At(n) = Top
  PROVE  /\ Top.op \in {"adopt", "notify"} =>
              n # 0 /\ n - 1 \in Depths /\ Content(n - 1) /\ At(n - 1).s = Top.s
         /\ Top.op = "apply" /\ Top.on =>
              n # 0 /\ At(n - 1).op = "notify" /\ Top.s \in children[At(n - 1).s]
         /\ FromParent(n) => n - 2 \in Depths /\ ~Content(n - 1) /\ Content(n - 2)
<1>1. Nested(n) /\ n \in Depths
  BY DEF NestInv
<1>2. QED
  BY <1>1 DEF Nested, Content

\* The same call, or one of its kind, stays on top, possibly under a call that
\* sets a mapping or applies the commit of a child.
LEMMA GoOnCommit ==
  ASSUME IInv, CommitInv, stack # << >>, UNCHANGED <<role, synced, hasCache>>,
         NEW fs, Returned(stack, fs, stack'), NEW F, NEW C,
         One1(fs, C) \/ Two2(fs, F, C),
         F.op = "setMapped" \/ (F.op = "apply" /\ C.op = "notify" /\ F.s \in children'[C.s]),
         Top.op # "content", C.op \notin {"content", "apply"},
         C.op \in {"adopt", "notify"} => Top.op \in {"adopt", "notify"} /\ C.s = Top.s,
         \A c \in Surfaces : \/ parent'[c] = parent[c]
                             \/ Top.op = "adopt" /\ Top.s = parent'[c],
         \A x, c \in Surfaces : c \in children'[x] /\ Waiting(c) =>
           \/ Handles(C, x, c) \/ (Two2(fs, F, C) /\ Handles(F, x, c))
           \/ c \in children[x] /\ ~Handles(Top, x, c)
  PROVE  CommitInv'
<1>1. PICK n \in Nat :
        /\ Len(stack) = n + 1 /\ Depths = 0 .. n /\ At(n) = Top
        /\ \A l \in 0 .. (n - 1) : At(l)' = At(l)
        /\ One1(fs, C) => Depths' = 0 .. n /\ Len(stack') = n + 1 /\ At(n)' = C
        /\ Two2(fs, F, C) =>
             Depths' = 0 .. (n + 1) /\ Len(stack') = n + 2 /\ At(n)' = C /\ At(n + 1)' = F
  BY DepthStep
<1>2. PICK m \in {n, n + 1} : /\ Depths' = 0 .. m /\ At(n)' = C
                              /\ m # n => At(n + 1)' = F /\ Len(stack') = n + 2
                              /\ Two2(fs, F, C) => m = n + 1
  BY <1>1
<1>3. m \in Int /\ m >= n - 1 /\ n \in n .. m /\ \A l \in n .. m : l = n \/ (l = n + 1 /\ m # n)
  BY <1>2
<1>4. \A l \in n .. m : At(l)' = C \/ At(l)' = F
  BY <1>2, <1>3
<1>5. /\ Top.op \in {"adopt", "notify"} =>
           n # 0 /\ n - 1 \in Depths /\ Content(n - 1) /\ At(n - 1).s = Top.s
  BY <1>1, NestTop DEF CommitInv
<1>6. NestInv'
  <2>1. \A l \in n .. m : ~FromParent(l)'
    BY <1>4 DEF FromParent, Content
  <2>2. C.op \in {"adopt", "notify"} => n # 0 /\ Content(n - 1)' /\ At(n - 1)'.s = C.s
    <3>1. SUFFICES ASSUME C.op \in {"adopt", "notify"}
                   PROVE  n # 0 /\ Content(n - 1)' /\ At(n - 1)'.s = C.s
      OBVIOUS
    <3>2. n # 0 /\ Content(n - 1) /\ At(n - 1).s = C.s
      BY <1>5, <3>1
    <3>3. n - 1 \in 0 .. (n - 1) /\ n - 1 \in Depths'
      BY <1>2, <1>3, <3>2
    <3>4. QED
      BY <1>1, <3>2, <3>3 DEF Content
  <2>3. ASSUME NEW l \in n .. m PROVE Nested(l)'
    <3>1. CASE l = n + 1 /\ m # n
      <4>1. At(l)' = F /\ l = Len(stack') - 1 /\ l - 1 = n /\ l # 0
        BY <1>2, <3>1
      <4>2. QED
        BY <1>2, <2>1, <4>1 DEF Nested, FromParent, Content
    <3>2. CASE At(l)' = C /\ l = n
      BY <2>1, <2>2, <3>2 DEF Nested, Content
    <3>3. QED
      BY <1>2, <1>3, <3>1, <3>2
  <2>4. QED
    BY <1>1, <1>2, <1>3, <2>3, NestStep DEF CommitInv
<1>7. \A c \in Surfaces : \/ parent'[c] = parent[c]
                          \/ n # 0 /\ Content(n - 1) /\ At(n - 1).s = parent'[c]
  BY <1>5
<1>8. \A x, c \in Surfaces : c \in children'[x] /\ Waiting(c) =>
        \/ c \in children[x] /\ ~Handles(At(n), x, c)
        \/ \E i \in n .. m : Handles(At(i)', x, c)
  <2>1. m # n => n + 1 \in n .. m
    BY <1>2
  <2>2. QED
    BY <1>1, <1>2, <1>3, <2>1
<1>9. ChainInv'
  <2>1. \A l \in n .. m : At(l)'.op # "content"
    BY <1>4
  <2>2. At(n).op # "content"
    BY <1>1
  <2>3. QED
    BY <1>1, <1>2, <1>3, <1>7, <1>8, <2>1, <2>2, ChainStep DEF CommitInv
<1>10. QED
  BY <1>6, <1>9 DEF CommitInv

\* A call that is not that of a content, and notifies nobody any more, returns,
\* possibly to one that sets a mapping.
LEMMA EndCommit ==
  ASSUME IInv, CommitInv, stack # << >>, UNCHANGED <<parent, children, role, synced, hasCache>>,
         Return(<< >>), Top.op # "content",
         \A x, c \in Surfaces : c \in children[x] /\ Waiting(c) => ~Handles(Top, x, c)
  PROVE  CommitInv'
<1>1. PICK n \in Nat : /\ Len(stack) = n + 1 /\ Depths = 0 .. n /\ At(n) = Top
                       /\ \A l \in 0 .. (n - 1) : At(l)' = At(l)
                       /\ Depths' = 0 .. (n - 1)
  <2>1. PICK fs : Returned(stack, fs, stack') /\ None0(fs)
    BY ReturnNone, Tuples
  <2>2. Len(fs) = 0
    BY <2>1 DEF None0
  <2>3. QED
    BY <2>1, <2>2, DepthStep
<1>2. n - 1 \in Int /\ n - 1 >= n - 1 /\ \A l : l \notin n .. (n - 1)
  OBVIOUS
<1>3. NestInv'
  BY <1>1, <1>2, NestStep DEF CommitInv
<1>4. \A x, c \in Surfaces : c \in children'[x] /\ Waiting(c) =>
        c \in children[x] /\ ~Handles(At(n), x, c)
  BY <1>1
<1>5. ChainInv'
  BY <1>1, <1>2, <1>4, ChainStep DEF CommitInv
<1>6. QED
  BY <1>3, <1>5 DEF CommitInv

\* A child is adopted by the innermost content in progress.
LEMMA AdoptOneCommit ==
  ASSUME IInv, CommitInv, stack # << >>, AdoptOne
  PROVE  CommitInv'
<1>. DEFINE s == Top.s
<1>1. /\ Top.op = "adopt" /\ UNCHANGED <<role, synced, hasCache>>
      /\ s \in Surfaces /\ children \in [Surfaces -> SUBSET Surfaces]
      /\ parent \in [Surfaces -> Surfaces \cup {None}]
  BY TopFacts, ShowType DEF AdoptOne, roles
<1>2. PICK c \in pendingChildren[s] :
        IF pendingParent[c] # s THEN UNCHANGED <<parent, pendingParent, children, stack>>
        ELSE /\ parent' = [parent EXCEPT ![c] = s]
             /\ children' = [q \in Surfaces |-> IF q = s THEN children[q] \cup {c}
                                                ELSE IF q = parent[c] THEN children[q] \ {c}
                                                ELSE children[q]]
             /\ stack' = HandleParentChange(c, s) \o stack
  BY DEF AdoptOne
<1>3. \E fs : /\ Returned(stack, fs, stack')
              /\ One1(fs, Top) \/ \E on : Two2(fs, FrOn("setMapped", c, on), Top)
  <2>1. CASE stack' = stack
    BY <2>1, GoesOn, Tuples
  <2>2. CASE stack' = HandleParentChange(c, s) \o stack
    <3>1. PICK fs : /\ Returned(stack, fs, stack')
                    /\ One1(fs, Top) \/ \E on : Map1(fs, c, on, Top)
      BY <2>2, GoesOnChange
    <3>2. QED
      BY <3>1 DEF Map1
  <2>3. QED
    BY <1>2, <2>1, <2>2
<1>4. \A d \in Surfaces : parent'[d] = parent[d] \/ (Top.op = "adopt" /\ Top.s = parent'[d])
  BY <1>1, <1>2
<1>5. \A x, d \in Surfaces : d \in children'[x] =>
        Handles(Top, x, d) \/ (d \in children[x] /\ ~Handles(Top, x, d))
  BY <1>1, <1>2 DEF Handles
<1>6. \A on : FrOn("setMapped", c, on).op = "setMapped"
  BY DEF FrOn
<1>7. PICK fs : /\ Returned(stack, fs, stack')
                /\ One1(fs, Top) \/ \E on : Two2(fs, FrOn("setMapped", c, on), Top)
  BY <1>3
<1>8. PICK on : One1(fs, Top) \/ Two2(fs, FrOn("setMapped", c, on), Top)
  BY <1>7
<1>9. QED
  BY <1>1, <1>4, <1>5, <1>6, <1>7, <1>8, GoOnCommit

\* When all are adopted every child is to be notified; one that has a commit in
\* its cache applies it next.
LEMMA AdoptDoneCommit ==
  ASSUME IInv, CommitInv, stack # << >>, AdoptDone
  PROVE  CommitInv'
<1>. DEFINE C == FrTodo("notify", Top.s, children[Top.s])
            F == FrOn("setMapped", Top.s, FALSE)
<1>1. Top.op = "adopt" /\ UNCHANGED <<parent, children, role, synced, hasCache>>
  BY DEF AdoptDone, links, roles
<1>2. PICK fs : Returned(stack, fs, stack') /\ One1(fs, C)
  BY ReturnOne, Tuples DEF AdoptDone
<1>3. F.op = "setMapped" /\ C.op = "notify" /\ C.s = Top.s /\ C.todo = children[Top.s]
  BY DEF FrOn, FrTodo
<1>. HIDE DEF C, F
<1>4. \A x, d \in Surfaces : d \in children'[x] =>
        Handles(C, x, d) \/ (d \in children[x] /\ ~Handles(Top, x, d))
  BY <1>1, <1>3 DEF Handles
<1>5. QED
  BY <1>1, <1>2, <1>3, <1>4, GoOnCommit

\* A child that has a commit in its cache applies it.
LEMMA NotifyCommit ==
  ASSUME IInv, CommitInv, stack # << >>, NotifyParentCommit
  PROVE  CommitInv'
<1>. DEFINE s == Top.s
            left == {c \in Top.todo \cap Subsurfaces(s) : synced[c] /\ hasCache[c]}
<1>1. Top.op = "notify" /\ UNCHANGED <<parent, children, role, synced, hasCache>>
  BY DEF NotifyParentCommit, links, roles
<1>2. \A x, c \in Surfaces : c \in children[x] /\ Waiting(c) /\ Handles(Top, x, c) =>
        x = s /\ c \in left
  BY <1>1 DEF Waiting, Handles, Subsurfaces
<1>3. CASE left = {} /\ Return(<< >>)
  <2>1. \A x, c \in Surfaces : c \in children[x] /\ Waiting(c) => ~Handles(Top, x, c)
    BY <1>2, <1>3
  <2>2. QED
    BY <1>1, <1>3, <2>1, EndCommit
<1>4. ASSUME NEW c \in left, Return(<<FrOn("apply", c, TRUE), FrTodo("notify", s, left \ {c})>>)
      PROVE  CommitInv'
  <2>. DEFINE F == FrOn("apply", c, TRUE)
              C == FrTodo("notify", s, left \ {c})
  <2>1. PICK fs : Returned(stack, fs, stack') /\ Two2(fs, F, C)
    BY <1>4, ReturnTwo, Tuples
  <2>2. F.op = "apply" /\ F.s = c /\ C.op = "notify" /\ C.s = s /\ C.todo = left \ {c}
    BY DEF FrOn, FrTodo
  <2>3. c \in children[s]
    BY DEF Subsurfaces
  <2>. HIDE DEF F, C, left
  <2>4. \A x, d \in Surfaces : d \in children'[x] /\ Waiting(d) =>
          \/ Handles(C, x, d) \/ (Two2(fs, F, C) /\ Handles(F, x, d))
          \/ d \in children[x] /\ ~Handles(Top, x, d)
    BY <1>1, <1>2, <2>1, <2>2 DEF Handles
  <2>5. QED
    BY <1>1, <2>1, <2>2, <2>3, <2>4, GoOnCommit
<1>5. QED
  BY <1>3, <1>4 DEF NotifyParentCommit

\* The calls that set a mapping change nothing below them.
LEMMA MappingCommit ==
  ASSUME IInv, CommitInv, stack # << >>, SetMapped \/ CascadeMapping
  PROVE  CommitInv'
<1>. DEFINE s == Top.s
<1>1. Top.op \in Mapping /\ UNCHANGED <<parent, children, role, synced, hasCache>>
  BY DEF SetMapped, CascadeMapping, links, roles, Mapping
<1>2. \A x, c : ~Handles(Top, x, c)
  BY <1>1 DEF Handles, Mapping
<1>3. ASSUME NEW fs, Returned(stack, fs, stack'), NEW F, NEW C, One1(fs, C) \/ Two2(fs, F, C),
             F.op = "setMapped", C.op = "cascade"
      PROVE  CommitInv'
  <2>1. \A x, c \in Surfaces : c \in children'[x] => c \in children[x] /\ ~Handles(Top, x, c)
    BY <1>1, <1>2
  <2>2. Top.op # "content" /\ C.op \notin {"content", "apply", "adopt", "notify"}
    BY <1>1, <1>3 DEF Mapping
  <2>3. QED
    BY <1>1, <1>3, <2>1, <2>2, GoOnCommit
<1>4. CASE Return(<< >>)
  <2>1. Top.op # "content"
    BY <1>1 DEF Mapping
  <2>2. QED
    BY <1>1, <1>2, <1>4, <2>1, EndCommit
<1>5. CASE SetMapped
  <2>. DEFINE F == FrOn("setMapped", s, FALSE)
              C == FrTodo("cascade", s, Subsurfaces(s))
  <2>1. PICK fs : Returned(stack, fs, stack') /\ One1(fs, C)
    BY <1>5, ReturnOne, Tuples DEF SetMapped
  <2>2. F.op = "setMapped" /\ C.op = "cascade"
    BY DEF FrOn, FrTodo
  <2>. HIDE DEF F, C
  <2>3. QED
    BY <1>3, <2>1, <2>2
<1>6. ASSUME NEW c \in Top.todo,
             Return(CallCheckMapping(c, parent[c], hasBuffer[c])
                      \o <<FrTodo("cascade", s, Top.todo \ {c})>>)
      PROVE  CommitInv'
  <2>. DEFINE on == parent[c] # None /\ mapped[parent[c]] /\ hasBuffer[c]
              F  == FrOn("setMapped", c, on)
              C  == FrTodo("cascade", s, Top.todo \ {c})
  <2>1. PICK fs : Returned(stack, fs, stack') /\ Map1(fs, c, on, C)
    BY <1>6, ReturnMapOne DEF CallCheckMapping
  <2>2. One1(fs, C) \/ Two2(fs, F, C)
    BY <2>1 DEF Map1
  <2>3. F.op = "setMapped" /\ C.op = "cascade"
    BY DEF FrOn, FrTodo
  <2>. HIDE DEF F, C, on
  <2>4. QED
    BY <1>3, <2>1, <2>2, <2>3
<1>7. QED
  BY <1>4, <1>5, <1>6 DEF CascadeMapping

\* No role is reset or destroyed, and no surface, while a commit is applied, so
\* each list of children is exact.
LEMMA CommittingExact ==
  ASSUME IInv, CallInv, ShowInv, stack # << >>, Top.op \in Committing
  PROVE  \A x \in Surfaces, c \in alive : c \in children[x] <=> parent[c] = x
<1>1. ASSUME NEW i \in 1 .. Len(stack) PROVE stack[i].op # "reset"
  <2>1. stack[1] = Top /\ 1 \in 1 .. Len(stack)
    BY TopFacts
  <2>2. stack[i].op \in Ending /\ i # 1 => Top.op \in Mapping
    BY <2>1 DEF CallInv, KindsOK
  <2>3. QED
    BY <2>1, <2>2 DEF Ending, Committing, Mapping
<1>2. ~Doomed
  BY <1>1 DEF Doomed, Calls, CallsOf
<1>3. NoStale /\ mode # "undefined"
  BY <1>2 DEF ShowInv, MapInv
<1>4. \A x \in Surfaces : x # None
  BY NoneAssumption
<1>5. QED
  BY <1>3, <1>4 DEF NoStale, IInv, LinkInv, LinksValid

\* The request itself returns, and no commit is in progress any more.
LEMMA LastCommit ==
  ASSUME IInv, IInv', CallInv, stack # << >>, Len(stack) = 1,
         NEW new, NEW rest, Replaced(new, rest), \A f \in new : f.op \notin Committing
  PROVE  CommitInv'
<1>1. \A f \in Calls' : f.op \notin Committing
  BY DEF Replaced
<1>2. QED
  BY <1>1, NoCommit

\* A commit that is accepted adopts the pending children before its content.
LEMMA ApplyCommitCommit ==
  ASSUME IInv, IInv', CallInv, ShowInv, CommitInv, stack # << >>, ApplyCommit
  PROVE  CommitInv'
<1>. DEFINE s == Top.s
            accepted == IsSub(s) => synced[s] = Top.on
<1>1. /\ Top.op = "apply" /\ s \in alive /\ s \in Surfaces /\ Top.on \in BOOLEAN
      /\ synced \in [Surfaces -> BOOLEAN]
      /\ UNCHANGED <<parent, children, role, synced>>
      /\ hasCache \in [Surfaces -> BOOLEAN]
      /\ hasCache' = IF IsSub(s) /\ synced[s] THEN [hasCache EXCEPT ![s] = TRUE] ELSE hasCache
  BY TopFacts DEF ApplyCommit, links, IInv, TypeOK
<1>2. IF Top.on THEN role[s] = "subsurface" /\ synced[s] ELSE Len(stack) = 1
  BY TopCall, <1>1 DEF CallInv
<1>3. CASE ~accepted
  <2>1. Len(stack) = 1
    BY <1>1, <1>2, <1>3
  <2>2. Return(<< >>)
    BY <1>3 DEF ApplyCommit
  <2>3. \E rest : Replaced({}, rest)
    BY <2>2, ReplacedBy
  <2>4. QED
    BY <2>1, <2>3, LastCommit
<1>4. CASE accepted
  <2>. DEFINE A == Fr("adopt", s)
              C == Fr("content", s)
  <2>1. PICK fs : Returned(stack, fs, stack') /\ Two2(fs, A, C)
    BY <1>4, ReturnTwo, Tuples DEF ApplyCommit
  <2>2. A.op = "adopt" /\ A.s = s /\ C.op = "content" /\ C.s = s
    BY DEF Fr
  <2>. HIDE DEF A, C
  <2>3. PICK n \in Nat :
          /\ Len(stack) = n + 1 /\ Depths = 0 .. n /\ At(n) = Top
          /\ \A l \in 0 .. (n - 1) : At(l)' = At(l)
          /\ Depths' = 0 .. (n + 1) /\ Len(stack') = n + 2 /\ At(n)' = C /\ At(n + 1)' = A
    BY <2>1, DepthStep
  <2>4. /\ \A l \in 0 .. (n - 1) : l \in Depths /\ l \in Depths' /\ l \in Nat
        /\ n \in Depths' /\ n + 1 \in Depths' /\ n \in Depths /\ n # n + 1
        /\ \A l \in Depths' : l \in 0 .. (n - 1) \/ l = n \/ l = n + 1
        /\ \A l \in Depths : l \in 0 .. (n - 1) \/ l = n
    BY <2>3
  <2>5. /\ \A l \in 0 .. (n - 1) : (Content(l)' <=> Content(l)) /\ (FromParent(l)' <=> FromParent(l))
        /\ ~Content(n) /\ ~Content(n + 1)' /\ Content(n)'
        /\ FromParent(n)' <=> IsSub(s) /\ synced[s]
    BY <1>1, <2>2, <2>3, <2>4 DEF Content, FromParent, IsSub
  <2>6. IsSub(s) /\ synced[s] =>
          /\ n - 2 \in 0 .. (n - 1) /\ n - 1 \in 0 .. (n - 1)
          /\ ~Content(n - 1) /\ Content(n - 2) /\ At(n - 2).s = parent[s]
    <3>1. SUFFICES ASSUME IsSub(s), synced[s]
                   PROVE  /\ n - 2 \in 0 .. (n - 1) /\ n - 1 \in 0 .. (n - 1)
                          /\ ~Content(n - 1) /\ Content(n - 2) /\ At(n - 2).s = parent[s]
      OBVIOUS
    <3>2. Top.on
      BY <1>1, <1>4, <3>1
    <3>3. n # 0 /\ At(n - 1).op = "notify" /\ s \in children[At(n - 1).s]
      BY <1>1, <2>3, <3>2, NestTop DEF CommitInv
    <3>4. n - 1 \in 0 .. (n - 1) /\ n - 1 \in Depths /\ n - 1 - 1 = n - 2
      BY <2>3, <3>3
    <3>5. n - 1 # 0 /\ Content(n - 2) /\ At(n - 2).s = At(n - 1).s
      BY <3>3, <3>4 DEF CommitInv, NestInv, Nested
    <3>6. At(n - 1).s \in Surfaces
      BY <3>4, TopFacts DEF Depths, At, Frame
    <3>7. parent[s] = At(n - 1).s
      BY <1>1, <3>3, <3>6, CommittingExact DEF Committing
    <3>8. ~Content(n - 1) /\ n - 2 \in 0 .. (n - 1)
      BY <3>3, <3>4, <3>5 DEF Content
    <3>9. QED
      BY <3>4, <3>5, <3>7, <3>8
  <2>7. NestInv'
    <3>1. Nested(n)'
      <4>1. IsSub(s) /\ synced[s] => n - 2 \in Depths' /\ ~Content(n - 1)' /\ Content(n - 2)'
        BY <2>4, <2>5, <2>6
      <4>2. n = 0 \/ (IsSub(s) /\ synced[s])
        <5>1. Top.on => IsSub(s) /\ synced[s]
          BY <1>2 DEF IsSub
        <5>2. ~Top.on => n = 0
          BY <1>2, <2>3
        <5>3. QED
          BY <5>1, <5>2
      <4>3. QED
        BY <2>2, <2>3, <2>5, <4>1, <4>2 DEF Nested
    <3>2. Nested(n + 1)'
      <4>1. n + 1 # 0 /\ n + 1 - 1 = n
        OBVIOUS
      <4>2. ~FromParent(n + 1)'
        BY <2>5 DEF FromParent
      <4>3. QED
        BY <2>2, <2>3, <2>5, <4>1, <4>2 DEF Nested
    <3>3. \A l \in n .. (n + 1) : Nested(l)'
      <4>1. \A l \in n .. (n + 1) : l = n \/ l = n + 1
        OBVIOUS
      <4>2. QED
        BY <3>1, <3>2, <4>1
    <3>4. n + 1 \in Int /\ n + 1 >= n - 1
      OBVIOUS
    <3>5. QED
      BY <1>1, <2>3, <3>3, <3>4, NestStep DEF CommitInv
  <2>8. PICK k \in Nat : Settled(k) /\ (k = 0 \/ Looping(k))
    BY DEF CommitInv, ChainInv
  <2>9. ASSUME NEW l \in 0 .. (n - 1), NEW d \in Int, Adopted(l, d)
        PROVE  Adopted(l, d)'
    <3>1. PICK i \in Depths : i >= d /\ Content(i) /\ At(i).s = parent[At(l).s]
      BY <2>9 DEF Adopted
    <3>2. i \in 0 .. (n - 1)
      BY <2>4, <2>5, <3>1
    <3>3. QED
      BY <1>1, <2>3, <2>4, <2>5, <2>9, <3>1, <3>2 DEF Adopted
  <2>10. ASSUME NEW l \in Depths', FromParent(l)'
         PROVE  \/ l \in 0 .. (n - 1) /\ l \in Depths /\ FromParent(l) /\ At(l)' = At(l)
                \/ l = n /\ IsSub(s) /\ synced[s] /\ At(l)'.s = s
    BY <2>2, <2>3, <2>4, <2>5, <2>10 DEF FromParent
  <2>11. Settled(k)'
    <3>1. SUFFICES ASSUME NEW l \in Depths', l >= k, FromParent(l)'
                   PROVE  /\ hasCache'[At(l)'.s] /\ Adopted(l, l - 2)'
                          /\ \A j \in Depths' :
                               j >= k /\ Content(j)' /\ At(l)'.s \in children'[At(j)'.s] =>
                                 \E i \in Depths' : i > j /\ Handles(At(i)', At(j)'.s, At(l)'.s)
      BY DEF Settled
    <3>2. ASSUME l = n, IsSub(s), synced[s], At(l)'.s = s
          PROVE  Adopted(l, l - 2)'
      <4>1. n - 2 \in Depths' /\ n - 2 >= n - 2 /\ Content(n - 2)' /\ At(n - 2)' = At(n - 2)
        BY <2>3, <2>4, <2>5, <2>6, <3>2
      <4>2. At(n - 2)'.s = parent'[s]
        BY <1>1, <2>6, <3>2, <4>1
      <4>3. QED
        BY <3>2, <4>1, <4>2 DEF Adopted
    <3>3. ASSUME l \in 0 .. (n - 1), l \in Depths, FromParent(l), At(l)' = At(l)
          PROVE  hasCache'[At(l)'.s] /\ Adopted(l, l - 2)'
      <4>1. hasCache[At(l).s] /\ Adopted(l, l - 2)
        BY <2>8, <3>1, <3>3 DEF Settled
      <4>2. At(l).s \in Surfaces
        BY <3>3, TopFacts DEF Depths, At, Frame
      <4>3. QED
        BY <1>1, <2>9, <3>3, <4>1, <4>2
    <3>4. hasCache'[At(l)'.s] /\ Adopted(l, l - 2)'
      BY <1>1, <2>10, <3>1, <3>2, <3>3
    <3>5. ASSUME NEW j \in Depths', j >= k, Content(j)', At(l)'.s \in children'[At(j)'.s]
          PROVE  \E i \in Depths' : i > j /\ Handles(At(i)', At(j)'.s, At(l)'.s)
      <4>1. CASE j = n
        BY <2>2, <2>3, <2>4, <4>1 DEF Handles
      <4>2. CASE j \in 0 .. (n - 1) /\ l = n /\ At(l)'.s = s
        BY <2>2, <2>3, <2>4, <4>2 DEF Handles
      <4>3. CASE j \in 0 .. (n - 1) /\ l \in 0 .. (n - 1) /\ l \in Depths /\ FromParent(l) /\ At(l)' = At(l)
        <5>1. PICK i \in Depths : i > j /\ Handles(At(i), At(j).s, At(l).s)
          BY <1>1, <2>3, <2>4, <2>5, <2>8, <3>1, <3>5, <4>3 DEF Settled
        <5>2. CASE i = n
          <6>1. At(l).s = s
            BY <1>1, <2>3, <5>1, <5>2 DEF Handles
          <6>2. QED
            BY <2>2, <2>3, <2>4, <4>3, <6>1 DEF Handles
        <5>3. CASE i \in 0 .. (n - 1)
          BY <2>3, <2>4, <4>3, <5>1, <5>3
        <5>4. QED
          BY <2>4, <5>2, <5>3
      <4>4. QED
        BY <2>4, <2>5, <2>10, <3>1, <3>5, <4>1, <4>2, <4>3
    <3>6. QED
      BY <3>4, <3>5
  <2>12. Looping(k) => Looping(k)'
    <3>1. SUFFICES ASSUME Looping(k) PROVE Looping(k)'
      OBVIOUS
    <3>2. PICK l0 \in Depths : l0 >= k /\ FromParent(l0)
      BY <3>1 DEF Looping
    <3>3. l0 \in 0 .. (n - 1) /\ l0 \in Depths' /\ FromParent(l0)'
      BY <2>4, <2>5, <3>2 DEF FromParent
    <3>4. ASSUME NEW l \in Depths', l >= k, FromParent(l)' PROVE Adopted(l, k)'
      <4>1. CASE l \in 0 .. (n - 1) /\ l \in Depths /\ FromParent(l)
        BY <2>9, <3>1, <3>4, <4>1 DEF Looping
      <4>2. CASE l = n /\ IsSub(s) /\ synced[s] /\ At(l)'.s = s
        <5>1. n - 2 \in Depths' /\ Content(n - 2)' /\ At(n - 2)' = At(n - 2)
              /\ At(n - 2).s = parent[s] /\ ~Content(n - 1)
          BY <2>3, <2>4, <2>5, <2>6, <4>2
        <5>2. n - 2 >= k
          BY <2>5, <3>2, <3>3, <5>1 DEF FromParent
        <5>3. QED
          BY <1>1, <4>2, <5>1, <5>2 DEF Adopted
      <4>3. QED
        BY <2>10, <3>4, <4>1, <4>2
    <3>5. QED
      BY <3>2, <3>3, <3>4 DEF Looping
  <2>13. QED
    BY <2>7, <2>8, <2>11, <2>12 DEF CommitInv, ChainInv
<1>5. QED
  BY <1>3, <1>4

\* From some depth on no call but the innermost applies the content of s.
LEMMA LastContent ==
  ASSUME NEW n \in Nat, NEW k \in 0 .. n, NEW s, NEW J, J \subseteq k .. n
  PROVE  J = {} \/ \E j \in J : \A i \in J : i <= j
<1>1. SUFFICES ASSUME J # {} PROVE \E j \in J : \A i \in J : i <= j
  OBVIOUS
<1>. DEFINE T == {j .. n : j \in J}
            L == StrictSubsetOrdering(0 .. n)
<1>2. PICK B \in T : \A C \in T : <<C, B>> \notin L
  <2>1. IsWellFoundedOn(L, SUBSET (0 .. n))
    <3>1. IsFiniteSet(0 .. n)
      BY FS_Interval
    <3>2. FiniteSubsetsOf(0 .. n) = SUBSET (0 .. n)
      BY <3>1, FS_FiniteSubsetsOfFinite
    <3>3. IsWellFoundedOn(L, FiniteSubsetsOf(0 .. n))
      BY FS_StrictSubsetOrderingWellFounded
    <3>. HIDE DEF L
    <3>4. QED
      BY <3>2, <3>3
  <2>2. T \subseteq SUBSET (0 .. n) /\ T # {}
    <3>1. \A j \in J : j .. n \in SUBSET (0 .. n)
      OBVIOUS
    <3>2. QED
      BY <1>1, <3>1
  <2>. HIDE DEF T, L
  <2>3. QED
    BY <2>1, <2>2, WFMin
<1>3. PICK j \in J : B = j .. n
  OBVIOUS
<1>4. ASSUME NEW i \in J, ~(i <= j) PROVE FALSE
  <2>. DEFINE C == i .. n
  <2>1. C \in T
    OBVIOUS
  <2>2. C \in SUBSET (0 .. n) /\ B \in SUBSET (0 .. n) /\ C \subseteq B /\ C # B
    BY <1>3, <1>4
  <2>. HIDE DEF C, T
  <2>3. <<C, B>> \in L
    BY <2>2 DEF StrictSubsetOrdering
  <2>4. QED
    BY <1>2, <2>1, <2>3
<1>5. QED
  BY <1>4

\* The content of a surface is applied when no child waits for it.  If it was
\* being applied already then that one is never reached again.
LEMMA ApplyContentCommit ==
  ASSUME IInv, IInv', CallInv, ShowInv, CommitInv, stack # << >>, ApplyContent
  PROVE  CommitInv'
<1>. DEFINE s  == Top.s
            hb == IF attached[s] = "no" THEN hasBuffer[s] ELSE attached[s] = "buffer"
<1>1. /\ Top.op = "content" /\ s \in alive /\ s \in Surfaces
      /\ UNCHANGED <<parent, children, role, synced>>
      /\ hasCache \in [Surfaces -> BOOLEAN]
      /\ Len(stack) \in Nat \ {0}
  BY TopFacts DEF ApplyContent, links, IInv, TypeOK
<1>2. CASE Len(stack) = 1
  <2>1. ASSUME NEW new, NEW rest, Replaced(new, rest), \A f \in new : f.op \notin Committing
        PROVE  CommitInv'
    BY <1>2, <2>1, LastCommit
  <2>2. \A c, on : \A f \in MapCall(c, on) : f.op \notin Committing
    BY DEF MapCall, FrOn, Committing
  <2>3. Return(<< >>) => CommitInv'
    BY <2>1, ReplacedBy
  <2>4. ASSUME NEW c, NEW on, Return(CallSetMapped(c, on)) PROVE CommitInv'
    BY <2>1, <2>2, <2>4, ReplacedBy
  <2>5. ASSUME NEW c, NEW on, Return(CallSetMapped(c, on) \o <<Fr("reset", c)>>) PROVE CommitInv'
    <3>1. Fr("reset", c).op \notin Committing
      BY DEF Fr, Committing
    <3>2. \A f \in MapCall(c, on) \cup {Fr("reset", c)} : f.op \notin Committing
      BY <2>2, <3>1
    <3>3. \E rest : Replaced(MapCall(c, on) \cup {Fr("reset", c)}, rest)
      BY <2>5, ReplacedBy
    <3>4. QED
      BY <2>1, <3>2, <3>3
  <2>6. ToplevelCommit(s, hb) => CommitInv'
    BY <2>3, <2>4, <2>5 DEF ToplevelCommit
  <2>7. QED
    BY <2>3, <2>4, <2>6 DEF ApplyContent, CallCheckMapping
<1>3. CASE Len(stack) # 1
  <2>1. IsSub(s) /\ role[s] = "subsurface"
    BY <1>1, <1>3, TopCall DEF CallInv, IsSub
  <2>2. \A c \in Surfaces : c # s => hasCache'[c] = hasCache[c]
    BY <1>1, <2>1 DEF ApplyContent, IsSub
  <2>3. \E fs : Returned(stack, fs, stack')
                /\ (None0(fs) \/ \E on : One1(fs, FrOn("setMapped", s, on)))
    <3>1. Return(<< >>) \/ \E on : Return(CallSetMapped(s, on))
      BY <2>1 DEF ApplyContent, CallCheckMapping, IsSub
    <3>2. CASE Return(<< >>)
      BY <3>2, ReturnNone, Tuples
    <3>3. ASSUME NEW on, Return(CallSetMapped(s, on))
          PROVE  \E fs : Returned(stack, fs, stack')
                         /\ (None0(fs) \/ One1(fs, FrOn("setMapped", s, on)))
      BY <3>3, ReturnMap
    <3>4. QED
      BY <3>1, <3>2, <3>3
  <2>4. PICK fs : Returned(stack, fs, stack')
                  /\ (None0(fs) \/ \E on : One1(fs, FrOn("setMapped", s, on)))
    BY <2>3
  <2>5. PICK on : None0(fs) \/ One1(fs, FrOn("setMapped", s, on))
    BY <2>4
  <2>. DEFINE F == FrOn("setMapped", s, on)
  <2>6. F.op = "setMapped"
    BY DEF FrOn
  <2>. HIDE DEF F
  <2>7. PICK n \in Nat :
          /\ Len(stack) = n + 1 /\ Depths = 0 .. n /\ At(n) = Top
          /\ \A l \in 0 .. (n - 1) : At(l)' = At(l)
          /\ Depths' = 0 .. (n - 1) \/ (Depths' = 0 .. n /\ At(n)' = F)
    <3>1. None0(fs) => Len(fs) = 0
      BY DEF None0
    <3>2. QED
      BY <2>4, <2>5, <3>1, DepthStep DEF F
  <2>8. PICK m \in {n - 1, n} : Depths' = 0 .. m /\ (m = n => At(n)' = F)
    BY <2>7
  <2>9. /\ m \in Int /\ m >= n - 1 /\ \A l \in n .. m : l = n /\ m = n
        /\ \A l \in 0 .. (n - 1) : l \in Depths /\ l \in Depths' /\ l \in Nat
        /\ \A l \in Depths : l \in 0 .. (n - 1) \/ l = n
        /\ \A l \in Depths' : l \in 0 .. (n - 1) \/ (l = n /\ m = n)
        /\ n \in Depths /\ n # 0
    BY <1>3, <2>7, <2>8
  <2>10. /\ \A l \in 0 .. (n - 1) : (Content(l)' <=> Content(l)) /\ (FromParent(l)' <=> FromParent(l))
         /\ ~Content(n)' /\ Content(n)
    BY <1>1, <2>6, <2>7, <2>8, <2>9 DEF Content, FromParent, IsSub
  <2>11. NestInv'
    <3>1. \A l \in n .. m : Nested(l)'
      BY <2>6, <2>8, <2>9, <2>10 DEF Nested, FromParent
    <3>2. QED
      BY <1>1, <2>7, <2>8, <2>9, <3>1, NestStep DEF CommitInv
  <2>12. /\ \A l \in Depths : Nested(l)
         /\ FromParent(n) /\ n - 2 \in 0 .. (n - 1) /\ ~Content(n - 1) /\ Content(n - 2)
    <3>1. \A l \in Depths : Nested(l)
      BY DEF CommitInv, NestInv
    <3>2. FromParent(n)
      BY <2>9, <2>10, <3>1 DEF Nested
    <3>3. n - 2 \in Depths /\ ~Content(n - 1) /\ Content(n - 2)
      BY <2>9, <3>1, <3>2 DEF Nested
    <3>4. QED
      BY <2>7, <3>1, <3>2, <3>3
  <2>13. PICK k \in Nat : Settled(k) /\ (k = 0 \/ Looping(k))
    BY DEF CommitInv, ChainInv
  <2>14. k \in 0 .. n
    <3>1. k = 0 \/ \E l \in Depths : l >= k
      BY <2>13 DEF Looping
    <3>2. QED
      BY <2>7, <3>1
  <2>15. \A l \in Depths : At(l).s \in alive /\ At(l).s \in Surfaces
    BY TopFacts DEF Depths, At, Frame
  <2>16. \A l \in Depths : l >= k /\ FromParent(l) => parent[At(l).s] # s
    <3>1. SUFFICES ASSUME NEW l \in Depths, l >= k, FromParent(l), parent[At(l).s] = s PROVE FALSE
      OBVIOUS
    <3>2. At(l).s \in children[s]
      BY <1>1, <2>15, <3>1, CommittingExact DEF Committing
    <3>3. PICK i \in Depths : i > n
      BY <2>7, <2>9, <2>10, <2>13, <2>14, <3>1, <3>2 DEF Settled
    <3>4. QED
      BY <2>7, <3>3
  <2>17. ASSUME NEW l \in 0 .. (n - 1), l >= k, FromParent(l), NEW d \in Int, NEW e \in Int,
                Adopted(l, d), \A i \in d .. (n - 1) : Content(i) /\ At(i).s # s => i >= e
         PROVE  Adopted(l, e)'
    <3>1. PICK i \in Depths : i >= d /\ Content(i) /\ At(i).s = parent[At(l).s]
      BY <2>17 DEF Adopted
    <3>2. At(i).s # s
      BY <2>9, <2>16, <2>17, <3>1
    <3>3. i \in 0 .. (n - 1) /\ i >= e
      BY <2>7, <2>9, <2>17, <3>1, <3>2
    <3>4. QED
      BY <1>1, <2>7, <2>9, <2>10, <2>17, <3>1, <3>3 DEF Adopted
  <2>18. ASSUME NEW e \in Nat, e >= k, \A j \in e .. (n - 1) : Content(j) => At(j).s # s
         PROVE  Settled(e)'
    <3>1. SUFFICES ASSUME NEW l \in Depths', l >= e, FromParent(l)'
                   PROVE  /\ hasCache'[At(l)'.s] /\ Adopted(l, l - 2)'
                          /\ \A j \in Depths' :
                               j >= e /\ Content(j)' /\ At(l)'.s \in children'[At(j)'.s] =>
                                 \E i \in Depths' : i > j /\ Handles(At(i)', At(j)'.s, At(l)'.s)
      BY DEF Settled
    <3>2. l \in 0 .. (n - 1) /\ l \in Depths /\ FromParent(l) /\ Content(l) /\ At(l)' = At(l) /\ l >= k
      BY <2>7, <2>9, <2>10, <2>18, <3>1 DEF FromParent
    <3>3. /\ hasCache[At(l).s] /\ Adopted(l, l - 2)
          /\ \A j \in Depths : j >= k /\ Content(j) /\ At(l).s \in children[At(j).s] =>
               \E i \in Depths : i > j /\ Handles(At(i), At(j).s, At(l).s)
      BY <2>13, <3>2 DEF Settled
    <3>4. At(l).s # s
      <4>1. l \in e .. (n - 1)
        BY <3>1, <3>2
      <4>2. QED
        BY <2>18, <3>2, <4>1
    <3>5. Adopted(l, l - 2)'
      <4>1. l - 2 \in Int /\ \A i \in (l - 2) .. (n - 1) : i >= l - 2
        BY <3>2
      <4>2. QED
        BY <2>17, <3>2, <3>3, <4>1
    <3>6. ASSUME NEW j \in Depths', j >= e, Content(j)', At(l)'.s \in children'[At(j)'.s]
          PROVE  \E i \in Depths' : i > j /\ Handles(At(i)', At(j)'.s, At(l)'.s)
      <4>1. j \in 0 .. (n - 1) /\ j \in Depths /\ Content(j) /\ At(j)' = At(j) /\ j >= k
        BY <2>7, <2>9, <2>10, <2>18, <3>6
      <4>2. At(j).s # s
        <5>1. j \in e .. (n - 1)
          BY <3>6, <4>1
        <5>2. QED
          BY <2>18, <4>1, <5>1
      <4>3. PICK i \in Depths : i > j /\ Handles(At(i), At(j).s, At(l).s)
        BY <1>1, <3>2, <3>3, <3>6, <4>1
      <4>4. i # n
        BY <1>1, <2>7, <3>4, <4>2, <4>3 DEF Handles
      <4>5. i \in 0 .. (n - 1) /\ i \in Depths' /\ At(i)' = At(i)
        BY <2>7, <2>9, <4>3, <4>4
      <4>6. QED
        BY <3>2, <4>1, <4>3, <4>5
    <3>7. QED
      BY <2>2, <2>15, <3>2, <3>3, <3>4, <3>5, <3>6
  <2>. DEFINE J == {j \in k .. (n - 1) : Content(j) /\ At(j).s = s}
  <2>19. CASE J = {}
    <3>1. \A j \in k .. (n - 1) : Content(j) => At(j).s # s
      BY <2>19
    <3>2. Settled(k)'
      BY <2>18, <3>1
    <3>3. ASSUME k # 0, Looping(k) PROVE Looping(k)'
      <4>1. PICK i \in Depths : i >= k /\ Content(i) /\ At(i).s = parent[s]
        BY <2>7, <2>9, <2>12, <2>14, <3>3 DEF Looping, Adopted
      <4>2. parent[s] # s
        BY <2>7, <2>9, <2>12, <2>14, <2>16
      <4>3. i \in 0 .. (n - 1) /\ i # 0
        BY <2>7, <2>9, <3>3, <4>1, <4>2
      <4>4. FromParent(i) /\ i \in Depths' /\ FromParent(i)'
        BY <2>9, <2>10, <2>12, <4>1, <4>3 DEF Nested
      <4>5. ASSUME NEW l \in Depths', l >= k, FromParent(l)' PROVE Adopted(l, k)'
        <5>1. l \in 0 .. (n - 1) /\ l \in Depths /\ FromParent(l)
          BY <2>9, <2>10, <4>5 DEF FromParent
        <5>2. k \in Int /\ \A h \in k .. (n - 1) : h >= k
          OBVIOUS
        <5>3. Adopted(l, k)
          BY <3>3, <4>5, <5>1 DEF Looping
        <5>4. QED
          BY <2>17, <4>5, <5>1, <5>2, <5>3
      <4>6. QED
        BY <4>1, <4>4, <4>5 DEF Looping
    <3>4. QED
      BY <2>11, <2>13, <3>2, <3>3 DEF CommitInv, ChainInv
  <2>20. CASE J # {}
    <3>1. J \subseteq k .. n
      OBVIOUS
    <3>2. PICK j0 \in J : \A i \in J : i <= j0
      <4>. HIDE DEF J
      <4>1. QED
        BY <2>14, <2>20, <3>1, LastContent
    <3>3. j0 \in 0 .. (n - 1) /\ j0 >= k /\ Content(j0) /\ At(j0).s = s
      BY <2>14, <3>2
    <3>. DEFINE e == j0 + 1
    <3>4. e \in Nat /\ e >= k /\ e # 0 /\ e \in Int
      BY <2>14, <3>3
    <3>5. \A j \in e .. (n - 1) : Content(j) => At(j).s # s
      <4>1. SUFFICES ASSUME NEW j \in e .. (n - 1), Content(j), At(j).s = s PROVE FALSE
        OBVIOUS
      <4>2. j \in k .. (n - 1) /\ ~(j <= j0)
        BY <2>14, <3>3
      <4>3. j \in J
        BY <4>1, <4>2
      <4>4. QED
        BY <3>2, <4>2, <4>3
    <3>6. Settled(e)'
      BY <2>18, <3>4, <3>5
    <3>7. \A l \in 0 .. (n - 1) : l >= e /\ FromParent(l) => Adopted(l, e)'
      <4>1. SUFFICES ASSUME NEW l \in 0 .. (n - 1), l >= e, FromParent(l) PROVE Adopted(l, e)'
        OBVIOUS
      <4>2. l >= k /\ l \in Depths /\ Adopted(l, l - 2)
        BY <2>9, <2>13, <3>3, <4>1 DEF Settled
      <4>3. ~Content(l - 1)
        BY <2>12, <4>1, <4>2 DEF Nested
      <4>4. l - 1 # j0
        BY <3>3, <4>3
      <4>5. \A i \in (l - 2) .. (n - 1) : Content(i) /\ At(i).s # s => i >= e
        BY <3>3, <4>1, <4>4
      <4>6. l - 2 \in Int
        BY <4>1
      <4>7. QED
        BY <2>17, <3>4, <4>1, <4>2, <4>5, <4>6
    <3>8. n - 2 \in 0 .. (n - 1) /\ n - 2 >= e /\ FromParent(n - 2)
      <4>1. PICK i \in Depths : i >= n - 2 /\ Content(i) /\ At(i).s = parent[s]
        <5>1. Adopted(n, n - 2)
          BY <2>9, <2>12, <2>13, <2>14 DEF Settled
        <5>2. QED
          BY <2>7, <5>1 DEF Adopted
      <4>2. parent[s] # s
        BY <2>7, <2>9, <2>12, <2>14, <2>16
      <4>3. i = n - 2
        <5>1. i # n /\ i # n - 1
          BY <2>7, <2>12, <4>1, <4>2
        <5>2. QED
          BY <2>7, <4>1, <5>1
      <4>4. n - 2 # j0 /\ n - 1 # j0
        BY <2>12, <3>3, <4>1, <4>2, <4>3
      <4>5. n - 2 >= e /\ n - 2 # 0
        BY <3>3, <4>4
      <4>6. QED
        BY <2>9, <2>12, <4>5 DEF Nested
    <3>9. Looping(e)'
      <4>1. n - 2 \in Depths' /\ FromParent(n - 2)'
        BY <2>9, <2>10, <3>8
      <4>2. ASSUME NEW l \in Depths', l >= e, FromParent(l)' PROVE Adopted(l, e)'
        <5>1. l \in 0 .. (n - 1) /\ FromParent(l)
          BY <2>9, <2>10, <4>2 DEF FromParent
        <5>2. QED
          BY <3>7, <4>2, <5>1
      <4>. HIDE DEF e
      <4>3. QED
        BY <3>8, <4>1, <4>2 DEF Looping
    <3>. HIDE DEF e
    <3>10. QED
      BY <2>11, <3>4, <3>6, <3>9 DEF CommitInv, ChainInv
  <2>21. QED
    BY <2>19, <2>20
<1>4. QED
  BY <1>2, <1>3

\* The calls that do not belong to a commit.
LEMMA OtherCommit ==
  ASSUME IInv, IInv', CallInv, stack # << >>,
         Sync \/ SyncChildren \/ DropRole \/ ResetChild \/ ResetDone \/ Remove
  PROVE  CommitInv'
<1>1. Top.op \in Syncing \cup Ending
  BY DEF Sync, SyncChildren, DropRole, ResetChild, ResetDone, Remove, Syncing, Ending
<1>2. ASSUME NEW new, NEW rest, Replaced(new, rest), \A f \in new : f.op \notin Committing
      PROVE  CommitInv'
  <2>1. CASE Top.op \in Ending
    <3>1. \A f \in Calls' : f.op \notin Committing
      BY <1>2, <2>1 DEF Replaced
    <3>2. QED
      BY <3>1, NoCommit
  <2>2. CASE Top.op \in Syncing
    <3>1. \A f \in Calls : f.op \in Syncing
      <4>1. Top = stack[1] /\ 1 \in 1 .. Len(stack)
        BY TopFacts
      <4>2. \A i \in 1 .. Len(stack) : stack[i].op \in Syncing
        BY <2>2, <4>1 DEF CallInv, KindsOK
      <4>3. QED
        BY <4>2 DEF Calls, CallsOf
    <3>2. \A f \in Calls' : f.op \notin Committing
      BY <1>2, <3>1 DEF Replaced, Syncing, Committing
    <3>3. QED
      BY <3>2, NoCommit
  <2>3. QED
    BY <1>1, <2>1, <2>2
<1>3. Return(<< >>) => CommitInv'
  BY <1>2, ReplacedBy
<1>4. ASSUME NEW f, Return(<<f>>), f.op \notin Committing PROVE CommitInv'
  <2>1. \E rest : Replaced({f}, rest)
    BY <1>4, ReplacedBy
  <2>2. QED
    BY <1>2, <1>4, <2>1
<1>5. ASSUME NEW f, NEW g, Return(<<f, g>>), f.op \notin Committing, g.op \notin Committing
      PROVE  CommitInv'
  <2>1. \E rest : Replaced({f, g}, rest)
    BY <1>5, ReplacedBy
  <2>2. QED
    BY <1>2, <1>5, <2>1
<1>6. \A x, todo : Fr("sync", x).op \notin Committing /\ FrTodo("syncChildren", x, todo).op \notin Committing
  BY DEF Fr, FrTodo, Committing
<1>7. CASE Sync
  BY <1>4, <1>6, <1>7 DEF Sync
<1>8. CASE SyncChildren
  BY <1>3, <1>5, <1>6, <1>8 DEF SyncChildren
<1>9. CASE ResetDone \/ Remove
  BY <1>3, <1>9 DEF ResetDone, Remove
<1>91. CASE DropRole
  <2>1. \E rest : Replaced(MapCall(Top.s, FALSE), rest)
    BY <1>91, ReplacedBy DEF DropRole
  <2>2. \A f \in MapCall(Top.s, FALSE) : f.op \notin Committing
    BY DEF MapCall, FrOn, Committing
  <2>3. QED
    BY <1>2, <2>1, <2>2
<1>10. CASE ResetChild
  <2>1. Top.op = "reset"
    BY <1>10 DEF ResetChild
  <2>2. \A c, on : \A f \in MapCall(c, on) \cup {Top} : f.op \notin Committing
    BY <2>1 DEF MapCall, FrOn, Committing
  <2>3. PICK c \in children[Top.s] :
          \/ stack' = CallSetMapped(c, FALSE) \o stack
          \/ stack' = stack
          \/ stack' = HandleParentChange(c, parent[Top.s]) \o stack
    BY <1>10 DEF ResetChild
  <2>4. CASE stack' = CallSetMapped(c, FALSE) \o stack
    <3>1. \E rest : Replaced(MapCall(c, FALSE) \cup {Top}, rest)
      BY <2>4, ReplacedBy
    <3>2. QED
      BY <1>2, <2>2, <3>1
  <2>5. CASE stack' = stack
    <3>1. \E rest : Replaced({Top}, rest)
      BY <2>5, ReplacedBy
    <3>2. QED
      BY <1>2, <2>2, <3>1
  <2>6. CASE stack' = HandleParentChange(c, parent[Top.s]) \o stack
    <3>. DEFINE on  == parent[Top.s] # None /\ mapped[parent[Top.s]] /\ hasBuffer[c]
                new == (IF IsSub(c) THEN MapCall(c, on) ELSE {}) \cup {Top}
    <3>1. \E rest : Replaced(new, rest)
      BY <2>6, ReplacedBy
    <3>. HIDE DEF on
    <3>2. \A f \in new : f.op \notin Committing
      BY <2>2
    <3>. HIDE DEF new
    <3>3. QED
      BY <1>2, <3>1, <3>2
  <2>7. QED
    BY <2>3, <2>4, <2>5, <2>6
<1>11. QED
  BY <1>7, <1>8, <1>9, <1>91, <1>10

LEMMA StepCommitInv ==
  ASSUME IInv, IInv', CallInv, ShowInv, CommitInv, Step
  PROVE  CommitInv'
BY ApplyCommitCommit, AdoptOneCommit, AdoptDoneCommit, NotifyCommit, ApplyContentCommit,
   MappingCommit, OtherCommit DEF Step

\* A request starts with no content to apply, and a commit that comes from no parent.
LEMMA RequestCommitInv ==
  ASSUME IInv', Request
  PROVE  CommitInv'
<1>1. CASE stack' = << >>
  <2>1. Calls' = {}
    BY <1>1 DEF Calls, CallsOf
  <2>2. QED
    BY <2>1, NoCommit
<1>2. ASSUME NEW s, stack' = <<FrOn("apply", s, FALSE)>> PROVE CommitInv'
  <2>1. Len(stack') = 1 /\ stack'[1].op = "apply" /\ stack'[1].on = FALSE
    BY <1>2 DEF FrOn
  <2>2. Depths' = {0} /\ At(0)' = stack'[1]
    BY <2>1 DEF Depths, At
  <2>3. \A l : ~Content(l)' /\ ~FromParent(l)'
    BY <2>1, <2>2 DEF Content, FromParent
  <2>4. NestInv'
    BY <2>1, <2>2, <2>3 DEF NestInv, Nested
  <2>5. Settled(0)'
    BY <2>3 DEF Settled
  <2>6. QED
    BY <2>4, <2>5 DEF CommitInv, ChainInv
<1>3. ASSUME NEW s, stack' = <<Fr("sync", s)>> PROVE CommitInv'
  <2>1. \A f \in Calls' : f.op = "sync"
    <3>1. Fr("sync", s).op = "sync" /\ \A i \in 1 .. 1 : i = 1
      BY DEF Fr
    <3>2. Len(stack') = 1 /\ stack'[1] = Fr("sync", s)
      BY <1>3
    <3>3. QED
      BY <3>1, <3>2 DEF Calls, CallsOf
  <2>2. QED
    BY <2>1, NoCommit DEF Committing
<1>4. ASSUME NEW s, NEW op \in {"dropRole", "remove"},
             stack' = CallSetMapped(s, FALSE) \o <<Fr(op, s)>>
      PROVE  CommitInv'
  <2>. DEFINE F == FrOn("setMapped", s, FALSE)
              R == Fr(op, s)
  <2>1. F.op = "setMapped" /\ R.op = op
    BY DEF FrOn, Fr
  <2>2. stack' = <<R>> \/ stack' = <<F, R>>
    BY <1>4, MapCalls
  <2>. HIDE DEF F, R
  <2>3. One1(stack', R) \/ Two2(stack', F, R)
    <3>1. One1(<<R>>, R) /\ Two2(<<F, R>>, F, R)
      BY Tuples, Zenon
    <3>2. QED
      BY <2>2, <3>1, Zenon
  <2>4. Calls' \subseteq {F, R}
    <3>1. Calls' = CallsOf(stack')
      BY DEF Calls
    <3>2. QED
      BY <2>3, <3>1, MadeCalls
  <2>5. QED
    BY <2>1, <2>4, NoCommit DEF Committing
<1>5. ASSUME NEW s \in Surfaces, Commit(s) \/ SetSync(s) \/ SetDesync(s) PROVE CommitInv'
  <2>1. stack' \in {<<FrOn("apply", s, FALSE)>>, <<Fr("sync", s)>>, << >>}
    BY <1>5 DEF Commit, SetSync, SetDesync, Serving
  <2>2. QED
    BY <1>1, <1>2, <1>3, <2>1
<1>6. ASSUME NEW s \in Surfaces, DestroyRole(s) \/ DestroySurface(s) PROVE CommitInv'
  BY <1>4, <1>6 DEF DestroyRole, DestroySurface
<1>7. QED
  BY <1>1, <1>5, <1>6 DEF Request, CreateSurface, AttachBuffer, GetSubsurface, GetToplevel,
                          SetToplevelParent, Close, Disconnect, Reconnect, Serving

\* The commits in progress stay nested and settled, however the surfaces they
\* adopt change the tree under them.
LEMMA CommitInvariance ==
  ASSUME "reparent" \notin Requests
  PROVE  Spec => []CommitInv
<1>1. Init => CommitInv
  <2>1. SUFFICES ASSUME stack = << >> PROVE CommitInv
    BY DEF Init
  <2>2. Depths = {}
    BY <2>1 DEF Depths
  <2>3. QED
    BY <2>2 DEF CommitInv, NestInv, ChainInv, Settled
<1>2. ASSUME IInv, IInv', CallInv, ShowInv, CommitInv, [Next]_vars
      PROVE  CommitInv'
  <2>1. CASE UNCHANGED vars
    <3>1. UNCHANGED <<parent, children, role, synced, hasCache, stack>>
      BY <2>1 DEF vars, links, roles
    <3>2. Depths' = Depths /\ \A l : At(l)' = At(l)
      BY <3>1 DEF Depths, At
    <3>3. \A l : (Content(l)' <=> Content(l)) /\ (FromParent(l)' <=> FromParent(l))
      BY <3>1, <3>2 DEF Content, FromParent, IsSub
    <3>4. NestInv'
      BY <1>2, <3>1, <3>2, <3>3 DEF CommitInv, NestInv, Nested
    <3>5. \A l, d : Adopted(l, d)' <=> Adopted(l, d)
      BY <3>1, <3>2, <3>3 DEF Adopted
    <3>6. \A k : (Settled(k) => Settled(k)') /\ (Looping(k) => Looping(k)')
      BY <3>1, <3>2, <3>3, <3>5 DEF Settled, Looping
    <3>7. QED
      BY <1>2, <3>4, <3>6 DEF CommitInv, ChainInv
  <2>2. QED
    BY <1>2, <2>1, StepCommitInv, RequestCommitInv DEF Next
<1>3. QED
  BY <1>1, <1>2, Invariance, CallInvariance, ShowInvariance, PTL DEF Spec

\* The content of a synchronized subsurface changes only while the content of the
\* surface that is its parent by then is being applied, never on a commit of its
\* own, for any surface tree: unless a client sets the parent of a toplevel that
\* has one, for then a list may hold the child of another surface.
THEOREM SyncedContentCorrect ==
  ASSUME "reparent" \notin Requests
  PROVE  Spec => SyncedContentWithParent
<1>. DEFINE A == \A s \in alive \cap alive' :
                   IsSub(s) /\ synced[s] /\ hasBuffer'[s] # hasBuffer[s]
                     => parent[s] # None /\ Applying(parent[s])
<1>1. ASSUME IInv, CallInv, ShowInv, CommitInv, [Next]_vars
      PROVE  [A]_vars
  <2>1. SUFFICES ASSUME Next, NEW s \in alive \cap alive', IsSub(s), synced[s],
                        hasBuffer'[s] # hasBuffer[s]
                 PROVE  parent[s] # None /\ Applying(parent[s])
    BY <1>1
  <2>2. s \in Surfaces /\ hasBuffer \in [Surfaces -> BOOLEAN]
    BY <1>1, <2>1, ShowType
  <2>3. stack # << >> /\ ApplyContent
    <3>1. ~Request
      BY <2>1 DEF Request, CreateSurface, AttachBuffer, Commit, GetSubsurface, SetSync, SetDesync,
                  GetToplevel, SetToplevelParent, Close, DestroyRole, DestroySurface, Disconnect,
                  Reconnect, content
    <3>2. Step
      BY <2>1, <3>1 DEF Next
    <3>3. ~Remove
      BY <2>1, <2>2 DEF Remove
    <3>4. QED
      BY <2>1, <3>2, <3>3 DEF Step, ApplyCommit, AdoptOne, AdoptDone, NotifyParentCommit, SetMapped,
                              CascadeMapping, Sync, SyncChildren, DropRole, ResetChild, ResetDone,
                              content
  <2>4. s = Top.s /\ Top.op = "content"
    BY <2>1, <2>2, <2>3 DEF ApplyContent
  <2>5. PICK n \in Nat : Depths = 0 .. n /\ At(n) = Top /\ n \in Depths
    <3>1. Len(stack) - 1 \in Nat /\ Top = stack[1] /\ Len(stack) \in Nat
      BY <1>1, <2>3, TopFacts
    <3>2. Depths = 0 .. (Len(stack) - 1) /\ At(Len(stack) - 1) = stack[1]
      BY <3>1 DEF Depths, At
    <3>3. QED
      BY <3>1, <3>2
  <2>6. FromParent(n)
    BY <2>1, <2>4, <2>5 DEF FromParent, Content
  <2>7. PICK k \in Nat : Settled(k) /\ (k = 0 \/ Looping(k))
    BY <1>1 DEF CommitInv, ChainInv
  <2>8. n >= k
    BY <2>5, <2>7 DEF Looping
  <2>9. Adopted(n, n - 2)
    BY <2>5, <2>6, <2>7, <2>8 DEF Settled
  <2>10. PICK i \in Depths : Content(i) /\ At(i).s = parent[s]
    BY <2>4, <2>5, <2>9 DEF Adopted
  <2>11. /\ Len(stack) - i \in 1 .. Len(stack)
         /\ stack[Len(stack) - i].op = "content" /\ stack[Len(stack) - i].s = parent[s]
    <3>1. Len(stack) \in Nat
      BY <1>1, <2>3, TopFacts
    <3>2. Len(stack) - i \in 1 .. Len(stack)
      BY <2>10, <3>1 DEF Depths
    <3>3. QED
      BY <2>10, <3>2 DEF Content, At
  <2>12. parent[s] \in Surfaces
    BY <1>1, <2>3, <2>11, TopFacts DEF Frame
  <2>13. QED
    BY <2>11, <2>12, NoneAssumption DEF Applying
<1>2. QED
  BY <1>1, Invariance, CallInvariance, ShowInvariance, CommitInvariance, PTL
     DEF Spec, SyncedContentWithParent
-----------------------------------------------------------------------------
(***************************************************************************)
(* The roles of the surfaces that are mapped, whatever the clients ask.    *)
(***************************************************************************)

\* A mapped surface has a role that lets it be mapped, or is about to be
\* unmapped: by ~LBaseSurfaceRole when it has just lost its role.
RoleKept == \A s \in Surfaces : mapped[s] => Mappable(s, role, flags) \/ Unmapping(s)

\* A toplevel that is reset is unmapped by then, and is not mapped by it.
ResetKept == \A e \in Calls : e.op = "reset" =>
  /\ mapped[e.s] => Unmapping(e.s)
  /\ \A f \in Calls : f.op = "setMapped" /\ f.s = e.s => ~f.on

MappedInv == RoleKept /\ ResetKept

\* Only a toplevel is reset.
LEMMA ResetIsToplevel ==
  ASSUME IInv, CallInv
  PROVE  \A e \in Calls : e.op = "reset" => role[e.s] = "toplevel"
BY DEF CallInv, CallsInv, CallOK, Calls, CallsOf

\* A call other than setMapped that maps no surface, and unmaps the surfaces
\* whose role it takes.
LEMMA KeepRoles ==
  ASSUME IInv, CallInv, MappedInv, stack # << >>, Top.op # "setMapped",
         NEW new, NEW rest, Replaced(new, rest),
         \A s \in Surfaces : mapped'[s] =>
           \/ mapped[s] /\ (Mappable(s, role, flags) => Mappable(s, role', flags'))
           \/ \E f \in new : f.op = "setMapped" /\ f.s = s /\ ~f.on,
         \A f \in new : f.op = "setMapped" /\ f.on =>
           role[f.s] = "subsurface" \/ \A e \in new \cup rest : e.op # "reset",
         \A e \in new : e.op = "reset" =>
           \/ e \in Calls
           \/ /\ role[e.s] = "toplevel"
              /\ mapped'[e.s] => \E f \in new : f.op = "setMapped" /\ f.s = e.s /\ ~f.on
  PROVE  MappedInv'
<1>1. /\ Calls = {Top} \cup rest /\ Calls' = new \cup rest
      /\ \A f \in Calls : f.op # "setMapped" /\ f.s \in Surfaces
  BY ShowType DEF Replaced
<1>2. /\ \A s \in Surfaces : mapped[s] => Mappable(s, role, flags)
      /\ \A e \in Calls : e.op = "reset" => ~mapped[e.s]
  BY <1>1 DEF MappedInv, RoleKept, ResetKept, Unmapping
<1>3. RoleKept'
  BY <1>1, <1>2 DEF RoleKept, Unmapping
<1>4. ASSUME NEW e \in Calls', e.op = "reset"
      PROVE  /\ mapped'[e.s] => Unmapping(e.s)'
             /\ \A f \in Calls' : f.op = "setMapped" /\ f.s = e.s => ~f.on
  <2>1. role[e.s] = "toplevel"
    BY <1>1, <1>4, ResetIsToplevel
  <2>2. mapped'[e.s] => Unmapping(e.s)'
    <3>1. CASE e \in Calls
      BY <1>1, <1>2, <1>4, <3>1 DEF Unmapping
    <3>2. CASE e \notin Calls
      BY <1>1, <1>4, <3>2 DEF Unmapping
    <3>3. QED
      BY <3>1, <3>2
  <2>3. ASSUME NEW f \in Calls', f.op = "setMapped", f.s = e.s PROVE ~f.on
    BY <1>1, <1>4, <2>1, <2>3
  <2>4. QED
    BY <2>2, <2>3
<1>5. QED
  BY <1>3, <1>4 DEF MappedInv, ResetKept

\* The calls of a commit and of set_sync that look only at the children.
LEMMA QuietStepRoles ==
  ASSUME IInv, CallInv, MappedInv, stack # << >>,
         ApplyCommit \/ AdoptDone \/ NotifyParentCommit \/ Sync \/ SyncChildren
  PROVE  MappedInv'
<1>1. UNCHANGED <<mapped, role, flags>> /\ Top.op \in Committing \cup Syncing
  BY DEF ApplyCommit, AdoptDone, NotifyParentCommit, Sync, SyncChildren, roles, Committing, Syncing
<1>2. PICK new, rest : Replaced(new, rest) /\ \A f \in new : f.op \in Committing \cup Syncing
  BY QuietStepCalls
<1>3. Top.op # "setMapped" /\ \A f \in new : f.op \notin {"setMapped", "reset"}
  BY <1>1, <1>2 DEF Committing, Syncing
<1>4. QED
  BY <1>1, <1>2, <1>3, KeepRoles

\* Those that check the mapping of one subsurface, and go on.
LEMMA CheckRoles ==
  ASSUME IInv, CallInv, MappedInv, stack # << >>, Top.op # "setMapped",
         UNCHANGED <<mapped, role, flags>>, NEW c \in Surfaces, NEW on \in BOOLEAN,
         IsSub(c), NEW new, NEW rest, Replaced(new, rest),
         \A f \in new : \/ f \in MapCall(c, on)
                        \/ f.op # "setMapped" /\ (f.op = "reset" => f \in Calls)
  PROVE  MappedInv'
<1>1. \A f \in MapCall(c, on) : f.op = "setMapped" /\ f.s = c
  BY ShowType, MapCallFacts
<1>2. /\ \A f \in new : f.op = "setMapped" => role[f.s] = "subsurface"
      /\ \A e \in new : e.op = "reset" => e \in Calls
  BY <1>1 DEF IsSub
<1>3. QED
  BY <1>2, KeepRoles

LEMMA ParentChangeRoles ==
  ASSUME IInv, CallInv, MappedInv, stack # << >>, Top.op # "setMapped",
         UNCHANGED <<mapped, role, flags>>, NEW c \in Surfaces, NEW p \in Surfaces \cup {None},
         \/ stack' = stack
         \/ stack' = HandleParentChange(c, p) \o stack
         \/ IsSub(c) /\ stack' = CallSetMapped(c, FALSE) \o stack
  PROVE  MappedInv'
<1>1. Top \in Calls
  BY TopFacts DEF Calls, CallsOf
<1>2. ASSUME NEW rest, Replaced({Top}, rest) PROVE MappedInv'
  BY <1>1, <1>2, KeepRoles
<1>3. CASE stack' = stack
  BY <1>2, <1>3, ReplacedBy
<1>4. CASE stack' = HandleParentChange(c, p) \o stack
  <2>. DEFINE on == p # None /\ mapped[p] /\ hasBuffer[c]
  <2>1. PICK rest : Replaced((IF IsSub(c) THEN MapCall(c, on) ELSE {}) \cup {Top}, rest)
    BY <1>4, ReplacedBy
  <2>2. on \in BOOLEAN
    BY ShowType
  <2>. HIDE DEF on
  <2>3. CASE IsSub(c)
    <3>. DEFINE new == MapCall(c, on) \cup {Top}
    <3>1. Replaced(new, rest)
      BY <2>1, <2>3
    <3>2. \A f \in new : f \in MapCall(c, on) \/ f = Top
      OBVIOUS
    <3>. HIDE DEF new
    <3>3. QED
      BY <1>1, <2>2, <2>3, <3>1, <3>2, CheckRoles
  <2>4. CASE ~IsSub(c)
    <3>1. Replaced({Top}, rest)
      <4>1. {} \cup {Top} = {Top}
        OBVIOUS
      <4>2. QED
        BY <2>1, <2>4, <4>1
    <3>2. QED
      BY <1>2, <3>1
  <2>5. QED
    BY <2>3, <2>4
<1>5. CASE IsSub(c) /\ stack' = CallSetMapped(c, FALSE) \o stack
  <2>. DEFINE new == MapCall(c, FALSE) \cup {Top}
  <2>1. PICK rest : Replaced(new, rest)
    BY <1>5, ReplacedBy
  <2>2. \A f \in new : f \in MapCall(c, FALSE) \/ f = Top
    OBVIOUS
  <2>. HIDE DEF new
  <2>3. QED
    BY <1>1, <1>5, <2>1, <2>2, CheckRoles
<1>6. QED
  BY <1>3, <1>4, <1>5

LEMMA AdoptOneRoles ==
  ASSUME IInv, CallInv, MappedInv, stack # << >>, AdoptOne
  PROVE  MappedInv'
<1>1. Top.op # "setMapped" /\ UNCHANGED <<mapped, role, flags>> /\ Top.s \in Surfaces
  BY TopFacts DEF AdoptOne, roles
<1>2. PICK c \in pendingChildren[Top.s] :
        stack' = stack \/ stack' = HandleParentChange(c, Top.s) \o stack
  BY DEF AdoptOne
<1>3. c \in Surfaces
  BY <1>1, <1>2 DEF IInv, TypeOK
<1>4. QED
  BY <1>1, <1>2, <1>3, ParentChangeRoles

LEMMA ResetChildRoles ==
  ASSUME IInv, CallInv, MappedInv, stack # << >>, ResetChild
  PROVE  MappedInv'
<1>1. Top.op # "setMapped" /\ UNCHANGED <<mapped, role, flags>> /\ Top.s \in Surfaces
  BY TopFacts DEF ResetChild, roles
<1>2. PICK c \in children[Top.s] :
        \/ IsSub(c) /\ stack' = CallSetMapped(c, FALSE) \o stack
        \/ stack' = stack
        \/ stack' = HandleParentChange(c, parent[Top.s]) \o stack
  BY DEF ResetChild
<1>3. c \in Surfaces /\ parent[Top.s] \in Surfaces \cup {None}
  BY <1>1, <1>2, ShowType
<1>4. QED
  BY <1>1, <1>2, <1>3, ParentChangeRoles

LEMMA CascadeRoles ==
  ASSUME IInv, CallInv, MappedInv, stack # << >>, CascadeMapping
  PROVE  MappedInv'
<1>1. /\ Top.op = "cascade" /\ UNCHANGED <<mapped, role, flags>>
      /\ Top.todo \subseteq Surfaces /\ \A c \in Top.todo : IsSub(c)
  BY TopFacts, TopCall DEF CascadeMapping, roles, CallInv, IsSub
<1>2. CASE Return(<< >>)
  <2>1. PICK rest : Replaced({}, rest)
    BY <1>2, ReplacedBy
  <2>2. QED
    BY <1>1, <2>1, KeepRoles
<1>3. ASSUME NEW c \in Top.todo, NEW todo,
             Return(CallCheckMapping(c, parent[c], hasBuffer[c]) \o <<FrTodo("cascade", Top.s, todo)>>)
      PROVE  MappedInv'
  <2>. DEFINE on == parent[c] # None /\ mapped[parent[c]] /\ hasBuffer[c]
              C == FrTodo("cascade", Top.s, todo)
              new == MapCall(c, on) \cup {C}
  <2>1. PICK rest : Replaced(new, rest)
    BY <1>3, ReplacedBy DEF CallCheckMapping
  <2>2. on \in BOOLEAN /\ c \in Surfaces
    BY <1>1, ShowType
  <2>3. C.op = "cascade"
    BY DEF FrTodo
  <2>. HIDE DEF on, C
  <2>4. \A f \in new : f \in MapCall(c, on) \/ f.op = "cascade"
    BY <2>3
  <2>. HIDE DEF new
  <2>5. QED
    BY <1>1, <2>1, <2>2, <2>4, CheckRoles
<1>4. QED
  BY <1>2, <1>3 DEF CascadeMapping

\* A surface is mapped only when its role allows it.
LEMMA SetMappedRoles ==
  ASSUME IInv, CallInv, MappedInv, stack # << >>, SetMapped
  PROVE  MappedInv'
<1>. SUFFICES ASSUME NEW s, s = Top.s, NEW on, on = Top.on PROVE MappedInv'
  OBVIOUS
<1>. DEFINE C == FrTodo("cascade", s, Subsurfaces(s))
<1>1. /\ s \in Surfaces /\ Top.op = "setMapped" /\ on \in BOOLEAN
      /\ UNCHANGED <<role, flags>>
      /\ \A d \in Surfaces : mapped'[d] = IF d = s THEN on ELSE mapped[d]
      /\ on => Mappable(s, role, flags)
  BY TopFacts, TopCall, ShowType DEF SetMapped, roles, CallInv
<1>2. PICK rest : Replaced({C}, rest)
  BY ReplacedBy DEF SetMapped
<1>3. C.op = "cascade"
  BY DEF FrTodo
<1>. HIDE DEF C
<1>4. /\ Calls = {Top} \cup rest /\ Calls' = {C} \cup rest
      /\ \A f \in rest : f.op # "setMapped" /\ f.s \in Surfaces
  BY <1>2 DEF Replaced
<1>5. RoleKept'
  <2>1. \A d \in Surfaces : d # s /\ mapped[d] => Mappable(d, role, flags)
    BY <1>4 DEF MappedInv, RoleKept, Unmapping
  <2>2. QED
    BY <1>1, <2>1 DEF RoleKept, Mappable
<1>6. ASSUME NEW e \in Calls', e.op = "reset" PROVE ~mapped'[e.s]
  <2>1. e \in rest /\ e \in Calls /\ e.s \in Surfaces
    BY <1>3, <1>4, <1>6
  <2>2. CASE e.s = s
    BY <1>1, <1>4, <1>6, <2>1, <2>2 DEF MappedInv, ResetKept
  <2>3. CASE e.s # s
    BY <1>1, <1>4, <1>6, <2>1, <2>3 DEF MappedInv, ResetKept, Unmapping
  <2>4. QED
    BY <2>2, <2>3
<1>7. \A f \in Calls' : f.op # "setMapped"
  BY <1>3, <1>4
<1>8. QED
  BY <1>5, <1>6, <1>7 DEF MappedInv, ResetKept

\* A commit checks the mapping of a subsurface, and maps a toplevel or unmaps and
\* resets it.
LEMMA ApplyContentRoles ==
  ASSUME IInv, CallInv, MappedInv, stack # << >>, ApplyContent
  PROVE  MappedInv'
<1>. SUFFICES ASSUME NEW s, s = Top.s PROVE MappedInv'
  OBVIOUS
<1>. DEFINE hb == IF attached[s] = "no" THEN hasBuffer[s] ELSE attached[s] = "buffer"
<1>1. /\ s \in Surfaces /\ Top.op = "content" /\ Top.op \in Committing
      /\ UNCHANGED <<mapped, role>> /\ hb \in BOOLEAN
  BY TopFacts, ShowType DEF ApplyContent, Committing
<1>2. \/ Return(<< >>) /\ UNCHANGED flags
      \/ /\ role[s] = "toplevel" /\ Return(<< >>)
         /\ flags' = [flags EXCEPT ![s] = @ \ {"HasPendingInitialConf"}]
      \/ IsSub(s) /\ Return(CallCheckMapping(s, parent[s], hb)) /\ UNCHANGED flags
      \/ Return(CallSetMapped(s, TRUE)) /\ UNCHANGED flags
      \/ /\ role[s] = "toplevel" /\ mapped[s] /\ UNCHANGED flags
         /\ Return(CallSetMapped(s, FALSE) \o <<Fr("reset", s)>>)
  BY DEF ApplyContent, ToplevelCommit
<1>. HIDE DEF hb
<1>3. CASE Return(<< >>) /\ UNCHANGED flags
  <2>1. PICK rest : Replaced({}, rest)
    BY <1>3, ReplacedBy
  <2>2. QED
    BY <1>1, <1>3, <2>1, KeepRoles
<1>4. CASE /\ role[s] = "toplevel" /\ Return(<< >>)
           /\ flags' = [flags EXCEPT ![s] = @ \ {"HasPendingInitialConf"}]
  <2>1. PICK rest : Replaced({}, rest)
    BY <1>4, ReplacedBy
  <2>2. \A d \in Surfaces : Mappable(d, role, flags) => Mappable(d, role', flags')
    BY <1>1, <1>4, ShowType DEF Mappable
  <2>3. QED
    BY <1>1, <2>1, <2>2, KeepRoles
<1>5. CASE IsSub(s) /\ Return(CallCheckMapping(s, parent[s], hb)) /\ UNCHANGED flags
  <2>. DEFINE on == parent[s] # None /\ mapped[parent[s]] /\ hb
  <2>1. PICK rest : Replaced(MapCall(s, on), rest)
    BY <1>5, ReplacedBy DEF CallCheckMapping
  <2>2. on \in BOOLEAN
    BY <1>1, ShowType
  <2>. HIDE DEF on
  <2>3. QED
    BY <1>1, <1>5, <2>1, <2>2, CheckRoles
<1>6. CASE Return(CallSetMapped(s, TRUE)) /\ UNCHANGED flags
  <2>1. PICK rest : Replaced(MapCall(s, TRUE), rest)
    BY <1>6, ReplacedBy
  <2>2. \A f \in MapCall(s, TRUE) : f.op = "setMapped"
    BY <1>1, ShowType, MapCallFacts
  <2>3. \A e \in MapCall(s, TRUE) \cup rest : e.op # "reset"
    BY <1>1, <2>1, <2>2 DEF Replaced, Ending
  <2>4. QED
    BY <1>1, <1>6, <2>1, <2>2, <2>3, KeepRoles
<1>7. CASE /\ role[s] = "toplevel" /\ mapped[s] /\ UNCHANGED flags
           /\ Return(CallSetMapped(s, FALSE) \o <<Fr("reset", s)>>)
  <2>. DEFINE R == Fr("reset", s)
              new == MapCall(s, FALSE) \cup {R}
  <2>1. PICK rest : Replaced(new, rest)
    BY <1>7, ReplacedBy
  <2>2. R.op = "reset" /\ R.s = s
    BY DEF Fr
  <2>. HIDE DEF R
  <2>3. /\ \A f \in MapCall(s, FALSE) : f.op = "setMapped" /\ f.s = s /\ ~f.on
        /\ \E f \in MapCall(s, FALSE) : f.op = "setMapped" /\ f.s = s /\ ~f.on
    <3>1. mapped[s] /\ mapped[s] \in BOOLEAN
      BY <1>1, <1>7, ShowType
    <3>. DEFINE F == FrOn("setMapped", s, FALSE)
    <3>2. F \in MapCall(s, FALSE) /\ \A f \in MapCall(s, FALSE) : f = F
      BY <3>1, MapCallIs
    <3>3. F.op = "setMapped" /\ F.s = s /\ ~F.on
      BY DEF FrOn
    <3>. HIDE DEF F
    <3>4. QED
      BY <3>2, <3>3
  <2>4. /\ \A f \in new : f.op = "setMapped" => ~f.on
        /\ \A e \in new : e.op = "reset" => e.s = s
        /\ \E f \in new : f.op = "setMapped" /\ f.s = s /\ ~f.on
    BY <2>2, <2>3
  <2>. HIDE DEF new
  <2>5. QED
    BY <1>1, <1>7, <2>1, <2>4, KeepRoles
<1>8. QED
  BY <1>2, <1>3, <1>4, <1>5, <1>6, <1>7

\* A role is destroyed, a toplevel is reset, a surface is destroyed.
LEMMA EndingRoles ==
  ASSUME IInv, CallInv, MappedInv, stack # << >>, DropRole \/ ResetDone \/ Remove
  PROVE  MappedInv'
<1>. SUFFICES ASSUME NEW s, s = Top.s PROVE MappedInv'
  OBVIOUS
<1>1. s \in Surfaces /\ Top.op \in Ending /\ Top.op # "setMapped"
  BY TopFacts DEF DropRole, ResetDone, Remove, Ending
<1>2. CASE DropRole
  <2>1. PICK rest : Replaced(MapCall(s, FALSE), rest)
    BY <1>2, ReplacedBy DEF DropRole
  <2>2. /\ \A f \in MapCall(s, FALSE) : f.op = "setMapped" /\ ~f.on
        /\ mapped[s] => \E f \in MapCall(s, FALSE) : f.op = "setMapped" /\ f.s = s /\ ~f.on
    BY <1>1, ShowType, MapCallFacts
  <2>3. mapped' = mapped /\ \A d \in Surfaces : d # s => role'[d] = role[d] /\ flags'[d] = flags[d]
    BY <1>2, ShowType DEF DropRole, NoRole
  <2>4. \A d \in Surfaces : d # s => (Mappable(d, role, flags) => Mappable(d, role', flags'))
    BY <2>3 DEF Mappable
  <2>5. QED
    BY <1>1, <2>1, <2>2, <2>3, <2>4, KeepRoles
<1>3. CASE ResetDone
  <2>1. PICK rest : Replaced({}, rest)
    BY <1>3, ReplacedBy DEF ResetDone
  <2>2. ~mapped[s]
    <3>1. Calls = {Top} /\ Top.op = "reset"
      BY <1>1, <1>3, <2>1 DEF Replaced, ResetDone
    <3>2. QED
      BY <3>1 DEF MappedInv, ResetKept, Unmapping
  <2>3. /\ UNCHANGED <<mapped, role>>
        /\ \A d \in Surfaces : d # s => flags'[d] = flags[d]
    BY <1>3, ShowType DEF ResetDone
  <2>4. \A d \in Surfaces : d # s => (Mappable(d, role, flags) => Mappable(d, role', flags'))
    BY <2>3 DEF Mappable
  <2>5. QED
    BY <1>1, <2>1, <2>2, <2>3, <2>4, KeepRoles
<1>4. CASE Remove
  <2>1. PICK new, rest : new = {} /\ Replaced(new, rest)
    BY <1>4, ReplacedBy DEF Remove
  <2>2. \A d \in Surfaces : /\ mapped'[d] = IF d = s THEN FALSE ELSE mapped[d]
                            /\ d # s => role'[d] = role[d] /\ flags'[d] = flags[d]
    BY <1>4, ShowType DEF Remove, NoRole
  <2>3. \A d \in Surfaces : d # s => (Mappable(d, role, flags) => Mappable(d, role', flags'))
    BY <2>2 DEF Mappable
  <2>4. \A d \in Surfaces : mapped'[d] =>
          mapped[d] /\ (Mappable(d, role, flags) => Mappable(d, role', flags'))
    BY <2>2, <2>3
  <2>5. QED
    BY <1>1, <2>1, <2>4, KeepRoles
<1>5. QED
  BY <1>2, <1>3, <1>4

\* Between two requests a mapped surface has a role, and no request changes the
\* role of one before it has been unmapped.
LEMMA RequestRoles ==
  ASSUME IInv, CallInv, MappedInv, Request
  PROVE  MappedInv'
<1>1. stack = << >> /\ mapped' = mapped
  BY DEF Request, CreateSurface, AttachBuffer, Commit, GetSubsurface, SetSync, SetDesync, GetToplevel,
         SetToplevelParent, Close, DestroyRole, DestroySurface, Disconnect, Reconnect, Serving
<1>2. Calls = {} /\ \A s \in Surfaces : mapped[s] => Mappable(s, role, flags)
  <2>1. Len(stack) = 0
    BY <1>1
  <2>2. Calls = {}
    BY <2>1 DEF Calls, CallsOf
  <2>3. QED
    BY <2>2 DEF MappedInv, RoleKept, Unmapping
<1>. DEFINE RolesStay == \A s \in Surfaces : Mappable(s, role, flags) => Mappable(s, role', flags')
            NoReset   == \A e \in Calls' : e.op # "reset"
<1>3. RolesStay
  <2>1. ASSUME UNCHANGED <<role, flags>> PROVE RolesStay
    BY <2>1
  <2>2. ASSUME NEW s \in Surfaces, role[s] = "none", \A d \in Surfaces : d # s => role'[d] = role[d],
               flags' = flags
        PROVE  RolesStay
    BY <2>2 DEF Mappable
  <2>3. ASSUME NEW s \in Surfaces, GetToplevel(s) PROVE RolesStay
    BY <2>2, <2>3, ShowType DEF GetToplevel
  <2>4. ASSUME NEW s \in Surfaces, NEW p \in Surfaces, GetSubsurface(s, p) PROVE RolesStay
    BY <2>2, <2>4, ShowType DEF GetSubsurface
  <2>5. ASSUME NEW s \in Surfaces, Close(s) PROVE RolesStay
    BY <2>5, ShowType DEF Close, Mappable
  <2>6. QED
    BY <2>1, <2>3, <2>4, <2>5 DEF Request, CreateSurface, AttachBuffer, Commit, SetSync, SetDesync,
       SetToplevelParent, DestroyRole, DestroySurface, Disconnect, Reconnect, roles
<1>4. NoReset
  <2>1. ASSUME NEW f, stack' = <<f>>, f.op # "reset" PROVE NoReset
    <3>1. One1(<<f>>, f)
      BY Tuples
    <3>2. Calls' = {f}
      BY <2>1, <3>1, MadeCalls DEF Calls
    <3>3. QED
      BY <2>1, <3>2
  <2>2. ASSUME stack' = << >> PROVE NoReset
    <3>1. Len(stack') = 0
      BY <2>2
    <3>2. QED
      BY <3>1 DEF Calls, CallsOf
  <2>3. ASSUME NEW s \in Surfaces, NEW op \in {"dropRole", "remove"},
               stack' = CallSetMapped(s, FALSE) \o <<Fr(op, s)>>
        PROVE  NoReset
    <3>1. Calls' = MapCall(s, FALSE) \cup {Fr(op, s)}
      BY <2>3, DestroyCalls
    <3>2. Fr(op, s).op = op /\ \A f \in MapCall(s, FALSE) : f.op = "setMapped"
      BY ShowType, MapCallFacts DEF Fr
    <3>3. QED
      BY <3>1, <3>2
  <2>4. ASSUME NEW s \in Surfaces, Commit(s) \/ SetSync(s) \/ SetDesync(s) PROVE NoReset
    <3>1. FrOn("apply", s, FALSE).op = "apply" /\ Fr("sync", s).op = "sync"
      BY DEF FrOn, Fr
    <3>2. \/ stack' = <<FrOn("apply", s, FALSE)>>
          \/ stack' = <<Fr("sync", s)>>
          \/ stack' = << >>
      BY <1>1, <2>4 DEF Commit, SetSync, SetDesync
    <3>3. QED
      BY <2>1, <2>2, <3>1, <3>2
  <2>5. ASSUME NEW s \in Surfaces, DestroyRole(s) \/ DestroySurface(s) PROVE NoReset
    BY <2>3, <2>5 DEF DestroyRole, DestroySurface
  <2>6. QED
    BY <1>1, <2>2, <2>4, <2>5 DEF Request, CreateSurface, AttachBuffer, GetSubsurface, GetToplevel,
       SetToplevelParent, Close, Disconnect, Reconnect
<1>5. RoleKept'
  BY <1>1, <1>2, <1>3 DEF RoleKept
<1>6. ResetKept'
  BY <1>4 DEF ResetKept
<1>7. QED
  BY <1>5, <1>6 DEF MappedInv

LEMMA MappedInvariance == Spec => []MappedInv
<1>1. Init => MappedInv
  BY DEF Init, MappedInv, RoleKept, ResetKept, Calls, CallsOf
<1>2. ASSUME IInv, CallInv, MappedInv, [Next]_vars
      PROVE  MappedInv'
  <2>1. CASE UNCHANGED vars
    BY <1>2, <2>1 DEF vars, roles, MappedInv, RoleKept, ResetKept, Unmapping, Mappable, Calls
  <2>2. CASE Step
    BY <1>2, <2>2, QuietStepRoles, AdoptOneRoles, ApplyContentRoles, SetMappedRoles, CascadeRoles,
       ResetChildRoles, EndingRoles DEF Step
  <2>3. QED
    BY <1>2, <2>1, <2>2, RequestRoles DEF Next
<1>3. QED
  BY <1>1, <1>2, Invariance, CallInvariance, PTL DEF Spec

\* No request leaves a surface mapped that has lost its role, or a toplevel that
\* is to be configured again: for any surface tree, toplevels with two parents
\* included.
THEOREM MappedRoles == Spec => []MappedHasRole
<1>1. ASSUME MappedInv, stack = << >>, NEW s \in Surfaces, mapped[s]
      PROVE  role[s] # "none" /\ (role[s] = "toplevel" => "HasPendingInitialConf" \notin flags[s])
  <2>1. Len(stack) = 0
    BY <1>1
  <2>2. ~Unmapping(s)
    BY <2>1 DEF Unmapping, Calls, CallsOf
  <2>3. QED
    BY <1>1, <2>2 DEF MappedInv, RoleKept, Mappable
<1>2. MappedInv => MappedHasRole
  BY <1>1 DEF MappedHasRole
<1>3. QED
  BY <1>2, MappedInvariance, PTL
=============================================================================

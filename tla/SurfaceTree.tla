----------------------------- MODULE SurfaceTree -----------------------------
(***************************************************************************)
(* The tree of wl_surfaces of one client: parents, children, pending       *)
(* children, roles (subsurface and xdg_toplevel), the synchronized commits *)
(* of subsurfaces and the mapping that follows from them.                  *)
(*                                                                         *)
(* Louvre handles every request on its main thread, so a request runs to   *)
(* its end before the next one is read.  Its handlers call one another     *)
(* recursively though: a commit notifies the children, which may commit in *)
(* turn; a change of mapping calls the children back, which change their   *)
(* own mapping.  `stack' is that call stack: a request pushes the calls it *)
(* makes, Step runs the topmost one, and a new request is read only when   *)
(* the stack is empty.  The lists of children are sets: the order in which *)
(* siblings are visited is left open.                                      *)
(***************************************************************************)
EXTENDS Naturals, Sequences, FiniteSets

CONSTANTS Surfaces,   \* the objects a client may create (ids are reused)
          None,       \* the null surface
          Requests    \* the optional requests the clients of a run use

ASSUME NoneAssumption == None \notin Surfaces
ASSUME FiniteAssumption == IsFiniteSet(Surfaces)

Roles   == {"none", "subsurface", "toplevel"}
Attach  == {"no", "null", "buffer"}
Flags   == {"HasPendingInitialConf", "ClosedSent"}
Modes   == {"running", "dying", "undefined"}
Ops     == {"apply", "adopt", "notify", "content", "setMapped", "cascade",
            "sync", "syncChildren", "dropRole", "reset", "remove"}

\* A call that has not returned, on surfaces of A: the function, its surface,
\* its Boolean argument and the surfaces a loop in it has still to visit.
Frame(A) == [op : Ops, s : A, on : BOOLEAN, todo : SUBSET A]

VARIABLES
  alive,            \* the surfaces that exist
  role,             \* LSurfacePrivate::current.role
  parent,           \* LSurfacePrivate::parent
  pendingParent,    \* LSurfacePrivate::pendingParent
  children,         \* LSurfacePrivate::children
  pendingChildren,  \* LSurfacePrivate::pendingChildren
  mapped,           \* the Mapped flag
  hasBuffer,        \* current.hasBuffer
  attached,         \* BufferAttached and pending.hasBuffer
  synced,           \* LSubsurfaceRole::m_isSynced
  hasCache,         \* LSubsurfaceRole::m_hasCache
  flags,            \* LToplevelRole::m_flags
  mode,             \* is the client being served, being destroyed, or has
                    \* the program done something undefined
  stack             \* the calls in progress, innermost first

links   == <<parent, pendingParent, children, pendingChildren>>
content == <<hasBuffer, attached>>
roles   == <<role, synced, hasCache, flags>>
vars    == <<alive, links, mapped, content, roles, mode, stack>>

Init ==
  /\ alive = {}
  /\ role = [s \in Surfaces |-> "none"]
  /\ parent = [s \in Surfaces |-> None]
  /\ pendingParent = [s \in Surfaces |-> None]
  /\ children = [s \in Surfaces |-> {}]
  /\ pendingChildren = [s \in Surfaces |-> {}]
  /\ mapped = [s \in Surfaces |-> FALSE]
  /\ hasBuffer = [s \in Surfaces |-> FALSE]
  /\ attached = [s \in Surfaces |-> "no"]
  /\ synced = [s \in Surfaces |-> TRUE]
  /\ hasCache = [s \in Surfaces |-> TRUE]
  /\ flags = [s \in Surfaces |-> {"HasPendingInitialConf"}]
  /\ mode = "running"
  /\ stack = << >>

-----------------------------------------------------------------------------
(***************************************************************************)
(* Helpers.                                                                *)
(***************************************************************************)

Fr(op, s) == [op |-> op, s |-> s, on |-> FALSE, todo |-> {}]
FrOn(op, s, on) == [op |-> op, s |-> s, on |-> on, todo |-> {}]
FrTodo(op, s, todo) == [op |-> op, s |-> s, on |-> FALSE, todo |-> todo]

Top == Head(stack)

\* The call on top of the stack returns, after making the calls fs.
Return(fs) == stack' = fs \o Tail(stack)

\* The call of LSurfacePrivate::setMapped, which does nothing when the flag
\* already has the value.
CallSetMapped(s, on) == IF mapped[s] = on THEN << >> ELSE <<FrOn("setMapped", s, on)>>

\* checkMapping of LSubsurfaceRole.cpp, p and hb being the parent and the
\* buffer the surface has by then.
CallCheckMapping(s, p, hb) == CallSetMapped(s, p # None /\ mapped[p] /\ hb)

\* A client is served only when no handler is running.
Serving == mode = "running" /\ stack = << >>

IsSub(s) == role[s] = "subsurface"
Subsurfaces(s) == {c \in children[s] : IsSub(c)}

\* Mutant: a surface that has lost its role checks its mapping too.
HandleParentChangeAll(c, p) == CallCheckMapping(c, p, hasBuffer[c])

\* handleParentChange: a subsurface checks its mapping, the state of the other
\* roles does not depend on it.
HandleParentChange(c, p) ==
  IF IsSub(c) THEN CallCheckMapping(c, p, hasBuffer[c]) ELSE << >>

\* The surfaces reached from s by steps of the function next: the smallest set
\* that holds s and what is next to its members.
Reach(next, s) ==
  {x \in Surfaces : \A A \in SUBSET Surfaces :
                      s \in A /\ (\A y \in A : next[y] \subseteq A) => x \in A}

\* isInChildrenOrPendingChildren: the search goes down the children of s and
\* up the pending parents of c, and never up the parents of c.
IsInChildrenOrPendingChildren(s, c) ==
  LET up == [x \in Surfaces |-> {pendingParent[x]} \ {None}]
  IN  Reach(children, s) \cap Reach(up, c) # {}

\* hasSyncParent: the closest ancestor that is a subsurface is synchronized.
HasSyncParent(s) ==
  LET anc[n \in 0 .. Cardinality(Surfaces)] ==
        IF n = 0 THEN s
        ELSE IF anc[n-1] = None THEN None ELSE parent[anc[n-1]]
      IsSubAnc(n) == anc[n] # None /\ role[anc[n]] = "subsurface"
  IN  \E n \in 1 .. Cardinality(Surfaces) :
        /\ IsSubAnc(n) /\ synced[anc[n]]
        /\ \A m \in 1 .. n-1 : ~IsSubAnc(m)

Ancestors(s) == Reach([x \in Surfaces |-> {parent[x]} \ {None}], s)

\* Mutant: the surface stays in the list of its previous pending parent.
SetPendingParentNotErased(s, p) ==
  /\ pendingParent' = [pendingParent EXCEPT ![s] = p]
  /\ pendingChildren' = [pendingChildren EXCEPT ![p] = @ \cup {s}]

\* LSurfacePrivate::setPendingParent
SetPendingParent(s, p) ==
  /\ pendingParent' = [pendingParent EXCEPT ![s] = p]
  /\ pendingChildren' = [q \in Surfaces |->
                           IF q = p THEN pendingChildren[q] \cup {s}
                           ELSE IF q = pendingParent[s] THEN pendingChildren[q] \ {s}
                           ELSE pendingChildren[q]]

\* Mutant: a surface that loses its parent is not erased from its list.
SetParentNotErased(s, p) ==
  /\ pendingParent' = [pendingParent EXCEPT ![s] = None]
  /\ pendingChildren' = [q \in Surfaces |-> pendingChildren[q] \ {s}]
  /\ parent' = [parent EXCEPT ![s] = p]
  /\ children' = [q \in Surfaces |-> IF p # parent[s] /\ q = p
                                     THEN children[q] \cup {s} ELSE children[q]]

\* Mutant: the surface is not appended to the list of its new parent.
SetParentNotAppended(s, p) ==
  /\ pendingParent' = [pendingParent EXCEPT ![s] = None]
  /\ pendingChildren' = [q \in Surfaces |-> pendingChildren[q] \ {s}]
  /\ parent' = [parent EXCEPT ![s] = p]
  /\ children' = [q \in Surfaces |-> IF q = parent[s] /\ q # p
                                     THEN children[q] \ {s} ELSE children[q]]

\* LSurfacePrivate::setParent and removeChild.  A surface given a new parent
\* is appended to its list, but is not erased from the list of the old one.
SetParent(s, p) ==
  /\ pendingParent' = [pendingParent EXCEPT ![s] = None]
  /\ pendingChildren' = [q \in Surfaces |-> IF q = pendingParent[s]
                                            THEN pendingChildren[q] \ {s}
                                            ELSE pendingChildren[q]]
  /\ parent' = [parent EXCEPT ![s] = p]
  /\ children' = IF p = parent[s] THEN children
                 ELSE IF p = None THEN [children EXCEPT ![parent[s]] = @ \ {s}]
                 ELSE [children EXCEPT ![p] = @ \cup {s}]

-----------------------------------------------------------------------------
(***************************************************************************)
(* The calls.                                                              *)
(***************************************************************************)

\* Mutant: a synchronized subsurface accepts its own commits.
ApplyCommitAlways ==
  LET s == Top.s IN
  /\ Top.op = "apply"
  /\ hasCache' = IF IsSub(s) /\ synced[s]
                 THEN [hasCache EXCEPT ![s] = TRUE] ELSE hasCache
  /\ Return(<<Fr("adopt", s), Fr("content", s)>>)
  /\ UNCHANGED <<alive, links, mapped, content, role, synced, flags, mode>>

\* RSurface::apply_commit up to the role's acceptCommitRequest; on = TRUE
\* when the commit comes from the parent.
ApplyCommit ==
  LET s == Top.s
      accepted == IsSub(s) => synced[s] = Top.on
  IN  /\ Top.op = "apply"
      /\ hasCache' = IF IsSub(s) /\ synced[s]
                     THEN [hasCache EXCEPT ![s] = TRUE] ELSE hasCache
      /\ Return(IF accepted THEN <<Fr("adopt", s), Fr("content", s)>> ELSE << >>)
      /\ UNCHANGED <<alive, links, mapped, content, role, synced, flags, mode>>

\* LSurfacePrivate::applyPendingChildren: one turn of the loop.
AdoptOne ==
  LET s == Top.s IN
  /\ Top.op = "adopt"
  /\ \E c \in pendingChildren[s] :
       /\ pendingChildren' = [pendingChildren EXCEPT ![s] = @ \ {c}]
       /\ IF pendingParent[c] # s
          THEN UNCHANGED <<parent, pendingParent, children, stack>>
          ELSE /\ parent' = [parent EXCEPT ![c] = s]
               /\ pendingParent' = [pendingParent EXCEPT ![c] = None]
               /\ children' = [q \in Surfaces |->
                                 IF q = s THEN children[q] \cup {c}
                                 ELSE IF q = parent[c] THEN children[q] \ {c}
                                 ELSE children[q]]
               /\ stack' = HandleParentChange(c, s) \o stack
  /\ UNCHANGED <<alive, mapped, content, roles, mode>>

AdoptDone ==
  /\ Top.op = "adopt" /\ pendingChildren[Top.s] = {}
  /\ Return(<<FrTodo("notify", Top.s, children[Top.s])>>)
  /\ UNCHANGED <<alive, links, mapped, content, roles, mode>>

\* Mutant: the loop ends with the first child that commits.
NotifyParentCommitOnce ==
  LET left == {c \in Top.todo \cap Subsurfaces(Top.s) : synced[c] /\ hasCache[c]}
  IN  /\ Top.op = "notify"
      /\ \/ left = {} /\ Return(<< >>)
         \/ \E c \in left : Return(<<FrOn("apply", c, TRUE)>>)
      /\ UNCHANGED <<alive, links, mapped, content, roles, mode>>

\* The children that are still in the list and not ParentCommitNotified are
\* told of the commit: LSubsurfaceRole::handleParentCommit applies the commits
\* of those that are synchronized and have one in their cache.
NotifyParentCommit ==
  LET s == Top.s
      left == {c \in Top.todo \cap Subsurfaces(s) : synced[c] /\ hasCache[c]}
  IN  /\ Top.op = "notify"
      /\ \/ left = {} /\ Return(<< >>)
         \/ \E c \in left :
              Return(<<FrOn("apply", c, TRUE), FrTodo("notify", s, left \ {c})>>)
      /\ UNCHANGED <<alive, links, mapped, content, roles, mode>>

\* LToplevelRole::handleSurfaceCommit, hb being the committed buffer.
ToplevelCommit(s, hb) ==
  LET initial == "HasPendingInitialConf" \in flags[s] IN
  \/ /\ "ClosedSent" \in flags[s]
     /\ Return(<< >>) /\ UNCHANGED <<flags, mode>>
  \/ /\ "ClosedSent" \notin flags[s] /\ initial /\ hb  \* unconfigured buffer
     /\ mode' = "dying"
     /\ Return(<< >>) /\ UNCHANGED flags
  \/ /\ "ClosedSent" \notin flags[s] /\ initial /\ ~hb
     /\ flags' = [flags EXCEPT ![s] = @ \ {"HasPendingInitialConf"}]
     /\ Return(<< >>) /\ UNCHANGED mode
  \/ /\ "ClosedSent" \notin flags[s] /\ ~initial
     /\ Return(IF mapped[s] /\ ~hb THEN CallSetMapped(s, FALSE) \o <<Fr("reset", s)>>
               ELSE IF hb THEN CallSetMapped(s, TRUE) ELSE << >>)
     /\ UNCHANGED <<flags, mode>>

\* The rest of apply_commit: the attached buffer becomes current, is turned
\* into a texture, and the role handles the commit.
ApplyContent ==
  LET s  == Top.s
      hb == IF attached[s] = "no" THEN hasBuffer[s] ELSE attached[s] = "buffer"
  IN  /\ Top.op = "content"
      /\ hasBuffer' = [hasBuffer EXCEPT ![s] = hb]
      /\ attached' = [attached EXCEPT ![s] = "no"]
      /\ \/ /\ hb /\ "bad_buffer" \in Requests  \* bufferToTexture() fails
            /\ mode' = "dying"
            /\ Return(<< >>) /\ UNCHANGED <<hasCache, flags>>
         \/ /\ role[s] = "none"
            /\ Return(<< >>) /\ UNCHANGED <<hasCache, flags, mode>>
         \/ /\ IsSub(s)
            /\ hasCache' = [hasCache EXCEPT ![s] = FALSE]
            /\ Return(CallCheckMapping(s, parent[s], hb))
            /\ UNCHANGED <<flags, mode>>
         \/ /\ role[s] = "toplevel"
            /\ ToplevelCommit(s, hb) /\ UNCHANGED hasCache
      /\ UNCHANGED <<alive, links, mapped, role, synced>>

\* Mutant: the children are not told that the mapping changed.
SetMappedAlone ==
  /\ Top.op = "setMapped"
  /\ mapped' = [mapped EXCEPT ![Top.s] = Top.on]
  /\ Return(<< >>)
  /\ UNCHANGED <<alive, links, content, roles, mode>>

\* LSurfacePrivate::setMapped when the flag changes, and then the
\* handleParentMappingChange of the children, subsurfaces being the only ones
\* that react to it.
SetMapped ==
  LET s == Top.s IN
  /\ Top.op = "setMapped"
  /\ mapped' = [mapped EXCEPT ![s] = Top.on]
  /\ Return(<<FrTodo("cascade", s, Subsurfaces(s))>>)
  /\ UNCHANGED <<alive, links, content, roles, mode>>

CascadeMapping ==
  /\ Top.op = "cascade"
  /\ \/ Top.todo = {} /\ Return(<< >>)
     \/ \E c \in Top.todo :
          Return(CallCheckMapping(c, parent[c], hasBuffer[c])
                   \o <<FrTodo("cascade", Top.s, Top.todo \ {c})>>)
  /\ UNCHANGED <<alive, links, mapped, content, roles, mode>>

\* RSubsurface::set_sync, also called on the children of a surface that
\* becomes synchronized.
Sync ==
  LET s == Top.s IN
  /\ Top.op = "sync"
  /\ synced' = [synced EXCEPT ![s] = TRUE]
  /\ Return(<<FrTodo("syncChildren", s, Subsurfaces(s))>>)
  /\ UNCHANGED <<alive, links, mapped, content, role, hasCache, flags, mode>>

SyncChildren ==
  LET left == {c \in Top.todo : ~synced[c]} IN
  /\ Top.op = "syncChildren"
  /\ \/ left = {} /\ Return(<< >>)
     \/ \E c \in left :
          Return(<<Fr("sync", c), FrTodo("syncChildren", Top.s, left \ {c})>>)
  /\ UNCHANGED <<alive, links, mapped, content, roles, mode>>

\* The surface has no role; one created later starts with its default fields.
NoRole(s) ==
  /\ role' = [role EXCEPT ![s] = "none"]
  /\ synced' = [synced EXCEPT ![s] = TRUE]
  /\ hasCache' = [hasCache EXCEPT ![s] = TRUE]
  /\ flags' = [flags EXCEPT ![s] = {"HasPendingInitialConf"}]

\* ~LBaseSurfaceRole: the surface loses its role and is then unmapped.
DropRole ==
  /\ Top.op = "dropRole"
  /\ NoRole(Top.s)
  /\ Return(CallSetMapped(Top.s, FALSE))
  /\ UNCHANGED <<alive, links, mapped, content, mode>>

\* LToplevelRole::reset after its setMapped(false).  While there are children
\* the first one is unmapped and given the parent of the surface.
ResetChild ==
  LET s == Top.s IN
  /\ Top.op = "reset"
  /\ \E c \in children[s] :
       \/ /\ IsSub(c) /\ mapped[c]
          /\ stack' = CallSetMapped(c, FALSE) \o stack
          /\ UNCHANGED links
       \/ /\ ~(IsSub(c) /\ mapped[c])
          /\ SetParent(c, parent[s])
          /\ stack' = IF parent[s] \in {None, parent[c]} THEN stack
                      ELSE HandleParentChange(c, parent[s]) \o stack
  /\ UNCHANGED <<alive, mapped, content, roles, mode>>

ResetDone ==
  LET s == Top.s IN
  /\ Top.op = "reset" /\ children[s] = {}
  /\ SetParent(s, None)
  /\ flags' = [flags EXCEPT ![s] = {"HasPendingInitialConf"}]
  /\ Return(<< >>)
  /\ UNCHANGED <<alive, mapped, content, role, synced, hasCache, mode>>

\* ~RSurface after its setMapped(false): no surface keeps s as a parent or a
\* pending parent, s leaves the lists it is linked in.  A list that holds a
\* child of another surface, or s itself after that, is a dangling pointer.  The
\* flags and the role are those of the next object with this id.
Remove ==
  LET s == Top.s
      Stale == \E p \in alive : \E c \in children[p] :
                 (p = s \/ c = s) /\ parent[c] # p
  IN  /\ Top.op = "remove"
      /\ alive' = alive \ {s}
      /\ parent' = [c \in Surfaces |-> IF c = s \/ c \in children[s] THEN None ELSE parent[c]]
      /\ pendingParent' = [c \in Surfaces |-> IF c = s \/ c \in pendingChildren[s]
                                              THEN None ELSE pendingParent[c]]
      /\ children' = [p \in Surfaces |-> IF p = s THEN {}
                                         ELSE IF p = parent[s] THEN children[p] \ {s}
                                         ELSE children[p]]
      /\ pendingChildren' = [p \in Surfaces |-> IF p = s THEN {}
                                                ELSE IF p = pendingParent[s]
                                                     THEN pendingChildren[p] \ {s}
                                                     ELSE pendingChildren[p]]
      /\ mode' = IF Stale THEN "undefined" ELSE mode
      /\ hasBuffer' = [hasBuffer EXCEPT ![s] = FALSE]
      /\ attached' = [attached EXCEPT ![s] = "no"]
      /\ mapped' = [mapped EXCEPT ![s] = FALSE]
      /\ NoRole(s)
      /\ Return(<< >>)

Step ==
  /\ stack # << >> /\ mode # "undefined"
  /\ \/ ApplyCommit \/ AdoptOne \/ AdoptDone \/ NotifyParentCommit
     \/ ApplyContent \/ SetMapped \/ CascadeMapping
     \/ Sync \/ SyncChildren \/ DropRole \/ ResetChild \/ ResetDone \/ Remove

-----------------------------------------------------------------------------
(***************************************************************************)
(* The requests.  One that breaks the protocol posts an error, after which *)
(* the client is destroyed: Disconnect stands for all of them.             *)
(***************************************************************************)

CreateSurface(s) ==
  /\ Serving /\ s \notin alive
  /\ alive' = alive \cup {s}
  /\ UNCHANGED <<links, mapped, content, roles, mode, stack>>

AttachBuffer(s, a) ==
  /\ Serving /\ s \in alive
  /\ a = "null" => "attach_null" \in Requests
  /\ attached' = [attached EXCEPT ![s] = a]
  /\ UNCHANGED <<alive, links, mapped, hasBuffer, roles, mode, stack>>

Commit(s) ==
  /\ Serving /\ s \in alive
  /\ stack' = <<FrOn("apply", s, FALSE)>>
  /\ UNCHANGED <<alive, links, mapped, content, roles, mode>>

GetSubsurface(s, p) ==
  /\ Serving /\ {s, p} \subseteq alive /\ s # p
  /\ role[s] = "none"
  /\ ~IsInChildrenOrPendingChildren(s, p)
  /\ role' = [role EXCEPT ![s] = "subsurface"]
  /\ SetPendingParent(s, p)
  /\ UNCHANGED <<alive, parent, children, mapped, content, synced, hasCache,
                 flags, mode, stack>>

SetSync(s) ==
  /\ Serving /\ s \in alive /\ IsSub(s) /\ ~synced[s]
  /\ stack' = <<Fr("sync", s)>>
  /\ UNCHANGED <<alive, links, mapped, content, roles, mode>>

SetDesync(s) ==
  /\ Serving /\ "set_desync" \in Requests
  /\ s \in alive /\ IsSub(s) /\ synced[s] /\ ~HasSyncParent(s)
  /\ synced' = [synced EXCEPT ![s] = FALSE]
  /\ hasCache' = [hasCache EXCEPT ![s] = FALSE]
  /\ stack' = IF hasCache[s] THEN <<FrOn("apply", s, FALSE)>> ELSE stack
  /\ UNCHANGED <<alive, links, mapped, content, role, flags, mode>>

GetToplevel(s) ==
  /\ Serving /\ "get_toplevel" \in Requests
  /\ s \in alive /\ role[s] = "none"
  /\ ~hasBuffer[s] /\ attached[s] # "buffer"
  /\ role' = [role EXCEPT ![s] = "toplevel"]
  /\ UNCHANGED <<alive, links, mapped, content, synced, hasCache, flags, mode, stack>>

\* RXdgToplevel::set_parent, p being None or the surface of a toplevel.
SetToplevelParent(s, p) ==
  /\ Serving /\ "set_parent" \in Requests
  /\ s \in alive /\ role[s] = "toplevel"
  /\ \/ p = None /\ parent[s] # None /\ SetParent(s, None)
     \/ /\ p \in alive /\ role[p] = "toplevel"
        /\ \/ ~mapped[p] /\ SetParent(p, None)
           \/ /\ mapped[p] /\ ~IsInChildrenOrPendingChildren(s, p)
              /\ parent[s] # None => "reparent" \in Requests
              /\ SetParent(s, p)
  /\ UNCHANGED <<alive, mapped, content, roles, mode, stack>>

\* LToplevelRole::close, called by the compositor.
Close(s) ==
  /\ Serving /\ "close" \in Requests
  /\ s \in alive /\ role[s] = "toplevel"
  /\ flags' = [flags EXCEPT ![s] = @ \cup {"ClosedSent"}]
  /\ UNCHANGED <<alive, links, mapped, content, role, synced, hasCache, mode, stack>>

\* ~RSubsurface and ~RXdgToplevel: the surface is unmapped, then the role is
\* destroyed.  The client asks for it, or is being destroyed.
DestroyRole(s) ==
  /\ stack = << >>
  /\ \/ mode = "running" /\ "destroy_role" \in Requests
     \/ mode = "dying"
  /\ s \in alive /\ role[s] # "none"
  /\ stack' = CallSetMapped(s, FALSE) \o <<Fr("dropRole", s)>>
  /\ UNCHANGED <<alive, links, mapped, content, roles, mode>>

\* Mutant: the surface is unmapped after it has left its lists.
DestroySurfaceUnmapLast(s) ==
  /\ stack = << >> /\ mode # "undefined"
  /\ s \in alive /\ (mode = "running" => role[s] = "none")
  /\ stack' = <<Fr("remove", s)>> \o CallSetMapped(s, FALSE)
  /\ UNCHANGED <<alive, links, mapped, content, roles, mode>>

\* RSurface::destroy refuses a surface that has a role; the surfaces of a
\* client that is being destroyed go before or after their roles.
DestroySurface(s) ==
  /\ stack = << >> /\ mode # "undefined"
  /\ s \in alive /\ (mode = "running" => role[s] = "none")
  /\ stack' = CallSetMapped(s, FALSE) \o <<Fr("remove", s)>>
  /\ UNCHANGED <<alive, links, mapped, content, roles, mode>>

Disconnect ==
  /\ Serving /\ "disconnect" \in Requests /\ alive # {}
  /\ mode' = "dying"
  /\ UNCHANGED <<alive, links, mapped, content, roles, stack>>

\* clientDisconnectedEvent has destroyed every resource; a client connects.
Reconnect ==
  /\ mode = "dying" /\ stack = << >> /\ alive = {}
  /\ mode' = "running"
  /\ UNCHANGED <<alive, links, mapped, content, roles, stack>>

Request ==
  \/ \E s \in Surfaces :
       \/ CreateSurface(s) \/ Commit(s) \/ SetSync(s) \/ SetDesync(s)
       \/ GetToplevel(s) \/ Close(s) \/ DestroyRole(s) \/ DestroySurface(s)
       \/ \E a \in {"null", "buffer"} : AttachBuffer(s, a)
       \/ \E p \in Surfaces : GetSubsurface(s, p)
       \/ \E p \in Surfaces \cup {None} : SetToplevelParent(s, p)
  \/ Disconnect \/ Reconnect

Next == Step \/ Request

Spec == Init /\ [][Next]_vars

\* A handler that runs is never interrupted for good.
FairSpec == Spec /\ WF_vars(Step)
-----------------------------------------------------------------------------
(***************************************************************************)
(* Properties.                                                             *)
(***************************************************************************)

\* The variables hold what their declarations in LSurfacePrivate.h,
\* LSubsurfaceRole.h and LToplevelRole.h allow, and a handler that runs works
\* on a surface that has not been destroyed under it.
TypeOK ==
  /\ alive \subseteq Surfaces
  /\ role \in [Surfaces -> Roles]
  /\ parent \in [Surfaces -> Surfaces \cup {None}]
  /\ pendingParent \in [Surfaces -> Surfaces \cup {None}]
  /\ children \in [Surfaces -> SUBSET Surfaces]
  /\ pendingChildren \in [Surfaces -> SUBSET Surfaces]
  /\ mapped \in [Surfaces -> BOOLEAN]
  /\ hasBuffer \in [Surfaces -> BOOLEAN]
  /\ attached \in [Surfaces -> Attach]
  /\ synced \in [Surfaces -> BOOLEAN]
  /\ hasCache \in [Surfaces -> BOOLEAN]
  /\ flags \in [Surfaces -> SUBSET Flags]
  /\ mode \in Modes
  /\ stack \in Seq(Frame(alive))

\* parentLink and pendingParentLink are iterators into the list of the parent
\* and of the pending parent: whenever a surface has a (pending) parent, that
\* parent exists and its list holds the surface, so that the erase() calls of
\* setParent, removeChild and applyPendingChildren are defined.
LinksValid ==
  mode # "undefined" =>
    \A s \in alive :
      /\ parent[s] # None => parent[s] \in alive /\ s \in children[parent[s]]
      /\ pendingParent[s] # None =>
           pendingParent[s] \in alive /\ s \in pendingChildren[pendingParent[s]]

\* No list of pending children holds a surface that is gone or that waits for
\* another parent: what applyPendingChildren pops it may dereference.
PendingChildrenExact ==
  \A s \in Surfaces : \A c \in pendingChildren[s] : c \in alive /\ pendingParent[c] = s

\* Between two requests a mapped subsurface has content and hangs from a
\* mapped parent: checkMapping is called after every step that could change one
\* of its three operands.  What is on screen is so a tree whose root is a mapped
\* toplevel; the surfaces that hang from no root are those of a cycle of parents,
\* which ParentNotDescendant below is about.
MappedSubsurfaces ==
  stack = << >> /\ mode # "undefined" =>
    \A s \in alive : IsSub(s) /\ mapped[s] =>
      /\ hasBuffer[s] /\ parent[s] # None /\ mapped[parent[s]]
      /\ \E r \in Ancestors(s) :
           /\ mapped[r]
           /\ role[r] = "toplevel" \/ (parent[r] # None /\ r \in Ancestors(parent[r]))

\* Between two requests a surface with no role is not mapped, and neither is
\* a toplevel that has not been configured.
MappedHasRole ==
  stack = << >> => \A s \in Surfaces : mapped[s] =>
    role[s] # "none" /\ (role[s] = "toplevel" => "HasPendingInitialConf" \notin flags[s])

Applying(p) == \E i \in 1 .. Len(stack) : stack[i].op = "content" /\ stack[i].s = p

\* The content of a synchronized subsurface changes only while the state of
\* its parent is being applied, never on its own commit.
SyncedContentWithParent ==
  [][\A s \in alive \cap alive' :
       IsSub(s) /\ synced[s] /\ hasBuffer'[s] # hasBuffer[s]
         => parent[s] # None /\ Applying(parent[s])]_vars

\* When the commit of a surface reaches its own content, no synchronized child
\* is left with a commit still in its cache: parent and children change
\* together.
CachesFlushedWithParent ==
  stack # << >> /\ Top.op = "content" /\ mode = "running" =>
    \A c \in Subsurfaces(Top.s) : synced[c] => ~hasCache[c]

\* Every request that is read returns.
RequestsTerminate == stack # << >> ~> stack = << >>

-----------------------------------------------------------------------------
(***************************************************************************)
(* What the protocol and the documentation of Louvre say, and the code     *)
(* does not do.  README.md lists these divergences.                        *)
(***************************************************************************)

\* wl_subcompositor.get_subsurface: "The parent surface must not be one of the
\* child surface's descendants".  GSubcompositor.cpp looks for the parent
\* among the children of the surface, but does not see a surface that is a
\* child of a pending child.
ParentNotDescendant ==
  \A s \in alive : parent[s] # None => s \notin Ancestors(parent[s])

\* LToplevelRole.cpp: "If a surface becomes unmapped, its children's parent is
\* set to the parent of the now-unmapped surface".  The loop never ends when
\* that parent is not null: the children do not leave the list.  It does not hold
\* when get_toplevel, set_parent and attach_null are possible (README, section 5).
UnmappedToplevelGivesAwayChildren ==
  \A s \in Surfaces :
    (stack # << >> /\ Top.op = "reset" /\ Top.s = s) ~> children[s] = {}
=============================================================================

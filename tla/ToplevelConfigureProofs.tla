------------------------ MODULE ToplevelConfigureProofs ------------------------
(* Proofs about ToplevelConfigure: the two slots of atoms, the serials, the       *)
(* deactivation of the toplevel that was active, the resize sessions, and that   *)
(* the handlers implement ConfigureProtocol.                                     *)
(*                                                                               *)
(* The handlers are operators on a world, and so are the lemmas: Touched(w, v, t)*)
(* says what a call about t may do to every toplevel, apart from the slots of t; *)
(* calls compose (TouchedTransitive), and what is Touched keeps the invariant    *)
(* (KeptInv, UpdatedInv).  Only ack_configure, the commit, reset(), the          *)
(* destruction and the flush of the clients change what the protocol sees.       *)
EXTENDS ToplevelConfigure, SequenceTheorems, TLAPS

-----------------------------------------------------------------------------
(* Types.  The serials are bounded by SerialInv below. *)

ConfType == [serial : Nat, state : SUBSET States, size : Sizes]

AtomsType == [serial : Nat, state : SUBSET States, geometry : AllGeometries]

ResizeType == [active : BOOLEAN, serial : Nat, handled : BOOLEAN, timer : BOOLEAN]

RoleType ==
  [flags : SUBSET Flags, mapped : BOOLEAN, requestedMaximized : BOOLEAN,
   conf : ConfType, sent : Seq(ConfType), ack : ConfType,
   cur : AtomsType, pend : AtomsType, pendingGeometry : AllGeometries, geometrySet : BOOLEAN,
   exclusiveOutput : BOOLEAN, resize : ResizeType]

Worlds == [role : [Toplevels -> RoleType], active : Toplevels \cup {None}, serial : Nat]

(* A stopped session that the client has not caught up with has its timer. *)
Timed(z) == ~z.active /\ ~z.handled <=> z.timer

-----------------------------------------------------------------------------
(* What a call does to a toplevel apart from its atoms: r becomes q, while the
   serial goes from n to m. *)
Configured(r, q, n, m) ==
  /\ q.mapped = r.mapped /\ q.sent = r.sent /\ q.ack = r.ack
  /\ r.flags \cap {"HasToSend", "ForceRemoveActivatedFlag"} \subseteq q.flags
  /\ "HasToSend" \in r.flags => q.conf.serial = r.conf.serial
  /\ "HasToSend" \in q.flags \ r.flags => n < q.conf.serial /\ q.conf.serial <= m
  /\ "HasToSend" \notin q.flags => q.conf = r.conf
  /\ "Resizing" \in q.conf.state => "Resizing" \in r.conf.state \/ r.resize.active
  /\ q.resize.active = r.resize.active
  /\ Timed(r.resize) => Timed(q.resize)

Keeps(r, q) == q.cur = r.cur /\ q.pend = r.pend

(* A call about t takes the world from w to v: other toplevels keep their atoms, and
   one that is not active any more will be told. *)
Touched(w, v, t) ==
  /\ v \in Worlds /\ w.serial <= v.serial /\ v.active \in {w.active, t}
  /\ \A u \in Toplevels : Configured(w.role[u], v.role[u], w.serial, v.serial)
  /\ \A u \in Toplevels \ {t} :
       /\ Keeps(w.role[u], v.role[u])
       /\ u = w.active /\ v.active # u =>
            {"HasToSend", "ForceRemoveActivatedFlag"} \subseteq v.role[u].flags

LEMMA WorldsOK ==
  ASSUME NEW w \in Worlds
  PROVE  /\ w.role \in [Toplevels -> RoleType]
         /\ \A t \in Toplevels : w.role[t] \in RoleType
         /\ w.active \in Toplevels \cup {None} /\ w.serial \in Nat
BY DEF Worlds

LEMMA PutRole ==
  ASSUME NEW w \in Worlds, NEW t \in Toplevels, NEW r \in RoleType
  PROVE  LET v == [w EXCEPT !.role = [w.role EXCEPT ![t] = r]] IN
         /\ v \in Worlds /\ v.active = w.active /\ v.serial = w.serial
         /\ v.role[t] = r /\ \A u \in Toplevels \ {t} : v.role[u] = w.role[u]
BY DEF Worlds

LEMMA ConfiguredTransitive ==
  ASSUME NEW r \in RoleType, NEW q \in RoleType, NEW p \in RoleType,
         NEW n \in Nat, NEW m \in Nat, NEW k \in Nat, n <= m, m <= k,
         Configured(r, q, n, m), Configured(q, p, m, k)
  PROVE  Configured(r, p, n, k)
<1>1. r.conf.serial \in Nat /\ q.conf.serial \in Nat /\ p.conf.serial \in Nat
  BY DEF RoleType, ConfType
<1> QED  BY <1>1 DEF Configured

LEMMA TouchedTransitive ==
  ASSUME NEW w \in Worlds, NEW v, NEW x, NEW t \in Toplevels, Touched(w, v, t), Touched(v, x, t)
  PROVE  /\ Touched(w, x, t)
         /\ Keeps(w.role[t], v.role[t]) /\ Keeps(v.role[t], x.role[t]) => Keeps(w.role[t], x.role[t])
<1>1. /\ v \in Worlds /\ x \in Worlds
      /\ w.serial \in Nat /\ v.serial \in Nat /\ x.serial \in Nat
      /\ w.serial <= v.serial /\ v.serial <= x.serial
  BY WorldsOK DEF Touched
<1>2. \A u \in Toplevels : Configured(w.role[u], x.role[u], w.serial, x.serial)
  <2> TAKE u \in Toplevels
  <2>1. w.role[u] \in RoleType /\ v.role[u] \in RoleType /\ x.role[u] \in RoleType
    BY <1>1, WorldsOK
  <2> QED  BY <1>1, <2>1, ConfiguredTransitive DEF Touched
<1>3. \A u \in Toplevels \ {t} :
        /\ Keeps(w.role[u], x.role[u])
        /\ u = w.active /\ x.active # u =>
             {"HasToSend", "ForceRemoveActivatedFlag"} \subseteq x.role[u].flags
  BY DEF Touched, Keeps, Configured
<1> QED  BY <1>1, <1>2, <1>3 DEF Touched, Keeps

LEMMA UpdateSerialOK ==
  ASSUME NEW w \in Worlds, NEW t \in Toplevels
  PROVE  LET v == UpdateSerial(w, t) IN
         /\ v \in Worlds /\ v.active = w.active
         /\ \A u \in Toplevels \ {t} : v.role[u] = w.role[u]
         /\ v.serial = IF "HasToSend" \in w.role[t].flags THEN w.serial ELSE w.serial + 1
         /\ \E c \in ConfType :
              /\ v.role[t] = [w.role[t] EXCEPT !.conf = c]
              /\ c.state = w.role[t].conf.state /\ c.size = w.role[t].conf.size
              /\ c.serial = IF "HasToSend" \in w.role[t].flags
                            THEN w.role[t].conf.serial ELSE v.serial
<1>1. w.role[t] \in RoleType /\ w.role[t].conf \in ConfType /\ w.serial \in Nat
  BY WorldsOK DEF RoleType
<1>2. CASE "HasToSend" \in w.role[t].flags
  <2>1. UpdateSerial(w, t) = w
    BY <1>2 DEF UpdateSerial
  <2>2. w.role[t] = [w.role[t] EXCEPT !.conf = w.role[t].conf]
    BY <1>1 DEF RoleType
  <2> QED  BY <1>1, <1>2, <2>1, <2>2
<1>3. CASE "HasToSend" \notin w.role[t].flags
  <2> DEFINE c == [w.role[t].conf EXCEPT !.serial = w.serial + 1]
             r == [w.role[t] EXCEPT !.conf = c]
             x == [w EXCEPT !.role = [w.role EXCEPT ![t] = r]]
             v == [x EXCEPT !.serial = w.serial + 1]
  <2>1. UpdateSerial(w, t) = v
    BY <1>3 DEF UpdateSerial
  <2>2. /\ c \in ConfType /\ c.serial = w.serial + 1
        /\ c.state = w.role[t].conf.state /\ c.size = w.role[t].conf.size
    BY <1>1 DEF ConfType
  <2> HIDE DEF c
  <2>3. r \in RoleType
    BY <1>1, <2>2 DEF RoleType
  <2> HIDE DEF r
  <2>4. /\ x \in Worlds /\ x.active = w.active
        /\ x.role[t] = r /\ \A u \in Toplevels \ {t} : x.role[u] = w.role[u]
    BY <2>3, PutRole
  <2> HIDE DEF x
  <2>5. v \in Worlds /\ v.active = x.active /\ v.role = x.role /\ v.serial = w.serial + 1
    BY <1>1, <2>4 DEF Worlds
  <2> HIDE DEF v
  <2>6. v.role[t] = [w.role[t] EXCEPT !.conf = c]
    BY <2>4, <2>5 DEF r
  <2> QED  BY <1>3, <2>1, <2>2, <2>4, <2>5, <2>6
<1> QED  BY <1>2, <1>3

(* A state or a size is asked of t. *)
Asked(w, v, t) ==
  LET r == w.role[t]
      q == v.role[t]
  IN /\ v \in Worlds /\ v.active = w.active
     /\ \A u \in Toplevels \ {t} : v.role[u] = w.role[u]
     /\ v.serial = IF "HasToSend" \in r.flags THEN w.serial ELSE w.serial + 1
     /\ q.conf.serial = IF "HasToSend" \in r.flags THEN r.conf.serial ELSE v.serial
     /\ q.flags = r.flags \cup {"HasToSend"}
     /\ q.mapped = r.mapped /\ q.sent = r.sent /\ q.ack = r.ack /\ q.resize = r.resize
     /\ q.cur = r.cur /\ q.pend = r.pend /\ q.pendingGeometry = r.pendingGeometry
     /\ q.geometrySet = r.geometrySet

LEMMA AskedTouched ==
  ASSUME NEW w \in Worlds, NEW t \in Toplevels, NEW v, Asked(w, v, t),
         "Resizing" \in v.role[t].conf.state =>
           "Resizing" \in w.role[t].conf.state \/ w.role[t].resize.active
  PROVE  Touched(w, v, t) /\ Keeps(w.role[t], v.role[t])
<1>1. w.serial \in Nat /\ v.serial \in Nat /\ None \notin Toplevels /\ v.active = w.active
  BY WorldsOK, ConfigureAssumption DEF Asked
<1>2. \A u \in Toplevels : Configured(w.role[u], v.role[u], w.serial, v.serial)
  <2> TAKE u \in Toplevels
  <2>1. CASE u = t
    BY <1>1, <2>1 DEF Asked, Configured
  <2>2. CASE u # t
    <3>1. v.role[u] = w.role[u]
      BY <2>2 DEF Asked
    <3> QED  BY <3>1 DEF Configured
  <2> QED  BY <2>1, <2>2
<1>3. \A u \in Toplevels \ {t} : Keeps(w.role[u], v.role[u])
  BY DEF Asked, Keeps
<1>4. v \in Worlds /\ w.serial <= v.serial /\ Keeps(w.role[t], v.role[t])
  BY <1>1 DEF Asked, Keeps
<1> QED  BY <1>1, <1>2, <1>3, <1>4 DEF Touched

LEMMA ConfigureStateOK ==
  ASSUME NEW w \in Worlds, NEW t \in Toplevels, NEW S \in SUBSET States
  PROVE  LET v == ConfigureState(w, t, S) IN
         /\ Asked(w, v, t)
         /\ v.role[t].conf.state = S /\ v.role[t].conf.size = w.role[t].conf.size
<1> DEFINE x == UpdateSerial(w, t)
           r == x.role[t]
<1>1. PICK c \in ConfType :
        /\ x.role[t] = [w.role[t] EXCEPT !.conf = c]
        /\ c.state = w.role[t].conf.state /\ c.size = w.role[t].conf.size
        /\ c.serial = IF "HasToSend" \in w.role[t].flags THEN w.role[t].conf.serial ELSE x.serial
  BY UpdateSerialOK
<1>2. /\ x \in Worlds /\ x.active = w.active
      /\ \A u \in Toplevels \ {t} : x.role[u] = w.role[u]
      /\ x.serial = IF "HasToSend" \in w.role[t].flags THEN w.serial ELSE w.serial + 1
  BY UpdateSerialOK
<1> DEFINE d == [r.conf EXCEPT !.state = S]
           p == [r EXCEPT !.flags = r.flags \cup {"HasToSend"}]
           q == [p EXCEPT !.conf = d]
           v == [x EXCEPT !.role = [x.role EXCEPT ![t] = q]]
<1>3. ConfigureState(w, t, S) = v
  BY DEF ConfigureState
<1> HIDE DEF x
<1>4. /\ r \in RoleType /\ r.conf = c /\ r.flags = w.role[t].flags
      /\ r.mapped = w.role[t].mapped /\ r.sent = w.role[t].sent /\ r.ack = w.role[t].ack
      /\ r.resize = w.role[t].resize /\ r.cur = w.role[t].cur /\ r.pend = w.role[t].pend
      /\ r.pendingGeometry = w.role[t].pendingGeometry /\ r.geometrySet = w.role[t].geometrySet
  BY <1>1, <1>2, WorldsOK DEF RoleType
<1> HIDE DEF r
<1>5. d \in ConfType /\ d.serial = c.serial /\ d.state = S /\ d.size = c.size
  BY <1>4 DEF ConfType
<1>6. p \in RoleType
  BY <1>4 DEF RoleType, Flags
<1> HIDE DEF d
<1>7. q \in RoleType /\ q.conf = d /\ q.flags = r.flags \cup {"HasToSend"}
  BY <1>4, <1>5, <1>6 DEF RoleType
<1>8. /\ q.mapped = r.mapped /\ q.sent = r.sent /\ q.ack = r.ack
      /\ q.resize = r.resize /\ q.cur = r.cur /\ q.pend = r.pend
      /\ q.pendingGeometry = r.pendingGeometry /\ q.geometrySet = r.geometrySet
  BY <1>4, <1>6 DEF RoleType
<1> HIDE DEF q
<1>9. /\ v \in Worlds /\ v.active = x.active /\ v.serial = x.serial
      /\ v.role[t] = q /\ \A u \in Toplevels \ {t} : v.role[u] = x.role[u]
  BY <1>2, <1>7, PutRole
<1> HIDE DEF v
<1> QED  BY <1>1, <1>2, <1>3, <1>4, <1>5, <1>7, <1>8, <1>9 DEF Asked

LEMMA ConfigureSizeOK ==
  ASSUME NEW w \in Worlds, NEW t \in Toplevels, NEW n \in Sizes
  PROVE  LET v == ConfigureSize(w, t, n) IN
         /\ Asked(w, v, t)
         /\ v.role[t].conf.state = w.role[t].conf.state /\ v.role[t].conf.size = n
<1> DEFINE x == UpdateSerial(w, t)
           r == x.role[t]
<1>1. PICK c \in ConfType :
        /\ x.role[t] = [w.role[t] EXCEPT !.conf = c]
        /\ c.state = w.role[t].conf.state /\ c.size = w.role[t].conf.size
        /\ c.serial = IF "HasToSend" \in w.role[t].flags THEN w.role[t].conf.serial ELSE x.serial
  BY UpdateSerialOK
<1>2. /\ x \in Worlds /\ x.active = w.active
      /\ \A u \in Toplevels \ {t} : x.role[u] = w.role[u]
      /\ x.serial = IF "HasToSend" \in w.role[t].flags THEN w.serial ELSE w.serial + 1
  BY UpdateSerialOK
<1> DEFINE d == [r.conf EXCEPT !.size = n]
           p == [r EXCEPT !.flags = r.flags \cup {"HasToSend"}]
           q == [p EXCEPT !.conf = d]
           v == [x EXCEPT !.role = [x.role EXCEPT ![t] = q]]
<1>3. ConfigureSize(w, t, n) = v
  BY DEF ConfigureSize
<1> HIDE DEF x
<1>4. /\ r \in RoleType /\ r.conf = c /\ r.flags = w.role[t].flags
      /\ r.mapped = w.role[t].mapped /\ r.sent = w.role[t].sent /\ r.ack = w.role[t].ack
      /\ r.resize = w.role[t].resize /\ r.cur = w.role[t].cur /\ r.pend = w.role[t].pend
      /\ r.pendingGeometry = w.role[t].pendingGeometry /\ r.geometrySet = w.role[t].geometrySet
  BY <1>1, <1>2, WorldsOK DEF RoleType
<1> HIDE DEF r
<1>5. d \in ConfType /\ d.serial = c.serial /\ d.state = c.state /\ d.size = n
  BY <1>4 DEF ConfType
<1>6. p \in RoleType
  BY <1>4 DEF RoleType, Flags
<1> HIDE DEF d
<1>7. q \in RoleType /\ q.conf = d /\ q.flags = r.flags \cup {"HasToSend"}
  BY <1>4, <1>5, <1>6 DEF RoleType
<1>8. /\ q.mapped = r.mapped /\ q.sent = r.sent /\ q.ack = r.ack
      /\ q.resize = r.resize /\ q.cur = r.cur /\ q.pend = r.pend
      /\ q.pendingGeometry = r.pendingGeometry /\ q.geometrySet = r.geometrySet
  BY <1>4, <1>6 DEF RoleType
<1> HIDE DEF q
<1>9. /\ v \in Worlds /\ v.active = x.active /\ v.serial = x.serial
      /\ v.role[t] = q /\ \A u \in Toplevels \ {t} : v.role[u] = x.role[u]
  BY <1>2, <1>7, PutRole
<1> HIDE DEF v
<1> QED  BY <1>1, <1>2, <1>3, <1>4, <1>5, <1>7, <1>8, <1>9 DEF Asked

LEMMA StatesOK ==
  ASSUME NEW r \in RoleType
  PROVE  /\ r.conf.state \in SUBSET States /\ r.cur.state \in SUBSET States
         /\ r.pend.state \in SUBSET States /\ r.ack.state \in SUBSET States
         /\ r.flags \in SUBSET Flags
         /\ r.conf \in ConfType /\ r.ack \in ConfType /\ r.sent \in Seq(ConfType)
         /\ r.cur \in AtomsType /\ r.pend \in AtomsType /\ r.resize \in ResizeType
         /\ r.conf.serial \in Nat /\ r.ack.serial \in Nat /\ r.cur.serial \in Nat /\ r.pend.serial \in Nat
BY DEF RoleType, ConfType, AtomsType

LEMMA TouchedSame ==
  ASSUME NEW w \in Worlds, NEW t \in Toplevels
  PROVE  Touched(w, w, t) /\ Keeps(w.role[t], w.role[t])
BY WorldsOK DEF Touched, Keeps, Configured

LEMMA TakeActiveOK ==
  ASSUME NEW w \in Worlds, NEW t \in Toplevels
  PROVE  LET v == TakeActive(w, t) IN
         /\ Touched(w, v, t) /\ v.active = t /\ v.role[t] = w.role[t]
<1> DEFINE other == w.active
           p == [w.role[other] EXCEPT !.flags = w.role[other].flags \cup {"ForceRemoveActivatedFlag"}]
           f == [w EXCEPT !.role = [w.role EXCEPT ![other] = p]]
           S == w.role[other].conf.state \ {"Activated"}
           d == ConfigureState(f, other, S)
           k == IF other \in {None, t} THEN w ELSE d
           v == [k EXCEPT !.active = t]
<1> USE ConfigureAssumption
<1>1. TakeActive(w, t) = v
  BY DEF TakeActive
<1>2. /\ k \in Worlds /\ k.role[t] = w.role[t] /\ w.serial <= k.serial
      /\ \A u \in Toplevels :
           /\ Configured(w.role[u], k.role[u], w.serial, k.serial)
           /\ Keeps(w.role[u], k.role[u])
           /\ u = w.active /\ u # t =>
                {"HasToSend", "ForceRemoveActivatedFlag"} \subseteq k.role[u].flags
  <2>1. CASE other \in {None, t}
    <3>1. k = w /\ (other = None \/ other = t)
      BY <2>1
    <3>2. Touched(w, w, t) /\ Keeps(w.role[t], w.role[t])
      BY TouchedSame
    <3> QED  BY <3>1, <3>2, WorldsOK DEF Touched, Keeps
  <2>2. CASE other \notin {None, t}
    <3>1. k = d /\ other \in Toplevels /\ other # t
      BY <2>2, WorldsOK
    <3>2. p \in RoleType
      <4>1. w.role[other] \in RoleType
        BY <3>1, WorldsOK
      <4>2. w.role[other].flags \cup {"ForceRemoveActivatedFlag"} \in SUBSET Flags
        BY <4>1 DEF RoleType, Flags
      <4> QED  BY <4>1, <4>2 DEF RoleType
    <3>3. /\ p.flags = w.role[other].flags \cup {"ForceRemoveActivatedFlag"}
          /\ p.mapped = w.role[other].mapped /\ p.sent = w.role[other].sent /\ p.ack = w.role[other].ack
          /\ p.conf = w.role[other].conf /\ p.resize = w.role[other].resize
          /\ p.cur = w.role[other].cur /\ p.pend = w.role[other].pend
      BY <3>1, WorldsOK DEF RoleType
    <3>4. S \in SUBSET States
      BY <3>1, WorldsOK, StatesOK
    <3>4a. "Resizing" \in S => "Resizing" \in p.conf.state
      BY <3>3
    <3> HIDE DEF p, S
    <3>5. /\ f \in Worlds /\ f.active = w.active /\ f.serial = w.serial
          /\ f.role[other] = p /\ \A u \in Toplevels \ {other} : f.role[u] = w.role[u]
      BY <3>1, <3>2, PutRole
    <3> HIDE DEF f
    <3>6. /\ Asked(f, d, other) /\ d.role[other].conf.state = S
      BY <3>1, <3>4, <3>5, ConfigureStateOK
    <3> HIDE DEF d
    <3>7. Touched(f, d, other) /\ Keeps(f.role[other], d.role[other])
      BY <3>1, <3>4a, <3>5, <3>6, AskedTouched
    <3>8. Touched(w, f, other) /\ Keeps(w.role[other], f.role[other])
      <4>1. \A u \in Toplevels : /\ Configured(w.role[u], f.role[u], w.serial, f.serial)
                                 /\ Keeps(w.role[u], f.role[u])
        BY <3>3, <3>5, WorldsOK DEF Configured, Keeps
      <4> QED  BY <3>1, <3>5, <4>1, WorldsOK DEF Touched
    <3>9. Touched(w, d, other) /\ Keeps(w.role[other], d.role[other])
      BY <3>1, <3>7, <3>8, TouchedTransitive
    <3>10. {"HasToSend", "ForceRemoveActivatedFlag"} \subseteq d.role[other].flags
      BY <3>3, <3>5, <3>6 DEF Asked
    <3>11. d.role[t] = w.role[t]
      BY <3>1, <3>5, <3>6 DEF Asked
    <3> QED  BY <3>1, <3>9, <3>10, <3>11 DEF Touched
  <2> QED  BY <2>1, <2>2
<1> HIDE DEF k
<1>3. v \in Worlds /\ v.role = k.role /\ v.serial = k.serial /\ v.active = t
  BY <1>2 DEF Worlds
<1> HIDE DEF v
<1> QED  BY <1>1, <1>2, <1>3 DEF Touched

LEMMA AtomsChangedOK ==
  ASSUME NEW w \in Worlds, NEW t \in Toplevels, NEW prev \in AtomsType
  PROVE  LET v == AtomsChanged(w, t, prev) IN
         /\ Touched(w, v, t) /\ Keeps(w.role[t], v.role[t]) /\ v.active = w.active
         /\ "Maximized" \notin w.role[t].cur.state =>
              /\ v.serial = w.serial /\ v.role[t].conf = w.role[t].conf
              /\ \A u \in Toplevels \ {t} : v.role[u] = w.role[u]
<1> DEFINE r == w.role[t]
           maximized == "Maximized" \in r.cur.state
           changed == maximized # ("Maximized" \in prev.state)
           s == ConfigureSize(w, t, 0)
           S == r.conf.state \ {"Maximized"}
           k == ConfigureState(s, t, S)
           v == IF changed /\ maximized /\ ~r.exclusiveOutput THEN k ELSE w
           q == [v.role[t] EXCEPT !.exclusiveOutput = FALSE]
           x == [v EXCEPT !.role = [v.role EXCEPT ![t] = q]]
<1>1. AtomsChanged(w, t, prev) =
        IF changed /\ "Maximized" \notin v.role[t].conf.state THEN x ELSE v
  BY DEF AtomsChanged
<1>2. /\ Touched(w, v, t) /\ Keeps(w.role[t], v.role[t]) /\ v.active = w.active
      /\ ~maximized => v = w
  <2>0. 0 \in Sizes /\ S \in SUBSET States
    BY WorldsOK, StatesOK DEF Sizes
  <2>1. Asked(w, s, t) /\ s.role[t].conf.state = r.conf.state
    BY <2>0, ConfigureSizeOK
  <2>2. s \in Worlds /\ s.active = w.active
    BY <2>1 DEF Asked
  <2> HIDE DEF s, S
  <2>3. Asked(s, k, t) /\ k.role[t].conf.state = S
    BY <2>0, <2>2, ConfigureStateOK
  <2> HIDE DEF k
  <2>4. Touched(w, s, t) /\ Keeps(w.role[t], s.role[t])
    BY <2>1, AskedTouched
  <2>5. Touched(s, k, t) /\ Keeps(s.role[t], k.role[t])
    BY <2>1, <2>2, <2>3, AskedTouched DEF S
  <2>6. Touched(w, k, t) /\ Keeps(w.role[t], k.role[t])
    BY <2>4, <2>5, TouchedTransitive
  <2>7. k.active = w.active
    BY <2>2, <2>3 DEF Asked
  <2> QED  BY <2>6, <2>7, TouchedSame
<1> HIDE DEF v
<1>3. v \in Worlds /\ v.role[t] \in RoleType
  BY <1>2, WorldsOK DEF Touched
<1>4. q \in RoleType
  BY <1>3 DEF RoleType
<1>5. /\ q.mapped = v.role[t].mapped /\ q.sent = v.role[t].sent /\ q.ack = v.role[t].ack
      /\ q.flags = v.role[t].flags /\ q.conf = v.role[t].conf /\ q.resize = v.role[t].resize
      /\ q.cur = v.role[t].cur /\ q.pend = v.role[t].pend
  BY <1>3 DEF RoleType
<1> HIDE DEF q
<1>6. /\ x \in Worlds /\ x.active = v.active /\ x.serial = v.serial
      /\ x.role[t] = q /\ \A u \in Toplevels \ {t} : x.role[u] = v.role[u]
  BY <1>3, <1>4, PutRole
<1> HIDE DEF x
<1>7. Touched(v, x, t) /\ Keeps(v.role[t], x.role[t])
  <2>1. \A u \in Toplevels : /\ Configured(v.role[u], x.role[u], v.serial, x.serial)
                             /\ Keeps(v.role[u], x.role[u])
    BY <1>3, <1>5, <1>6, WorldsOK DEF Configured, Keeps
  <2> QED  BY <1>3, <1>6, <2>1, WorldsOK DEF Touched
<1>8. Touched(w, x, t) /\ Keeps(w.role[t], x.role[t])
  BY <1>2, <1>7, TouchedTransitive
<1> QED  BY <1>1, <1>2, <1>5, <1>6, <1>8

LEMMA HandleGeometryChangeOK ==
  ASSUME NEW w \in Worlds, NEW t \in Toplevels
  PROVE  LET v == HandleGeometryChange(w, t) IN
         /\ Touched(w, v, t) /\ Keeps(w.role[t], v.role[t]) /\ v.active = w.active
         /\ v.serial = w.serial /\ v.role[t].conf = w.role[t].conf
         /\ \A u \in Toplevels \ {t} : v.role[u] = w.role[u]
<1> DEFINE r == w.role[t]
           z == [r.resize EXCEPT !.handled = TRUE, !.timer = FALSE]
           q == [r EXCEPT !.resize = z]
           v == [w EXCEPT !.role = [w.role EXCEPT ![t] = q]]
<1>1. \/ HandleGeometryChange(w, t) = w
      \/ ~r.resize.active /\ HandleGeometryChange(w, t) = v
  BY DEF HandleGeometryChange
<1>2. r \in RoleType /\ r.resize \in ResizeType
  BY WorldsOK, StatesOK
<1>3. z \in ResizeType /\ z.active = r.resize.active /\ z.handled = TRUE /\ z.timer = FALSE
  BY <1>2 DEF ResizeType
<1> HIDE DEF z
<1>4. q \in RoleType
  BY <1>2, <1>3 DEF RoleType
<1>5. /\ q.mapped = r.mapped /\ q.sent = r.sent /\ q.ack = r.ack /\ q.flags = r.flags
      /\ q.conf = r.conf /\ q.resize = z /\ q.cur = r.cur /\ q.pend = r.pend
  BY <1>2 DEF RoleType
<1> HIDE DEF q
<1>6. /\ v \in Worlds /\ v.active = w.active /\ v.serial = w.serial
      /\ v.role[t] = q /\ \A u \in Toplevels \ {t} : v.role[u] = w.role[u]
  BY <1>4, PutRole
<1> HIDE DEF v
<1>7. ~r.resize.active => Touched(w, v, t) /\ Keeps(w.role[t], v.role[t])
  <2> SUFFICES ASSUME ~r.resize.active PROVE Touched(w, v, t) /\ Keeps(w.role[t], v.role[t])
    OBVIOUS
  <2>1. \A u \in Toplevels : /\ Configured(w.role[u], v.role[u], w.serial, v.serial)
                             /\ Keeps(w.role[u], v.role[u])
    <3>1. Timed(z)
      BY <1>3 DEF Timed
    <3>2. Configured(r, q, w.serial, v.serial) /\ Keeps(r, q)
      BY <1>3, <1>5, <3>1 DEF Configured, Keeps
    <3>3. \A u \in Toplevels : Configured(w.role[u], w.role[u], w.serial, v.serial)
      BY DEF Configured
    <3> QED  BY <1>6, <3>2, <3>3 DEF Keeps
  <2> QED  BY <1>6, <2>1, WorldsOK DEF Touched
<1> QED  BY <1>1, <1>5, <1>6, <1>7, TouchedSame

(* The slots after a full update that exchanged them, or had nothing to exchange. *)
LEMMA FullAtomsUpdateOK ==
  ASSUME NEW w \in Worlds, NEW t \in Toplevels, NEW g \in AllGeometries
  PROVE  LET v == FullAtomsUpdate(w, t, g)
             r == w.role[t]
             q == v.role[t]
             newSerial == r.pend.serial # r.cur.serial
         IN /\ Touched(w, v, t)
            /\ q.pend.geometry = q.cur.geometry
            /\ q.cur.serial = r.pend.serial /\ q.pend.serial = r.pend.serial
            /\ newSerial => q.cur.state = r.pend.state /\ q.pend.state = r.pend.state
            /\ ~newSerial => \/ q.cur.state = r.cur.state /\ q.pend.state = r.pend.state
                             \/ q.cur.state = r.pend.state /\ q.pend.state = r.cur.state
            /\ newSerial /\ "Activated" \in r.pend.state \ r.cur.state => v.active = t
            /\ ~(newSerial /\ "Activated" \in r.pend.state \ r.cur.state) => v.active = w.active
            /\ r.pend.state = {} =>
                 /\ v.serial = w.serial /\ q.conf = r.conf
                 /\ \A u \in Toplevels \ {t} : v.role[u] = w.role[u]
<1> DEFINE r == w.role[t]
           next == NextAtoms(r, g)
           newSerial == next.serial # r.cur.serial
           newGeometry == next.geometry # r.cur.geometry
           a == IF newSerial THEN TakeIfActivated(w, t, next.state) ELSE w
           c == Exchange(a, t, next)
           d == AtomsChanged(c, t, r.cur)
           e == Stay(w, t, next)
           x == IF newGeometry THEN HandleGeometryChange(d, t) ELSE d
           v == IF ~newSerial /\ ~newGeometry THEN e ELSE x
           shown == newSerial /\ "Activated" \in next.state \ r.cur.state
<1>1. FullAtomsUpdate(w, t, g) = v
  <2>1. ApplyAtoms(w, t, next) = x
    BY DEF ApplyAtoms
  <2> HIDE DEF x, e
  <2>2. FullAtomsUpdate(w, t, g) =
          IF next.serial = r.cur.serial /\ next.geometry = r.cur.geometry
          THEN Stay(w, t, next) ELSE ApplyAtoms(w, t, next)
    BY DEF FullAtomsUpdate
  <2> QED  BY <2>1, <2>2 DEF e
<1>2. /\ r \in RoleType /\ r.pend \in AtomsType /\ r.cur \in AtomsType
      /\ r.pendingGeometry \in AllGeometries /\ r.cur.geometry \in AllGeometries
  BY WorldsOK DEF RoleType, AtomsType
<1>3. /\ next \in AtomsType /\ next.serial = r.pend.serial /\ next.state = r.pend.state
  BY <1>2 DEF NextAtoms, AtomsType
<1> HIDE DEF next
<1>4. /\ Touched(w, a, t) /\ a.role[t] = r /\ a.active = IF shown THEN t ELSE w.active
      /\ ~shown => a = w
  BY TakeActiveOK, TouchedSame DEF TakeIfActivated
<1> HIDE DEF a
<1>5. a \in Worlds
  BY <1>4 DEF Touched
<1>9. w.serial \in Nat /\ a.serial \in Nat /\ w.serial <= a.serial
  BY <1>4, <1>5, WorldsOK DEF Touched
<1> DEFINE Changes(y, cur, pend) ==
             /\ y \in Worlds /\ y.active = a.active /\ y.serial = a.serial
             /\ y.role[t].cur = cur /\ y.role[t].pend = pend
             /\ \A u \in Toplevels \ {t} : y.role[u] = a.role[u]
             /\ y.role[t].conf = r.conf
             /\ Touched(w, y, t)
<1>10. ASSUME NEW z, NEW q \in RoleType, z = [a EXCEPT !.role = [a.role EXCEPT ![t] = q]],
              q.mapped = r.mapped, q.sent = r.sent, q.ack = r.ack,
              q.flags = r.flags, q.conf = r.conf, q.resize = r.resize
       PROVE  Changes(z, q.cur, q.pend)
  <2>1. /\ z \in Worlds /\ z.active = a.active /\ z.serial = a.serial
        /\ z.role[t] = q /\ \A u \in Toplevels \ {t} : z.role[u] = a.role[u]
    BY <1>5, <1>10, PutRole
  <2>2. Configured(r, q, w.serial, z.serial)
    BY <1>10 DEF Configured
  <2>3. Touched(w, z, t)
    BY <1>4, <1>9, <2>1, <2>2 DEF Touched
  <2> QED  BY <1>10, <2>1, <2>3
<1>11. ~newSerial => Changes(e, r.cur, next)
  <2> SUFFICES ASSUME ~newSerial PROVE Changes(e, r.cur, next)
    OBVIOUS
  <2> DEFINE o == [r EXCEPT !.pend = next]
             q == [o EXCEPT !.pendingGeometry = 0]
  <2>1. e = [a EXCEPT !.role = [a.role EXCEPT ![t] = q]]
    <3>1. a = w
      BY <1>4
    <3>2. q = [r EXCEPT !.pend = next, !.pendingGeometry = 0]
      OBVIOUS
    <3> HIDE DEF q
    <3> QED  BY <3>1, <3>2 DEF Stay
  <2>2. /\ o \in RoleType /\ o.cur = r.cur /\ o.pend = next
        /\ o.mapped = r.mapped /\ o.sent = r.sent /\ o.ack = r.ack
        /\ o.flags = r.flags /\ o.conf = r.conf /\ o.resize = r.resize
    BY <1>2, <1>3 DEF RoleType
  <2> HIDE DEF o
  <2>3. /\ q \in RoleType /\ q.cur = r.cur /\ q.pend = next
        /\ q.mapped = r.mapped /\ q.sent = r.sent /\ q.ack = r.ack
        /\ q.flags = r.flags /\ q.conf = r.conf /\ q.resize = r.resize
    BY <2>2 DEF RoleType, AllGeometries
  <2> HIDE DEF q, e, Changes
  <2>4. Changes(e, q.cur, q.pend)
    BY <1>10, <2>1, <2>3
  <2> QED  BY <2>3, <2>4
<1> DEFINE left == IF newSerial THEN next ELSE [next EXCEPT !.state = r.cur.state]
<1>12. /\ left \in AtomsType /\ left.serial = next.serial /\ left.geometry = next.geometry
       /\ left.state = IF newSerial THEN next.state ELSE r.cur.state
  BY <1>2, <1>3 DEF AtomsType
<1>13. Changes(c, next, left)
  <2> DEFINE o == [r EXCEPT !.cur = next]
             m == [o EXCEPT !.pend = left]
             q == [m EXCEPT !.pendingGeometry = 0]
  <2>1. c = [a EXCEPT !.role = [a.role EXCEPT ![t] = q]]
    <3>1. q = [r EXCEPT !.cur = next, !.pend = left, !.pendingGeometry = 0]
      OBVIOUS
    <3>2. c = [a EXCEPT !.role = [a.role EXCEPT
                 ![t] = [r EXCEPT !.cur = next, !.pend = left, !.pendingGeometry = 0]]]
      BY <1>4 DEF Exchange
    <3> HIDE DEF q
    <3> QED  BY <3>1, <3>2
  <2> HIDE DEF left
  <2>2. /\ o \in RoleType /\ o.cur = next
        /\ o.mapped = r.mapped /\ o.sent = r.sent /\ o.ack = r.ack
        /\ o.flags = r.flags /\ o.conf = r.conf /\ o.resize = r.resize
    BY <1>2, <1>3 DEF RoleType
  <2> HIDE DEF o
  <2>3. /\ m \in RoleType /\ m.cur = next /\ m.pend = left
        /\ m.mapped = r.mapped /\ m.sent = r.sent /\ m.ack = r.ack
        /\ m.flags = r.flags /\ m.conf = r.conf /\ m.resize = r.resize
    BY <1>12, <2>2 DEF RoleType
  <2> HIDE DEF m
  <2>4. /\ q \in RoleType /\ q.cur = next /\ q.pend = left
        /\ q.mapped = r.mapped /\ q.sent = r.sent /\ q.ack = r.ack
        /\ q.flags = r.flags /\ q.conf = r.conf /\ q.resize = r.resize
    BY <2>3 DEF RoleType, AllGeometries
  <2> HIDE DEF q, c, Changes
  <2>5. Changes(c, q.cur, q.pend)
    BY <1>10, <2>1, <2>4
  <2> QED  BY <2>4, <2>5
<1> HIDE DEF c, e, left
<1>14. c \in Worlds /\ Touched(w, c, t) /\ c.active = a.active /\ c.role[t].cur = next /\ c.role[t].pend = left
  BY <1>13
<1>15. /\ Touched(c, d, t) /\ Keeps(c.role[t], d.role[t]) /\ d.active = c.active
       /\ r.pend.state = {} =>
            /\ d.serial = c.serial /\ d.role[t].conf = c.role[t].conf
            /\ \A u \in Toplevels \ {t} : d.role[u] = c.role[u]
  <2>1. Touched(c, d, t) /\ Keeps(c.role[t], d.role[t]) /\ d.active = c.active
    BY <1>2, <1>14, AtomsChangedOK
  <2>2. "Maximized" \notin c.role[t].cur.state =>
           /\ d.serial = c.serial /\ d.role[t].conf = c.role[t].conf
           /\ \A u \in Toplevels \ {t} : d.role[u] = c.role[u]
    BY <1>2, <1>14, AtomsChangedOK
  <2> QED  BY <1>3, <1>14, <2>1, <2>2
<1> HIDE DEF d
<1>16. d \in Worlds /\ Touched(w, d, t) /\ d.active = a.active /\ d.role[t].cur = next /\ d.role[t].pend = left
  BY <1>14, <1>15, TouchedTransitive DEF Touched, Keeps
<1> DEFINE h == HandleGeometryChange(d, t)
<1>17. /\ Touched(d, h, t) /\ Keeps(d.role[t], h.role[t]) /\ h.active = d.active
       /\ h.serial = d.serial /\ h.role[t].conf = d.role[t].conf
       /\ \A u \in Toplevels \ {t} : h.role[u] = d.role[u]
  BY <1>16, HandleGeometryChangeOK
<1> HIDE DEF h
<1>18. Touched(w, h, t) /\ h.active = a.active /\ h.role[t].cur = next /\ h.role[t].pend = left
  BY <1>16, <1>17, TouchedTransitive DEF Keeps
<1>19. /\ Touched(w, v, t) /\ v.active = a.active
       /\ \/ ~newSerial /\ ~newGeometry /\ v.role[t].cur = r.cur /\ v.role[t].pend = next
          \/ (newSerial \/ newGeometry) /\ v.role[t].cur = next /\ v.role[t].pend = left
       /\ r.pend.state = {} =>
            /\ v.serial = a.serial /\ v.role[t].conf = r.conf
            /\ \A u \in Toplevels \ {t} : v.role[u] = a.role[u]
  <2>1. CASE ~newSerial /\ ~newGeometry
    <3>1. v = e
      BY <2>1
    <3> HIDE DEF v
    <3> QED  BY <1>11, <2>1, <3>1
  <2>2. CASE newGeometry
    <3>1. v = h
      BY <2>2 DEF h
    <3> HIDE DEF v
    <3>2. r.pend.state = {} =>
            /\ h.serial = a.serial /\ h.role[t].conf = r.conf
            /\ \A u \in Toplevels \ {t} : h.role[u] = a.role[u]
      BY <1>13, <1>15, <1>17
    <3> QED  BY <1>18, <2>2, <3>1, <3>2
  <2>3. CASE newSerial /\ ~newGeometry
    <3>1. v = d
      BY <2>3
    <3> HIDE DEF v
    <3>2. r.pend.state = {} =>
            /\ d.serial = a.serial /\ d.role[t].conf = r.conf
            /\ \A u \in Toplevels \ {t} : d.role[u] = a.role[u]
      BY <1>13, <1>15
    <3> QED  BY <1>16, <2>3, <3>1, <3>2
  <2> QED  BY <2>1, <2>2, <2>3
<1> HIDE DEF v
<1> QED  BY <1>1, <1>3, <1>4, <1>12, <1>19

LEMMA PartialAtomsUpdateOK ==
  ASSUME NEW w \in Worlds, NEW t \in Toplevels
  PROVE  LET v == PartialAtomsUpdate(w, t)
             r == w.role[t]
             q == v.role[t]
         IN /\ Touched(w, v, t)
            /\ q.cur.serial = r.cur.serial /\ q.cur.geometry = r.cur.geometry
            /\ q.cur.state = (r.cur.state \ Light) \cup (r.pend.state \cap Light)
            /\ q.pend = r.pend
            /\ "Activated" \in r.pend.state \ r.cur.state => v.active = t
            /\ ~("Activated" \in r.pend.state \ r.cur.state) => v.active = w.active
<1> DEFINE r == w.role[t]
           state == (r.cur.state \ Light) \cup (r.pend.state \cap Light)
           a == TakeIfActivated(w, t, r.pend.state)
           cur == [r.cur EXCEPT !.state = state]
           q == [r EXCEPT !.cur = cur]
           b == [a EXCEPT !.role = [a.role EXCEPT ![t] = q]]
           v == AtomsChanged(b, t, r.cur)
           shown == "Activated" \in r.pend.state \ r.cur.state
<1>1. r \in RoleType /\ r.pend \in AtomsType /\ r.cur \in AtomsType
  BY WorldsOK DEF RoleType
<1>2. /\ Touched(w, a, t) /\ a.role[t] = r
      /\ shown => a.active = t
      /\ ~shown => a.active = w.active
  BY TakeActiveOK, TouchedSame DEF TakeIfActivated
<1>3. PartialAtomsUpdate(w, t) = v
  BY <1>2 DEF PartialAtomsUpdate
<1> HIDE DEF a, shown
<1>4. a \in Worlds /\ w.serial \in Nat /\ a.serial \in Nat /\ w.serial <= a.serial
  BY <1>2, WorldsOK DEF Touched
<1>5. /\ cur \in AtomsType /\ cur.serial = r.cur.serial /\ cur.geometry = r.cur.geometry
      /\ cur.state = state
  BY <1>1 DEF AtomsType, Light
<1> HIDE DEF cur
<1>6. /\ q \in RoleType /\ q.cur = cur /\ q.pend = r.pend
      /\ q.mapped = r.mapped /\ q.sent = r.sent /\ q.ack = r.ack
      /\ q.flags = r.flags /\ q.conf = r.conf /\ q.resize = r.resize
  BY <1>1, <1>5 DEF RoleType
<1> HIDE DEF q
<1>7. /\ b \in Worlds /\ b.active = a.active /\ b.serial = a.serial
      /\ b.role[t] = q /\ \A u \in Toplevels \ {t} : b.role[u] = a.role[u]
  BY <1>4, <1>6, PutRole
<1> HIDE DEF b
<1>8. Configured(r, q, w.serial, b.serial)
  BY <1>6 DEF Configured
<1>9. Touched(w, b, t)
  BY <1>2, <1>4, <1>7, <1>8 DEF Touched
<1>10. Touched(b, v, t) /\ Keeps(b.role[t], v.role[t]) /\ v.active = b.active
  BY <1>1, <1>7, AtomsChangedOK
<1> HIDE DEF v
<1>11. Touched(w, v, t)
  BY <1>7, <1>9, <1>10, TouchedTransitive
<1> QED  BY <1>2, <1>3, <1>5, <1>6, <1>7, <1>10, <1>11 DEF Keeps, shown

LEMMA StopResizeOK ==
  ASSUME NEW w \in Worlds, NEW t \in Toplevels
  PROVE  LET v == StopResize(w, t)
             r == w.role[t]
             q == v.role[t]
         IN /\ v \in Worlds /\ v.active = w.active /\ w.serial <= v.serial
            /\ \A u \in Toplevels \ {t} : v.role[u] = w.role[u]
            /\ Configured(r, [q EXCEPT !.resize = r.resize], w.serial, v.serial)
            /\ Keeps(r, q) /\ ~q.resize.active
            /\ ~r.resize.active => v = w
            /\ r.resize.active => /\ q.resize.timer = ~q.resize.handled
                                  /\ "Resizing" \notin q.conf.state /\ "HasToSend" \in q.flags
<1> DEFINE r == w.role[t]
           S == r.conf.state \ {"Resizing"}
           c == ConfigureState(w, t, S)
           k == c.role[t]
           handled == k.conf.size = k.ack.size
           z == [k.resize EXCEPT !.active = FALSE, !.handled = handled, !.timer = ~handled]
           q == [k EXCEPT !.resize = z]
           v == [c EXCEPT !.role = [c.role EXCEPT ![t] = q]]
<1>1. r \in RoleType /\ r.resize \in ResizeType /\ r.conf.state \in SUBSET States
  BY WorldsOK, StatesOK
<1>2. CASE ~r.resize.active
  <2>1. StopResize(w, t) = w
    BY <1>2 DEF StopResize
  <2>2. [r EXCEPT !.resize = r.resize] = r
    BY <1>1 DEF RoleType
  <2>3. Configured(r, r, w.serial, w.serial) /\ Keeps(r, r)
    BY DEF Configured, Keeps
  <2>4. w.serial \in Nat /\ w.serial <= w.serial
    BY WorldsOK
  <2> QED  BY <1>2, <2>1, <2>2, <2>3, <2>4
<1>3. CASE r.resize.active
  <2>1. StopResize(w, t) = v
    BY <1>3 DEF StopResize
  <2>2. Asked(w, c, t) /\ c.role[t].conf.state = S
    BY <1>1, ConfigureStateOK
  <2> HIDE DEF c
  <2>3. k \in RoleType /\ k.resize \in ResizeType /\ c \in Worlds
    BY <2>2, WorldsOK, StatesOK DEF Asked
  <2>4. /\ k.resize = r.resize /\ k.cur = r.cur /\ k.pend = r.pend /\ c.active = w.active
        /\ \A u \in Toplevels \ {t} : c.role[u] = w.role[u]
    BY <2>2 DEF Asked
  <2>5. Touched(w, c, t)
    BY <2>2, AskedTouched
  <2>6. Configured(r, k, w.serial, c.serial) /\ w.serial <= c.serial
    BY <2>5 DEF Touched
  <2> HIDE DEF k
  <2>7. handled \in BOOLEAN
    OBVIOUS
  <2> HIDE DEF handled
  <2>8. z \in ResizeType /\ z.active = FALSE /\ z.timer = ~z.handled
    BY <2>3, <2>7 DEF ResizeType
  <2> HIDE DEF z
  <2>9. /\ q \in RoleType /\ q.resize = z /\ q.cur = k.cur /\ q.pend = k.pend
        /\ q.conf = k.conf /\ q.flags = k.flags /\ [q EXCEPT !.resize = k.resize] = k
    BY <2>3, <2>8 DEF RoleType
  <2> HIDE DEF q
  <2>10. /\ v \in Worlds /\ v.active = c.active /\ v.serial = c.serial
         /\ v.role[t] = q /\ \A u \in Toplevels \ {t} : v.role[u] = c.role[u]
    BY <2>3, <2>9, PutRole
  <2> HIDE DEF v
  <2>11. "Resizing" \notin q.conf.state /\ "HasToSend" \in q.flags
    BY <2>2, <2>9 DEF k, Asked
  <2> QED  BY <1>3, <2>1, <2>4, <2>6, <2>8, <2>9, <2>10, <2>11 DEF Keeps
<1> QED  BY <1>2, <1>3

-----------------------------------------------------------------------------
(* Serials grow from the slots over what is in flight to the configuration that
   waits; n is the last serial. *)
SerialInv(r, n) ==
  /\ r.conf.serial <= n /\ r.ack.serial <= n /\ r.cur.serial <= n /\ r.pend.serial <= n
  /\ \A i \in 1..Len(r.sent) :
       /\ r.ack.serial < r.sent[i].serial /\ r.cur.serial < r.sent[i].serial
       /\ r.pend.serial < r.sent[i].serial /\ r.sent[i].serial <= r.conf.serial
       /\ "HasToSend" \in r.flags => r.sent[i].serial < r.conf.serial
       /\ \A j \in 1..(i - 1) : r.sent[j].serial < r.sent[i].serial
  /\ "HasToSend" \in r.flags =>
       r.ack.serial < r.conf.serial /\ r.cur.serial < r.conf.serial /\ r.pend.serial < r.conf.serial
  /\ "HasToSend" \notin r.flags /\ r.sent # << >> => r.conf.state = r.sent[Len(r.sent)].state

(* The pending slot is the one in force, or what was acknowledged and waits for the
   commit; its light states are in force in any case. *)
SlotInv(r) ==
  /\ r.pend.geometry = r.cur.geometry
  /\ r.pend.serial = r.cur.serial => r.pend.state = r.cur.state
  /\ r.pend.serial # r.cur.serial => r.pend.serial = r.ack.serial /\ r.pend.state = r.ack.state
  /\ r.pend.state \cap Light = r.cur.state \cap Light

ResizeInv(r) ==
  /\ r.resize.active => r.mapped
  /\ Timed(r.resize)
  /\ ~r.resize.active => "Resizing" \notin r.conf.state
  /\ ~r.resize.active /\ "Resizing" \in r.cur.state => "HasToSend" \in r.flags \/ r.sent # << >>

RoleInv(r, n) == SerialInv(r, n) /\ SlotInv(r) /\ ResizeInv(r)

(* A toplevel that looks active and is not will be told. *)
Told(r) ==
  "Activated" \in r.cur.state =>
    \/ {"HasToSend", "ForceRemoveActivatedFlag"} \subseteq r.flags
    \/ \E i \in 1..Len(r.sent) : "Activated" \notin r.sent[i].state

WorldInv(w) ==
  /\ w \in Worlds
  /\ \A u \in Toplevels :
       /\ RoleInv(w.role[u], w.serial)
       /\ u \notin Hasty /\ u # w.active => Told(w.role[u])

LEMMA SentOK ==
  ASSUME NEW s \in Seq(ConfType), NEW i \in 1..Len(s)
  PROVE  s[i] \in ConfType /\ s[i].serial \in Nat
<1>1. s[i] \in ConfType
  OBVIOUS
<1> QED  BY <1>1 DEF ConfType

LEMMA KeptRole ==
  ASSUME NEW r \in RoleType, NEW q \in RoleType, NEW n \in Nat, NEW m \in Nat, n <= m,
         RoleInv(r, n), Configured(r, q, n, m), Keeps(r, q)
  PROVE  RoleInv(q, m) /\ (Told(r) => Told(q))
<1>1. /\ r.conf.serial \in Nat /\ r.ack.serial \in Nat /\ r.cur.serial \in Nat /\ r.pend.serial \in Nat
      /\ q.conf.serial \in Nat /\ r.sent \in Seq(ConfType)
  BY StatesOK
<1>2. \A i \in 1..Len(r.sent) : r.sent[i].serial \in Nat
  BY <1>1, SentOK
<1>3. /\ q.sent = r.sent /\ q.ack = r.ack /\ q.cur = r.cur /\ q.pend = r.pend
      /\ q.mapped = r.mapped /\ q.resize.active = r.resize.active
      /\ "HasToSend" \in r.flags => "HasToSend" \in q.flags
  BY DEF Configured, Keeps
<1>4. CASE "HasToSend" \in q.flags
  <2>1. r.conf.serial <= q.conf.serial /\ q.conf.serial <= m
    BY <1>1, <1>4 DEF Configured, RoleInv, SerialInv
  <2>2. /\ r.ack.serial < q.conf.serial /\ r.cur.serial < q.conf.serial
        /\ r.pend.serial < q.conf.serial
        /\ \A i \in 1..Len(r.sent) : r.sent[i].serial < q.conf.serial
    BY <1>1, <1>2, <1>4 DEF Configured, RoleInv, SerialInv
  <2>3. SerialInv(q, m)
    BY <1>1, <1>2, <1>3, <1>4, <2>1, <2>2 DEF RoleInv, SerialInv
  <2> QED  BY <1>3, <1>4, <2>3 DEF Configured, RoleInv, SlotInv, ResizeInv, Told
<1>5. CASE "HasToSend" \notin q.flags
  <2>1. q.conf = r.conf /\ "HasToSend" \notin r.flags
    BY <1>3, <1>5 DEF Configured
  <2>2. SerialInv(q, m)
    BY <1>1, <1>2, <1>3, <1>5, <2>1 DEF RoleInv, SerialInv
  <2> QED  BY <1>3, <2>1, <2>2 DEF Configured, RoleInv, SlotInv, ResizeInv, Told
<1> QED  BY <1>4, <1>5

LEMMA KeptInv ==
  ASSUME NEW w, NEW v, NEW t \in Toplevels, WorldInv(w), Touched(w, v, t),
         Keeps(w.role[t], v.role[t])
  PROVE  WorldInv(v)
<1>1. /\ w \in Worlds /\ v \in Worlds /\ w.serial \in Nat /\ v.serial \in Nat
      /\ w.serial <= v.serial
  BY WorldsOK DEF WorldInv, Touched
<1>2. ASSUME NEW u \in Toplevels
      PROVE  /\ RoleInv(v.role[u], v.serial)
             /\ u \notin Hasty /\ u # v.active => Told(v.role[u])
  <2>1. /\ w.role[u] \in RoleType /\ v.role[u] \in RoleType
        /\ RoleInv(w.role[u], w.serial)
        /\ u \notin Hasty /\ u # w.active => Told(w.role[u])
    BY <1>1, <1>2, WorldsOK DEF WorldInv
  <2>2. Configured(w.role[u], v.role[u], w.serial, v.serial) /\ Keeps(w.role[u], v.role[u])
    BY <1>2 DEF Touched
  <2>3. RoleInv(v.role[u], v.serial) /\ (Told(w.role[u]) => Told(v.role[u]))
    BY <1>1, <2>1, <2>2, KeptRole
  <2>4. ASSUME u \notin Hasty, u # v.active PROVE Told(v.role[u])
    <3>1. CASE u # w.active
      BY <2>1, <2>3, <2>4, <3>1
    <3>2. CASE u = w.active
      <4>1. u # t
        BY <2>4, <3>2 DEF Touched
      <4> QED  BY <1>2, <2>4, <3>2, <4>1 DEF Touched, Told
    <3> QED  BY <3>1, <3>2
  <2> QED  BY <2>3, <2>4
<1> QED  BY <1>1, <1>2 DEF WorldInv

(* t gets another role. *)
LEMMA PutInv ==
  ASSUME NEW w, NEW t \in Toplevels, NEW q \in RoleType, WorldInv(w),
         RoleInv(q, w.serial), t \notin Hasty /\ t # w.active => Told(q)
  PROVE  WorldInv([w EXCEPT !.role = [w.role EXCEPT ![t] = q]])
<1> DEFINE v == [w EXCEPT !.role = [w.role EXCEPT ![t] = q]]
<1>1. /\ v \in Worlds /\ v.active = w.active /\ v.serial = w.serial
      /\ v.role[t] = q /\ \A u \in Toplevels \ {t} : v.role[u] = w.role[u]
  BY PutRole DEF WorldInv
<1> HIDE DEF v
<1>2. WorldInv(v)
  <2> SUFFICES ASSUME NEW u \in Toplevels
               PROVE  /\ RoleInv(v.role[u], v.serial)
                      /\ u \notin Hasty /\ u # v.active => Told(v.role[u])
    BY <1>1 DEF WorldInv
  <2>1. CASE u = t
    BY <1>1, <2>1
  <2>2. CASE u # t
    BY <1>1, <2>2 DEF WorldInv
  <2> QED  BY <2>1, <2>2
<1> QED  BY <1>2 DEF v

(* A field that the properties do not mention changes. *)
LEMMA PutTouched ==
  ASSUME NEW w \in Worlds, NEW t \in Toplevels, NEW q \in RoleType,
         Configured(w.role[t], q, w.serial, w.serial), Keeps(w.role[t], q)
  PROVE  LET v == [w EXCEPT !.role = [w.role EXCEPT ![t] = q]] IN
         /\ Touched(w, v, t) /\ Keeps(w.role[t], v.role[t])
         /\ v.active = w.active /\ v.role[t] = q
<1> DEFINE v == [w EXCEPT !.role = [w.role EXCEPT ![t] = q]]
<1>1. /\ v \in Worlds /\ v.active = w.active /\ v.serial = w.serial
      /\ v.role[t] = q /\ \A u \in Toplevels \ {t} : v.role[u] = w.role[u]
  BY PutRole
<1> HIDE DEF v
<1>2. \A u \in Toplevels : Configured(w.role[u], w.role[u], w.serial, w.serial)
  BY DEF Configured
<1>3. Touched(w, v, t) /\ Keeps(w.role[t], v.role[t])
  BY <1>1, <1>2, WorldsOK DEF Touched, Keeps
<1> QED  BY <1>1, <1>3 DEF v

(* The sent, acknowledged and applied configurations of w and v are the same. *)
Same(w, v) ==
  \A u \in Toplevels : /\ v.role[u].sent = w.role[u].sent
                       /\ v.role[u].ack = w.role[u].ack
                       /\ v.role[u].cur.serial = w.role[u].cur.serial
                       /\ v.role[u].cur.state = w.role[u].cur.state

LEMMA TouchedSameProtocol ==
  ASSUME NEW w, NEW v, NEW t \in Toplevels, Touched(w, v, t), Keeps(w.role[t], v.role[t])
  PROVE  Same(w, v)
BY DEF Touched, Keeps, Configured, Same

LEMMA SetMaximizedRequestOK ==
  ASSUME NEW w \in Worlds, NEW t \in Toplevels
  PROVE  LET v == SetMaximizedRequest(w, t) IN
         Touched(w, v, t) /\ Keeps(w.role[t], v.role[t])
<1> DEFINE r == w.role[t]
           q == [r EXCEPT !.exclusiveOutput = TRUE]
           a == [w EXCEPT !.role = [w.role EXCEPT ![t] = q]]
           b == ConfigureSize(a, t, OutputWidth)
           S == {"Activated", "Maximized"}
           c == ConfigureState(b, t, S)
           v == SetMaximizedRequest(w, t)
<1>1. v = w \/ v = c
  BY DEF SetMaximizedRequest
<1> HIDE DEF v
<1>2. r \in RoleType
  BY WorldsOK
<1>3. /\ q \in RoleType
      /\ q.mapped = r.mapped /\ q.sent = r.sent /\ q.ack = r.ack /\ q.flags = r.flags
      /\ q.conf = r.conf /\ q.resize = r.resize /\ q.cur = r.cur /\ q.pend = r.pend
  BY <1>2 DEF RoleType
<1> HIDE DEF q
<1>4. Configured(r, q, w.serial, w.serial) /\ Keeps(r, q)
  BY <1>3 DEF Configured, Keeps
<1>5. Touched(w, a, t) /\ Keeps(w.role[t], a.role[t])
  BY <1>3, <1>4, PutTouched
<1> HIDE DEF a
<1>6. a \in Worlds /\ OutputWidth \in Sizes /\ S \in SUBSET States
  BY <1>5 DEF Touched, Sizes, States
<1>7. Asked(a, b, t) /\ b.role[t].conf.state = a.role[t].conf.state
  BY <1>6, ConfigureSizeOK
<1>8. Touched(a, b, t) /\ Keeps(a.role[t], b.role[t]) /\ b \in Worlds
  BY <1>6, <1>7, AskedTouched DEF Asked
<1> HIDE DEF b
<1>9. Asked(b, c, t) /\ "Resizing" \notin c.role[t].conf.state
  BY <1>6, <1>8, ConfigureStateOK
<1>10. Touched(b, c, t) /\ Keeps(b.role[t], c.role[t])
  BY <1>8, <1>9, AskedTouched
<1> HIDE DEF c
<1>11. Touched(w, b, t) /\ Keeps(w.role[t], b.role[t])
  BY <1>5, <1>8, TouchedTransitive
<1>12. Touched(w, c, t) /\ Keeps(w.role[t], c.role[t])
  BY <1>10, <1>11, TouchedTransitive
<1> QED  BY <1>1, <1>12, TouchedSame DEF v

LEMMA UnsetMaximizedRequestOK ==
  ASSUME NEW w \in Worlds, NEW t \in Toplevels, NEW n \in Sizes
  PROVE  LET v == UnsetMaximizedRequest(w, t, n) IN
         Touched(w, v, t) /\ Keeps(w.role[t], v.role[t])
<1> DEFINE S == w.role[t].conf.state \ {"Maximized"}
           b == ConfigureState(w, t, S)
           c == ConfigureSize(b, t, n)
           v == UnsetMaximizedRequest(w, t, n)
<1>1. v = w \/ v = c
  BY DEF UnsetMaximizedRequest
<1> HIDE DEF v
<1>2. S \in SUBSET States
  BY WorldsOK, StatesOK
<1>3. Asked(w, b, t) /\ b.role[t].conf.state = S
  BY <1>2, ConfigureStateOK
<1>4. Touched(w, b, t) /\ Keeps(w.role[t], b.role[t]) /\ b \in Worlds
  BY <1>3, AskedTouched DEF Asked
<1> HIDE DEF b
<1>5. Asked(b, c, t) /\ c.role[t].conf.state = b.role[t].conf.state
  BY <1>4, ConfigureSizeOK
<1>6. Touched(b, c, t) /\ Keeps(b.role[t], c.role[t])
  BY <1>4, <1>5, AskedTouched
<1> HIDE DEF c
<1>7. Touched(w, c, t) /\ Keeps(w.role[t], c.role[t])
  BY <1>4, <1>6, TouchedTransitive
<1> QED  BY <1>1, <1>7, TouchedSame DEF v

LEMMA AnsweredOK ==
  ASSUME NEW w \in Worlds, NEW t \in Toplevels
  PROVE  LET v == Answered(w, t) IN
         Touched(w, v, t) /\ Keeps(w.role[t], v.role[t])
<1> DEFINE S == w.role[t].conf.state
           b == ConfigureState(w, t, S)
<1>1. S \in SUBSET States
  BY WorldsOK, StatesOK
<1>2. Asked(w, b, t) /\ b.role[t].conf.state = S
  BY <1>1, ConfigureStateOK
<1>3. Touched(w, b, t) /\ Keeps(w.role[t], b.role[t])
  BY <1>2, AskedTouched
<1> QED  BY <1>3, TouchedSame DEF Answered

LEMMA AskedRole ==
  ASSUME NEW w, NEW v, NEW t \in Toplevels, WorldInv(w), Asked(w, v, t)
  PROVE  LET q == v.role[t] IN
         /\ SerialInv(q, v.serial) /\ SlotInv(q) /\ (Told(w.role[t]) => Told(q))
         /\ \A u \in Toplevels \ {t} :
              /\ RoleInv(v.role[u], v.serial)
              /\ u \notin Hasty /\ u # v.active => Told(v.role[u])
<1> DEFINE r == w.role[t]
           q == v.role[t]
<1>1. /\ w \in Worlds /\ v \in Worlds /\ w.serial \in Nat /\ v.serial \in Nat /\ w.serial <= v.serial
  BY WorldsOK DEF WorldInv, Asked
<1>2. r \in RoleType /\ q \in RoleType /\ RoleInv(r, w.serial)
  BY <1>1, WorldsOK DEF WorldInv
<1>3. /\ r.conf.serial \in Nat /\ r.ack.serial \in Nat /\ r.cur.serial \in Nat /\ r.pend.serial \in Nat
      /\ q.conf.serial \in Nat /\ r.sent \in Seq(ConfType)
  BY <1>2, StatesOK
<1>4. \A i \in 1..Len(r.sent) : r.sent[i].serial \in Nat
  BY <1>3, SentOK
<1>5. /\ q.sent = r.sent /\ q.ack = r.ack /\ q.cur = r.cur /\ q.pend = r.pend
      /\ q.flags = r.flags \cup {"HasToSend"}
      /\ q.conf.serial = IF "HasToSend" \in r.flags THEN r.conf.serial ELSE v.serial
      /\ v.serial = IF "HasToSend" \in r.flags THEN w.serial ELSE w.serial + 1
  BY DEF Asked
<1> HIDE DEF r, q
<1>6. SlotInv(q) /\ (Told(r) => Told(q))
  BY <1>2, <1>5 DEF RoleInv, SlotInv, Told
<1>7. /\ r.conf.serial <= w.serial /\ r.ack.serial <= w.serial /\ r.cur.serial <= w.serial
      /\ r.pend.serial <= w.serial
      /\ \A i \in 1..Len(r.sent) :
           /\ r.ack.serial < r.sent[i].serial /\ r.cur.serial < r.sent[i].serial
           /\ r.pend.serial < r.sent[i].serial /\ r.sent[i].serial <= r.conf.serial
           /\ "HasToSend" \in r.flags => r.sent[i].serial < r.conf.serial
           /\ \A j \in 1..(i - 1) : r.sent[j].serial < r.sent[i].serial
      /\ "HasToSend" \in r.flags =>
           r.ack.serial < r.conf.serial /\ r.cur.serial < r.conf.serial /\ r.pend.serial < r.conf.serial
  BY <1>2 DEF RoleInv, SerialInv
<1>8. /\ q.conf.serial <= v.serial
      /\ r.ack.serial < q.conf.serial /\ r.cur.serial < q.conf.serial
      /\ r.pend.serial < q.conf.serial
      /\ \A i \in 1..Len(r.sent) : r.sent[i].serial < q.conf.serial
  BY <1>1, <1>3, <1>4, <1>5, <1>7
<1>9. SerialInv(q, v.serial)
  BY <1>1, <1>3, <1>4, <1>5, <1>7, <1>8 DEF SerialInv
<1>10. ASSUME NEW u \in Toplevels \ {t}
       PROVE  /\ RoleInv(v.role[u], v.serial)
              /\ u \notin Hasty /\ u # v.active => Told(v.role[u])
  <2>1. /\ v.role[u] = w.role[u] /\ v.active = w.active /\ w.role[u] \in RoleType
        /\ RoleInv(w.role[u], w.serial)
        /\ u \notin Hasty /\ u # w.active => Told(w.role[u])
    BY <1>1, <1>10, WorldsOK DEF Asked, WorldInv
  <2>2. Configured(w.role[u], w.role[u], w.serial, v.serial) /\ Keeps(w.role[u], w.role[u])
    BY DEF Configured, Keeps
  <2>3. RoleInv(w.role[u], v.serial)
    BY <1>1, <2>1, <2>2, KeptRole
  <2> QED  BY <2>1, <2>3
<1> QED  BY <1>6, <1>9, <1>10 DEF r, q

(* A request with a change of the session. *)
LEMMA AskedInv ==
  ASSUME NEW w, NEW c, NEW t \in Toplevels, WorldInv(w), Asked(w, c, t),
         NEW z \in ResizeType, Timed(z), z.active => w.role[t].mapped,
         z.active \/ "Resizing" \notin c.role[t].conf.state
  PROVE  LET v == [c EXCEPT !.role = [c.role EXCEPT ![t] = [c.role[t] EXCEPT !.resize = z]]]
         IN WorldInv(v) /\ Same(w, v)
<1> DEFINE k == c.role[t]
           q == [k EXCEPT !.resize = z]
           v == [c EXCEPT !.role = [c.role EXCEPT ![t] = q]]
<1>1. c \in Worlds /\ c.active = w.active /\ k \in RoleType
  BY WorldsOK DEF Asked
<1>2. /\ SerialInv(k, c.serial) /\ SlotInv(k) /\ (Told(w.role[t]) => Told(k))
      /\ \A u \in Toplevels \ {t} :
           /\ RoleInv(c.role[u], c.serial)
           /\ u \notin Hasty /\ u # c.active => Told(c.role[u])
  BY AskedRole
<1>3. /\ k.mapped = w.role[t].mapped /\ k.sent = w.role[t].sent /\ k.ack = w.role[t].ack
      /\ k.cur = w.role[t].cur /\ "HasToSend" \in k.flags
      /\ \A u \in Toplevels \ {t} : c.role[u] = w.role[u]
  BY DEF Asked
<1> HIDE DEF k
<1>4. /\ q \in RoleType /\ q.resize = z
      /\ q.mapped = k.mapped /\ q.sent = k.sent /\ q.ack = k.ack /\ q.flags = k.flags
      /\ q.conf = k.conf /\ q.cur = k.cur /\ q.pend = k.pend
  BY <1>1 DEF RoleType
<1> HIDE DEF q
<1>5. /\ v \in Worlds /\ v.active = c.active /\ v.serial = c.serial
      /\ v.role[t] = q /\ \A u \in Toplevels \ {t} : v.role[u] = c.role[u]
  BY <1>1, <1>4, PutRole
<1> HIDE DEF v
<1>6. SerialInv(q, c.serial) /\ SlotInv(q) /\ (Told(k) => Told(q))
  BY <1>2, <1>4 DEF SerialInv, SlotInv, Told
<1>7. ResizeInv(q)
  BY <1>3, <1>4 DEF ResizeInv, k
<1>8. t \notin Hasty /\ t # v.active => Told(q)
  BY <1>1, <1>2, <1>5, <1>6 DEF WorldInv
<1>9. \A u \in Toplevels : /\ RoleInv(v.role[u], v.serial)
                           /\ u \notin Hasty /\ u # v.active => Told(v.role[u])
  BY <1>2, <1>5, <1>6, <1>7, <1>8 DEF RoleInv
<1>10. WorldInv(v) /\ Same(w, v)
  BY <1>3, <1>4, <1>5, <1>9 DEF WorldInv, Same
<1> QED  BY <1>10 DEF v, q, k

LEMMA StopResizeInv ==
  ASSUME NEW w, NEW t \in Toplevels, WorldInv(w)
  PROVE  LET v == StopResize(w, t) IN WorldInv(v) /\ Same(w, v)
<1> DEFINE r == w.role[t]
           S == r.conf.state \ {"Resizing"}
           c == ConfigureState(w, t, S)
           k == c.role[t]
           handled == k.conf.size = k.ack.size
           z == [k.resize EXCEPT !.active = FALSE, !.handled = handled, !.timer = ~handled]
           v == [c EXCEPT !.role = [c.role EXCEPT ![t] = [k EXCEPT !.resize = z]]]
<1>1. StopResize(w, t) = IF ~r.resize.active THEN w ELSE v
  BY DEF StopResize
<1>2. w \in Worlds /\ r.conf.state \in SUBSET States
  BY WorldsOK, StatesOK DEF WorldInv
<1>3. Asked(w, c, t) /\ "Resizing" \notin c.role[t].conf.state
  BY <1>2, ConfigureStateOK
<1> HIDE DEF c
<1>4. k.resize \in ResizeType
  BY <1>3, WorldsOK, StatesOK DEF Asked
<1> HIDE DEF k
<1>5. handled \in BOOLEAN
  OBVIOUS
<1> HIDE DEF handled
<1>6. z \in ResizeType /\ z.active = FALSE /\ z.timer = ~z.handled
  BY <1>4, <1>5 DEF ResizeType
<1> HIDE DEF z
<1>7. Timed(z)
  BY <1>6 DEF Timed
<1>8. WorldInv(v) /\ Same(w, v)
  BY <1>3, <1>6, <1>7, AskedInv DEF k
<1> HIDE DEF v
<1> QED  BY <1>1, <1>8 DEF Same

LEMMA BecomesOK ==
  ASSUME NEW v \in Worlds, Becomes(v)
  PROVE  World' = v
BY DEF Becomes, World, Worlds

LEMMA WorldIs ==
  World.role = role /\ World.active = activeToplevel /\ World.serial = serial
BY DEF World

LEMMA TouchedBecomes ==
  ASSUME NEW v, NEW t \in Toplevels, WorldInv(World), Touched(World, v, t),
         Keeps(World.role[t], v.role[t]), Becomes(v)
  PROVE  WorldInv(World') /\ Same(World, World')
<1>1. World' = v
  BY BecomesOK DEF Touched
<1> QED  BY <1>1, KeptInv, TouchedSameProtocol

LEMMA StartResizeOK ==
  ASSUME NEW t \in Toplevels, WorldInv(World), StartResize(t)
  PROVE  WorldInv(World') /\ Same(World, World')
<1> DEFINE w == World
           S == role[t].conf.state \cup Light
           c == ConfigureState(w, t, S)
           z == [active |-> TRUE, serial |-> c.role[t].conf.serial, handled |-> FALSE, timer |-> FALSE]
           v == [c EXCEPT !.role = [c.role EXCEPT ![t] = [c.role[t] EXCEPT !.resize = z]]]
<1>1. Becomes(v) /\ role[t].mapped
  BY DEF StartResize
<1>2. w \in Worlds /\ w.role = role
  BY WorldIs DEF WorldInv
<1> HIDE DEF w
<1>3. S \in SUBSET States
  BY <1>2, WorldsOK, StatesOK DEF Light, States
<1>4. Asked(w, c, t)
  BY <1>2, <1>3, ConfigureStateOK
<1> HIDE DEF c
<1>5. c.role[t].conf.serial \in Nat
  BY <1>4, WorldsOK, StatesOK DEF Asked
<1>6. z \in ResizeType /\ z.active /\ Timed(z)
  BY <1>5 DEF ResizeType, Timed
<1> HIDE DEF z
<1>7. WorldInv(w)
  BY DEF w
<1>8. WorldInv(v) /\ Same(w, v)
  BY <1>1, <1>2, <1>4, <1>6, <1>7, AskedInv
<1> HIDE DEF v
<1>9. World' = v
  BY <1>1, <1>8, BecomesOK DEF WorldInv
<1> QED  BY <1>8, <1>9 DEF w

LEMMA UpdateDragPointOK ==
  ASSUME NEW t \in Toplevels, WorldInv(World), UpdateDragPoint(t)
  PROVE  WorldInv(World') /\ Same(World, World')
<1> DEFINE w == World
<1>1. role[t].resize.active
  BY DEF UpdateDragPoint
<1>2. PICK n \in Widths :
        Becomes([ConfigureState(ConfigureSize(w, t, n), t, Light) EXCEPT !.role[t].resize =
          [ConfigureState(ConfigureSize(w, t, n), t, Light).role[t].resize EXCEPT
             !.serial = ConfigureState(ConfigureSize(w, t, n), t, Light).role[t].conf.serial]])
  BY DEF UpdateDragPoint
<1> DEFINE b == ConfigureSize(w, t, n)
           c == ConfigureState(b, t, Light)
           k == c.role[t]
           z == [k.resize EXCEPT !.serial = k.conf.serial]
           v == [c EXCEPT !.role = [c.role EXCEPT ![t] = [c.role[t] EXCEPT !.resize = z]]]
<1>3. Becomes(v)
  BY <1>2
<1>4. w \in Worlds /\ w.role = role /\ WorldInv(w) /\ w.role[t] \in RoleType
  BY WorldIs, WorldsOK DEF WorldInv
<1> HIDE DEF w
<1>5. n \in Sizes /\ Light \in SUBSET States
  BY DEF Sizes, Light, States
<1>6. Asked(w, b, t) /\ b.role[t].conf.state = w.role[t].conf.state
  BY <1>4, <1>5, ConfigureSizeOK
<1>7. Touched(w, b, t) /\ Keeps(w.role[t], b.role[t]) /\ b \in Worlds
  BY <1>4, <1>6, AskedTouched DEF Asked
<1> HIDE DEF b
<1>8. WorldInv(b) /\ Same(w, b)
  BY <1>4, <1>7, KeptInv, TouchedSameProtocol
<1>9. Asked(b, c, t)
  BY <1>5, <1>7, ConfigureStateOK
<1> HIDE DEF c
<1>10. /\ k.conf.serial \in Nat /\ k.resize \in ResizeType
       /\ k.resize = w.role[t].resize /\ b.role[t].resize = w.role[t].resize
       /\ b.role[t].mapped = w.role[t].mapped
  BY <1>6, <1>9, WorldsOK, StatesOK DEF Asked
<1>11. Timed(k.resize) /\ (k.resize.active => w.role[t].mapped)
  BY <1>4, <1>10 DEF WorldInv, RoleInv, ResizeInv
<1> HIDE DEF k
<1>12. z \in ResizeType /\ z.active /\ Timed(z)
  BY <1>1, <1>4, <1>10, <1>11 DEF ResizeType, Timed
<1> HIDE DEF z
<1>13. WorldInv(v) /\ Same(b, v)
  BY <1>1, <1>4, <1>8, <1>9, <1>10, <1>11, <1>12, AskedInv
<1> HIDE DEF v
<1>14. World' = v
  BY <1>3, <1>13, BecomesOK DEF WorldInv
<1> QED  BY <1>8, <1>13, <1>14 DEF Same, w

LEMMA StopDragOK ==
  ASSUME NEW t \in Toplevels, WorldInv(World), StopDrag(t)
  PROVE  WorldInv(World') /\ Same(World, World')
<1>1. WorldInv(StopResize(World, t)) /\ Same(World, StopResize(World, t))
  BY StopResizeInv
<1>2. Becomes(StopResize(World, t))
  BY DEF StopDrag
<1>3. World' = StopResize(World, t)
  BY <1>1, <1>2, BecomesOK DEF WorldInv
<1> QED  BY <1>1, <1>3

LEMMA AckTimerOK ==
  ASSUME NEW t \in Toplevels, WorldInv(World), AckTimer(t)
  PROVE  WorldInv(World') /\ Same(World, World')
<1> DEFINE w == World
           r == w.role[t]
           z == [r.resize EXCEPT !.timer = FALSE, !.handled = TRUE]
           q == [r EXCEPT !.resize = z]
           v == [w EXCEPT !.role = [w.role EXCEPT ![t] = q]]
<1>1. Becomes(v)
  BY WorldIs DEF AckTimer
<1>2. w \in Worlds /\ r \in RoleType /\ r.resize \in ResizeType
  BY WorldsOK, StatesOK DEF WorldInv
<1> HIDE DEF r
<1>3. z \in ResizeType /\ z.active = r.resize.active /\ z.timer = FALSE /\ z.handled = TRUE
  BY <1>2 DEF ResizeType
<1> HIDE DEF z
<1>4. Timed(z)
  BY <1>3 DEF Timed
<1>5. /\ q \in RoleType /\ q.resize = z
      /\ q.mapped = r.mapped /\ q.sent = r.sent /\ q.ack = r.ack /\ q.flags = r.flags
      /\ q.conf = r.conf /\ q.cur = r.cur /\ q.pend = r.pend
  BY <1>2, <1>3 DEF RoleType
<1> HIDE DEF q
<1>6. Configured(r, q, w.serial, w.serial) /\ Keeps(r, q)
  BY <1>3, <1>4, <1>5 DEF Configured, Keeps
<1>7. Touched(w, v, t) /\ Keeps(w.role[t], v.role[t])
  BY <1>2, <1>5, <1>6, PutTouched DEF r
<1> HIDE DEF v
<1> QED  BY <1>1, <1>7, TouchedBecomes DEF w

LEMMA SetMaximizedOK ==
  ASSUME NEW t \in Toplevels, WorldInv(World), SetMaximized(t)
  PROVE  WorldInv(World') /\ Same(World, World')
<1> DEFINE w == World
           r == w.role[t]
           q == [r EXCEPT !.requestedMaximized = TRUE]
           v == [w EXCEPT !.role = [w.role EXCEPT ![t] = q]]
           m == SetMaximizedRequest(w, t)
           a == Answered(m, t)
<1>1. Becomes(v) \/ Becomes(a)
  BY DEF SetMaximized
<1>2. w \in Worlds /\ r \in RoleType
  BY WorldsOK DEF WorldInv
<1> HIDE DEF r
<1>3. CASE Becomes(v)
  <2>1. /\ q \in RoleType
        /\ q.mapped = r.mapped /\ q.sent = r.sent /\ q.ack = r.ack /\ q.flags = r.flags
        /\ q.conf = r.conf /\ q.resize = r.resize /\ q.cur = r.cur /\ q.pend = r.pend
    BY <1>2 DEF RoleType
  <2> HIDE DEF q
  <2>2. Configured(r, q, w.serial, w.serial) /\ Keeps(r, q)
    BY <2>1 DEF Configured, Keeps
  <2>3. Touched(w, v, t) /\ Keeps(w.role[t], v.role[t])
    BY <1>2, <2>1, <2>2, PutTouched DEF r
  <2> HIDE DEF v
  <2> QED  BY <1>3, <2>3, TouchedBecomes DEF w
<1>4. CASE Becomes(a)
  <2>1. Touched(w, m, t) /\ Keeps(w.role[t], m.role[t])
    BY <1>2, SetMaximizedRequestOK
  <2> HIDE DEF m
  <2>2. m \in Worlds
    BY <2>1 DEF Touched
  <2>3. Touched(m, a, t) /\ Keeps(m.role[t], a.role[t])
    BY <2>2, AnsweredOK
  <2> HIDE DEF a
  <2>4. Touched(w, a, t) /\ Keeps(w.role[t], a.role[t])
    BY <1>2, <2>1, <2>3, TouchedTransitive
  <2> QED  BY <1>4, <2>4, TouchedBecomes DEF w
<1> QED  BY <1>1, <1>3, <1>4

LEMMA UnsetMaximizedOK ==
  ASSUME NEW t \in Toplevels, WorldInv(World), UnsetMaximized(t)
  PROVE  WorldInv(World') /\ Same(World, World')
<1> DEFINE w == World
           r == w.role[t]
           q == [r EXCEPT !.requestedMaximized = FALSE]
           v == [w EXCEPT !.role = [w.role EXCEPT ![t] = q]]
           m(n) == UnsetMaximizedRequest(w, t, n)
           a(n) == Answered(m(n), t)
<1>1. Becomes(v) \/ \E n \in Widths : Becomes(a(n))
  BY DEF UnsetMaximized
<1>2. w \in Worlds /\ r \in RoleType
  BY WorldsOK DEF WorldInv
<1> HIDE DEF r
<1>3. CASE Becomes(v)
  <2>1. /\ q \in RoleType
        /\ q.mapped = r.mapped /\ q.sent = r.sent /\ q.ack = r.ack /\ q.flags = r.flags
        /\ q.conf = r.conf /\ q.resize = r.resize /\ q.cur = r.cur /\ q.pend = r.pend
    BY <1>2 DEF RoleType
  <2> HIDE DEF q
  <2>2. Configured(r, q, w.serial, w.serial) /\ Keeps(r, q)
    BY <2>1 DEF Configured, Keeps
  <2>3. Touched(w, v, t) /\ Keeps(w.role[t], v.role[t])
    BY <1>2, <2>1, <2>2, PutTouched DEF r
  <2> HIDE DEF v
  <2> QED  BY <1>3, <2>3, TouchedBecomes DEF w
<1>4. ASSUME NEW n \in Widths, Becomes(a(n))
      PROVE  WorldInv(World') /\ Same(World, World')
  <2>0. n \in Sizes
    BY <1>4 DEF Sizes
  <2>1. Touched(w, m(n), t) /\ Keeps(w.role[t], m(n).role[t])
    BY <1>2, <2>0, UnsetMaximizedRequestOK
  <2> HIDE DEF m
  <2>2. m(n) \in Worlds
    BY <2>1 DEF Touched
  <2>3. Touched(m(n), a(n), t) /\ Keeps(m(n).role[t], a(n).role[t])
    BY <2>2, AnsweredOK
  <2> HIDE DEF a
  <2>4. Touched(w, a(n), t) /\ Keeps(w.role[t], a(n).role[t])
    BY <1>2, <2>1, <2>3, TouchedTransitive
  <2> QED  BY <1>4, <2>4, TouchedBecomes DEF w
<1> QED  BY <1>1, <1>3, <1>4

LEMMA SetMinimizedOK ==
  ASSUME NEW t \in Toplevels, WorldInv(World), SetMinimized(t)
  PROVE  WorldInv(World') /\ Same(World, World')
<1> DEFINE w == World
           S == role[t].conf.state \ {"Activated"}
           c == ConfigureState(w, t, S)
           v == StopResize(c, t)
<1>1. Becomes(v)
  BY DEF SetMinimized
<1>2. w \in Worlds /\ w.role = role /\ WorldInv(w)
  BY WorldIs DEF WorldInv
<1> HIDE DEF w
<1>3. S \in SUBSET States
  BY <1>2, WorldsOK, StatesOK
<1>4. Asked(w, c, t) /\ c.role[t].conf.state = S
  BY <1>2, <1>3, ConfigureStateOK
<1>5. Touched(w, c, t) /\ Keeps(w.role[t], c.role[t])
  <2>1. "Resizing" \in c.role[t].conf.state => "Resizing" \in w.role[t].conf.state
    BY <1>2, <1>4
  <2> QED  BY <1>2, <1>4, <2>1, AskedTouched
<1> HIDE DEF c
<1>6. WorldInv(c) /\ Same(w, c)
  BY <1>2, <1>5, KeptInv, TouchedSameProtocol
<1>7. WorldInv(v) /\ Same(c, v)
  BY <1>6, StopResizeInv
<1> HIDE DEF v
<1>8. World' = v
  BY <1>1, <1>7, BecomesOK DEF WorldInv
<1> QED  BY <1>6, <1>7, <1>8 DEF Same, w

LEMMA ActivateOK ==
  ASSUME NEW t \in Toplevels, WorldInv(World), Activate(t)
  PROVE  WorldInv(World') /\ Same(World, World')
<1> DEFINE w == World
           S == role[t].conf.state \cup {"Activated"}
           c == ConfigureState(w, t, S)
<1>1. Becomes(c)
  BY DEF Activate
<1>2. w \in Worlds /\ w.role = role
  BY WorldIs DEF WorldInv
<1> HIDE DEF w
<1>3. S \in SUBSET States
  BY <1>2, WorldsOK, StatesOK DEF States
<1>4. Asked(w, c, t) /\ c.role[t].conf.state = S
  BY <1>2, <1>3, ConfigureStateOK
<1>5. Touched(w, c, t) /\ Keeps(w.role[t], c.role[t])
  <2>1. "Resizing" \in c.role[t].conf.state => "Resizing" \in w.role[t].conf.state
    BY <1>2, <1>4
  <2> QED  BY <1>2, <1>4, <2>1, AskedTouched
<1> HIDE DEF c
<1> QED  BY <1>1, <1>5, TouchedBecomes DEF w

LEMMA CloseOK ==
  ASSUME NEW t \in Toplevels, WorldInv(World), Close(t)
  PROVE  WorldInv(World') /\ Same(World, World')
<1> DEFINE w == World
           r == w.role[t]
           q == [r EXCEPT !.flags = r.flags \cup {"ClosedSent"}]
           v == [w EXCEPT !.role = [w.role EXCEPT ![t] = q]]
<1>1. Becomes(v)
  BY DEF Close
<1>2. w \in Worlds /\ r \in RoleType
  BY WorldsOK DEF WorldInv
<1> HIDE DEF r
<1>3. /\ q \in RoleType /\ q.flags = r.flags \cup {"ClosedSent"}
      /\ q.mapped = r.mapped /\ q.sent = r.sent /\ q.ack = r.ack
      /\ q.conf = r.conf /\ q.resize = r.resize /\ q.cur = r.cur /\ q.pend = r.pend
  BY <1>2 DEF RoleType, Flags
<1> HIDE DEF q
<1>4. Configured(r, q, w.serial, w.serial) /\ Keeps(r, q)
  BY <1>3 DEF Configured, Keeps
<1>5. Touched(w, v, t) /\ Keeps(w.role[t], v.role[t])
  BY <1>2, <1>3, <1>4, PutTouched DEF r
<1> HIDE DEF v
<1> QED  BY <1>1, <1>5, TouchedBecomes DEF w

LEMMA SetWindowGeometryOK ==
  ASSUME NEW t \in Toplevels, WorldInv(World), SetWindowGeometry(t)
  PROVE  WorldInv(World') /\ Same(World, World')
<1> DEFINE w == World
           r == w.role[t]
           q(n) == [r EXCEPT !.pendingGeometry = n, !.geometrySet = TRUE]
           v(n) == [w EXCEPT !.role = [w.role EXCEPT ![t] = q(n)]]
<1>1. PICK n \in Geometries : Becomes(v(n))
  BY WorldIs DEF SetWindowGeometry
<1>2. w \in Worlds /\ r \in RoleType
  BY WorldsOK DEF WorldInv
<1> HIDE DEF r
<1>3. /\ q(n) \in RoleType
      /\ q(n).mapped = r.mapped /\ q(n).sent = r.sent /\ q(n).ack = r.ack /\ q(n).flags = r.flags
      /\ q(n).conf = r.conf /\ q(n).resize = r.resize /\ q(n).cur = r.cur /\ q(n).pend = r.pend
  <2> DEFINE o == [r EXCEPT !.pendingGeometry = n]
             p == [o EXCEPT !.geometrySet = TRUE]
  <2>1. q(n) = p
    OBVIOUS
  <2>2. /\ o \in RoleType
        /\ o.mapped = r.mapped /\ o.sent = r.sent /\ o.ack = r.ack /\ o.flags = r.flags
        /\ o.conf = r.conf /\ o.resize = r.resize /\ o.cur = r.cur /\ o.pend = r.pend
    BY <1>1, <1>2 DEF RoleType, AllGeometries
  <2> HIDE DEF o, q
  <2>3. /\ p \in RoleType
        /\ p.mapped = r.mapped /\ p.sent = r.sent /\ p.ack = r.ack /\ p.flags = r.flags
        /\ p.conf = r.conf /\ p.resize = r.resize /\ p.cur = r.cur /\ p.pend = r.pend
    BY <2>2 DEF RoleType
  <2> QED  BY <2>1, <2>3
<1> HIDE DEF q
<1>4. Configured(r, q(n), w.serial, w.serial) /\ Keeps(r, q(n))
  BY <1>3 DEF Configured, Keeps
<1>5. Touched(w, v(n), t) /\ Keeps(w.role[t], v(n).role[t])
  BY <1>2, <1>3, <1>4, PutTouched DEF r
<1> HIDE DEF v
<1> QED  BY <1>1, <1>5, TouchedBecomes DEF w

LEMMA OutputRemovedOK ==
  ASSUME WorldInv(World), OutputRemoved
  PROVE  WorldInv(World') /\ Same(World, World')
<1> DEFINE q(u) == [role[u] EXCEPT !.exclusiveOutput = FALSE]
<1>1. /\ role \in [Toplevels -> RoleType] /\ activeToplevel \in Toplevels \cup {None}
      /\ serial \in Nat /\ \A u \in Toplevels : role[u] \in RoleType
  BY WorldIs, WorldsOK DEF WorldInv
<1>2. /\ role' = [u \in Toplevels |-> q(u)] /\ activeToplevel' = activeToplevel /\ serial' = serial
  BY DEF OutputRemoved
<1>3. ASSUME NEW u \in Toplevels
      PROVE  /\ q(u) \in RoleType /\ Keeps(role[u], q(u))
             /\ Configured(role[u], q(u), serial, serial)
             /\ RoleInv(q(u), serial) /\ (Told(role[u]) => Told(q(u)))
  <2>1. /\ q(u) \in RoleType
        /\ q(u).mapped = role[u].mapped /\ q(u).sent = role[u].sent /\ q(u).ack = role[u].ack
        /\ q(u).flags = role[u].flags /\ q(u).conf = role[u].conf /\ q(u).resize = role[u].resize
        /\ q(u).cur = role[u].cur /\ q(u).pend = role[u].pend
    BY <1>1, <1>3 DEF RoleType
  <2> HIDE DEF q
  <2>2. Configured(role[u], q(u), serial, serial) /\ Keeps(role[u], q(u))
    BY <2>1 DEF Configured, Keeps
  <2>3. RoleInv(role[u], serial)
    BY <1>3, WorldIs DEF WorldInv
  <2>4. serial <= serial
    BY <1>1
  <2>5. role[u] \in RoleType
    BY <1>1, <1>3
  <2>6. RoleInv(q(u), serial) /\ (Told(role[u]) => Told(q(u)))
    BY <1>1, <2>1, <2>2, <2>3, <2>4, <2>5, KeptRole
  <2> QED  BY <2>1, <2>2, <2>6
<1> HIDE DEF q
<1> DEFINE v == [role |-> [u \in Toplevels |-> q(u)], active |-> activeToplevel, serial |-> serial]
<1>4. World' = v
  BY <1>2 DEF World
<1>5. /\ v \in Worlds /\ v.active = activeToplevel /\ v.serial = serial
      /\ \A u \in Toplevels : v.role[u] = q(u)
  BY <1>1, <1>3 DEF Worlds
<1> HIDE DEF v
<1>6. WorldInv(v) /\ Same(World, v)
  BY <1>3, <1>5, WorldIs DEF WorldInv, Same, Configured, Keeps
<1> QED  BY <1>4, <1>6

LEMMA InitialCommitOK ==
  ASSUME NEW t \in Toplevels, WorldInv(World), InitialCommit(t)
  PROVE  WorldInv(World') /\ Same(World, World')
<1> DEFINE w == World
           r == w.role[t]
           q == [r EXCEPT !.flags = r.flags \ {"HasPendingInitialConf"}]
           a == [w EXCEPT !.role = [w.role EXCEPT ![t] = q]]
           b == ConfigureSize(a, t, 0)
           S == r.conf.state \cup {"Activated"}
           c == ConfigureState(b, t, S)
           m == SetMaximizedRequest(c, t)
           d == IF role[t].requestedMaximized THEN m ELSE c
           p == [d.role[t] EXCEPT !.requestedMaximized = FALSE]
           v == [d EXCEPT !.role = [d.role EXCEPT ![t] = p]]
<1>1. Becomes(v)
  BY WorldIs DEF InitialCommit
<1>2. w \in Worlds /\ r \in RoleType /\ S \in SUBSET States /\ 0 \in Sizes
  BY WorldsOK, StatesOK DEF WorldInv, States, Sizes
<1> HIDE DEF r
<1>3. /\ q \in RoleType /\ q.flags = r.flags \ {"HasPendingInitialConf"}
      /\ q.mapped = r.mapped /\ q.sent = r.sent /\ q.ack = r.ack
      /\ q.conf = r.conf /\ q.resize = r.resize /\ q.cur = r.cur /\ q.pend = r.pend
  BY <1>2 DEF RoleType, Flags
<1> HIDE DEF q
<1>4. Configured(r, q, w.serial, w.serial) /\ Keeps(r, q)
  BY <1>3 DEF Configured, Keeps
<1>5. Touched(w, a, t) /\ Keeps(w.role[t], a.role[t]) /\ a.role[t] = q
  BY <1>2, <1>3, <1>4, PutTouched DEF r
<1> HIDE DEF a
<1>6. a \in Worlds
  BY <1>5 DEF Touched
<1>7. Asked(a, b, t) /\ b.role[t].conf.state = a.role[t].conf.state
  BY <1>2, <1>6, ConfigureSizeOK
<1>8. Touched(a, b, t) /\ Keeps(a.role[t], b.role[t]) /\ b \in Worlds
  BY <1>6, <1>7, AskedTouched DEF Asked
<1> HIDE DEF b
<1>9. Asked(b, c, t) /\ c.role[t].conf.state = S
  BY <1>2, <1>8, ConfigureStateOK
<1>10. "Resizing" \in c.role[t].conf.state => "Resizing" \in b.role[t].conf.state
  BY <1>3, <1>5, <1>7, <1>9
<1>11. Touched(b, c, t) /\ Keeps(b.role[t], c.role[t]) /\ c \in Worlds
  BY <1>8, <1>9, <1>10, AskedTouched DEF Asked
<1> HIDE DEF c
<1>12. Touched(c, m, t) /\ Keeps(c.role[t], m.role[t])
  BY <1>11, SetMaximizedRequestOK
<1> HIDE DEF m
<1>13. Touched(c, d, t) /\ Keeps(c.role[t], d.role[t]) /\ d \in Worlds
  BY <1>11, <1>12, TouchedSame DEF Touched
<1> HIDE DEF d
<1>14. d.role[t] \in RoleType
  BY <1>13, WorldsOK
<1>15. /\ p \in RoleType
       /\ p.mapped = d.role[t].mapped /\ p.sent = d.role[t].sent /\ p.ack = d.role[t].ack
       /\ p.flags = d.role[t].flags /\ p.conf = d.role[t].conf /\ p.resize = d.role[t].resize
       /\ p.cur = d.role[t].cur /\ p.pend = d.role[t].pend
  BY <1>14 DEF RoleType
<1> HIDE DEF p
<1>16. Configured(d.role[t], p, d.serial, d.serial) /\ Keeps(d.role[t], p)
  BY <1>15 DEF Configured, Keeps
<1>17. Touched(d, v, t) /\ Keeps(d.role[t], v.role[t])
  BY <1>13, <1>15, <1>16, PutTouched
<1> HIDE DEF v
<1>18. Touched(w, b, t) /\ Keeps(w.role[t], b.role[t])
  BY <1>2, <1>5, <1>8, TouchedTransitive
<1>19. Touched(w, c, t) /\ Keeps(w.role[t], c.role[t])
  BY <1>2, <1>11, <1>18, TouchedTransitive
<1>20. Touched(w, d, t) /\ Keeps(w.role[t], d.role[t])
  BY <1>2, <1>13, <1>19, TouchedTransitive
<1>21. Touched(w, v, t) /\ Keeps(w.role[t], v.role[t])
  BY <1>2, <1>17, <1>20, TouchedTransitive
<1> QED  BY <1>1, <1>21, TouchedBecomes DEF w

-----------------------------------------------------------------------------
(* Steps that change the slots *)

LEMMA SerialKept ==
  ASSUME NEW r \in RoleType, NEW q \in RoleType, NEW n \in Nat, NEW m \in Nat, n <= m,
         SerialInv(r, n), Configured(r, q, n, m),
         q.cur.serial \in {r.cur.serial, r.pend.serial},
         q.pend.serial \in {r.cur.serial, r.pend.serial}
  PROVE  SerialInv(q, m)
<1>1. /\ r.conf.serial \in Nat /\ r.ack.serial \in Nat /\ r.cur.serial \in Nat /\ r.pend.serial \in Nat
      /\ q.conf.serial \in Nat /\ q.cur.serial \in Nat /\ q.pend.serial \in Nat
      /\ r.sent \in Seq(ConfType)
  BY StatesOK
<1>2. \A i \in 1..Len(r.sent) : r.sent[i].serial \in Nat
  BY <1>1, SentOK
<1>3. q.sent = r.sent /\ q.ack = r.ack
  BY DEF Configured
<1>4. /\ q.cur.serial <= n /\ q.pend.serial <= n
      /\ \A i \in 1..Len(r.sent) :
           q.cur.serial < r.sent[i].serial /\ q.pend.serial < r.sent[i].serial
  BY DEF SerialInv
<1>5. r.conf.serial <= n /\ r.ack.serial <= n
  BY DEF SerialInv
<1>6. CASE "HasToSend" \in q.flags
  <2>1. r.conf.serial <= q.conf.serial /\ q.conf.serial <= m
    BY <1>1, <1>6 DEF Configured, SerialInv
  <2>2. /\ r.ack.serial < q.conf.serial /\ r.cur.serial < q.conf.serial
        /\ r.pend.serial < q.conf.serial
        /\ \A i \in 1..Len(r.sent) : r.sent[i].serial < q.conf.serial
    BY <1>1, <1>2, <1>6 DEF Configured, SerialInv
  <2>3. q.cur.serial < q.conf.serial /\ q.pend.serial < q.conf.serial
    BY <2>2
  <2> QED  BY <1>1, <1>2, <1>3, <1>6, <1>4, <1>5, <2>1, <2>2, <2>3 DEF SerialInv
<1>7. CASE "HasToSend" \notin q.flags
  <2>1. q.conf = r.conf /\ "HasToSend" \notin r.flags
    BY <1>7 DEF Configured
  <2> QED  BY <1>1, <1>2, <1>3, <1>7, <1>4, <1>5, <2>1 DEF SerialInv
<1> QED  BY <1>6, <1>7

(* What is left of the invariant for a toplevel whose slots are about to be updated. *)
ReadyToUpdate(r, n) ==
  /\ SerialInv(r, n)
  /\ r.resize.active => r.mapped
  /\ Timed(r.resize)
  /\ ~r.resize.active => "Resizing" \notin r.conf.state

Others(w, t) ==
  \A u \in Toplevels \ {t} :
    /\ RoleInv(w.role[u], w.serial)
    /\ u \notin Hasty /\ u # w.active => Told(w.role[u])

LEMMA UpdatedInv ==
  ASSUME NEW w \in Worlds, NEW v, NEW t \in Toplevels, Touched(w, v, t),
         ReadyToUpdate(w.role[t], w.serial), Others(w, t),
         v.role[t].cur.serial \in {w.role[t].cur.serial, w.role[t].pend.serial},
         v.role[t].pend.serial \in {w.role[t].cur.serial, w.role[t].pend.serial},
         SlotInv(v.role[t]),
         ~v.role[t].resize.active /\ "Resizing" \in v.role[t].cur.state =>
           "HasToSend" \in v.role[t].flags \/ v.role[t].sent # << >>,
         t \notin Hasty /\ t # v.active => Told(v.role[t])
  PROVE  WorldInv(v)
<1>1. /\ v \in Worlds /\ w.serial \in Nat /\ v.serial \in Nat /\ w.serial <= v.serial
      /\ w.role[t] \in RoleType /\ v.role[t] \in RoleType
      /\ Configured(w.role[t], v.role[t], w.serial, v.serial)
  BY WorldsOK DEF Touched
<1>2. SerialInv(v.role[t], v.serial)
  BY <1>1, SerialKept DEF ReadyToUpdate
<1>3. ResizeInv(v.role[t])
  BY <1>1 DEF ReadyToUpdate, Configured, ResizeInv
<1>4. ASSUME NEW u \in Toplevels \ {t}
      PROVE  /\ RoleInv(v.role[u], v.serial)
             /\ u \notin Hasty /\ u # v.active => Told(v.role[u])
  <2>1. /\ w.role[u] \in RoleType /\ v.role[u] \in RoleType
        /\ RoleInv(w.role[u], w.serial)
        /\ u \notin Hasty /\ u # w.active => Told(w.role[u])
    BY <1>1, <1>4, WorldsOK DEF Others
  <2>2. Configured(w.role[u], v.role[u], w.serial, v.serial) /\ Keeps(w.role[u], v.role[u])
    BY <1>4 DEF Touched
  <2>3. RoleInv(v.role[u], v.serial) /\ (Told(w.role[u]) => Told(v.role[u]))
    BY <1>1, <2>1, <2>2, KeptRole
  <2>4. ASSUME u \notin Hasty, u # v.active PROVE Told(v.role[u])
    <3>1. CASE u # w.active
      BY <2>1, <2>3, <2>4, <3>1
    <3>2. CASE u = w.active
      BY <1>4, <2>4, <3>2 DEF Touched, Told
    <3> QED  BY <3>1, <3>2
  <2> QED  BY <2>3, <2>4
<1> QED  BY <1>1, <1>2, <1>3, <1>4 DEF WorldInv, RoleInv

LEMMA OthersSame ==
  ASSUME NEW w, NEW v, NEW t \in Toplevels, Touched(w, v, t)
  PROVE  /\ \A u \in Toplevels \ {t} : /\ v.role[u].sent = w.role[u].sent
                                       /\ v.role[u].ack = w.role[u].ack
                                       /\ v.role[u].cur = w.role[u].cur
         /\ v.role[t].sent = w.role[t].sent /\ v.role[t].ack = w.role[t].ack
BY DEF Touched, Keeps, Configured

LEMMA CommitAtomsOK ==
  ASSUME NEW w, NEW t \in Toplevels, NEW g \in AllGeometries, WorldInv(w)
  PROVE  LET v == FullAtomsUpdate(w, t, g)
             r == w.role[t]
             q == v.role[t]
         IN /\ WorldInv(v)
            /\ \A u \in Toplevels \ {t} : /\ v.role[u].sent = w.role[u].sent
                                          /\ v.role[u].ack = w.role[u].ack
                                          /\ v.role[u].cur = w.role[u].cur
            /\ q.sent = r.sent /\ q.ack = r.ack
            /\ \/ q.cur.serial = r.cur.serial /\ q.cur.state = r.cur.state
               \/ q.cur.serial = r.ack.serial /\ q.cur.state = r.ack.state
<1> DEFINE v == FullAtomsUpdate(w, t, g)
           r == w.role[t]
           q == v.role[t]
<1>1. w \in Worlds /\ r \in RoleType /\ RoleInv(r, w.serial)
  BY WorldsOK DEF WorldInv
<1>2. /\ Touched(w, v, t)
      /\ q.pend.geometry = q.cur.geometry
      /\ q.cur.serial = r.pend.serial /\ q.pend.serial = r.pend.serial
      /\ r.pend.serial # r.cur.serial => q.cur.state = r.pend.state /\ q.pend.state = r.pend.state
      /\ r.pend.serial = r.cur.serial =>
           \/ q.cur.state = r.cur.state /\ q.pend.state = r.pend.state
           \/ q.cur.state = r.pend.state /\ q.pend.state = r.cur.state
      /\ ~(r.pend.serial # r.cur.serial /\ "Activated" \in r.pend.state \ r.cur.state) =>
           v.active = w.active
  BY <1>1, FullAtomsUpdateOK
<1> HIDE DEF v
<1>3. Configured(r, q, w.serial, v.serial)
  BY <1>2 DEF Touched
<1>4. SlotInv(r)
  BY <1>1 DEF RoleInv
<1>5. SlotInv(q)
  BY <1>2, <1>4 DEF SlotInv
<1>6. /\ "Activated" \in r.pend.state <=> "Activated" \in r.cur.state
      /\ "Resizing" \in r.pend.state <=> "Resizing" \in r.cur.state
  BY <1>4 DEF SlotInv, Light
<1>7. /\ v.active = w.active
      /\ "Activated" \in q.cur.state => "Activated" \in r.cur.state
      /\ "Resizing" \in q.cur.state => "Resizing" \in r.cur.state
  BY <1>2, <1>6
<1>8. ~q.resize.active /\ "Resizing" \in q.cur.state => "HasToSend" \in q.flags \/ q.sent # << >>
  BY <1>1, <1>3, <1>7 DEF RoleInv, ResizeInv, Configured
<1>9. t \notin Hasty /\ t # v.active => Told(q)
  <2>1. t \notin Hasty /\ t # w.active => Told(r)
    BY DEF WorldInv
  <2> QED  BY <1>3, <1>7, <2>1 DEF Told, Configured
<1>10. ReadyToUpdate(r, w.serial) /\ Others(w, t)
  BY <1>1 DEF RoleInv, ResizeInv, ReadyToUpdate, Others, WorldInv
<1>11. WorldInv(v)
  BY <1>1, <1>2, <1>5, <1>8, <1>9, <1>10, UpdatedInv
<1>12. \/ q.cur.serial = r.cur.serial /\ q.cur.state = r.cur.state
       \/ q.cur.serial = r.ack.serial /\ q.cur.state = r.ack.state
  BY <1>2, <1>4 DEF SlotInv
<1> QED  BY <1>2, <1>11, <1>12, OthersSame DEF v

(* The world of t's commit, with or without a first buffer. *)
LEMMA MappedInv ==
  ASSUME NEW w, NEW t \in Toplevels, NEW b \in BOOLEAN, WorldInv(w)
  PROVE  LET v == [w EXCEPT !.role = [w.role EXCEPT ![t] =
                     [w.role[t] EXCEPT !.mapped = b \/ w.role[t].mapped]]]
         IN /\ WorldInv(v)
            /\ \A u \in Toplevels : /\ v.role[u].sent = w.role[u].sent
                                    /\ v.role[u].ack = w.role[u].ack
                                    /\ v.role[u].cur = w.role[u].cur
<1> DEFINE r == w.role[t]
           k == b \/ r.mapped
           q == [r EXCEPT !.mapped = k]
           v == [w EXCEPT !.role = [w.role EXCEPT ![t] = q]]
<1>1. w \in Worlds /\ r \in RoleType /\ RoleInv(r, w.serial)
  BY WorldsOK DEF WorldInv
<1>2. k \in BOOLEAN /\ (r.mapped => k)
  OBVIOUS
<1> HIDE DEF r, k
<1>3. /\ q \in RoleType /\ q.mapped = k
      /\ q.sent = r.sent /\ q.ack = r.ack /\ q.flags = r.flags /\ q.resize = r.resize
      /\ q.conf = r.conf /\ q.cur = r.cur /\ q.pend = r.pend
  BY <1>1, <1>2 DEF RoleType
<1> HIDE DEF q
<1>4. SerialInv(q, w.serial) /\ SlotInv(q) /\ (Told(r) => Told(q))
  BY <1>1, <1>3 DEF RoleInv, SerialInv, SlotInv, Told
<1>5. ResizeInv(q)
  BY <1>1, <1>2, <1>3 DEF RoleInv, ResizeInv
<1>6. WorldInv(v)
  BY <1>3, <1>4, <1>5, PutInv DEF RoleInv, WorldInv, r
<1>7. v.role[t] = q /\ \A u \in Toplevels \ {t} : v.role[u] = w.role[u]
  BY <1>1, <1>3, PutRole
<1>8. \A u \in Toplevels : /\ v.role[u].sent = w.role[u].sent
                           /\ v.role[u].ack = w.role[u].ack
                           /\ v.role[u].cur = w.role[u].cur
  BY <1>3, <1>7 DEF r
<1> QED  BY <1>6, <1>8 DEF q, k, r

-----------------------------------------------------------------------------
(* ack_configure *)

LEMMA RestOK ==
  ASSUME NEW s \in Seq(ConfType), NEW i \in 1..Len(s)
  PROVE  LET x == SubSeq(s, i + 1, Len(s)) IN
         /\ x \in Seq(ConfType) /\ Len(x) = Len(s) - i
         /\ \A j \in 1..Len(x) : x[j] = s[i + j]
<1>1. Len(s) \in Nat /\ i \in Nat /\ 1 <= i /\ i <= Len(s)
  BY LenProperties
<1>2. i + 1 \in 1..(Len(s) + 1) /\ Len(s) \in i..Len(s)
  BY <1>1
<1>3. \A j \in (i + 1)..Len(s) : s[j] \in ConfType
  BY <1>1, SentOK
<1> DEFINE x == SubSeq(s, i + 1, Len(s))
<1>4. /\ x \in Seq(ConfType)
      /\ Len(x) = IF i + 1 <= Len(s) THEN Len(s) - (i + 1) + 1 ELSE 0
      /\ \A j \in 1..(Len(s) - (i + 1) + 1) : x[j] = s[i + 1 + j - 1]
  <2>1. i + 1 \in Int /\ Len(s) \in Int
    BY <1>1
  <2> QED  BY <1>3, <2>1, SubSeqProperties
<1> HIDE DEF x
<1>5. Len(x) = Len(s) - i
  BY <1>1, <1>4
<1>6. \A j \in 1..Len(x) : x[j] = s[i + j]
  <2> TAKE j \in 1..Len(x)
  <2>1. j \in 1..(Len(s) - (i + 1) + 1) /\ i + 1 + j - 1 = i + j
    BY <1>1, <1>5
  <2> QED  BY <1>4, <2>1
<1> QED  BY <1>4, <1>5, <1>6 DEF x

LEMMA AcknowledgedOK ==
  ASSUME NEW w, NEW t \in Toplevels, WorldInv(w), NEW i \in 1..Len(w.role[t].sent)
  PROVE  LET v == Acknowledged(w, t, i)
             r == w.role[t]
             q == v.role[t]
             c == r.sent[i]
         IN /\ c \in ConfType
            /\ v \in Worlds /\ v.active = w.active /\ v.serial = w.serial
            /\ \A u \in Toplevels \ {t} : v.role[u] = w.role[u]
            /\ q.sent = SubSeq(r.sent, i + 1, Len(r.sent)) /\ q.ack = c
            /\ q.pend.serial = c.serial /\ q.pend.state = c.state
            /\ q.pend.geometry = r.pend.geometry /\ q.cur = r.cur
            /\ q.flags = r.flags /\ q.conf = r.conf /\ q.resize = r.resize /\ q.mapped = r.mapped
<1> DEFINE r == w.role[t]
           c == r.sent[i]
           rest == SubSeq(r.sent, i + 1, Len(r.sent))
           pend == [r.pend EXCEPT !.serial = c.serial, !.state = c.state]
           a == [r EXCEPT !.sent = rest]
           b == [a EXCEPT !.ack = c]
           q == [b EXCEPT !.pend = pend]
           v == [w EXCEPT !.role = [w.role EXCEPT ![t] = q]]
<1>1. Acknowledged(w, t, i) = v
  <2>1. q = [r EXCEPT !.sent = rest, !.ack = c, !.pend = pend]
    OBVIOUS
  <2>2. Acknowledged(w, t, i) =
          [w EXCEPT !.role = [w.role EXCEPT
             ![t] = [r EXCEPT !.sent = rest, !.ack = c, !.pend = pend]]]
    BY DEF Acknowledged
  <2> HIDE DEF q
  <2> QED  BY <2>1, <2>2
<1>2. w \in Worlds /\ r \in RoleType /\ r.sent \in Seq(ConfType) /\ r.pend \in AtomsType
  BY WorldsOK, StatesOK DEF WorldInv
<1>3. c \in ConfType /\ rest \in Seq(ConfType)
  BY <1>2, SentOK, RestOK
<1> HIDE DEF c, rest
<1>4. /\ pend \in AtomsType /\ pend.serial = c.serial /\ pend.state = c.state
      /\ pend.geometry = r.pend.geometry
  BY <1>2, <1>3 DEF AtomsType, ConfType
<1> HIDE DEF pend, r
<1>5. /\ a \in RoleType /\ a.sent = rest /\ a.cur = r.cur
      /\ a.flags = r.flags /\ a.conf = r.conf /\ a.resize = r.resize /\ a.mapped = r.mapped
  BY <1>2, <1>3 DEF RoleType
<1> HIDE DEF a
<1>6. /\ b \in RoleType /\ b.sent = rest /\ b.ack = c /\ b.cur = r.cur
      /\ b.flags = r.flags /\ b.conf = r.conf /\ b.resize = r.resize /\ b.mapped = r.mapped
  BY <1>3, <1>5 DEF RoleType
<1> HIDE DEF b
<1>7. /\ q \in RoleType /\ q.sent = rest /\ q.ack = c /\ q.cur = r.cur /\ q.pend = pend
      /\ q.flags = r.flags /\ q.conf = r.conf /\ q.resize = r.resize /\ q.mapped = r.mapped
  BY <1>4, <1>6 DEF RoleType
<1> HIDE DEF q
<1>8. /\ v \in Worlds /\ v.active = w.active /\ v.serial = w.serial
      /\ v.role[t] = q /\ \A u \in Toplevels \ {t} : v.role[u] = w.role[u]
  BY <1>2, <1>7, PutRole
<1> QED  BY <1>1, <1>3, <1>4, <1>7, <1>8 DEF r, c, rest

LEMMA AcknowledgedReady ==
  ASSUME NEW w, NEW t \in Toplevels, WorldInv(w), NEW i \in 1..Len(w.role[t].sent)
  PROVE  LET v == Acknowledged(w, t, i)
             r == w.role[t]
             q == v.role[t]
             c == r.sent[i]
         IN /\ ReadyToUpdate(q, v.serial) /\ Others(v, t)
            /\ r.cur.serial < c.serial
            /\ ~q.resize.active /\ "Resizing" \in c.state =>
                 "HasToSend" \in q.flags \/ q.sent # << >>
<1> DEFINE v == Acknowledged(w, t, i)
           r == w.role[t]
           q == v.role[t]
           c == r.sent[i]
<1>1. /\ c \in ConfType
      /\ v \in Worlds /\ v.active = w.active /\ v.serial = w.serial
      /\ \A u \in Toplevels \ {t} : v.role[u] = w.role[u]
      /\ q.sent = SubSeq(r.sent, i + 1, Len(r.sent)) /\ q.ack = c
      /\ q.pend.serial = c.serial /\ q.pend.state = c.state
      /\ q.pend.geometry = r.pend.geometry /\ q.cur = r.cur
      /\ q.flags = r.flags /\ q.conf = r.conf /\ q.resize = r.resize /\ q.mapped = r.mapped
  BY AcknowledgedOK
<1> HIDE DEF v
<1>2. /\ r \in RoleType /\ r.sent \in Seq(ConfType) /\ RoleInv(r, w.serial) /\ w.serial \in Nat
      /\ r.conf.serial \in Nat /\ r.cur.serial \in Nat
  BY WorldsOK, StatesOK DEF WorldInv
<1>3. /\ Len(q.sent) = Len(r.sent) - i /\ Len(r.sent) \in Nat
      /\ \A j \in 1..Len(q.sent) : q.sent[j] = r.sent[i + j]
  BY <1>1, <1>2, RestOK, LenProperties
<1>4. \A j \in 1..Len(r.sent) : r.sent[j].serial \in Nat
  BY <1>2, SentOK
<1>5. /\ r.conf.serial <= w.serial /\ r.cur.serial <= w.serial
      /\ \A j \in 1..Len(r.sent) :
           /\ r.cur.serial < r.sent[j].serial /\ r.sent[j].serial <= r.conf.serial
           /\ "HasToSend" \in r.flags => r.sent[j].serial < r.conf.serial
           /\ \A k \in 1..(j - 1) : r.sent[k].serial < r.sent[j].serial
      /\ "HasToSend" \in r.flags => r.cur.serial < r.conf.serial
      /\ "HasToSend" \notin r.flags /\ r.sent # << >> => r.conf.state = r.sent[Len(r.sent)].state
  BY <1>2 DEF RoleInv, SerialInv
<1>6. /\ r.cur.serial < c.serial /\ c.serial <= r.conf.serial /\ c.serial \in Nat
      /\ "HasToSend" \in r.flags => c.serial < r.conf.serial
  BY <1>4, <1>5
<1>7. \A j \in 1..Len(q.sent) :
        /\ c.serial < q.sent[j].serial /\ r.cur.serial < q.sent[j].serial
        /\ q.sent[j].serial <= r.conf.serial
        /\ "HasToSend" \in r.flags => q.sent[j].serial < r.conf.serial
        /\ \A k \in 1..(j - 1) : q.sent[k].serial < q.sent[j].serial
  <2> TAKE j \in 1..Len(q.sent)
  <2>1. i + j \in 1..Len(r.sent) /\ i \in 1..(i + j - 1) /\ q.sent[j] = r.sent[i + j]
    BY <1>3
  <2>2. ASSUME NEW k \in 1..(j - 1)
        PROVE  q.sent[k].serial < q.sent[j].serial
    <3>1. k \in 1..Len(q.sent) /\ i + k \in 1..(i + j - 1)
      BY <1>3, <2>2
    <3>2. q.sent[k] = r.sent[i + k]
      BY <1>3, <3>1
    <3> HIDE DEF r, q
    <3>3. r.sent[i + k].serial < r.sent[i + j].serial
      BY <1>5, <2>1, <3>1
    <3> QED  BY <2>1, <3>2, <3>3
  <2> HIDE DEF c
  <2>3. c.serial < r.sent[i + j].serial
    BY <1>5, <2>1 DEF c
  <2> QED  BY <1>5, <2>1, <2>2, <2>3
<1>8. "HasToSend" \notin q.flags /\ q.sent # << >> => q.conf.state = q.sent[Len(q.sent)].state
  <2> SUFFICES ASSUME "HasToSend" \notin q.flags, q.sent # << >>
               PROVE  q.conf.state = q.sent[Len(q.sent)].state
    OBVIOUS
  <2>1. Len(q.sent) \in 1..Len(q.sent)
    <3>1. q.sent \in Seq(ConfType)
      BY <1>1, <1>2, RestOK
    <3> QED  BY <3>1, LenProperties, EmptySeq
  <2>2. q.sent[Len(q.sent)] = r.sent[Len(r.sent)]
    <3>1. q.sent[Len(q.sent)] = r.sent[i + Len(q.sent)]
      BY <1>3, <2>1
    <3>2. i + Len(q.sent) = Len(r.sent)
      BY <1>3
    <3> QED  BY <3>1, <3>2
  <2>3. r.sent # << >>
    BY <1>3, <2>1
  <2> QED  BY <1>1, <1>5, <2>2, <2>3
<1>9. SerialInv(q, v.serial)
  <2>1. /\ q.conf = r.conf /\ q.flags = r.flags /\ q.ack.serial = c.serial
        /\ q.cur.serial = r.cur.serial /\ q.pend.serial = c.serial /\ v.serial = w.serial
    BY <1>1
  <2> HIDE DEF r, q, c
  <2>2. r.conf.serial <= w.serial /\ c.serial <= w.serial /\ r.cur.serial <= w.serial
    BY <1>2, <1>5, <1>6
  <2>3. "HasToSend" \in q.flags =>
          c.serial < r.conf.serial /\ r.cur.serial < r.conf.serial
    BY <1>5, <1>6, <2>1
  <2>4. \A j \in 1..Len(q.sent) :
          /\ q.ack.serial < q.sent[j].serial /\ q.cur.serial < q.sent[j].serial
          /\ q.pend.serial < q.sent[j].serial /\ q.sent[j].serial <= q.conf.serial
          /\ "HasToSend" \in q.flags => q.sent[j].serial < q.conf.serial
          /\ \A k \in 1..(j - 1) : q.sent[k].serial < q.sent[j].serial
    BY <1>7, <2>1
  <2> QED  BY <1>8, <2>1, <2>2, <2>3, <2>4 DEF SerialInv
<1>10. ReadyToUpdate(q, v.serial)
  BY <1>1, <1>2, <1>9 DEF ReadyToUpdate, RoleInv, ResizeInv
<1>11. Others(v, t)
  BY <1>1 DEF WorldInv, Others
<1>12. ~q.resize.active /\ "Resizing" \in c.state => "HasToSend" \in q.flags \/ q.sent # << >>
  <2> SUFFICES ASSUME ~q.resize.active, "Resizing" \in c.state, "HasToSend" \notin q.flags,
                      q.sent = << >>
               PROVE  FALSE
    OBVIOUS
  <2>1. i = Len(r.sent) /\ r.sent # << >>
    BY <1>3
  <2>2. r.conf.state = c.state
    BY <1>1, <1>5, <2>1
  <2> QED  BY <1>1, <1>2, <2>2 DEF RoleInv, ResizeInv
<1> QED  BY <1>6, <1>10, <1>11, <1>12 DEF v

(* The acknowledged atoms are applied, all of them or the light states. *)
LEMMA AckedInv ==
  ASSUME NEW w, NEW v, NEW t \in Toplevels, WorldInv(w), NEW i \in 1..Len(w.role[t].sent),
         i = 1 \/ t \in Hasty,
         Touched(Acknowledged(w, t, i), v, t),
         v.role[t].pend.geometry = v.role[t].cur.geometry,
         v.role[t].pend.serial = w.role[t].sent[i].serial,
         v.role[t].pend.state = w.role[t].sent[i].state,
         \/ /\ v.role[t].cur.serial = w.role[t].sent[i].serial
            /\ v.role[t].cur.state = w.role[t].sent[i].state
         \/ /\ v.role[t].cur.serial = w.role[t].cur.serial
            /\ v.role[t].cur.state =
                 (w.role[t].cur.state \ Light) \cup (w.role[t].sent[i].state \cap Light),
         "Activated" \in w.role[t].sent[i].state \ w.role[t].cur.state => v.active = t,
         ~("Activated" \in w.role[t].sent[i].state \ w.role[t].cur.state) => v.active = w.active
  PROVE  WorldInv(v)
<1> DEFINE k == Acknowledged(w, t, i)
           r == w.role[t]
           p == k.role[t]
           q == v.role[t]
           c == r.sent[i]
<1>1. /\ k \in Worlds /\ k.active = w.active /\ k.serial = w.serial
      /\ p.sent = SubSeq(r.sent, i + 1, Len(r.sent)) /\ p.ack = c
      /\ p.pend.serial = c.serial /\ p.cur = r.cur /\ p.flags = r.flags
  BY AcknowledgedOK
<1>2. /\ ReadyToUpdate(p, k.serial) /\ Others(k, t)
      /\ r.cur.serial < c.serial
      /\ ~p.resize.active /\ "Resizing" \in c.state =>
                 "HasToSend" \in p.flags \/ p.sent # << >>
  BY AcknowledgedReady
<1>3. Touched(k, v, t)
  OBVIOUS
<1> HIDE DEF k
<1>4. Configured(p, q, k.serial, v.serial)
  BY <1>3 DEF Touched
<1>5. r \in RoleType /\ r.sent \in Seq(ConfType) /\ r.cur.serial \in Nat /\ c.serial \in Nat
  BY WorldsOK, StatesOK, SentOK DEF WorldInv
<1>6. SlotInv(q)
  BY <1>1, <1>2, <1>4, <1>5 DEF SlotInv, Configured
<1>7. /\ "Activated" \in q.cur.state => "Activated" \in c.state
      /\ "Resizing" \in q.cur.state => "Resizing" \in c.state
  BY DEF Light
<1>8. ~q.resize.active /\ "Resizing" \in q.cur.state => "HasToSend" \in q.flags \/ q.sent # << >>
  BY <1>2, <1>4, <1>7 DEF Configured
<1>9. ASSUME t \notin Hasty, t # v.active, "Activated" \in q.cur.state
      PROVE  \/ {"HasToSend", "ForceRemoveActivatedFlag"} \subseteq q.flags
             \/ \E j \in 1..Len(q.sent) : "Activated" \notin q.sent[j].state
  <2>1. "Activated" \in c.state /\ "Activated" \in r.cur.state /\ v.active = w.active
    BY <1>7, <1>9
  <2>2. Told(r) /\ i = 1
    BY <1>9, <2>1 DEF WorldInv
  <2>3. CASE {"HasToSend", "ForceRemoveActivatedFlag"} \subseteq r.flags
    BY <1>1, <1>4, <2>3 DEF Configured
  <2>4. ASSUME NEW j \in 1..Len(r.sent), "Activated" \notin r.sent[j].state
        PROVE  \E l \in 1..Len(q.sent) : "Activated" \notin q.sent[l].state
    <3>1. /\ Len(p.sent) = Len(r.sent) - 1 /\ Len(r.sent) \in Nat
          /\ \A l \in 1..Len(p.sent) : p.sent[l] = r.sent[1 + l]
      BY <1>1, <1>5, <2>2, RestOK, LenProperties
    <3>2. j # 1
      BY <2>1, <2>2, <2>4
    <3>3. j - 1 \in 1..Len(p.sent) /\ 1 + (j - 1) = j
      BY <2>4, <3>1, <3>2
    <3>4. p.sent[j - 1] = r.sent[j] /\ q.sent = p.sent
      BY <1>4, <3>1, <3>3 DEF Configured
    <3> QED  BY <2>4, <3>3, <3>4
  <2> QED  BY <2>1, <2>2, <2>3, <2>4 DEF Told
<1>10. t \notin Hasty /\ t # v.active => Told(q)
  BY <1>9 DEF Told
<1>11. /\ q.cur.serial \in {p.cur.serial, p.pend.serial}
       /\ q.pend.serial \in {p.cur.serial, p.pend.serial}
  BY <1>1
<1> QED  BY <1>1, <1>2, <1>3, <1>6, <1>8, <1>10, <1>11, UpdatedInv

LEMMA AckConfigureOK ==
  ASSUME NEW t \in Toplevels, WorldInv(World), NEW i \in 1..Len(role[t].sent), AckConfigure(t, i)
  PROVE  /\ WorldInv(World')
         /\ \A u \in Toplevels \ {t} : /\ role'[u].sent = role[u].sent
                                       /\ role'[u].ack = role[u].ack
                                       /\ role'[u].cur = role[u].cur
         /\ role'[t].sent = SubSeq(role[t].sent, i + 1, Len(role[t].sent))
         /\ role'[t].ack = role[t].sent[i]
         /\ \/ /\ role'[t].cur.serial = role[t].cur.serial
               /\ role'[t].cur.state =
                    (role[t].cur.state \ Light) \cup (role[t].sent[i].state \cap Light)
            \/ /\ role[t].sent[i].size = role[t].ack.size
               /\ role'[t].cur.serial = role[t].sent[i].serial
               /\ role'[t].cur.state = role[t].sent[i].state
<1> DEFINE w == World
           k == Acknowledged(w, t, i)
           r == role[t]
           c == r.sent[i]
           p == k.role[t]
           f(g) == FullAtomsUpdate(k, t, g)
           h == PartialAtomsUpdate(k, t)
<1>1. /\ i = 1 \/ t \in Hasty
      /\ \/ r.ack.size = c.size /\ \E g \in SurfaceWidths : Becomes(f(g))
         \/ Becomes(h)
  BY DEF AckConfigure
<1>2. w \in Worlds /\ w.role = role /\ WorldInv(w)
  BY WorldIs DEF WorldInv
<1> HIDE DEF w
<1>3. /\ k \in Worlds /\ k.active = w.active /\ k.serial = w.serial
      /\ \A u \in Toplevels \ {t} : k.role[u] = role[u]
      /\ p.sent = SubSeq(r.sent, i + 1, Len(r.sent)) /\ p.ack = c
      /\ p.pend.serial = c.serial /\ p.pend.state = c.state
      /\ p.pend.geometry = r.pend.geometry /\ p.cur = r.cur
  BY <1>2, AcknowledgedOK
<1>4. /\ r.cur.serial < c.serial /\ r.pend.geometry = r.cur.geometry
      /\ r.cur.serial \in Nat /\ c.serial \in Nat
  <2>1. r.cur.serial < c.serial
    BY <1>2, AcknowledgedReady
  <2>2. r \in RoleType /\ r.sent \in Seq(ConfType)
    BY <1>2, WorldsOK, StatesOK
  <2> QED  BY <1>2, <2>1, <2>2, StatesOK, SentOK DEF WorldInv, RoleInv, SlotInv
<1> HIDE DEF k
<1>5. ASSUME NEW g \in SurfaceWidths, Becomes(f(g)), r.ack.size = c.size
      PROVE  /\ WorldInv(f(g)) /\ World' = f(g) /\ Touched(k, f(g), t)
             /\ f(g).role[t].cur.serial = c.serial /\ f(g).role[t].cur.state = c.state
  <2>1. g \in AllGeometries
    BY <1>5 DEF AllGeometries
  <2>2. /\ Touched(k, f(g), t)
        /\ f(g).role[t].pend.geometry = f(g).role[t].cur.geometry
        /\ f(g).role[t].cur.serial = p.pend.serial /\ f(g).role[t].pend.serial = p.pend.serial
        /\ p.pend.serial # p.cur.serial =>
             f(g).role[t].cur.state = p.pend.state /\ f(g).role[t].pend.state = p.pend.state
        /\ p.pend.serial # p.cur.serial /\ "Activated" \in p.pend.state \ p.cur.state =>
             f(g).active = t
        /\ ~(p.pend.serial # p.cur.serial /\ "Activated" \in p.pend.state \ p.cur.state) =>
             f(g).active = k.active
    BY <1>3, <2>1, FullAtomsUpdateOK
  <2>3. p.pend.serial # p.cur.serial
    BY <1>3, <1>4
  <2> HIDE DEF f
  <2>4. WorldInv(f(g))
    BY <1>1, <1>2, <1>3, <2>2, <2>3, AckedInv DEF k
  <2>5. World' = f(g)
    BY <1>5, <2>4, BecomesOK DEF WorldInv
  <2> QED  BY <1>3, <2>2, <2>3, <2>4, <2>5
<1>6. ASSUME Becomes(h)
      PROVE  /\ WorldInv(h) /\ World' = h /\ Touched(k, h, t)
             /\ h.role[t].cur.serial = r.cur.serial
             /\ h.role[t].cur.state = (r.cur.state \ Light) \cup (c.state \cap Light)
  <2>1. /\ Touched(k, h, t)
        /\ h.role[t].cur.serial = p.cur.serial /\ h.role[t].cur.geometry = p.cur.geometry
        /\ h.role[t].cur.state = (p.cur.state \ Light) \cup (p.pend.state \cap Light)
        /\ h.role[t].pend = p.pend
        /\ "Activated" \in p.pend.state \ p.cur.state => h.active = t
        /\ ~("Activated" \in p.pend.state \ p.cur.state) => h.active = k.active
    BY <1>3, PartialAtomsUpdateOK
  <2> HIDE DEF h
  <2>2. WorldInv(h)
    <3>1. /\ h.role[t].pend.geometry = h.role[t].cur.geometry
          /\ h.role[t].pend.serial = c.serial /\ h.role[t].pend.state = c.state
          /\ h.role[t].cur.serial = r.cur.serial
          /\ h.role[t].cur.state = (r.cur.state \ Light) \cup (c.state \cap Light)
          /\ "Activated" \in c.state \ r.cur.state => h.active = t
          /\ ~("Activated" \in c.state \ r.cur.state) => h.active = w.active
      BY <1>3, <1>4, <2>1
    <3> QED  BY <1>1, <1>2, <2>1, <3>1, AckedInv DEF k
  <2>3. World' = h
    BY <1>6, <2>2, BecomesOK DEF WorldInv
  <2> QED  BY <1>3, <2>1, <2>2, <2>3
<1>7. ASSUME NEW v, World' = v, Touched(k, v, t)
      PROVE  /\ role' = v.role
             /\ \A u \in Toplevels \ {t} : /\ v.role[u].sent = role[u].sent
                                           /\ v.role[u].ack = role[u].ack
                                           /\ v.role[u].cur = role[u].cur
             /\ v.role[t].sent = p.sent /\ v.role[t].ack = p.ack
  <2>1. role' = v.role
    BY <1>7 DEF World
  <2> QED  BY <1>3, <1>7, <2>1, OthersSame
<1> HIDE DEF f, h
<1>8. CASE r.ack.size = c.size /\ \E g \in SurfaceWidths : Becomes(f(g))
  <2>1. PICK g \in SurfaceWidths : Becomes(f(g))
    BY <1>8
  <2>2. /\ WorldInv(f(g)) /\ World' = f(g) /\ Touched(k, f(g), t)
        /\ f(g).role[t].cur.serial = c.serial /\ f(g).role[t].cur.state = c.state
    BY <1>5, <1>8, <2>1
  <2> QED  BY <1>3, <1>7, <1>8, <2>2
<1>9. CASE Becomes(h)
  BY <1>3, <1>6, <1>7, <1>9
<1> QED  BY <1>1, <1>8, <1>9

-----------------------------------------------------------------------------
(* Reset and destruction *)

LEMMA ReplacedInv ==
  ASSUME NEW w, NEW v \in Worlds, NEW t \in Toplevels, WorldInv(w), w.serial <= v.serial,
         v.active = w.active \/ w.active = t,
         \A u \in Toplevels \ {t} : v.role[u] = w.role[u],
         RoleInv(v.role[t], v.serial), Told(v.role[t])
  PROVE  WorldInv(v)
<1>1. w \in Worlds /\ w.serial \in Nat /\ v.serial \in Nat
  BY WorldsOK DEF WorldInv
<1>2. ASSUME NEW u \in Toplevels \ {t}
      PROVE  /\ RoleInv(v.role[u], v.serial)
             /\ u \notin Hasty /\ u # v.active => Told(v.role[u])
  <2>1. /\ w.role[u] \in RoleType /\ v.role[u] = w.role[u] /\ RoleInv(w.role[u], w.serial)
        /\ u \notin Hasty /\ u # w.active => Told(w.role[u])
    BY <1>1, <1>2, WorldsOK DEF WorldInv
  <2>2. Configured(w.role[u], w.role[u], w.serial, v.serial) /\ Keeps(w.role[u], w.role[u])
    BY DEF Configured, Keeps
  <2>3. RoleInv(w.role[u], v.serial)
    BY <1>1, <2>1, <2>2, KeptRole
  <2> QED  BY <1>2, <2>1, <2>3
<1> QED  BY <1>2 DEF WorldInv

LEMMA NewRoleOK ==
  ASSUME NEW n \in Nat
  PROVE  NewRole \in RoleType /\ RoleInv(NewRole, n) /\ Told(NewRole)
<1>1. NoConfiguration \in ConfType /\ NoAtoms \in AtomsType
  BY DEF NoConfiguration, NoAtoms, ConfType, AtomsType, Sizes, AllGeometries
<1> DEFINE z == [active |-> FALSE, serial |-> 0, handled |-> TRUE, timer |-> FALSE]
<1>2. z \in ResizeType /\ z.active = FALSE /\ z.handled = TRUE /\ z.timer = FALSE
  BY DEF ResizeType
<1>3. << >> \in Seq(ConfType) /\ Len(<< >>) = 0
  OBVIOUS
<1>4. {"HasPendingInitialConf"} \in SUBSET Flags /\ 0 \in AllGeometries
  BY DEF Flags, AllGeometries
<1> HIDE DEF z
<1>5. /\ NewRole.flags = {"HasPendingInitialConf"} /\ NewRole.resize = z /\ NewRole.sent = << >>
      /\ NewRole.conf = NoConfiguration /\ NewRole.ack = NoConfiguration
      /\ NewRole.cur = NoAtoms /\ NewRole.pend = NoAtoms
  BY DEF NewRole, z
<1>6. NewRole \in RoleType
  BY <1>1, <1>2, <1>3, <1>4 DEF NewRole, RoleType, z
<1>7. Timed(z)
  BY <1>2 DEF Timed
<1>8. /\ NoConfiguration.serial = 0 /\ NoConfiguration.state = {}
      /\ NoAtoms.serial = 0 /\ NoAtoms.state = {}
  BY DEF NoConfiguration, NoAtoms
<1>9. SerialInv(NewRole, n)
  BY <1>3, <1>5, <1>8 DEF SerialInv
<1>10. SlotInv(NewRole) /\ ResizeInv(NewRole) /\ Told(NewRole)
  BY <1>2, <1>5, <1>7, <1>8 DEF SlotInv, ResizeInv, Told
<1> QED  BY <1>6, <1>9, <1>10 DEF RoleInv

LEMMA DestroyOK ==
  ASSUME NEW t \in Toplevels, WorldInv(World), Destroy(t)
  PROVE  WorldInv(World') /\ role' = [role EXCEPT ![t] = NewRole]
<1> DEFINE v == [role |-> [role EXCEPT ![t] = NewRole],
                 active |-> IF activeToplevel = t THEN None ELSE activeToplevel,
                 serial |-> serial]
<1>1. World' = v
  BY DEF Destroy, World
<1>2. /\ role \in [Toplevels -> RoleType] /\ activeToplevel \in Toplevels \cup {None}
      /\ serial \in Nat
  BY WorldIs, WorldsOK DEF WorldInv
<1>3. NewRole \in RoleType /\ RoleInv(NewRole, serial) /\ Told(NewRole)
  BY <1>2, NewRoleOK
<1>4. /\ v \in Worlds /\ v.serial = serial /\ v.role[t] = NewRole
      /\ v.active = activeToplevel \/ activeToplevel = t
      /\ \A u \in Toplevels \ {t} : v.role[u] = role[u]
  BY <1>2, <1>3 DEF Worlds
<1> HIDE DEF v
<1>5. WorldInv(v)
  BY <1>2, <1>3, <1>4, WorldIs, ReplacedInv
<1> QED  BY <1>1, <1>5 DEF Destroy

LEMMA ClearedOK ==
  ASSUME NEW w \in Worlds, NEW t \in Toplevels
  PROVE  LET v == Cleared(w, t)
             r == w.role[t]
             q == v.role[t]
         IN /\ v \in Worlds /\ v.active = w.active /\ w.serial <= v.serial
            /\ \A u \in Toplevels \ {t} : v.role[u] = w.role[u]
            /\ q.conf = NoConfiguration /\ q.ack = NoConfiguration /\ q.sent = << >>
            /\ q.pend.state = {} /\ q.pend.serial # q.cur.serial /\ q.pend.serial <= v.serial
            /\ q.resize = r.resize /\ q.mapped = r.mapped
<1> DEFINE r == w.role[t]
           again == r.cur.serial = 0
           n == IF again THEN w.serial + 1 ELSE w.serial
           s == IF again THEN w.serial + 1 ELSE 0
           pend == [NoAtoms EXCEPT !.serial = s]
           a == [r EXCEPT !.conf = NoConfiguration]
           b == [a EXCEPT !.ack = NoConfiguration]
           d == [b EXCEPT !.sent = << >>]
           q == [d EXCEPT !.pend = pend]
           x == [w EXCEPT !.role = [w.role EXCEPT ![t] = q]]
           v == [x EXCEPT !.serial = n]
<1>1. Cleared(w, t) = v
  <2>1. q = [r EXCEPT !.conf = NoConfiguration, !.ack = NoConfiguration, !.sent = << >>,
                      !.pend = pend]
    OBVIOUS
  <2>2. Cleared(w, t) =
          [w EXCEPT !.serial = n, !.role = [w.role EXCEPT ![t] =
            [r EXCEPT !.conf = NoConfiguration, !.ack = NoConfiguration, !.sent = << >>,
                      !.pend = pend]]]
    BY DEF Cleared
  <2> HIDE DEF q
  <2>3. v = [w EXCEPT !.serial = n, !.role = [w.role EXCEPT ![t] = q]]
    BY DEF Worlds
  <2> QED  BY <2>1, <2>2, <2>3
<1>2. /\ r \in RoleType /\ r.cur.serial \in Nat /\ w.serial \in Nat
  BY WorldsOK, StatesOK
<1>3. n \in Nat /\ s \in Nat /\ w.serial <= n /\ s <= n /\ s # r.cur.serial
  BY <1>2
<1>4. NoConfiguration \in ConfType /\ << >> \in Seq(ConfType)
  BY DEF NoConfiguration, ConfType, Sizes
<1> HIDE DEF n, s, r
<1>5. pend \in AtomsType /\ pend.serial = s /\ pend.state = {}
  BY <1>3 DEF NoAtoms, AtomsType, AllGeometries
<1> HIDE DEF pend
<1>6. /\ a \in RoleType /\ a.conf = NoConfiguration
      /\ a.cur = r.cur /\ a.resize = r.resize /\ a.mapped = r.mapped
  BY <1>2, <1>4 DEF RoleType
<1> HIDE DEF a
<1>7. /\ b \in RoleType /\ b.conf = NoConfiguration /\ b.ack = NoConfiguration
      /\ b.cur = r.cur /\ b.resize = r.resize /\ b.mapped = r.mapped
  BY <1>4, <1>6 DEF RoleType
<1> HIDE DEF b
<1>8. /\ d \in RoleType /\ d.conf = NoConfiguration /\ d.ack = NoConfiguration /\ d.sent = << >>
      /\ d.cur = r.cur /\ d.resize = r.resize /\ d.mapped = r.mapped
  BY <1>4, <1>7 DEF RoleType
<1> HIDE DEF d
<1>9. /\ q \in RoleType /\ q.conf = NoConfiguration /\ q.ack = NoConfiguration /\ q.sent = << >>
      /\ q.pend = pend /\ q.cur = r.cur /\ q.resize = r.resize /\ q.mapped = r.mapped
  BY <1>5, <1>8 DEF RoleType
<1> HIDE DEF q
<1>10. /\ x \in Worlds /\ x.active = w.active
       /\ x.role[t] = q /\ \A u \in Toplevels \ {t} : x.role[u] = w.role[u]
  BY <1>9, PutRole
<1> HIDE DEF x
<1>11. v \in Worlds /\ v.active = x.active /\ v.role = x.role /\ v.serial = n
  BY <1>3, <1>10 DEF Worlds
<1> HIDE DEF v
<1> QED  BY <1>1, <1>3, <1>5, <1>9, <1>10, <1>11 DEF r

LEMMA ResetOK ==
  ASSUME NEW w, NEW t \in Toplevels, NEW g \in AllGeometries, WorldInv(w)
  PROVE  LET v == Reset(w, t, g)
             q == v.role[t]
         IN /\ WorldInv(v)
            /\ \A u \in Toplevels \ {t} : v.role[u] = w.role[u]
            /\ q.sent = << >> /\ q.ack = NoConfiguration /\ q.cur.state = {}
<1> DEFINE r == w.role[t]
           o == [r EXCEPT !.mapped = FALSE]
           a == [w EXCEPT !.role = [w.role EXCEPT ![t] = o]]
           b == StopResize(a, t)
           k == Cleared(b, t)
           c == FullAtomsUpdate(k, t, g)
           y == [c.role[t] EXCEPT !.requestedMaximized = FALSE]
           q == [y EXCEPT !.flags = {"HasPendingInitialConf"}]
           x == [c EXCEPT !.role = [c.role EXCEPT ![t] = q]]
           active == IF c.active = t THEN None ELSE c.active
           v == [x EXCEPT !.active = active]
<1>1. w \in Worlds /\ r \in RoleType /\ RoleInv(r, w.serial) /\ w.serial \in Nat
  BY WorldsOK DEF WorldInv
<1>2. c \in Worlds => Reset(w, t, g) = v
  <2>1. q = [c.role[t] EXCEPT !.requestedMaximized = FALSE, !.flags = {"HasPendingInitialConf"}]
    OBVIOUS
  <2>2. Reset(w, t, g) =
          [c EXCEPT !.active = active, !.role = [c.role EXCEPT ![t] =
             [c.role[t] EXCEPT !.requestedMaximized = FALSE, !.flags = {"HasPendingInitialConf"}]]]
    BY DEF Reset
  <2> HIDE DEF q, c, active
  <2>3. c \in Worlds => v = [c EXCEPT !.active = active, !.role = [c.role EXCEPT ![t] = q]]
    BY DEF Worlds
  <2> QED  BY <2>1, <2>2, <2>3
<1>3. o \in RoleType /\ o.mapped = FALSE /\ o.resize = r.resize
  BY <1>1 DEF RoleType
<1> HIDE DEF o
<1>4. /\ a \in Worlds /\ a.active = w.active /\ a.serial = w.serial
      /\ a.role[t] = o /\ \A u \in Toplevels \ {t} : a.role[u] = w.role[u]
  BY <1>1, <1>3, PutRole
<1> HIDE DEF a
<1>5. /\ b \in Worlds /\ b.active = w.active /\ w.serial <= b.serial
      /\ \A u \in Toplevels \ {t} : b.role[u] = w.role[u]
      /\ ~b.role[t].resize.active /\ Timed(b.role[t].resize)
  <2>1. /\ b \in Worlds /\ b.active = a.active /\ a.serial <= b.serial
        /\ \A u \in Toplevels \ {t} : b.role[u] = a.role[u]
        /\ ~b.role[t].resize.active
        /\ ~o.resize.active => b = a
        /\ o.resize.active => b.role[t].resize.timer = ~b.role[t].resize.handled
    BY <1>4, StopResizeOK
  <2> HIDE DEF b
  <2>2. Timed(b.role[t].resize)
    <3>1. CASE o.resize.active
      BY <2>1, <3>1 DEF Timed
    <3>2. CASE ~o.resize.active
      <4>1. b.role[t].resize = r.resize
        BY <1>3, <1>4, <2>1, <3>2
      <4> QED  BY <1>1, <4>1 DEF RoleInv, ResizeInv
    <3> QED  BY <3>1, <3>2
  <2> QED  BY <1>4, <2>1, <2>2
<1> HIDE DEF b
<1>6. /\ k \in Worlds /\ k.active = w.active /\ b.serial <= k.serial
      /\ \A u \in Toplevels \ {t} : k.role[u] = w.role[u]
      /\ k.role[t].conf = NoConfiguration /\ k.role[t].ack = NoConfiguration
      /\ k.role[t].sent = << >>
      /\ k.role[t].pend.state = {} /\ k.role[t].pend.serial # k.role[t].cur.serial
      /\ k.role[t].pend.serial <= k.serial
      /\ ~k.role[t].resize.active /\ Timed(k.role[t].resize)
  BY <1>5, ClearedOK
<1> HIDE DEF k
<1>7. /\ Touched(k, c, t)
      /\ c.role[t].pend.geometry = c.role[t].cur.geometry
      /\ c.role[t].cur.serial = k.role[t].pend.serial /\ c.role[t].pend.serial = k.role[t].pend.serial
      /\ c.role[t].cur.state = {} /\ c.role[t].pend.state = {}
      /\ c.active = w.active
      /\ c.serial = k.serial /\ c.role[t].conf = NoConfiguration
      /\ \A u \in Toplevels \ {t} : c.role[u] = w.role[u]
  <2>1. /\ Touched(k, c, t)
        /\ c.role[t].pend.geometry = c.role[t].cur.geometry
        /\ c.role[t].cur.serial = k.role[t].pend.serial
        /\ c.role[t].pend.serial = k.role[t].pend.serial
        /\ k.role[t].pend.serial # k.role[t].cur.serial =>
             c.role[t].cur.state = k.role[t].pend.state /\ c.role[t].pend.state = k.role[t].pend.state
        /\ ~(/\ k.role[t].pend.serial # k.role[t].cur.serial
             /\ "Activated" \in k.role[t].pend.state \ k.role[t].cur.state) =>
             c.active = k.active
        /\ k.role[t].pend.state = {} =>
             /\ c.serial = k.serial /\ c.role[t].conf = k.role[t].conf
             /\ \A u \in Toplevels \ {t} : c.role[u] = k.role[u]
    BY <1>6, FullAtomsUpdateOK
  <2> HIDE DEF c
  <2> QED  BY <1>6, <2>1
<1> HIDE DEF c
<1>8. c \in Worlds /\ c.role[t] \in RoleType /\ Configured(k.role[t], c.role[t], k.serial, c.serial)
  BY <1>7, WorldsOK DEF Touched
<1>9. /\ c.role[t].sent = << >> /\ c.role[t].ack = NoConfiguration
      /\ ~c.role[t].resize.active /\ Timed(c.role[t].resize)
  BY <1>6, <1>8 DEF Configured
<1>10. /\ y \in RoleType
       /\ y.sent = << >> /\ y.ack = NoConfiguration /\ y.conf = NoConfiguration
       /\ y.resize = c.role[t].resize /\ y.cur = c.role[t].cur /\ y.pend = c.role[t].pend
  BY <1>7, <1>8, <1>9 DEF RoleType
<1> HIDE DEF y
<1>11. /\ q \in RoleType /\ q.flags = {"HasPendingInitialConf"}
       /\ q.sent = << >> /\ q.ack = NoConfiguration /\ q.conf = NoConfiguration
       /\ q.resize = c.role[t].resize /\ q.cur = c.role[t].cur /\ q.pend = c.role[t].pend
  BY <1>10 DEF RoleType, Flags
<1> HIDE DEF q
<1>12. /\ x \in Worlds /\ x.active = c.active /\ x.serial = c.serial
       /\ x.role[t] = q /\ \A u \in Toplevels \ {t} : x.role[u] = c.role[u]
  BY <1>8, <1>11, PutRole
<1> HIDE DEF x
<1>13. active \in Toplevels \cup {None} /\ (active = w.active \/ w.active = t)
  BY <1>7, <1>8, WorldsOK
<1> HIDE DEF active
<1>14. /\ v \in Worlds /\ v.active = active /\ v.serial = k.serial
       /\ v.role[t] = q /\ \A u \in Toplevels \ {t} : v.role[u] = w.role[u]
  BY <1>7, <1>12, <1>13 DEF Worlds
<1> HIDE DEF v
<1>15. RoleInv(q, v.serial) /\ Told(q)
  <2>1. /\ NoConfiguration.serial = 0 /\ NoConfiguration.state = {}
    BY DEF NoConfiguration
  <2>2. v.serial \in Nat /\ q.cur.serial <= v.serial /\ q.pend.serial <= v.serial
        /\ q.cur.serial = q.pend.serial /\ q.cur.state = {} /\ q.pend.state = {}
        /\ q.pend.geometry = q.cur.geometry
    BY <1>6, <1>7, <1>11, <1>14, WorldsOK
  <2>3. Len(q.sent) = 0
    BY <1>11
  <2>4. SerialInv(q, v.serial)
    BY <1>11, <2>1, <2>2, <2>3 DEF SerialInv
  <2>5. SlotInv(q) /\ Told(q)
    BY <2>2 DEF SlotInv, Told
  <2>6. ResizeInv(q)
    BY <1>9, <1>11, <2>1, <2>2 DEF ResizeInv
  <2> QED  BY <2>4, <2>5, <2>6 DEF RoleInv
<1>16. w.serial <= v.serial
  <2>1. b.serial \in Nat /\ k.serial \in Nat
    BY <1>5, <1>6, WorldsOK
  <2> QED  BY <1>1, <1>5, <1>6, <1>14, <2>1
<1>17. WorldInv(v)
  BY <1>13, <1>14, <1>15, <1>16, ReplacedInv
<1> QED  BY <1>2, <1>7, <1>8, <1>11, <1>14, <1>17

LEMMA CommitOK ==
  ASSUME NEW t \in Toplevels, NEW hasBuffer \in BOOLEAN, WorldInv(World), Commit(t, hasBuffer)
  PROVE  /\ WorldInv(World')
         /\ \A u \in Toplevels \ {t} : /\ role'[u].sent = role[u].sent
                                       /\ role'[u].ack = role[u].ack
                                       /\ role'[u].cur = role[u].cur
         /\ \/ /\ role'[t].sent = << >> /\ role'[t].ack = NoConfiguration
               /\ role'[t].cur.state = {}
            \/ /\ role'[t].sent = role[t].sent /\ role'[t].ack = role[t].ack
               /\ \/ role'[t].cur.serial = role[t].cur.serial /\ role'[t].cur.state = role[t].cur.state
                  \/ role'[t].cur.serial = role[t].ack.serial /\ role'[t].cur.state = role[t].ack.state
<1> DEFINE w == World
           x(g) == Reset(w, t, g)
           c(g) == FullAtomsUpdate(w, t, g)
           v(g) == [c(g) EXCEPT !.role = [c(g).role EXCEPT ![t] =
                     [c(g).role[t] EXCEPT !.mapped = hasBuffer \/ c(g).role[t].mapped]]]
<1>1. PICK g \in SurfaceWidths : Becomes(x(g)) \/ Becomes(v(g))
  BY DEF Commit
<1>2. w \in Worlds /\ w.role = role /\ WorldInv(w) /\ g \in AllGeometries
  BY WorldIs DEF WorldInv, AllGeometries
<1> HIDE DEF w
<1>3. CASE Becomes(x(g))
  <2>1. /\ WorldInv(x(g)) /\ \A u \in Toplevels \ {t} : x(g).role[u] = role[u]
        /\ x(g).role[t].sent = << >> /\ x(g).role[t].ack = NoConfiguration
        /\ x(g).role[t].cur.state = {}
    BY <1>2, ResetOK
  <2> HIDE DEF x
  <2>2. World' = x(g)
    BY <1>3, <2>1, BecomesOK DEF WorldInv
  <2>3. role' = x(g).role
    BY <2>2 DEF World
  <2> QED  BY <2>1, <2>2, <2>3
<1>4. CASE Becomes(v(g))
  <2>1. /\ WorldInv(c(g))
        /\ \A u \in Toplevels \ {t} : /\ c(g).role[u].sent = role[u].sent
                                      /\ c(g).role[u].ack = role[u].ack
                                      /\ c(g).role[u].cur = role[u].cur
        /\ c(g).role[t].sent = role[t].sent /\ c(g).role[t].ack = role[t].ack
        /\ \/ c(g).role[t].cur.serial = role[t].cur.serial /\ c(g).role[t].cur.state = role[t].cur.state
           \/ c(g).role[t].cur.serial = role[t].ack.serial /\ c(g).role[t].cur.state = role[t].ack.state
    BY <1>2, CommitAtomsOK
  <2> HIDE DEF c
  <2>2. /\ WorldInv(v(g))
        /\ \A u \in Toplevels : /\ v(g).role[u].sent = c(g).role[u].sent
                                /\ v(g).role[u].ack = c(g).role[u].ack
                                /\ v(g).role[u].cur = c(g).role[u].cur
    BY <2>1, MappedInv
  <2> HIDE DEF v
  <2>3. World' = v(g)
    BY <1>4, <2>2, BecomesOK DEF WorldInv
  <2>4. role' = v(g).role
    BY <2>3 DEF World
  <2> QED  BY <2>1, <2>2, <2>3, <2>4
<1> QED  BY <1>1, <1>3, <1>4

-----------------------------------------------------------------------------
(* Configurations are sent. *)

LEMMA AppendOK ==
  ASSUME NEW s \in Seq(ConfType), NEW c \in ConfType
  PROVE  LET x == Append(s, c) IN
         /\ x \in Seq(ConfType) /\ Len(s) \in Nat /\ Len(x) = Len(s) + 1
         /\ \A i \in 1..Len(s) : x[i] = s[i]
         /\ x[Len(s) + 1] = c
BY AppendProperties, LenProperties

LEMMA FlushedOK ==
  ASSUME NEW r \in RoleType, NEW n \in Nat, RoleInv(r, n), "HasToSend" \in r.flags
  PROVE  LET q == Flushed(r) IN
         /\ q \in RoleType /\ RoleInv(q, n) /\ (Told(r) => Told(q))
         /\ q.ack = r.ack /\ q.cur = r.cur
         /\ \E c \in ConfType : q.sent = Append(r.sent, c) /\ c.serial = r.conf.serial
<1> DEFINE c == IF "ForceRemoveActivatedFlag" \in r.flags
                THEN [r.conf EXCEPT !.state = r.conf.state \ {"Activated"}] ELSE r.conf
           sent == Append(r.sent, c)
           flags == r.flags \ {"HasToSend", "ForceRemoveActivatedFlag"}
           a == [r EXCEPT !.conf = c]
           b == [a EXCEPT !.sent = sent]
           q == [b EXCEPT !.flags = flags]
<1>1. Flushed(r) = q
  <2>1. q = [r EXCEPT !.conf = c, !.sent = sent, !.flags = flags]
    OBVIOUS
  <2>2. Flushed(r) = [r EXCEPT !.conf = c, !.sent = sent, !.flags = flags]
    BY DEF Flushed
  <2> HIDE DEF q
  <2> QED  BY <2>1, <2>2
<1>2. /\ r.conf \in ConfType /\ r.sent \in Seq(ConfType) /\ r.flags \in SUBSET Flags
      /\ r.conf.serial \in Nat /\ r.ack.serial \in Nat /\ r.cur.serial \in Nat /\ r.pend.serial \in Nat
  BY StatesOK
<1>3. /\ c \in ConfType /\ c.serial = r.conf.serial /\ c.state \subseteq r.conf.state
      /\ "ForceRemoveActivatedFlag" \in r.flags => "Activated" \notin c.state
  BY <1>2 DEF ConfType
<1> HIDE DEF c
<1>4. /\ sent \in Seq(ConfType) /\ Len(r.sent) \in Nat /\ Len(sent) = Len(r.sent) + 1
      /\ \A i \in 1..Len(r.sent) : sent[i] = r.sent[i]
      /\ sent[Len(r.sent) + 1] = c
  BY <1>2, <1>3, AppendOK
<1>5. flags \in SUBSET Flags /\ "HasToSend" \notin flags
  BY <1>2
<1> HIDE DEF sent, flags
<1>6. /\ a \in RoleType /\ a.conf = c
      /\ a.ack = r.ack /\ a.cur = r.cur /\ a.pend = r.pend
      /\ a.resize = r.resize /\ a.mapped = r.mapped
  BY <1>3 DEF RoleType
<1> HIDE DEF a
<1>7. /\ b \in RoleType /\ b.conf = c /\ b.sent = sent
      /\ b.ack = r.ack /\ b.cur = r.cur /\ b.pend = r.pend
      /\ b.resize = r.resize /\ b.mapped = r.mapped
  BY <1>4, <1>6 DEF RoleType
<1> HIDE DEF b
<1>8. /\ q \in RoleType /\ q.conf = c /\ q.sent = sent /\ q.flags = flags
      /\ q.ack = r.ack /\ q.cur = r.cur /\ q.pend = r.pend
      /\ q.resize = r.resize /\ q.mapped = r.mapped
  BY <1>5, <1>7 DEF RoleType
<1> HIDE DEF q
<1>9. /\ r.conf.serial <= n /\ r.ack.serial <= n /\ r.cur.serial <= n /\ r.pend.serial <= n
      /\ r.ack.serial < r.conf.serial /\ r.cur.serial < r.conf.serial
      /\ r.pend.serial < r.conf.serial
      /\ \A i \in 1..Len(r.sent) :
           /\ r.ack.serial < r.sent[i].serial /\ r.cur.serial < r.sent[i].serial
           /\ r.pend.serial < r.sent[i].serial /\ r.sent[i].serial < r.conf.serial
           /\ \A j \in 1..(i - 1) : r.sent[j].serial < r.sent[i].serial
  BY DEF RoleInv, SerialInv
<1>10. \A i \in 1..Len(r.sent) : r.sent[i].serial \in Nat
  BY <1>2, SentOK
<1>11. ASSUME NEW i \in 1..Len(sent)
       PROVE  /\ r.ack.serial < sent[i].serial /\ r.cur.serial < sent[i].serial
              /\ r.pend.serial < sent[i].serial /\ sent[i].serial <= c.serial
              /\ \A j \in 1..(i - 1) : sent[j].serial < sent[i].serial
  <2>1. CASE i \in 1..Len(r.sent)
    <3>1. sent[i] = r.sent[i] /\ \A j \in 1..(i - 1) : sent[j] = r.sent[j]
      BY <1>4, <2>1
    <3>2. r.sent[i].serial <= c.serial
      BY <1>2, <1>3, <1>9, <1>10, <2>1
    <3> QED  BY <1>9, <2>1, <3>1, <3>2
  <2>2. CASE i = Len(r.sent) + 1
    <3>1. sent[i] = c /\ \A j \in 1..(i - 1) : sent[j] = r.sent[j] /\ j \in 1..Len(r.sent)
      BY <1>4, <2>2
    <3>2. c.serial <= c.serial
      BY <1>2, <1>3
    <3> QED  BY <1>3, <1>9, <3>1, <3>2
  <2>3. i \in 1..Len(r.sent) \/ i = Len(r.sent) + 1
    BY <1>4, <1>11
  <2> QED  BY <2>1, <2>2, <2>3
<1>12. sent # << >> /\ Len(sent) \in 1..Len(sent) /\ sent[Len(sent)] = c
  BY <1>4
<1>13. SerialInv(q, n)
  BY <1>3, <1>5, <1>8, <1>9, <1>11, <1>12 DEF SerialInv
<1>14. SlotInv(q) /\ ResizeInv(q)
  BY <1>3, <1>8, <1>12 DEF RoleInv, SlotInv, ResizeInv
<1>15. Told(r) => Told(q)
  <2> SUFFICES ASSUME Told(r), "Activated" \in r.cur.state
               PROVE  \E i \in 1..Len(sent) : "Activated" \notin sent[i].state
    BY <1>8 DEF Told
  <2>1. CASE "ForceRemoveActivatedFlag" \in r.flags
    BY <1>3, <1>12, <2>1
  <2>2. ASSUME NEW i \in 1..Len(r.sent), "Activated" \notin r.sent[i].state
        PROVE  \E j \in 1..Len(sent) : "Activated" \notin sent[j].state
    <3>1. i \in 1..Len(sent) /\ sent[i] = r.sent[i]
      BY <1>4, <2>2
    <3> QED  BY <2>2, <3>1
  <2> QED  BY <2>1, <2>2 DEF Told
<1> QED  BY <1>1, <1>3, <1>8, <1>13, <1>14, <1>15 DEF RoleInv, sent

LEMMA FlushClientsOK ==
  ASSUME WorldInv(World), FlushClients
  PROVE  /\ WorldInv(World')
         /\ \A u \in Toplevels :
              /\ role'[u].ack = role[u].ack /\ role'[u].cur = role[u].cur
              /\ \/ role'[u].sent = role[u].sent
                 \/ /\ "HasToSend" \in role[u].flags
                    /\ \E c \in ConfType : /\ role'[u].sent = Append(role[u].sent, c)
                                           /\ c.serial = role[u].conf.serial
<1> DEFINE q(u) == IF "HasToSend" \in role[u].flags THEN Flushed(role[u]) ELSE role[u]
           v == [role |-> [u \in Toplevels |-> q(u)], active |-> activeToplevel, serial |-> serial]
<1>1. /\ role \in [Toplevels -> RoleType] /\ activeToplevel \in Toplevels \cup {None}
      /\ serial \in Nat /\ \A u \in Toplevels : role[u] \in RoleType /\ RoleInv(role[u], serial)
  BY WorldIs, WorldsOK DEF WorldInv
<1>2. ASSUME NEW u \in Toplevels
      PROVE  /\ q(u) \in RoleType /\ RoleInv(q(u), serial) /\ (Told(role[u]) => Told(q(u)))
             /\ q(u).ack = role[u].ack /\ q(u).cur = role[u].cur
             /\ \/ q(u).sent = role[u].sent
                \/ /\ "HasToSend" \in role[u].flags
                   /\ \E c \in ConfType : /\ q(u).sent = Append(role[u].sent, c)
                                          /\ c.serial = role[u].conf.serial
  BY <1>1, <1>2, FlushedOK
<1>3. World' = v /\ role' = [u \in Toplevels |-> q(u)]
  BY DEF FlushClients, World
<1> HIDE DEF q
<1>4. /\ v \in Worlds /\ v.active = activeToplevel /\ v.serial = serial
      /\ \A u \in Toplevels : v.role[u] = q(u)
  BY <1>1, <1>2 DEF Worlds
<1> HIDE DEF v
<1>5. WorldInv(v)
  BY <1>2, <1>4, WorldIs DEF WorldInv
<1> QED  BY <1>2, <1>3, <1>5

-----------------------------------------------------------------------------
(* The inductive invariant *)

IInv == WorldInv(World)

LEMMA InitInv == Init => IInv
<1> SUFFICES ASSUME Init PROVE WorldInv(World)
  BY DEF IInv
<1> DEFINE v == [role |-> [u \in Toplevels |-> NewRole], active |-> None, serial |-> 1]
<1>1. World = v
  BY DEF Init, World
<1>2. NewRole \in RoleType /\ RoleInv(NewRole, 1) /\ Told(NewRole)
  BY NewRoleOK
<1>3. v \in Worlds /\ v.serial = 1 /\ \A u \in Toplevels : v.role[u] = NewRole
  BY <1>2 DEF Worlds
<1> HIDE DEF v
<1>4. WorldInv(v)
  BY <1>2, <1>3 DEF WorldInv
<1> QED  BY <1>1, <1>4

(* The steps that the protocol of configurations does not see. *)
QuietStep(t) ==
  \/ StartResize(t) \/ UpdateDragPoint(t) \/ StopDrag(t) \/ AckTimer(t)
  \/ SetMaximized(t) \/ UnsetMaximized(t) \/ SetMinimized(t) \/ Activate(t) \/ Close(t)
  \/ SetWindowGeometry(t) \/ InitialCommit(t)

LEMMA QuietStepOK ==
  ASSUME NEW t \in Toplevels, WorldInv(World), QuietStep(t)
  PROVE  WorldInv(World') /\ Same(World, World')
<1>1. CASE StartResize(t)
  BY <1>1, StartResizeOK
<1>2. CASE UpdateDragPoint(t)
  BY <1>2, UpdateDragPointOK
<1>3. CASE StopDrag(t)
  BY <1>3, StopDragOK
<1>4. CASE AckTimer(t)
  BY <1>4, AckTimerOK
<1>5. CASE SetMaximized(t)
  BY <1>5, SetMaximizedOK
<1>6. CASE UnsetMaximized(t)
  BY <1>6, UnsetMaximizedOK
<1>7. CASE SetMinimized(t)
  BY <1>7, SetMinimizedOK
<1>8. CASE Activate(t)
  BY <1>8, ActivateOK
<1>9. CASE Close(t)
  BY <1>9, CloseOK
<1>10. CASE SetWindowGeometry(t)
  BY <1>10, SetWindowGeometryOK
<1>11. CASE InitialCommit(t)
  BY <1>11, InitialCommitOK
<1> QED  BY <1>1, <1>2, <1>3, <1>4, <1>5, <1>6, <1>7, <1>8, <1>9, <1>10, <1>11 DEF QuietStep

LEMMA NextCases ==
  ASSUME Next
  PROVE  \/ FlushClients \/ OutputRemoved
         \/ \E t \in Toplevels :
              \/ QuietStep(t) \/ Destroy(t)
              \/ \E i \in 1..Len(role[t].sent) : AckConfigure(t, i)
              \/ \E hasBuffer \in BOOLEAN : Commit(t, hasBuffer)
BY DEF Next, Step, QuietStep

LEMMA UnchangedInv ==
  ASSUME IInv, UNCHANGED vars
  PROVE  IInv'
<1>1. World' = World
  BY DEF vars, World
<1> QED  BY <1>1 DEF IInv

LEMMA NextInv == IInv /\ [Next]_vars => IInv'
<1> SUFFICES ASSUME WorldInv(World), [Next]_vars PROVE WorldInv(World')
  BY DEF IInv
<1>1. CASE UNCHANGED vars
  BY <1>1, UnchangedInv DEF IInv
<1>2. CASE FlushClients
  BY <1>2, FlushClientsOK
<1>3. CASE OutputRemoved
  BY <1>3, OutputRemovedOK
<1>4. ASSUME NEW t \in Toplevels, QuietStep(t) PROVE WorldInv(World')
  BY <1>4, QuietStepOK
<1>5. ASSUME NEW t \in Toplevels, Destroy(t) PROVE WorldInv(World')
  BY <1>5, DestroyOK
<1>6. ASSUME NEW t \in Toplevels, NEW i \in 1..Len(role[t].sent), AckConfigure(t, i)
      PROVE  WorldInv(World')
  BY <1>6, AckConfigureOK
<1>7. ASSUME NEW t \in Toplevels, NEW hasBuffer \in BOOLEAN, Commit(t, hasBuffer)
      PROVE  WorldInv(World')
  BY <1>7, CommitOK
<1> QED  BY <1>1, <1>2, <1>3, <1>4, <1>5, <1>6, <1>7, NextCases

(* The strengthened invariant: it holds in every state of every instance. *)
THEOREM Invariance == Spec => []IInv
<1> QED  BY InitInv, NextInv, PTL DEF Spec

LEMMA RolesOK ==
  ASSUME IInv, NEW t \in Toplevels
  PROVE  /\ role[t] \in RoleType /\ RoleInv(role[t], serial)
         /\ t \notin Hasty /\ t # activeToplevel => Told(role[t])
         /\ serial \in Nat /\ activeToplevel \in Toplevels \cup {None}
         /\ role \in [Toplevels -> RoleType]
BY WorldIs, WorldsOK DEF IInv, WorldInv

LEMMA SentTyped ==
  ASSUME NEW s \in Seq(ConfType), NEW n \in Nat, \A i \in 1..Len(s) : s[i].serial <= n
  PROVE  s \in Seq([serial : 0..n, state : SUBSET States, size : Sizes])
<1> DEFINE T == [serial : 0..n, state : SUBSET States, size : Sizes]
<1>1. \A i \in 1..Len(s) : s[i] \in T
  <2> TAKE i \in 1..Len(s)
  <2>1. s[i] \in ConfType /\ s[i].serial \in 0..n
    BY SentOK
  <2> QED  BY <2>1 DEF ConfType
<1> HIDE DEF T
<1>2. s = [i \in 1..Len(s) |-> s[i]] /\ Len(s) \in Nat
  BY LenProperties
<1>3. [i \in 1..Len(s) |-> s[i]] \in Seq(T)
  BY <1>1, <1>2
<1> QED  BY <1>2, <1>3 DEF T

(* The values have their types: no serial is beyond the last one that was taken. *)
THEOREM TypeCorrect == Spec => []TypeOK
<1>1. IInv => TypeOK
  <2> SUFFICES ASSUME IInv PROVE TypeOK
    OBVIOUS
  <2> DEFINE R == [flags : SUBSET Flags, mapped : BOOLEAN, requestedMaximized : BOOLEAN,
                   conf : Configuration, sent : Seq(Configuration), ack : Configuration,
                   cur : Atoms, pend : Atoms, pendingGeometry : AllGeometries,
                   geometrySet : BOOLEAN, exclusiveOutput : BOOLEAN,
                   resize : [active : BOOLEAN, serial : Nat, handled : BOOLEAN, timer : BOOLEAN]]
  <2>1. ASSUME NEW t \in Toplevels PROVE role[t] \in R
    <3> DEFINE r == role[t]
    <3>1. r \in RoleType /\ RoleInv(r, serial) /\ serial \in Nat
      BY <2>1, RolesOK
    <3> HIDE DEF r
    <3>2. /\ r.conf \in ConfType /\ r.ack \in ConfType /\ r.cur \in AtomsType
          /\ r.pend \in AtomsType /\ r.sent \in Seq(ConfType)
          /\ r.conf.serial \in Nat /\ r.ack.serial \in Nat
          /\ r.cur.serial \in Nat /\ r.pend.serial \in Nat
      BY <3>1, StatesOK
    <3>3. /\ r.conf.serial <= serial /\ r.ack.serial <= serial
          /\ r.cur.serial <= serial /\ r.pend.serial <= serial
          /\ \A i \in 1..Len(r.sent) : r.sent[i].serial <= r.conf.serial
      BY <3>1 DEF RoleInv, SerialInv
    <3>4. \A i \in 1..Len(r.sent) : r.sent[i].serial <= serial
      BY <3>1, <3>2, <3>3, SentOK
    <3>5. r.conf \in Configuration /\ r.ack \in Configuration
      BY <3>1, <3>2, <3>3 DEF ConfType, Configuration
    <3>6. r.cur \in Atoms /\ r.pend \in Atoms
      BY <3>1, <3>2, <3>3 DEF AtomsType, Atoms
    <3>7. r.sent \in Seq(Configuration)
      BY <3>1, <3>2, <3>4, SentTyped DEF Configuration
    <3> QED  BY <3>1, <3>5, <3>6, <3>7 DEF RoleType, ResizeType, r
  <2> HIDE DEF R
  <2>2. role \in [Toplevels -> R]
    <3>1. CASE Toplevels = {}
      BY <3>1 DEF IInv, WorldInv, World, Worlds
    <3>2. CASE Toplevels # {}
      BY <2>1, <3>2, RolesOK
    <3> QED  BY <3>1, <3>2
  <2>3. serial \in Nat /\ activeToplevel \in Toplevels \cup {None}
    BY WorldIs, WorldsOK DEF IInv, WorldInv
  <2> QED  BY <2>2, <2>3 DEF TypeOK, R
<1> QED  BY <1>1, Invariance, PTL

(* fullAtomsUpdate() may compare the serials alone: the slots that agree in them agree
   in the states and the geometry. *)
THEOREM SlotsCorrect == Spec => []SlotsAgree
<1>1. IInv => SlotsAgree
  BY RolesOK DEF SlotsAgree, RoleInv, SlotInv
<1> QED  BY <1>1, Invariance, PTL

(* What pendingConfiguration() documents: equal serials mean that nothing waits and
   nothing is in flight. *)
THEOREM SerialTells == Spec => []SerialTellsPending
<1>1. ASSUME IInv, NEW t \in Toplevels, role[t].conf.serial = role[t].cur.serial
      PROVE  "HasToSend" \notin role[t].flags /\ role[t].sent = << >>
  <2> DEFINE r == role[t]
  <2>1. r \in RoleType /\ SerialInv(r, serial)
    BY <1>1, RolesOK DEF RoleInv
  <2>2. r.conf.serial = r.cur.serial
    BY <1>1
  <2> HIDE DEF r
  <2>3. r.cur.serial \in Nat /\ r.sent \in Seq(ConfType)
    BY <2>1, StatesOK
  <2>4. "HasToSend" \notin r.flags
    BY <2>1, <2>2, <2>3 DEF SerialInv
  <2>5. ASSUME r.sent # << >> PROVE FALSE
    <3>1. 1 \in 1..Len(r.sent)
      BY <2>3, <2>5, EmptySeq, LenProperties
    <3>2. r.cur.serial < r.sent[1].serial /\ r.sent[1].serial <= r.conf.serial
      BY <2>1, <3>1 DEF SerialInv
    <3>3. r.sent[1].serial \in Nat
      BY <2>3, <3>1, SentOK
    <3> QED  BY <2>2, <2>3, <3>2, <3>3
  <2> QED  BY <2>4, <2>5 DEF r
<1>2. IInv => SerialTellsPending
  BY <1>1 DEF SerialTellsPending
<1> QED  BY <1>2, Invariance, PTL

(* setActive() of another toplevel always reaches the client of the one before it,
   whatever else is configured until the next flush. *)
THEOREM DeactivationComes == Spec => []DeactivationComing
<1>1. ASSUME IInv, NEW t \in Toplevels \ Hasty,
             "Activated" \in role[t].cur.state, t # activeToplevel
      PROVE  \/ /\ "HasToSend" \in role[t].flags
                /\ "ForceRemoveActivatedFlag" \in role[t].flags
             \/ \E i \in 1..Len(role[t].sent) : "Activated" \notin role[t].sent[i].state
  BY <1>1, RolesOK DEF Told
<1>2. IInv => DeactivationComing
  BY <1>1 DEF DeactivationComing
<1> QED  BY <1>2, Invariance, PTL

(* A resize session ends with its toplevel, with its timer, and its client is told. *)
THEOREM ResizeSessionsCorrect == Spec => []ResizeSessionsEnd
<1>1. ASSUME IInv, NEW t \in Toplevels
      PROVE  /\ ~role[t].resize.active =>
                  /\ "Resizing" \notin role[t].conf.state
                  /\ "Resizing" \in role[t].cur.state =>
                       \/ "HasToSend" \in role[t].flags
                       \/ \E i \in 1..Len(role[t].sent) : "Resizing" \notin role[t].sent[i].state
             /\ role[t].resize.active => role[t].mapped
             /\ ~role[t].resize.active /\ ~role[t].resize.handled <=> role[t].resize.timer
  <2> DEFINE r == role[t]
  <2>1. r \in RoleType /\ SerialInv(r, serial) /\ ResizeInv(r)
    BY <1>1, RolesOK DEF RoleInv
  <2> HIDE DEF r
  <2>2. ASSUME ~r.resize.active, "HasToSend" \notin r.flags, r.sent # << >>
        PROVE  \E i \in 1..Len(r.sent) : "Resizing" \notin r.sent[i].state
    <3>1. r.sent \in Seq(ConfType)
      BY <2>1, StatesOK
    <3>2. Len(r.sent) \in 1..Len(r.sent)
      BY <2>2, <3>1, EmptySeq, LenProperties
    <3>3. "Resizing" \notin r.sent[Len(r.sent)].state
      BY <2>1, <2>2 DEF SerialInv, ResizeInv
    <3> QED  BY <3>2, <3>3
  <2>3. /\ r.resize.active => r.mapped
        /\ ~r.resize.active /\ ~r.resize.handled <=> r.resize.timer
    BY <2>1 DEF ResizeInv, Timed
  <2>4. ~r.resize.active =>
          /\ "Resizing" \notin r.conf.state
          /\ "Resizing" \in r.cur.state => "HasToSend" \in r.flags \/ r.sent # << >>
    BY <2>1 DEF ResizeInv
  <2> QED  BY <2>2, <2>3, <2>4 DEF r
<1>2. IInv => ResizeSessionsEnd
  BY <1>1 DEF ResizeSessionsEnd, ResizingEnds, SessionsOfMapped, StoppedSessionTimed
<1> QED  BY <1>2, Invariance, PTL

-----------------------------------------------------------------------------
(* The refinement *)

(* The variables of the protocol. *)
Offered == [t \in Toplevels |-> role[t].sent]
Acked == [t \in Toplevels |-> role[t].ack]
Applied == [t \in Toplevels |-> [serial |-> role[t].cur.serial, state |-> role[t].cur.state]]

LEMMA ProtocolAt ==
  ASSUME NEW t \in Toplevels
  PROVE  /\ Offered[t] = role[t].sent /\ Acked[t] = role[t].ack
         /\ Applied[t].serial = role[t].cur.serial /\ Applied[t].state = role[t].cur.state
         /\ Offered'[t] = role'[t].sent /\ Acked'[t] = role'[t].ack
         /\ Applied'[t] = [serial |-> role'[t].cur.serial, state |-> role'[t].cur.state]
BY DEF Offered, Acked, Applied

LEMMA InitProtocol == Init => Protocol!Init
<1> SUFFICES ASSUME Init PROVE Protocol!Init
  OBVIOUS
<1>1. \A t \in Toplevels : /\ role[t].sent = << >> /\ role[t].ack = NoConfiguration
                           /\ role[t].cur.serial = 0 /\ role[t].cur.state = {}
  BY DEF Init, NewRole, NoAtoms
<1>2. Protocol!Nothing = NoConfiguration
  BY DEF Protocol!Nothing, NoConfiguration
<1> QED  BY <1>1, <1>2 DEF Protocol!Init

LEMMA SameStutters ==
  ASSUME Same(World, World')
  PROVE  UNCHANGED Protocol!vars
<1>1. \A t \in Toplevels : /\ role'[t].sent = role[t].sent /\ role'[t].ack = role[t].ack
                           /\ role'[t].cur.serial = role[t].cur.serial
                           /\ role'[t].cur.state = role[t].cur.state
  BY DEF Same, World
<1>2. /\ [t \in Toplevels |-> role'[t].sent] = [t \in Toplevels |-> role[t].sent]
      /\ [t \in Toplevels |-> role'[t].ack] = [t \in Toplevels |-> role[t].ack]
      /\ [t \in Toplevels |-> [serial |-> role'[t].cur.serial, state |-> role'[t].cur.state]]
           = [t \in Toplevels |-> [serial |-> role[t].cur.serial, state |-> role[t].cur.state]]
  BY <1>1
<1> QED  BY <1>2 DEF Protocol!vars

LEMMA FlushOffers ==
  ASSUME IInv, FlushClients
  PROVE  Protocol!Offer
<1>1. \A t \in Toplevels :
        /\ role'[t].ack = role[t].ack /\ role'[t].cur = role[t].cur
        /\ \/ role'[t].sent = role[t].sent
           \/ /\ "HasToSend" \in role[t].flags
              /\ \E c \in ConfType : /\ role'[t].sent = Append(role[t].sent, c)
                                     /\ c.serial = role[t].conf.serial
  BY FlushClientsOK DEF IInv
<1>2. ASSUME NEW t \in Toplevels, role'[t].sent # role[t].sent
      PROVE  /\ Len(role'[t].sent) = Len(role[t].sent) + 1
             /\ SubSeq(role'[t].sent, 1, Len(role[t].sent)) = role[t].sent
             /\ role'[t].sent[Len(role'[t].sent)].serial > role[t].ack.serial
             /\ \A i \in 1..Len(role[t].sent) :
                  role'[t].sent[Len(role'[t].sent)].serial > role[t].sent[i].serial
  <2> DEFINE r == role[t]
  <2>1. PICK c \in ConfType : role'[t].sent = Append(r.sent, c) /\ c.serial = r.conf.serial
    BY <1>1, <1>2
  <2>2. r \in RoleType /\ SerialInv(r, serial) /\ "HasToSend" \in r.flags
    BY <1>1, <1>2, RolesOK DEF RoleInv
  <2>3. r.sent \in Seq(ConfType)
    BY <2>2, StatesOK
  <2> HIDE DEF r
  <2> DEFINE x == role'[t].sent
  <2>4. /\ x \in Seq(ConfType) /\ Len(r.sent) \in Nat /\ Len(x) = Len(r.sent) + 1
        /\ \A i \in 1..Len(r.sent) : x[i] = r.sent[i]
        /\ x[Len(r.sent) + 1] = c
    BY <2>1, <2>3, AppendOK
  <2> HIDE DEF x
  <2>5. SubSeq(x, 1, Len(r.sent)) = r.sent
    BY <2>1, <2>3, <2>4 DEF x
  <2>6. c.serial > r.ack.serial /\ \A i \in 1..Len(r.sent) : c.serial > r.sent[i].serial
    BY <2>1, <2>2 DEF SerialInv
  <2> QED  BY <2>4, <2>5, <2>6 DEF r, x
<1>3. /\ [t \in Toplevels |-> role'[t].ack] = [t \in Toplevels |-> role[t].ack]
      /\ [t \in Toplevels |-> [serial |-> role'[t].cur.serial, state |-> role'[t].cur.state]]
           = [t \in Toplevels |-> [serial |-> role[t].cur.serial, state |-> role[t].cur.state]]
  BY <1>1
<1> QED  BY <1>2, <1>3 DEF Protocol!Offer, Protocol!Newer

LEMMA AckAcks ==
  ASSUME IInv, NEW t \in Toplevels, NEW i \in 1..Len(role[t].sent), AckConfigure(t, i)
  PROVE  Protocol!Ack(t, i)
<1> DEFINE c == role[t].sent[i]
<1>1. /\ \A u \in Toplevels \ {t} : /\ role'[u].sent = role[u].sent
                                    /\ role'[u].ack = role[u].ack
                                    /\ role'[u].cur = role[u].cur
      /\ role'[t].sent = SubSeq(role[t].sent, i + 1, Len(role[t].sent))
      /\ role'[t].ack = c
      /\ \/ /\ role'[t].cur.serial = role[t].cur.serial
            /\ role'[t].cur.state = (role[t].cur.state \ Light) \cup (c.state \cap Light)
         \/ /\ c.size = role[t].ack.size
            /\ role'[t].cur.serial = c.serial
            /\ role'[t].cur.state = c.state
  BY AckConfigureOK DEF IInv
<1>2. Offered' = [Offered EXCEPT ![t] = SubSeq(Offered[t], i + 1, Len(Offered[t]))]
  BY <1>1 DEF Offered
<1>3. Acked' = [Acked EXCEPT ![t] = c]
  BY <1>1 DEF Acked
<1>4. \/ Applied' = [Applied EXCEPT ![t] =
                       [Applied[t] EXCEPT !.state = (Applied[t].state \ Light) \cup (c.state \cap Light)]]
      \/ /\ c.size = Acked[t].size
         /\ Applied' = [Applied EXCEPT ![t] = [serial |-> c.serial, state |-> c.state]]
  <2>1. CASE /\ role'[t].cur.serial = role[t].cur.serial
             /\ role'[t].cur.state = (role[t].cur.state \ Light) \cup (c.state \cap Light)
    <3> DEFINE a == [serial |-> role[t].cur.serial,
                     state |-> (role[t].cur.state \ Light) \cup (c.state \cap Light)]
    <3>1. Applied' = [Applied EXCEPT ![t] = a]
      BY <1>1, <2>1 DEF Applied
    <3>2. a = [Applied[t] EXCEPT !.state = (Applied[t].state \ Light) \cup (c.state \cap Light)]
      <4> DEFINE x == [serial |-> role[t].cur.serial, state |-> role[t].cur.state]
      <4>1. Applied[t] = x
        BY DEF Applied
      <4>2. x.state = role[t].cur.state
        OBVIOUS
      <4>3. ASSUME NEW S PROVE [serial |-> role[t].cur.serial, state |-> S] = [x EXCEPT !.state = S]
        OBVIOUS
      <4> HIDE DEF x, c
      <4> QED  BY <4>1, <4>2, <4>3
    <3> HIDE DEF a
    <3> QED  BY <3>1, <3>2
  <2>2. CASE /\ c.size = role[t].ack.size
             /\ role'[t].cur.serial = c.serial
             /\ role'[t].cur.state = c.state
    BY <1>1, <2>2 DEF Applied, Acked
  <2> QED  BY <1>1, <2>1, <2>2
<1>5. Offered[t][i] = c
  BY DEF Offered
<1> QED  BY <1>2, <1>3, <1>4, <1>5 DEF Protocol!Ack, Offered, Acked, Applied

LEMMA ResetWithdraws ==
  ASSUME NEW t \in Toplevels,
         \A u \in Toplevels \ {t} : /\ role'[u].sent = role[u].sent
                                    /\ role'[u].ack = role[u].ack
                                    /\ role'[u].cur = role[u].cur,
         role'[t].sent = << >>, role'[t].ack = NoConfiguration, role'[t].cur.state = {}
  PROVE  Protocol!Withdraw(t)
<1>1. Offered' = [Offered EXCEPT ![t] = << >>]
  BY DEF Offered
<1>2. Acked' = [Acked EXCEPT ![t] = NoConfiguration]
  BY DEF Acked
<1>3. Applied' = [Applied EXCEPT ![t] = [serial |-> Applied'[t].serial, state |-> {}]]
  BY DEF Applied
<1>4. Protocol!Nothing = NoConfiguration
  BY DEF Protocol!Nothing, NoConfiguration
<1> QED  BY <1>1, <1>2, <1>3, <1>4 DEF Protocol!Withdraw, Offered, Acked, Applied

LEMMA CommitApplies ==
  ASSUME IInv, NEW t \in Toplevels, NEW hasBuffer \in BOOLEAN, Commit(t, hasBuffer)
  PROVE  Protocol!Withdraw(t) \/ Protocol!Apply(t) \/ UNCHANGED Protocol!vars
<1>1. \A u \in Toplevels \ {t} : /\ role'[u].sent = role[u].sent
                                 /\ role'[u].ack = role[u].ack
                                 /\ role'[u].cur = role[u].cur
  BY CommitOK DEF IInv
<1>2. \/ /\ role'[t].sent = << >> /\ role'[t].ack = NoConfiguration
         /\ role'[t].cur.state = {}
      \/ /\ role'[t].sent = role[t].sent /\ role'[t].ack = role[t].ack
         /\ \/ role'[t].cur.serial = role[t].cur.serial /\ role'[t].cur.state = role[t].cur.state
            \/ role'[t].cur.serial = role[t].ack.serial /\ role'[t].cur.state = role[t].ack.state
  BY CommitOK DEF IInv
<1>3. CASE /\ role'[t].sent = << >> /\ role'[t].ack = NoConfiguration
           /\ role'[t].cur.state = {}
  BY <1>1, <1>3, ResetWithdraws
<1>4. CASE /\ role'[t].sent = role[t].sent /\ role'[t].ack = role[t].ack
           /\ role'[t].cur.serial = role[t].cur.serial /\ role'[t].cur.state = role[t].cur.state
  <2>1. Same(World, World')
    BY <1>1, <1>4 DEF Same, World
  <2> QED  BY <2>1, SameStutters
<1>5. CASE /\ role'[t].sent = role[t].sent /\ role'[t].ack = role[t].ack
           /\ role'[t].cur.serial = role[t].ack.serial /\ role'[t].cur.state = role[t].ack.state
  <2>1. Offered' = Offered /\ Acked' = Acked
    BY <1>1, <1>5 DEF Offered, Acked
  <2>2. Applied' = [Applied EXCEPT ![t] = [serial |-> Acked[t].serial, state |-> Acked[t].state]]
    BY <1>1, <1>5 DEF Applied, Acked
  <2> QED  BY <2>1, <2>2 DEF Protocol!Apply, Offered, Acked, Applied
<1> QED  BY <1>2, <1>3, <1>4, <1>5

LEMMA DestroyWithdraws ==
  ASSUME IInv, NEW t \in Toplevels, Destroy(t)
  PROVE  Protocol!Withdraw(t)
<1>1. role' = [role EXCEPT ![t] = NewRole] /\ role \in [Toplevels -> RoleType]
  BY DestroyOK, RolesOK DEF IInv
<1>2. NewRole.sent = << >> /\ NewRole.ack = NoConfiguration /\ NewRole.cur.state = {}
  BY DEF NewRole, NoAtoms
<1> HIDE DEF NewRole
<1> QED  BY <1>1, <1>2, ResetWithdraws

LEMMA NextProtocol == IInv /\ [Next]_vars => [Protocol!Next]_(Protocol!vars)
<1> SUFFICES ASSUME IInv, [Next]_vars PROVE Protocol!Next \/ UNCHANGED Protocol!vars
  OBVIOUS
<1>1. CASE UNCHANGED vars
  BY <1>1 DEF vars, Protocol!vars
<1>2. CASE FlushClients
  BY <1>2, FlushOffers DEF Protocol!Next
<1>3. CASE OutputRemoved
  BY <1>3, OutputRemovedOK, SameStutters DEF IInv
<1>4. ASSUME NEW t \in Toplevels, QuietStep(t) PROVE UNCHANGED Protocol!vars
  BY <1>4, QuietStepOK, SameStutters DEF IInv
<1>5. ASSUME NEW t \in Toplevels, Destroy(t) PROVE Protocol!Next
  BY <1>5, DestroyWithdraws DEF Protocol!Next
<1>6. ASSUME NEW t \in Toplevels, NEW i \in 1..Len(role[t].sent), AckConfigure(t, i)
      PROVE  Protocol!Next
  <2>1. Protocol!Ack(t, i)
    BY <1>6, AckAcks
  <2> QED  BY <1>6, <2>1 DEF Protocol!Next
<1>7. ASSUME NEW t \in Toplevels, NEW hasBuffer \in BOOLEAN, Commit(t, hasBuffer)
      PROVE  Protocol!Next \/ UNCHANGED Protocol!vars
  BY <1>7, CommitApplies DEF Protocol!Next
<1> QED  BY <1>1, <1>2, <1>3, <1>4, <1>5, <1>6, <1>7, NextCases

(* The handlers implement the protocol of configurations: clients acknowledge in order,
   and nothing is in force that was not acknowledged. *)
THEOREM Refinement == Spec => ImplementsProtocol
<1>1. Spec => Protocol!Init /\ [][Protocol!Next]_(Protocol!vars)
  BY InitProtocol, NextProtocol, Invariance, PTL DEF Spec
<1> QED  BY <1>1 DEF ImplementsProtocol, Protocol!Spec

=============================================================================

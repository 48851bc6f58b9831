------------------------------ MODULE ShellProofs ------------------------------
(* The safety properties of Popups, for any windows and popups, and those of      *)
(* LayerShell, for any layer surfaces and outputs.  The two share the keyboard    *)
(* and the lemmas about it and about lists.                                       *)
EXTENDS Popups, LayerShell, SequenceTheorems, WellFoundedInduction, TLAPS

-----------------------------------------------------------------------------
(* The list of popups. *)

(* A list without repetition of the members of a set. *)
Lists(s, ps) ==
  /\ s \in Seq(ps)
  /\ \A i, j \in 1..Len(s) : s[i] = s[j] => i = j
  /\ \A p \in ps : \E i \in 1..Len(s) : s[i] = p

(* The members of C come first. *)
Layered(s, C) == \E n \in 0..Len(s) : \A i \in 1..Len(s) : i <= n <=> s[i] \in C

LEMMA RemoveAtOK ==
  ASSUME NEW S, NEW s \in Seq(S), NEW i \in 1..Len(s)
  PROVE  LET r == RemoveAt(s, i) IN
         /\ r \in Seq(S) /\ Len(r) = Len(s) - 1
         /\ \A j \in 1..Len(r) : r[j] = IF j < i THEN s[j] ELSE s[j + 1]
<1> DEFINE a == SubSeq(s, 1, i - 1)
           b == SubSeq(s, i + 1, Len(s))
<1>1. Len(s) \in Nat /\ i \in Int /\ \A j \in 1..Len(s) : s[j] \in S
  BY LenProperties, ElementOfSeq
<1>2. a \in Seq(S) /\ Len(a) = i - 1 /\ \A j \in 1..Len(a) : a[j] = s[j]
  BY <1>1, SubSeqProperties
<1>3. b \in Seq(S) /\ Len(b) = Len(s) - i /\ \A j \in 1..Len(b) : b[j] = s[i + j]
  <2>1. \A j \in (i + 1)..Len(s) : s[j] \in S
    BY <1>1
  <2>2. /\ b \in Seq(S) /\ Len(b) = IF i + 1 <= Len(s) THEN Len(s) - (i + 1) + 1 ELSE 0
        /\ \A j \in 1..(Len(s) - (i + 1) + 1) : b[j] = s[i + 1 + j - 1]
    BY <1>1, <2>1, SubSeqProperties
  <2> QED  BY <1>1, <2>2
<1> HIDE DEF a, b
<1>4. /\ a \o b \in Seq(S) /\ Len(a \o b) = Len(a) + Len(b)
      /\ \A j \in 1..Len(a) + Len(b) : (a \o b)[j] = IF j <= Len(a) THEN a[j] ELSE b[j - Len(a)]
  BY <1>2, <1>3, ConcatProperties
<1> DEFINE c == a \o b
<1> HIDE DEF c
<1>5. /\ c \in Seq(S) /\ Len(c) = Len(s) - 1
      /\ \A j \in 1..Len(c) : c[j] = IF j <= i - 1 THEN a[j] ELSE b[j - (i - 1)]
  BY <1>1, <1>2, <1>3, <1>4 DEF c
<1>6. \A j \in 1..Len(c) : c[j] = IF j < i THEN s[j] ELSE s[j + 1]
  <2> TAKE j \in 1..Len(c)
  <2>1. CASE j < i
    BY <1>1, <1>2, <1>5, <2>1
  <2>2. CASE j >= i
    <3>1. c[j] = b[j - (i - 1)] /\ j - (i - 1) \in 1..Len(b)
      BY <1>1, <1>3, <1>5, <2>2
    <3>2. b[j - (i - 1)] = s[i + (j - (i - 1))] /\ i + (j - (i - 1)) = j + 1
      BY <1>1, <1>3, <1>5, <3>1
    <3>3. c[j] = s[j + 1]
      BY <3>1, <3>2
    <3> QED  BY <1>1, <1>5, <2>2, <3>3
  <2> QED  BY <1>1, <1>5, <2>1, <2>2
<1>7. RemoveAt(s, i) = c
  BY DEF RemoveAt, a, b, c
<1> QED  BY <1>5, <1>6, <1>7

LEMMA ConsOK ==
  ASSUME NEW S, NEW s \in Seq(S), NEW p \in S
  PROVE  LET r == Cons(p, s) IN
         /\ r \in Seq(S) /\ Len(r) = Len(s) + 1
         /\ \A j \in 1..Len(r) : r[j] = IF j = 1 THEN p ELSE s[j - 1]
<1>1. Len(s) \in Nat /\ <<p>> \in Seq(S) /\ Len(<<p>>) = 1 /\ <<p>>[1] = p
  BY LenProperties
<1>2. /\ <<p>> \o s \in Seq(S) /\ Len(<<p>> \o s) = 1 + Len(s)
      /\ \A j \in 1..1 + Len(s) : (<<p>> \o s)[j] = IF j <= 1 THEN <<p>>[j] ELSE s[j - 1]
  BY <1>1, ConcatProperties
<1> QED  BY <1>1, <1>2 DEF Cons

LEMMA InsertAtOK ==
  ASSUME NEW S, NEW s \in Seq(S), NEW p \in S, NEW n \in 0..Len(s)
  PROVE  LET r == InsertAt(s, n + 1, p) IN
         /\ r \in Seq(S) /\ Len(r) = Len(s) + 1
         /\ \A j \in 1..Len(r) : r[j] = IF j <= n THEN s[j] ELSE IF j = n + 1 THEN p ELSE s[j - 1]
<1> DEFINE a == SubSeq(s, 1, (n + 1) - 1)
           b == SubSeq(s, n + 1, Len(s))
<1>1. Len(s) \in Nat /\ n \in Int /\ \A j \in 1..Len(s) : s[j] \in S
  BY LenProperties, ElementOfSeq
<1>2. a \in Seq(S) /\ Len(a) = n /\ \A j \in 1..Len(a) : a[j] = s[j]
  BY <1>1, SubSeqProperties
<1>3. b \in Seq(S) /\ Len(b) = Len(s) - n /\ \A j \in 1..Len(b) : b[j] = s[n + j]
  <2>1. \A j \in (n + 1)..Len(s) : s[j] \in S
    BY <1>1
  <2>2. /\ b \in Seq(S) /\ Len(b) = IF n + 1 <= Len(s) THEN Len(s) - (n + 1) + 1 ELSE 0
        /\ \A j \in 1..(Len(s) - (n + 1) + 1) : b[j] = s[n + 1 + j - 1]
    BY <1>1, <2>1, SubSeqProperties
  <2> QED  BY <1>1, <2>2
<1> HIDE DEF a, b
<1>4. /\ a \o <<p>> \in Seq(S) /\ Len(a \o <<p>>) = n + 1
      /\ \A j \in 1..n + 1 : (a \o <<p>>)[j] = IF j <= n THEN s[j] ELSE p
  <2>1. <<p>> \in Seq(S) /\ Len(<<p>>) = 1 /\ <<p>>[1] = p
    OBVIOUS
  <2>2. /\ a \o <<p>> \in Seq(S) /\ Len(a \o <<p>>) = Len(a) + 1
        /\ \A j \in 1..Len(a) + 1 : (a \o <<p>>)[j] = IF j <= Len(a) THEN a[j] ELSE <<p>>[j - Len(a)]
    BY <1>2, <2>1, ConcatProperties
  <2> QED  BY <1>1, <1>2, <2>1, <2>2
<1> DEFINE c == a \o <<p>>
<1> HIDE DEF c
<1>5. c \in Seq(S) /\ Len(c) = n + 1 /\ \A j \in 1..n + 1 : c[j] = IF j <= n THEN s[j] ELSE p
  BY <1>4 DEF c
<1>6. /\ c \o b \in Seq(S) /\ Len(c \o b) = Len(c) + Len(b)
      /\ \A j \in 1..Len(c) + Len(b) : (c \o b)[j] = IF j <= Len(c) THEN c[j] ELSE b[j - Len(c)]
  BY <1>3, <1>5, ConcatProperties
<1> DEFINE d == c \o b
<1> HIDE DEF d
<1>7. /\ d \in Seq(S) /\ Len(d) = Len(s) + 1
      /\ \A j \in 1..Len(d) : d[j] = IF j <= n + 1 THEN c[j] ELSE b[j - (n + 1)]
  BY <1>1, <1>3, <1>5, <1>6 DEF d
<1>8. \A j \in 1..Len(d) : d[j] = IF j <= n THEN s[j] ELSE IF j = n + 1 THEN p ELSE s[j - 1]
  <2> TAKE j \in 1..Len(d)
  <2>1. CASE j <= n + 1
    BY <1>1, <1>5, <1>7, <2>1
  <2>2. CASE j > n + 1
    <3>1. d[j] = b[j - (n + 1)] /\ j - (n + 1) \in 1..Len(b)
      BY <1>1, <1>3, <1>7, <2>2
    <3>2. b[j - (n + 1)] = s[n + (j - (n + 1))]
      BY <1>3, <3>1
    <3>3. n + (j - (n + 1)) = j - 1
      BY <1>1, <1>7
    <3>4. d[j] = s[j - 1]
      BY <3>1, <3>2, <3>3
    <3> QED  BY <1>1, <1>7, <2>2, <3>4
  <2> QED  BY <1>1, <1>7, <2>1, <2>2
<1>9. InsertAt(s, n + 1, p) = d
  BY DEF InsertAt, a, b, c, d
<1> QED  BY <1>7, <1>8, <1>9

LEMMA WithoutOK ==
  ASSUME NEW ps, NEW s, Lists(s, ps), NEW p \in ps, NEW C, Layered(s, C)
  PROVE  /\ Lists(Without(s, p), ps \ {p})
         /\ Layered(Without(s, p), C)
<1> DEFINE i == CHOOSE i \in 1..Len(s) : s[i] = p
           r == RemoveAt(s, i)
<1>1. s \in Seq(ps) /\ Len(s) \in Nat /\ \A j \in 1..Len(s) : s[j] \in ps
  BY ElementOfSeq, LenProperties DEF Lists
<1>2. i \in 1..Len(s) /\ s[i] = p
  BY DEF Lists
<1> HIDE DEF i
<1>3. /\ r \in Seq(ps) /\ Len(r) = Len(s) - 1
      /\ \A j \in 1..Len(r) : r[j] = IF j < i THEN s[j] ELSE s[j + 1]
  BY <1>1, <1>2, RemoveAtOK
<1>4. Without(s, p) = r
  BY DEF Without, i
<1> HIDE DEF r
<1>5. Lists(r, ps \ {p})
  <2>1. \A j \in 1..Len(r) : r[j] \in ps \ {p}
    <3> TAKE j \in 1..Len(r)
    <3>1. PICK k \in 1..Len(s) : k # i /\ r[j] = s[k]
      <4>1. CASE j < i
        BY <1>1, <1>2, <1>3, <4>1
      <4>2. CASE j >= i
        <5>1. j + 1 \in 1..Len(s) /\ j + 1 # i /\ r[j] = s[j + 1]
          BY <1>1, <1>2, <1>3, <4>2
        <5> QED  BY <5>1
      <4> QED  BY <1>1, <1>2, <1>3, <4>1, <4>2
    <3> QED  BY <1>1, <1>2, <3>1 DEF Lists
  <2>2. r \in Seq(ps \ {p})
    BY <1>3, <2>1, LenProperties, SeqDef
  <2> DEFINE at(j) == IF j < i THEN j ELSE j + 1
  <2>3. ASSUME NEW j \in 1..Len(r), NEW k \in 1..Len(r), r[j] = r[k] PROVE j = k
    <3>1. /\ at(j) \in 1..Len(s) /\ at(k) \in 1..Len(s)
          /\ r[j] = s[at(j)] /\ r[k] = s[at(k)]
      BY <1>1, <1>2, <1>3
    <3>2. at(j) = at(k)
      BY <2>3, <3>1 DEF Lists
    <3> QED  BY <1>1, <1>2, <1>3, <3>2
  <2>4. ASSUME NEW q \in ps \ {p} PROVE \E j \in 1..Len(r) : r[j] = q
    <3>1. PICK k \in 1..Len(s) : s[k] = q
      BY DEF Lists
    <3>2. CASE k < i
      <4>1. k \in 1..Len(r) /\ r[k] = q
        BY <1>1, <1>2, <1>3, <3>1, <3>2
      <4> QED  BY <4>1
    <3>3. CASE k > i
      <4>1. k - 1 \in 1..Len(r) /\ k - 1 >= i /\ (k - 1) + 1 = k
        BY <1>1, <1>2, <1>3, <3>3
      <4>2. r[k - 1] = q
        BY <1>2, <1>3, <3>1, <4>1
      <4> QED  BY <4>1, <4>2
    <3> QED  BY <1>1, <1>2, <3>1, <3>2, <3>3
  <2> QED  BY <2>2, <2>3, <2>4 DEF Lists
<1>6. Layered(r, C)
  <2>1. PICK n \in 0..Len(s) : \A j \in 1..Len(s) : j <= n <=> s[j] \in C
    BY DEF Layered
  <2> DEFINE m == IF i <= n THEN n - 1 ELSE n
  <2>2. m \in 0..Len(r)
    BY <1>1, <1>2, <1>3
  <2>3. ASSUME NEW j \in 1..Len(r) PROVE j <= m <=> r[j] \in C
    <3>1. CASE j < i
      BY <1>1, <1>2, <1>3, <2>1, <3>1
    <3>2. CASE j >= i
      <4>1. r[j] = s[j + 1] /\ j + 1 \in 1..Len(s)
        BY <1>1, <1>2, <1>3, <3>2
      <4>2. j + 1 <= n <=> r[j] \in C
        BY <2>1, <4>1
      <4> QED  BY <1>1, <1>2, <1>3, <3>2, <4>2
    <3> QED  BY <1>1, <1>2, <1>3, <3>1, <3>2
  <2> QED  BY <2>2, <2>3 DEF Layered
<1> QED  BY <1>4, <1>5, <1>6

LEMMA RaisedOK ==
  ASSUME NEW ps, NEW s, Lists(s, ps), NEW p \in ps, NEW C, Layered(s, C)
  PROVE  /\ Lists(Raised(s, p), ps)
         /\ Layered(Raised(s, p), C \cup {p})
<1> DEFINE w == Without(s, p)
           r == Raised(s, p)
<1>1. Lists(w, ps \ {p}) /\ Layered(w, C)
  BY WithoutOK
<1> HIDE DEF w
<1>3. w \in Seq(ps) /\ Len(w) \in Nat /\ \A j \in 1..Len(w) : w[j] \in ps \ {p}
  BY <1>1, ElementOfSeq, LenProperties, SeqMonotonic DEF Lists
<1>4. /\ r \in Seq(ps) /\ Len(r) = Len(w) + 1
      /\ \A j \in 1..Len(r) : r[j] = IF j = 1 THEN p ELSE w[j - 1]
  <2>1. r = Cons(p, w)
    BY DEF Raised, w
  <2> HIDE DEF r
  <2>2. LET q == Cons(p, w) IN
        /\ q \in Seq(ps) /\ Len(q) = Len(w) + 1
        /\ \A j \in 1..Len(q) : q[j] = IF j = 1 THEN p ELSE w[j - 1]
    BY <1>3, ConsOK
  <2> QED  BY <2>1, <2>2
<1> HIDE DEF r
<1>5. Lists(r, ps)
  <2>1. ASSUME NEW j \in 1..Len(r), NEW k \in 1..Len(r), r[j] = r[k] PROVE j = k
    <3>1. CASE j = 1 \/ k = 1
      BY <1>3, <1>4, <2>1, <3>1
    <3>2. CASE j # 1 /\ k # 1
      <4>1. /\ j - 1 \in 1..Len(w) /\ k - 1 \in 1..Len(w) /\ w[j - 1] = w[k - 1]
        BY <1>3, <1>4, <2>1, <3>2
      <4>2. j - 1 = k - 1
        BY <1>1, <4>1 DEF Lists
      <4> QED  BY <1>3, <1>4, <4>2
    <3> QED  BY <3>1, <3>2
  <2>2. ASSUME NEW q \in ps PROVE \E j \in 1..Len(r) : r[j] = q
    <3>1. CASE q = p
      BY <1>3, <1>4, <3>1
    <3>2. CASE q # p
      <4>1. PICK k \in 1..Len(w) : w[k] = q
        BY <1>1, <3>2 DEF Lists
      <4>2. k + 1 \in 1..Len(r) /\ k + 1 # 1 /\ (k + 1) - 1 = k
        BY <1>3, <1>4
      <4>3. r[k + 1] = q
        BY <1>4, <4>1, <4>2
      <4> QED  BY <4>2, <4>3
    <3> QED  BY <3>1, <3>2
  <2> QED  BY <1>4, <2>1, <2>2 DEF Lists
<1>6. Layered(r, C \cup {p})
  <2>1. PICK n \in 0..Len(w) : \A j \in 1..Len(w) : j <= n <=> w[j] \in C
    BY <1>1 DEF Layered
  <2>2. n + 1 \in 0..Len(r)
    BY <1>3, <1>4
  <2>3. ASSUME NEW j \in 1..Len(r) PROVE j <= n + 1 <=> r[j] \in C \cup {p}
    <3>1. CASE j = 1
      BY <1>3, <1>4, <2>1, <3>1
    <3>2. CASE j # 1
      <4>1. r[j] = w[j - 1] /\ j - 1 \in 1..Len(w)
        BY <1>3, <1>4, <3>2
      <4>2. j - 1 <= n <=> r[j] \in C \cup {p}
        BY <1>3, <2>1, <4>1
      <4> QED  BY <1>3, <1>4, <4>2
    <3> QED  BY <3>1, <3>2
  <2> QED  BY <2>2, <2>3 DEF Layered
<1> QED  BY <1>5, <1>6 DEF r

LEMMA InsertedOK ==
  ASSUME NEW ps, NEW s, Lists(s, ps), NEW p, p \notin ps, NEW C, p \notin C, NEW n \in 0..Len(s),
         \A i \in 1..Len(s) : i <= n <=> s[i] \in C
  PROVE  /\ Lists(InsertAt(s, n + 1, p), ps \cup {p})
         /\ Layered(InsertAt(s, n + 1, p), C)
<1> DEFINE r == InsertAt(s, n + 1, p)
<1>1. s \in Seq(ps \cup {p}) /\ p \in ps \cup {p} /\ Len(s) \in Nat /\ \A j \in 1..Len(s) : s[j] \in ps
  BY ElementOfSeq, LenProperties, SeqMonotonic DEF Lists
<1>2. /\ r \in Seq(ps \cup {p}) /\ Len(r) = Len(s) + 1
      /\ \A j \in 1..Len(r) : r[j] = IF j <= n THEN s[j] ELSE IF j = n + 1 THEN p ELSE s[j - 1]
  <2> DEFINE S == ps \cup {p}
  <2>1. s \in Seq(S) /\ p \in S
    BY <1>1
  <2> HIDE DEF S
  <2>2. /\ r \in Seq(S) /\ Len(r) = Len(s) + 1
        /\ \A j \in 1..Len(r) : r[j] = IF j <= n THEN s[j] ELSE IF j = n + 1 THEN p ELSE s[j - 1]
    BY <2>1, InsertAtOK
  <2> QED  BY <2>2 DEF S
<1> HIDE DEF r
<1>3. /\ \A j \in 1..n : r[j] = s[j] /\ j \in 1..Len(s) /\ j \in 1..Len(r)
      /\ r[n + 1] = p /\ n + 1 \in 1..Len(r)
      /\ \A j \in (n + 2)..Len(r) : r[j] = s[j - 1] /\ j - 1 \in 1..Len(s)
      /\ \A j \in 1..Len(r) : j \in 1..n \/ j = n + 1 \/ j \in (n + 2)..Len(r)
  BY <1>1, <1>2
<1>4. Lists(r, ps \cup {p})
  <2>1. ASSUME NEW j \in 1..Len(r), NEW k \in 1..Len(r), r[j] = r[k] PROVE j = k
    <3> DEFINE at(l) == IF l <= n THEN l ELSE l - 1
    <3>1. \A l \in 1..Len(r) : l # n + 1 =>
            at(l) \in 1..Len(s) /\ r[l] = s[at(l)] /\ r[l] # p
      <4> TAKE l \in 1..Len(r)
      <4> HAVE l # n + 1
      <4>1. CASE l <= n
        BY <1>1, <1>2, <4>1
      <4>2. CASE l > n
        <5>1. l - 1 \in 1..Len(s) /\ r[l] = s[l - 1]
          BY <1>1, <1>2, <4>2
        <5> QED  BY <1>1, <1>2, <4>2, <5>1
      <4> QED  BY <1>1, <1>2, <4>1, <4>2
    <3>2. CASE j = n + 1 \/ k = n + 1
      BY <1>3, <2>1, <3>1, <3>2
    <3>3. CASE j # n + 1 /\ k # n + 1
      <4>1. at(j) = at(k)
        <5>1. at(j) \in 1..Len(s) /\ at(k) \in 1..Len(s) /\ s[at(j)] = s[at(k)]
          BY <2>1, <3>1, <3>3
        <5> QED  BY <5>1 DEF Lists
      <4> QED  BY <1>1, <1>2, <3>3, <4>1
    <3> QED  BY <3>2, <3>3
  <2>2. ASSUME NEW q \in ps PROVE \E j \in 1..Len(r) : r[j] = q
    <3>1. PICK k \in 1..Len(s) : s[k] = q
      BY DEF Lists
    <3>2. CASE k <= n
      BY <1>1, <1>3, <3>1, <3>2
    <3>3. CASE k > n
      <4>1. k + 1 \in (n + 2)..Len(r) /\ (k + 1) - 1 = k /\ k + 1 \in 1..Len(r)
        BY <1>1, <1>2, <3>3
      <4>2. r[k + 1] = q
        BY <1>3, <3>1, <4>1
      <4> QED  BY <4>1, <4>2
    <3> QED  BY <1>1, <3>2, <3>3
  <2> QED  BY <1>2, <1>3, <2>1, <2>2 DEF Lists
<1>5. Layered(r, C)
  <2>1. n \in 0..Len(r)
    BY <1>1, <1>2
  <2>2. ASSUME NEW j \in 1..Len(r) PROVE j <= n <=> r[j] \in C
    <3>1. CASE j \in 1..n
      BY <1>1, <1>3, <3>1
    <3>2. CASE j = n + 1
      BY <1>1, <1>3, <3>2
    <3>3. CASE j \in (n + 2)..Len(r)
      <4>1. r[j] = s[j - 1] /\ j - 1 \in 1..Len(s)
        BY <1>3, <3>3
      <4>2. ~(j - 1 <= n)
        BY <1>1, <1>2, <3>3
      <4> QED  BY <1>1, <1>2, <3>3, <4>1, <4>2
    <3> QED  BY <1>3, <3>1, <3>2, <3>3
  <2> QED  BY <2>1, <2>2 DEF Layered
<1> QED  BY <1>4, <1>5 DEF r

-----------------------------------------------------------------------------
(* The invariant. *)

Existing == {p \in Popups : Exists(p)}

Configured == {p \in Popups : popup[p].state = "configured"}

PopupType ==
  [state : {"none", "unconfigured", "configured"}, mapped : BOOLEAN, dismissed : BOOLEAN,
   done : BOOLEAN, parent : Surfaces \cup {None}, pending : Surfaces \cup {None}]

(* Popups ps refer to surfaces of ls; the first commit has given a popup its parent,
   and the parent it may get later is a layer surface. *)
PopupsOK(ps, ls) ==
  /\ ps \in [Popups -> PopupType]
  /\ \A p \in Popups :
       /\ ps[p].parent \in ls /\ ps[p].pending \in ls
       /\ ps[p].state = "configured" => ps[p].pending \notin Popups

(* Keyboard k refers to surfaces of ls, and what grabs it has the focus. *)
KeyboardOK(k, ls) ==
  /\ k \in [focus : ls, grab : ls]
  /\ k.grab # None => k.focus = k.grab

StackOK == Lists(stack, Existing) /\ Layered(stack, Configured)

(* The walk still meets the popup where it ends. *)
WalkOK ==
  /\ walk \in [roots : Seq(Existing), at : Nat \ {0}]
  /\ IF walk.roots = <<>> THEN walk.at = 1
     ELSE \E i \in 1..Len(stack) : walk.at <= i /\ stack[i] = Head(walk.roots)

(* ss are popups that were mapped, with all the popups they are on: what was mapped
   is mapped or dismissed, and so is what it was on, however far down. *)
ShownIn(ss, ps, k) ==
  /\ \A p \in ss : /\ p \in Popups /\ ps[p].state = "configured"
                   /\ ps[p].mapped \/ ps[p].dismissed
                   /\ ps[p].parent \in Popups => ps[p].parent \in ss
  /\ \A p \in Popups : ps[p].mapped => p \in ss
  /\ k.grab \in ss \cup {None}

(* The inductive invariant. *)
IInv ==
  /\ window \in [Windows -> {"none", "unmapped", "mapped"}]
  /\ PopupsOK(popup, Living)
  /\ KeyboardOK(keyboard, Living)
  /\ StackOK
  /\ WalkOK
  /\ \E ss \in SUBSET Popups : ShownIn(ss, popup, keyboard)

USE PopupsAssumption

-----------------------------------------------------------------------------
(* The keyboard. *)

LEMMA SetFocusOK ==
  ASSUME NEW ls, NEW k, KeyboardOK(k, ls), NEW s \in ls
  PROVE  KeyboardOK(SetFocus(k, s), ls) /\ SetFocus(k, s).grab = k.grab
BY DEF KeyboardOK, SetFocus

LEMMA SetGrabOK ==
  ASSUME NEW ls, NEW k, KeyboardOK(k, ls), NEW s \in ls, None \in ls
  PROVE  KeyboardOK(SetGrab(k, s), ls) /\ SetGrab(k, s).grab = s
<1>1. CASE k.grab = s
  BY <1>1 DEF SetGrab
<1>2. CASE k.grab # s
  <2> DEFINE a == [k EXCEPT !.grab = None]
             b == [a EXCEPT !.focus = s]
  <2>1. a \in [focus : ls, grab : ls] /\ a.grab = None
    BY DEF KeyboardOK
  <2> HIDE DEF a
  <2>2. b \in [focus : ls, grab : ls] /\ b.focus = s
    BY <2>1
  <2> HIDE DEF b
  <2>3. SetFocus(a, s) = b
    BY <2>1 DEF SetFocus, b
  <2>4. SetGrab(k, s) = [b EXCEPT !.grab = s]
    BY <1>2, <2>3 DEF SetGrab, a
  <2> QED  BY <2>2, <2>4 DEF KeyboardOK
<1> QED  BY <1>1, <1>2

LEMMA ForgetOK ==
  ASSUME NEW ls, NEW k, KeyboardOK(k, ls), None \in ls, NEW ss, None \notin ss
  PROVE  /\ KeyboardOK(Forget(k, ss), ls \ ss)
         /\ Forget(k, ss).grab = IF k.grab \in ss THEN None ELSE k.grab
BY DEF KeyboardOK, Forget

LEMMA GrabToParentOK ==
  ASSUME NEW k, KeyboardOK(k, Living), PopupsOK(popup, Living), NEW p \in Popups
  PROVE  LET q == GrabToParent(k, p) IN
         /\ KeyboardOK(q, Living)
         /\ q.grab = IF k.grab # p THEN k.grab
                     ELSE IF popup[p].parent \in Popups THEN popup[p].parent ELSE None
<1> DEFINE parent == popup[p].parent
<1>1. parent \in Living /\ None \in Living /\ parent \in Windows \cup Popups \cup {None}
  BY DEF PopupsOK, PopupType, Living, Surfaces
<1>2. CASE k.grab # p
  BY <1>2 DEF GrabToParent
<1>3. CASE k.grab = p /\ parent \in Windows
  <2> DEFINE n == [focus |-> None, grab |-> None]
  <2>1. KeyboardOK(n, Living) /\ n.grab = None
    BY <1>1 DEF KeyboardOK
  <2> HIDE DEF n
  <2>2. GrabToParent(k, p) = SetFocus(n, parent)
    BY <1>3 DEF GrabToParent, n
  <2> QED  BY <1>1, <1>3, <2>1, <2>2, SetFocusOK
<1>4. CASE k.grab = p /\ parent \notin Windows
  <2>1. GrabToParent(k, p) = SetGrab(k, parent)
    BY <1>4 DEF GrabToParent
  <2> QED  BY <1>1, <1>4, <2>1, SetGrabOK
<1> QED  BY <1>2, <1>3, <1>4

-----------------------------------------------------------------------------
(* Parents that come and go. *)

(* Popups ps become qs: only parents change, and a popup that was committed gets
   none that is a popup. *)
Relinked(ps, qs) == \A p \in Popups :
  /\ qs[p].state = ps[p].state /\ qs[p].mapped = ps[p].mapped /\ qs[p].dismissed = ps[p].dismissed
  /\ qs[p].state = "configured" /\ qs[p].parent \in Popups => qs[p].parent = ps[p].parent

LEMMA RelinkedOK ==
  ASSUME NEW ps, NEW qs, Relinked(ps, qs), NEW ss, NEW k, ShownIn(ss, ps, k),
         NEW j, j.grab \in ss \cup {None}
  PROVE  ShownIn(ss, qs, j)
BY DEF Relinked, ShownIn

LEMMA AdoptOK ==
  ASSUME NEW ps, NEW ls, PopupsOK(ps, ls), NEW s \in ls, None \in ls, s \in Surfaces
  PROVE  /\ PopupsOK(Adopt(ps, s), ls) /\ Relinked(ps, Adopt(ps, s))
         /\ \A p \in Popups : /\ Adopt(ps, s)[p].pending \in {ps[p].pending, None}
                              /\ ps[p].pending = s => Adopt(ps, s)[p].pending = None
<1> DEFINE qs == Adopt(ps, s)
<1>1. qs = [p \in Popups |-> IF ps[p].pending = s
                             THEN [ps[p] EXCEPT !.parent = s, !.pending = None] ELSE ps[p]]
  BY DEF Adopt
<1> HIDE DEF qs
<1>2. ASSUME NEW p \in Popups
      PROVE  /\ qs[p] \in PopupType /\ qs[p].parent \in ls /\ qs[p].pending \in ls
             /\ qs[p].pending \in {ps[p].pending, None} /\ (ps[p].pending = s => qs[p].pending = None)
             /\ qs[p].state = ps[p].state /\ qs[p].mapped = ps[p].mapped
             /\ qs[p].dismissed = ps[p].dismissed
             /\ qs[p].parent = IF ps[p].pending = s THEN s ELSE ps[p].parent
  <2>1. ps[p] \in PopupType /\ ps[p].parent \in ls /\ ps[p].pending \in ls
    BY DEF PopupsOK
  <2>2. CASE ps[p].pending = s
    <3>1. qs[p] = [ps[p] EXCEPT !.parent = s, !.pending = None]
      BY <1>1, <2>2
    <3> QED  BY <2>1, <2>2, <3>1 DEF PopupType
  <2>3. CASE ps[p].pending # s
    <3>1. qs[p] = ps[p]
      BY <1>1, <2>3
    <3> QED  BY <2>1, <2>3, <3>1
  <2> QED  BY <2>2, <2>3
<1>3. PopupsOK(qs, ls)
  <2>1. qs \in [Popups -> PopupType]
    BY <1>1, <1>2
  <2> QED  BY <1>2, <2>1 DEF PopupsOK
<1>4. Relinked(ps, qs)
  BY <1>2 DEF Relinked, PopupsOK
<1> QED  BY <1>2, <1>3, <1>4 DEF qs

LEMMA OrphanOK ==
  ASSUME NEW ps, NEW ls, PopupsOK(ps, ls), NEW s \in Surfaces, None \in ls
  PROVE  PopupsOK(Orphan(ps, s), ls \ {s}) /\ Relinked(ps, Orphan(ps, s))
<1> DEFINE qs == Orphan(ps, s)
<1>0. None # s
  BY DEF Surfaces
<1>1. ASSUME NEW p \in Popups
      PROVE  /\ qs[p] \in PopupType
             /\ qs[p].state = ps[p].state /\ qs[p].mapped = ps[p].mapped
             /\ qs[p].dismissed = ps[p].dismissed
             /\ qs[p].parent = IF ps[p].parent = s THEN None ELSE ps[p].parent
             /\ qs[p].pending = IF ps[p].pending = s THEN None ELSE ps[p].pending
  <2>1. ps[p] \in PopupType
    BY DEF PopupsOK
  <2>2. qs[p] = [ps[p] EXCEPT !.parent = IF ps[p].parent = s THEN None ELSE ps[p].parent,
                              !.pending = IF ps[p].pending = s THEN None ELSE ps[p].pending]
    BY <2>1 DEF Orphan, PopupType
  <2> QED  BY <2>1, <2>2 DEF PopupType
<1>2. qs \in [Popups -> PopupType]
  BY <1>1 DEF Orphan
<1> HIDE DEF qs
<1>3. PopupsOK(qs, ls \ {s})
  BY <1>0, <1>1, <1>2 DEF PopupsOK
<1>4. Relinked(ps, qs)
  BY <1>0, <1>1 DEF Relinked
<1> QED  BY <1>3, <1>4 DEF qs

-----------------------------------------------------------------------------
(* The steps. *)

LEMMA Facts ==
  ASSUME IInv
  PROVE  /\ popup \in [Popups -> PopupType] /\ None \in Living
         /\ \A p \in Popups : p \in Living <=> Exists(p)
         /\ \A w \in Windows : w \in Living <=> window[w] # "none"
         /\ Living \subseteq Surfaces \cup {None}
         /\ keyboard \in [focus : Living, grab : Living]
         /\ Lists(stack, Existing) /\ Layered(stack, Configured)
         /\ Existing \subseteq Popups /\ Configured \subseteq Existing
         /\ \A p \in Existing : p \in Popups
         /\ None \notin Popups
BY DEF IInv, PopupsOK, KeyboardOK, StackOK, Living, Surfaces, Existing, Configured, Exists

(* A step that changes neither the list nor what is in it. *)
LEMMA ListKept ==
  ASSUME IInv, UNCHANGED stack, \A p \in Popups : popup'[p].state = popup[p].state
  PROVE  /\ StackOK' /\ Existing' = Existing /\ Configured' = Configured
         /\ UNCHANGED walk => WalkOK'
<1>1. Existing' = Existing /\ Configured' = Configured
  BY DEF Existing, Configured, Exists
<1> QED  BY <1>1 DEF IInv, StackOK, WalkOK

LEMMA LivingKept ==
  ASSUME \A p \in Popups : popup'[p].state = popup[p].state, UNCHANGED window
  PROVE  Living' = Living
BY DEF Living, Exists

(* LPopupRole::dismiss() of what the list holds. *)
LEMMA DismissOK ==
  ASSUME IInv, StackOK', NEW rs \in Seq(Existing'), Dismiss(rs)
  PROVE  WalkOK'
<1>1. walk' = [roots |-> rs, at |-> 1]
  BY DEF Dismiss
<1>2. CASE rs = <<>>
  BY <1>1, <1>2 DEF WalkOK
<1>3. CASE rs # <<>>
  <2>1. Head(rs) \in Existing'
    BY <1>3, HeadTailProperties
  <2>2. PICK i \in 1..Len(stack') : stack'[i] = Head(rs)
    BY <2>1 DEF StackOK, Lists
  <2>3. 1 <= i
    BY LenProperties DEF StackOK, Lists
  <2> QED  BY <1>1, <1>3, <2>2, <2>3 DEF WalkOK
<1> QED  BY <1>2, <1>3

LEMMA IdleWalk ==
  ASSUME IInv, walk.roots = <<>>, UNCHANGED walk
  PROVE  WalkOK'
<1>1. walk.at = 1 /\ walk = [roots |-> <<>>, at |-> 1]
  BY DEF IInv, WalkOK
<1>2. <<>> \in Seq(Existing')
  OBVIOUS
<1> QED  BY <1>1, <1>2 DEF WalkOK

(* A step of a window that changes the parents of popups only. *)
LEMMA WindowStep ==
  ASSUME IInv, UNCHANGED <<stack, walk>>, Relinked(popup, popup'),
         window' \in [Windows -> {"none", "unmapped", "mapped"}],
         PopupsOK(popup', Living'), KeyboardOK(keyboard', Living'),
         keyboard'.grab \in {keyboard.grab, None}
  PROVE  IInv'
<1>1. StackOK' /\ WalkOK'
  BY ListKept DEF Relinked
<1>2. PICK ss \in SUBSET Popups : ShownIn(ss, popup, keyboard)
  BY DEF IInv
<1>3. ShownIn(ss, popup', keyboard')
  BY <1>2, RelinkedOK DEF ShownIn
<1> QED  BY <1>1, <1>3 DEF IInv

LEMMA CreateWindowOK ==
  ASSUME IInv, NEW w \in Own, CreateWindow(w)
  PROVE  IInv'
<1>1. /\ window' \in [Windows -> {"none", "unmapped", "mapped"}]
      /\ Living \subseteq Living'
  BY Facts DEF IInv, CreateWindow, Living, Exists
<1>2. PopupsOK(popup', Living') /\ KeyboardOK(keyboard', Living')
  BY <1>1 DEF IInv, CreateWindow, PopupsOK, KeyboardOK
<1> QED  BY <1>1, <1>2, WindowStep DEF CreateWindow, Relinked

LEMMA CommitWindowOK ==
  ASSUME IInv, NEW w \in Own, CommitWindow(w)
  PROVE  IInv'
<1>1. w \in Windows /\ w \in Living /\ w \in Surfaces
  BY Facts DEF CommitWindow, Surfaces
<1>2. PopupsOK(popup', Living) /\ Relinked(popup, popup')
  BY <1>1, Facts, AdoptOK DEF IInv, CommitWindow
<1>3. /\ window' \in [Windows -> {"none", "unmapped", "mapped"}]
      /\ Living' = Living
  BY <1>1, <1>2 DEF IInv, CommitWindow, Living, Exists, Relinked
<1> QED  BY <1>2, <1>3, WindowStep DEF IInv, CommitWindow

LEMMA UnmapWindowOK ==
  ASSUME IInv, NEW w \in Own, UnmapWindow(w)
  PROVE  IInv'
<1>1. w \in Windows /\ w \in Living /\ w \in Surfaces
  BY Facts DEF UnmapWindow, Surfaces
<1>2. PopupsOK(popup', Living) /\ Relinked(popup, popup')
  <2>1. CASE w \in LayerSurfaces
    BY <1>1, <2>1, Facts, AdoptOK DEF IInv, UnmapWindow
  <2>2. CASE w \notin LayerSurfaces
    <3>1. popup' = [p \in Popups |-> IF w \in {popup[p].parent, popup[p].pending}
                      THEN [popup[p] EXCEPT !.parent = None, !.pending = None] ELSE popup[p]]
      BY <2>2 DEF UnmapWindow
    <3>2. ASSUME NEW p \in Popups
          PROVE  /\ popup'[p] \in PopupType
                 /\ popup'[p].parent \in {popup[p].parent, None}
                 /\ popup'[p].pending \in {popup[p].pending, None}
                 /\ popup'[p].state = popup[p].state /\ popup'[p].mapped = popup[p].mapped
                 /\ popup'[p].dismissed = popup[p].dismissed
      <4>1. popup[p] \in PopupType
        BY Facts
      <4>2. popup'[p] \in {popup[p], [popup[p] EXCEPT !.parent = None, !.pending = None]}
        BY <3>1
      <4> QED  BY <4>1, <4>2 DEF PopupType
    <3>3. popup' \in [Popups -> PopupType]
      BY <3>1, <3>2
    <3> QED  BY <3>2, <3>3, Facts DEF IInv, PopupsOK, Relinked
  <2> QED  BY <2>1, <2>2
<1>3. /\ window' \in [Windows -> {"none", "unmapped", "mapped"}]
      /\ Living' = Living
  BY <1>1, <1>2 DEF IInv, UnmapWindow, Living, Exists, Relinked
<1> QED  BY <1>2, <1>3, WindowStep DEF IInv, UnmapWindow

LEMMA DestroyWindowOK ==
  ASSUME IInv, NEW w \in Own, DestroyWindow(w)
  PROVE  IInv'
<1>1. w \in Windows /\ w \in Surfaces /\ w # None /\ w \notin Popups
  BY DEF Surfaces
<1>2. PopupsOK(popup', Living \ {w}) /\ Relinked(popup, popup')
  BY <1>1, Facts, OrphanOK DEF IInv, DestroyWindow
<1>3. /\ window' \in [Windows -> {"none", "unmapped", "mapped"}]
      /\ Living' = Living \ {w}
  BY <1>1, <1>2 DEF IInv, DestroyWindow, Living, Exists, Relinked
<1>4. KeyboardOK(keyboard', Living \ {w}) /\ keyboard'.grab \in {keyboard.grab, None}
  BY <1>1, Facts, ForgetOK DEF IInv, DestroyWindow
<1> QED  BY <1>2, <1>3, <1>4, WindowStep DEF DestroyWindow

-----------------------------------------------------------------------------
(* Requests on popups. *)

LEMMA NoPopupOK ==
  /\ NoPopup \in PopupType /\ NoPopup.state = "none" /\ NoPopup.mapped = FALSE
  /\ NoPopup.parent = None /\ NoPopup.pending = None
BY DEF NoPopup, PopupType

LEMMA DisconnectOK ==
  ASSUME IInv, Disconnect
  PROVE  IInv'
<1>1. /\ popup' \in [Popups -> PopupType]
      /\ \A p \in Popups : popup'[p] = NoPopup
  BY NoPopupOK DEF Disconnect
<1>2. /\ window' \in [Windows -> {"none", "unmapped", "mapped"}]
      /\ Living' = Living \ (Popups \cup Own)
  <2>1. window' = [w \in Windows |-> IF w \in Own THEN "none" ELSE window[w]]
    BY DEF Disconnect
  <2> QED  BY <1>1, <2>1, NoPopupOK DEF IInv, Living, Exists
<1>3. PopupsOK(popup', Living')
  BY <1>1, <1>2, NoPopupOK, Facts DEF PopupsOK
<1>4. KeyboardOK(keyboard', Living') /\ keyboard'.grab = None
  <2>1. keyboard' = Forget(keyboard, Popups \cup Own)
    BY DEF Disconnect
  <2>2. keyboard.grab \in Popups \cup {None}
    BY DEF IInv, ShownIn
  <2> QED  BY <1>2, <2>1, <2>2, Facts, ForgetOK DEF IInv
<1>5. Existing' = {} /\ Configured' = {}
  BY <1>1, NoPopupOK DEF Existing, Configured, Exists
<1>6. StackOK' /\ WalkOK'
  <2>1. stack' = <<>> /\ walk' = [roots |-> <<>>, at |-> 1]
    BY DEF Disconnect, Idle
  <2>2. Lists(<<>>, {}) /\ Layered(<<>>, {})
    BY DEF Lists, Layered
  <2> QED  BY <1>5, <2>1, <2>2 DEF StackOK, WalkOK
<1>7. ShownIn({}, popup', keyboard')
  BY <1>1, <1>4, NoPopupOK DEF ShownIn
<1> QED  BY <1>2, <1>3, <1>4, <1>6, <1>7 DEF IInv

LEMMA GetPopupOK ==
  ASSUME IInv, walk.roots = <<>>, NEW p \in Popups,
         NEW parent \in Own \cup Popups \cup {None}, GetPopup(p, parent)
  PROVE  IInv'
<1> DEFINE new == [NoPopup EXCEPT !.state = "unconfigured", !.pending = parent]
<1>1. parent \in Living /\ ~Exists(p) /\ p # None
  BY Facts DEF GetPopup
<1>2. /\ new \in PopupType /\ new.state = "unconfigured" /\ ~new.mapped
      /\ new.mapped = FALSE /\ new.parent = None /\ new.pending = parent
  BY <1>1, Facts, NoPopupOK DEF PopupType, NoPopup, Surfaces
<1>3. popup' = [popup EXCEPT ![p] = new]
  BY DEF GetPopup
<1> HIDE DEF new
<1>4. /\ popup' \in [Popups -> PopupType] /\ popup'[p] = new
      /\ \A q \in Popups \ {p} : popup'[q] = popup[q]
  BY <1>2, <1>3, Facts
<1>5. window' = window /\ Living' = Living \cup {p}
  BY <1>1, <1>2, <1>4 DEF GetPopup, Living, Exists
<1>6. PopupsOK(popup', Living')
  BY <1>1, <1>2, <1>4, <1>5, Facts DEF IInv, PopupsOK
<1>7. KeyboardOK(keyboard', Living')
  BY <1>5 DEF IInv, KeyboardOK, GetPopup
<1>8. /\ Existing' = Existing \cup {p} /\ p \notin Existing
      /\ Configured' = Configured /\ p \notin Configured
  BY <1>1, <1>2, <1>4 DEF Existing, Configured, Exists
<1>9. StackOK'
  <2>1. PICK n \in 0..Len(stack) : ConfiguredAbove(n) /\ stack' = InsertAt(stack, n + 1, p)
    BY DEF GetPopup
  <2>2. \A i \in 1..Len(stack) : stack[i] \in Popups
    BY Facts, ElementOfSeq DEF Lists
  <2>3. \A i \in 1..Len(stack) : i <= n <=> stack[i] \in Configured
    BY <2>1, <2>2 DEF ConfiguredAbove, Configured
  <2>4. Lists(stack', Existing \cup {p}) /\ Layered(stack', Configured)
    BY <1>8, <2>1, <2>3, Facts, InsertedOK
  <2> QED  BY <1>8, <2>4 DEF StackOK
<1>10. WalkOK'
  BY IdleWalk DEF GetPopup
<1>11. PICK ss \in SUBSET Popups : ShownIn(ss, popup, keyboard)
  BY DEF IInv
<1>12. ShownIn(ss, popup', keyboard')
  <2>1. p \notin ss
    BY <1>1, <1>11 DEF ShownIn, Exists
  <2>2. \A q \in ss : q \in Popups /\ popup'[q] = popup[q]
    BY <1>4, <1>11, <2>1 DEF ShownIn
  <2>3. \A q \in Popups : popup'[q].mapped => q # p /\ popup[q].mapped
    BY <1>2, <1>4
  <2>4. keyboard' = keyboard
    BY DEF GetPopup
  <2> QED  BY <1>11, <2>2, <2>3, <2>4 DEF ShownIn
<1> QED  BY <1>5, <1>6, <1>7, <1>9, <1>10, <1>12 DEF IInv

LEMMA SetLayerParentOK ==
  ASSUME IInv, NEW p \in Popups, NEW w \in Own, SetLayerParent(p, w)
  PROVE  IInv'
<1>1. CASE popup[p].parent # None \/ popup[p].pending # None
  BY <1>1, DisconnectOK DEF SetLayerParent
<1>2. CASE ~(popup[p].parent # None \/ popup[p].pending # None)
  <2>1. /\ w \in Windows /\ w \notin Popups /\ w \in Living /\ w \in Surfaces
        /\ UNCHANGED <<keyboard, window, stack, walk>>
        /\ popup' = [popup EXCEPT ![p] = [popup[p] EXCEPT !.pending = w]]
    BY <1>2, Facts DEF SetLayerParent, Surfaces
  <2>2. /\ popup'[p] = [popup[p] EXCEPT !.pending = w] /\ popup[p] \in PopupType
        /\ \A q \in Popups \ {p} : popup'[q] = popup[q]
    BY <2>1, Facts
  <2>3. /\ popup'[p] \in PopupType /\ popup'[p].pending = w /\ popup'[p].parent = popup[p].parent
        /\ popup'[p].state = popup[p].state /\ popup'[p].mapped = popup[p].mapped
        /\ popup'[p].dismissed = popup[p].dismissed
    BY <2>1, <2>2 DEF PopupType
  <2>4. popup' \in [Popups -> PopupType]
    BY <2>1, <2>3, Facts
  <2>5. Relinked(popup, popup') /\ Living' = Living
    BY <2>1, <2>2, <2>3, LivingKept DEF Relinked
  <2>6. PopupsOK(popup', Living')
    BY <2>1, <2>2, <2>3, <2>4, <2>5 DEF IInv, PopupsOK
  <2> QED  BY <2>1, <2>5, <2>6, WindowStep DEF IInv
<1> QED  BY <1>1, <1>2

LEMMA CommitOK ==
  ASSUME IInv, walk.roots = <<>>, NEW p \in Popups, NEW hasBuffer \in BOOLEAN, Commit(p, hasBuffer)
  PROVE  IInv'
<1> DEFINE own == Adopt(popup, p)
           adopted == IF own[p].pending # None THEN Adopt(own, own[p].pending) ELSE own
           this == adopted[p]
           unmapped == this.mapped /\ ~hasBuffer
<1>1. Exists(p) /\ p \in Living /\ p \in Surfaces
  BY Facts DEF Commit, Surfaces
<1>2. PopupsOK(own, Living) /\ Relinked(popup, own)
  BY <1>1, Facts, AdoptOK DEF IInv
<1> HIDE DEF own
<1>3. /\ PopupsOK(adopted, Living) /\ Relinked(popup, adopted)
      /\ adopted[p].pending = None
  <2>1. CASE own[p].pending = None
    BY <1>2, <2>1
  <2>2. CASE own[p].pending # None
    <3> DEFINE s == own[p].pending
    <3>1. s \in Living /\ s \in Surfaces
      BY <1>2, <2>2, Facts DEF PopupsOK
    <3>2. LET a == Adopt(own, s) IN
          PopupsOK(a, Living) /\ Relinked(own, a) /\ a[p].pending = None
      <4> HIDE DEF s
      <4>1. /\ PopupsOK(Adopt(own, s), Living) /\ Relinked(own, Adopt(own, s))
            /\ own[p].pending = s => Adopt(own, s)[p].pending = None
        <5>1. None \in Living
          BY Facts
        <5> QED  BY <1>2, <3>1, <5>1, AdoptOK
      <4> QED  BY <4>1 DEF s
    <3>3. Relinked(popup, Adopt(own, s))
      BY <1>2, <3>2 DEF Relinked
    <3> QED  BY <2>2, <3>2, <3>3
  <2> QED  BY <2>1, <2>2
<1>4. \/ popup' = own /\ UNCHANGED <<keyboard, window, stack, walk>>
      \/ Disconnect
      \/ /\ this.parent # None /\ UNCHANGED <<keyboard, window>>
         /\ \/ /\ this.state = "unconfigured"
               /\ popup' = [adopted EXCEPT ![p].state = "configured"]
               /\ stack' = Raised(stack, p)
               /\ UNCHANGED walk
            \/ /\ popup' = adopted /\ Dismiss(<<p>>) /\ UNCHANGED stack
            \/ /\ this.state = "configured" /\ ~unmapped
               /\ popup' = [adopted EXCEPT ![p].mapped = @ \/ (hasBuffer /\ Mapped(this.parent))]
               /\ UNCHANGED <<stack, walk>>
  BY DEF Commit, own
<1> HIDE DEF adopted
<1>5. PICK ss \in SUBSET Popups : ShownIn(ss, popup, keyboard)
  BY DEF IInv
<1>6. CASE popup' = own /\ UNCHANGED <<keyboard, window, stack, walk>>
  <2>1. Living' = Living
    BY <1>2, <1>6, LivingKept DEF Relinked
  <2> QED  BY <1>2, <1>6, <2>1, WindowStep DEF IInv
<1>7. CASE Disconnect
  BY <1>7, DisconnectOK
<1>8. ShownIn(ss, adopted, keyboard)
  BY <1>3, <1>5, RelinkedOK DEF ShownIn
<1>9. adopted \in [Popups -> PopupType] /\ this \in PopupType
  BY <1>3 DEF PopupsOK
<1>10. CASE /\ this.state = "unconfigured" /\ UNCHANGED <<keyboard, window, walk>>
            /\ popup' = [adopted EXCEPT ![p].state = "configured"]
            /\ stack' = Raised(stack, p)
  <2> DEFINE new == [this EXCEPT !.state = "configured"]
  <2>1. /\ new \in PopupType /\ new.state = "configured" /\ new.mapped = this.mapped
        /\ new.parent = this.parent /\ new.pending = None
    BY <1>3, <1>9 DEF PopupType
  <2>2. popup' = [adopted EXCEPT ![p] = new]
    BY <1>10
  <2> HIDE DEF new
  <2>3. /\ popup' \in [Popups -> PopupType] /\ popup'[p] = new
        /\ \A q \in Popups \ {p} : popup'[q] = adopted[q]
    BY <1>9, <2>1, <2>2
  <2>4. Living' = Living /\ Existing' = Existing /\ Configured' = Configured \cup {p} /\ p \in Existing
    <3>1. \A q \in Popups : Exists(q)' <=> Exists(q)
      BY <1>1, <1>3, <2>1, <2>3 DEF Exists, Relinked
    <3>2. \A q \in Popups \ {p} : popup'[q].state = popup[q].state
      BY <1>3, <2>3 DEF Relinked
    <3> QED  BY <1>1, <1>10, <2>1, <2>3, <3>1, <3>2 DEF Living, Existing, Configured
  <2>5. PopupsOK(popup', Living')
    BY <1>3, <2>1, <2>3, <2>4, Facts DEF PopupsOK
  <2>6. StackOK'
    BY <1>10, <2>4, Facts, RaisedOK DEF StackOK
  <2>7. WalkOK'
    BY <1>10, <2>4 DEF IInv, WalkOK
  <2>8. ShownIn(ss, popup', keyboard')
    <3>1. p \notin ss
      BY <1>8, <1>10 DEF ShownIn
    <3> QED  BY <1>8, <1>10, <2>1, <2>3, <3>1 DEF ShownIn
  <2> QED  BY <1>10, <2>4, <2>5, <2>6, <2>7, <2>8 DEF IInv
<1>11. CASE popup' = adopted /\ Dismiss(<<p>>) /\ UNCHANGED <<keyboard, window, stack>>
  <2>1. Living' = Living /\ StackOK' /\ Existing' = Existing
    BY <1>3, <1>11, LivingKept, ListKept DEF Relinked
  <2>2. <<p>> \in Seq(Existing)
    BY <1>1 DEF Existing
  <2>3. WalkOK'
    BY <1>11, <2>1, <2>2, DismissOK
  <2>4. ShownIn(ss, popup', keyboard')
    BY <1>8, <1>11
  <2> QED  BY <1>3, <1>11, <2>1, <2>3, <2>4 DEF IInv
<1>12. CASE /\ this.state = "configured"
            /\ popup' = [adopted EXCEPT ![p].mapped = @ \/ (hasBuffer /\ Mapped(this.parent))]
            /\ UNCHANGED <<keyboard, window, stack, walk>>
  <2> DEFINE m == this.mapped \/ (hasBuffer /\ Mapped(this.parent))
             new == [this EXCEPT !.mapped = m]
  <2>1. m \in BOOLEAN
    OBVIOUS
  <2>2. m => this.mapped \/ Mapped(this.parent)
    OBVIOUS
  <2>3. popup' = [adopted EXCEPT ![p] = new]
    BY <1>12
  <2> HIDE DEF m
  <2>4. /\ new \in PopupType /\ new.state = "configured" /\ new.mapped = m
        /\ new.dismissed = this.dismissed /\ new.parent = this.parent /\ new.pending = None
    BY <1>3, <1>9, <1>12, <2>1 DEF PopupType
  <2> HIDE DEF new
  <2>5. /\ popup' \in [Popups -> PopupType] /\ popup'[p] = new
        /\ \A q \in Popups \ {p} : popup'[q] = adopted[q]
    BY <1>9, <2>3, <2>4
  <2>6. \A q \in Popups : popup'[q].state = popup[q].state
    BY <1>3, <1>12, <2>4, <2>5 DEF Relinked
  <2>7. Living' = Living /\ StackOK' /\ WalkOK'
    BY <1>12, <2>6, LivingKept, ListKept
  <2>8. PopupsOK(popup', Living')
    BY <1>3, <2>4, <2>5, <2>7, Facts DEF PopupsOK
  <2>9. \E qq \in SUBSET Popups : ShownIn(qq, popup', keyboard')
    <3>1. CASE this.mapped \/ ~m
      <4>1. m => p \in ss
        BY <1>8, <3>1 DEF ShownIn
      <4>2. p \in ss => m \/ new.dismissed
        BY <1>8, <2>4, <3>1 DEF ShownIn, m
      <4>3. ShownIn(ss, popup', keyboard')
        BY <1>8, <1>12, <2>4, <2>5, <4>1, <4>2 DEF ShownIn
      <4> QED  BY <4>3
    <3>2. CASE ~this.mapped /\ m
      <4>1. Mapped(this.parent)
        BY <2>2, <3>2
      <4>2. this.parent \in Popups => this.parent \in ss
        BY <1>5, <4>1 DEF Mapped, ShownIn
      <4>3. ShownIn(ss \cup {p}, popup', keyboard')
        BY <1>8, <1>12, <2>4, <2>5, <3>2, <4>2 DEF ShownIn
      <4> QED  BY <4>3
    <3> QED  BY <2>1, <3>1, <3>2
  <2> QED  BY <1>12, <2>7, <2>8, <2>9 DEF IInv
<1> QED  BY <1>4, <1>6, <1>7, <1>10, <1>11, <1>12

LEMMA GrabOK ==
  ASSUME IInv, walk.roots = <<>>, NEW p \in Popups, Grab(p)
  PROVE  IInv'
<1>1. p \in Living /\ p \in Existing /\ UNCHANGED <<window, popup, stack>> /\ popup[p].mapped
  BY Facts DEF Grab, Existing
<1>2. Living' = Living /\ StackOK' /\ Existing' = Existing /\ (UNCHANGED walk => WalkOK')
  BY <1>1, LivingKept, ListKept
<1>3. PICK ss \in SUBSET Popups : ShownIn(ss, popup, keyboard)
  BY DEF IInv
<1>4. CASE keyboard' = SetGrab(keyboard, p) /\ UNCHANGED walk
  <2>1. KeyboardOK(keyboard', Living) /\ keyboard'.grab = p
    BY <1>1, <1>4, Facts, SetGrabOK DEF IInv
  <2>2. p \in ss
    BY <1>1, <1>3 DEF ShownIn
  <2>3. ShownIn(ss, popup', keyboard')
    BY <1>1, <1>3, <2>1, <2>2 DEF ShownIn
  <2> QED  BY <1>1, <1>2, <1>4, <2>1, <2>3 DEF IInv
<1>5. CASE Dismiss(<<p>>) /\ UNCHANGED keyboard
  <2>1. <<p>> \in Seq(Existing')
    BY <1>1, <1>2
  <2>2. WalkOK'
    BY <1>2, <1>5, <2>1, DismissOK
  <2> QED  BY <1>1, <1>2, <1>5, <2>2 DEF IInv
<1> QED  BY <1>4, <1>5 DEF Grab

LEMMA DestroyOK ==
  ASSUME IInv, walk.roots = <<>>, NEW p \in Popups, Destroy(p)
  PROVE  IInv'
<1>1. CASE Disconnect
  BY <1>1, DisconnectOK
<1>2. CASE /\ popup' = [Orphan(popup, p) EXCEPT ![p] = NoPopup]
           /\ keyboard' = Forget(GrabToParent(keyboard, p), {p})
           /\ stack' = Without(stack, p)
           /\ UNCHANGED <<window, walk>>
  <2> DEFINE os == Orphan(popup, p)
             k == GrabToParent(keyboard, p)
  <2>1. p \in Surfaces /\ p # None /\ p \in Existing /\ p \notin Windows
    BY DEF Surfaces, Existing, Destroy
  <2>2. PopupsOK(os, Living \ {p}) /\ Relinked(popup, os) /\ os \in [Popups -> PopupType]
    BY <2>1, Facts, OrphanOK DEF IInv, PopupsOK
  <2>3. \A q \in Popups : os[q].parent # p
    BY <2>2 DEF PopupsOK
  <2> HIDE DEF os
  <2>4. /\ popup' \in [Popups -> PopupType] /\ popup'[p] = NoPopup
        /\ \A q \in Popups \ {p} : popup'[q] = os[q]
    BY <1>2, <2>2, NoPopupOK DEF os
  <2>5. Living' = Living \ {p} /\ Existing' = Existing \ {p} /\ Configured' = Configured \ {p}
    <3>1. /\ \A q \in Popups \ {p} : popup'[q].state = popup[q].state
          /\ popup'[p].state = "none"
      BY <2>2, <2>4, NoPopupOK DEF Relinked
    <3> QED  BY <1>2, <2>1, <3>1 DEF Living, Existing, Configured, Exists
  <2>6. PopupsOK(popup', Living')
    BY <2>1, <2>2, <2>4, <2>5, NoPopupOK, Facts DEF PopupsOK
  <2>7. /\ KeyboardOK(k, Living)
        /\ k.grab = IF keyboard.grab # p THEN keyboard.grab
                    ELSE IF popup[p].parent \in Popups THEN popup[p].parent ELSE None
    BY GrabToParentOK DEF IInv
  <2>8. /\ KeyboardOK(keyboard', Living')
        /\ keyboard'.grab = IF k.grab = p THEN None ELSE k.grab
    <3> HIDE DEF k
    <3>1. keyboard' = Forget(k, {p})
      BY <1>2 DEF k
    <3> QED  BY <2>1, <2>5, <2>7, <3>1, Facts, ForgetOK
  <2>9. StackOK'
    <3>1. Lists(stack', Existing \ {p}) /\ Layered(stack', Configured)
      BY <1>2, <2>1, Facts, WithoutOK
    <3>2. \A i \in 1..Len(stack') : stack'[i] # p
      BY <3>1, ElementOfSeq DEF Lists
    <3>3. Layered(stack', Configured \ {p})
      BY <3>1, <3>2 DEF Layered
    <3> QED  BY <2>5, <3>1, <3>3 DEF StackOK
  <2>10. WalkOK'
    <3>1. UNCHANGED walk
      BY <1>2
    <3> QED  BY <3>1, IdleWalk
  <2>11. PICK ss \in SUBSET Popups : ShownIn(ss, popup, keyboard)
    BY DEF IInv
  <2>12. ShownIn(ss \ {p}, popup', keyboard')
    <3>1. \A q \in ss \ {p} : /\ q \in Popups /\ popup'[q].state = "configured"
                              /\ popup'[q].mapped \/ popup'[q].dismissed
                              /\ popup'[q].parent \in Popups => popup'[q].parent \in ss \ {p}
      BY <2>2, <2>3, <2>4, <2>11 DEF ShownIn, Relinked
    <3>2. \A q \in Popups : popup'[q].mapped => q \in ss \ {p}
      BY <2>2, <2>4, <2>11, NoPopupOK DEF ShownIn, Relinked
    <3>3. keyboard'.grab \in (ss \ {p}) \cup {None}
      <4> HIDE DEF k
      <4>1. k.grab \in ss \cup {None}
        BY <2>7, <2>11 DEF ShownIn
      <4> QED  BY <2>8, <4>1
    <3> QED  BY <3>1, <3>2, <3>3 DEF ShownIn
  <2> QED  BY <1>2, <2>5, <2>6, <2>8, <2>9, <2>10, <2>12 DEF IInv
<1> QED  BY <1>1, <1>2 DEF Destroy

-----------------------------------------------------------------------------
(* The user, and the walk. *)

LEMMA MappedLiving ==
  ASSUME IInv, NEW s \in Surfaces \cup {None}, s # None => Mapped(s)
  PROVE  s \in Living /\ (s \in Popups => s \in Configured)
BY Facts DEF IInv, ShownIn, Mapped, Living, Surfaces, Configured, Exists

(* The focus changes, the list is raised or dismissed. *)
LEMMA UserStep ==
  ASSUME IInv, walk.roots = <<>>, UNCHANGED <<window, popup>>,
         NEW s \in Surfaces \cup {None}, s # None => Mapped(s),
         keyboard' \in {keyboard, SetFocus(keyboard, s)},
         \/ UNCHANGED stack
         \/ \E t \in Configured : stack' = Raised(stack, t),
         UNCHANGED walk \/ (DismissPopups /\ UNCHANGED stack)
  PROVE  IInv'
<1>1. s \in Living /\ (s \in Popups => s \in Configured)
  BY MappedLiving
<1>2. Living' = Living /\ Existing' = Existing /\ Configured' = Configured
  BY DEF Living, Existing, Configured, Exists
<1>3. KeyboardOK(keyboard', Living) /\ keyboard'.grab = keyboard.grab
  BY <1>1, SetFocusOK DEF IInv
<1>4. StackOK'
  <2>1. CASE UNCHANGED stack
    BY <1>2, <2>1 DEF IInv, StackOK
  <2>2. ASSUME NEW t \in Configured, stack' = Raised(stack, t)  PROVE StackOK'
    <3>1. Configured \cup {t} = Configured /\ t \in Existing
      BY Facts
    <3> QED  BY <1>2, <2>2, <3>1, Facts, RaisedOK DEF StackOK
  <2> QED  BY <2>1, <2>2
<1>5. WalkOK'
  <2>1. CASE UNCHANGED walk
    BY <1>2, <2>1 DEF IInv, WalkOK
  <2>2. CASE DismissPopups /\ UNCHANGED stack
    BY <1>2, <1>4, <2>2, Facts, DismissOK DEF DismissPopups, Lists
  <2> QED  BY <2>1, <2>2
<1>6. \E ss \in SUBSET Popups : ShownIn(ss, popup', keyboard')
  BY <1>3 DEF IInv, ShownIn
<1> QED  BY <1>2, <1>3, <1>4, <1>5, <1>6 DEF IInv

(* The popup at the end of the parents of one that is mapped was configured: what was
   never shown is closed under the popups that are on it. *)
LEMMA TopmostOK ==
  ASSUME IInv, NEW s \in Surfaces \cup {None}, s # None => Mapped(s), NEW t \in TopmostPopup(s)
  PROVE  s \in Popups /\ t \in Configured
<1>1. PICK ss \in SUBSET Popups : ShownIn(ss, popup, keyboard)
  BY DEF IInv
<1>2. t \in Popups /\ s \in Popups
  <2>1. Popups \in SUBSET Popups /\ {q \in Popups : popup[q].parent \in Popups} \subseteq Popups
    OBVIOUS
  <2> QED  BY <2>1 DEF TopmostPopup
<1>3. s \in ss
  BY <1>1, <1>2, Facts, PopupsAssumption DEF ShownIn, Mapped
<1>4. {q \in Popups : popup[q].parent \in Popups \ ss} \subseteq Popups \ ss
  BY <1>1 DEF ShownIn
<1>5. t \in ss
  <2>1. ~(t \in Popups \ ss)
    <3> DEFINE ps == Popups \ ss
    <3>1. ps \in SUBSET Popups /\ s \notin ps /\ {q \in Popups : popup[q].parent \in ps} \subseteq ps
      BY <1>3, <1>4
    <3> HIDE DEF ps
    <3>2. t \notin ps
      BY <3>1 DEF TopmostPopup
    <3> QED  BY <3>2 DEF ps
  <2> QED  BY <1>2, <2>1
<1>6. t \in Configured
  BY <1>1, <1>2, <1>5 DEF ShownIn, Configured
<1> QED  BY <1>2, <1>6

LEMMA ClickOK ==
  ASSUME IInv, walk.roots = <<>>, NEW s \in Surfaces \cup {None}, NEW pointed \in BOOLEAN,
         Click(s, pointed)
  PROVE  IInv'
<1>1. /\ keyboard' \in {keyboard, SetFocus(keyboard, s)}
      /\ s # None => Mapped(s)
      /\ UNCHANGED <<window, popup>>
  BY DEF Click, FocusUnlessChild
<1>2. UNCHANGED stack \/ \E t \in Configured : stack' = Raised(stack, t)
  BY <1>1, TopmostOK DEF Click
<1>3. UNCHANGED walk \/ (DismissPopups /\ UNCHANGED stack)
  <2>1. s \in Popups \/ TopmostPopup(s) = {}
    BY <1>1, TopmostOK
  <2> QED  BY <2>1 DEF Click
<1> QED  BY <1>1, <1>2, <1>3, UserStep

LEMMA TouchDownOK ==
  ASSUME IInv, walk.roots = <<>>, NEW s \in Surfaces \cup {None}, TouchDown(s)
  PROVE  IInv'
<1>1. /\ keyboard' \in {keyboard, SetFocus(keyboard, s)}
      /\ s # None => Mapped(s)
      /\ UNCHANGED <<window, popup>>
  BY DEF TouchDown, FocusUnlessChild
<1>2. UNCHANGED stack \/ \E t \in Configured : stack' = Raised(stack, t)
  BY <1>1, MappedLiving DEF TouchDown
<1>3. UNCHANGED walk \/ (DismissPopups /\ UNCHANGED stack)
  BY Facts DEF TouchDown
<1> QED  BY <1>1, <1>2, <1>3, UserStep

LEMMA VisitOK ==
  ASSUME IInv, walk.roots # <<>>, Visit
  PROVE  IInv'
<1> DEFINE root == Head(walk.roots)
           p == stack[walk.at]
           visited == (p = root \/ IsSubchildOf(p, root)) /\ ~popup[p].dismissed
<1>1. /\ walk.roots \in Seq(Existing) /\ walk.at \in Nat \ {0} /\ Len(stack) \in Nat
      /\ root \in Existing /\ Tail(walk.roots) \in Seq(Existing)
  BY HeadTailProperties, Facts, LenProperties DEF IInv, WalkOK, Lists
<1>2. PICK i \in 1..Len(stack) : walk.at <= i /\ stack[i] = root
  BY DEF IInv, WalkOK
<1>3. walk.at \in 1..Len(stack) /\ p \in Existing /\ p \in Popups /\ root \in Popups
  <2>1. walk.at \in 1..Len(stack)
    BY <1>1, <1>2
  <2>2. p \in Existing
    BY <2>1, Facts, ElementOfSeq DEF Lists
  <2> QED  BY <1>1, <2>1, <2>2, Facts
<1>4. /\ IF visited
         THEN /\ popup' = [popup EXCEPT ![root].done = TRUE,
                                        ![p].dismissed = TRUE, ![p].mapped = FALSE]
              /\ keyboard' = GrabToParent(keyboard, p)
         ELSE UNCHANGED <<popup, keyboard>>
      /\ walk' = IF p # root THEN [walk EXCEPT !.at = @ + 1]
                 ELSE [roots |-> Tail(walk.roots), at |-> 1]
      /\ UNCHANGED <<window, stack>>
  BY DEF Visit
<1> HIDE DEF visited, p
<1>5. PICK ss \in SUBSET Popups : ShownIn(ss, popup, keyboard)
  BY DEF IInv
<1>6. /\ PopupsOK(popup', Living) /\ KeyboardOK(keyboard', Living)
      /\ \A q \in Popups : popup'[q].state = popup[q].state
      /\ ShownIn(ss, popup', keyboard')
  <2>1. CASE ~visited
    BY <1>4, <1>5, <2>1 DEF IInv
  <2>2. CASE visited
    <3> DEFINE a == [popup EXCEPT ![root].done = TRUE]
               b == [a EXCEPT ![p].dismissed = TRUE]
               c == [b EXCEPT ![p].mapped = FALSE]
    <3>1. popup' = c
      BY <1>4, <2>2
    <3>2. ASSUME NEW q \in Popups
          PROVE  /\ c[q] \in PopupType
                 /\ c[q].state = popup[q].state /\ c[q].parent = popup[q].parent
                 /\ c[q].pending = popup[q].pending
                 /\ c[q].dismissed = IF q = p THEN TRUE ELSE popup[q].dismissed
                 /\ c[q].mapped = IF q = p THEN FALSE ELSE popup[q].mapped
      <4>1. a \in [Popups -> PopupType] /\ popup[q] \in PopupType
        <5>1. popup[root] \in PopupType
          BY <1>3, Facts
        <5>2. [popup[root] EXCEPT !.done = TRUE] \in PopupType
          BY <5>1 DEF PopupType
        <5> QED  BY <5>2, Facts
      <4>2. /\ a[q].state = popup[q].state /\ a[q].parent = popup[q].parent
            /\ a[q].pending = popup[q].pending
            /\ a[q].dismissed = popup[q].dismissed /\ a[q].mapped = popup[q].mapped
        BY <1>3, <4>1, Facts DEF PopupType
      <4> HIDE DEF a
      <4>3. b \in [Popups -> PopupType]
        BY <1>3, <4>1 DEF PopupType
      <4>4. /\ b[q].state = a[q].state /\ b[q].parent = a[q].parent /\ b[q].pending = a[q].pending
            /\ b[q].dismissed = (IF q = p THEN TRUE ELSE a[q].dismissed)
            /\ b[q].mapped = a[q].mapped
        BY <1>3, <4>1 DEF PopupType
      <4> HIDE DEF b
      <4>5. c[q] \in PopupType
        BY <1>3, <4>3 DEF PopupType
      <4>6. /\ c[q].state = b[q].state /\ c[q].parent = b[q].parent /\ c[q].pending = b[q].pending
            /\ c[q].dismissed = b[q].dismissed
            /\ c[q].mapped = IF q = p THEN FALSE ELSE b[q].mapped
        BY <1>3, <4>3 DEF PopupType
      <4> HIDE DEF c
      <4> QED  BY <4>2, <4>4, <4>5, <4>6
    <3>3. c \in [Popups -> PopupType]
      BY <3>2, Facts
    <3> HIDE DEF c
    <3>4. PopupsOK(c, Living)
      BY <3>2, <3>3 DEF IInv, PopupsOK
    <3>5. /\ KeyboardOK(keyboard', Living)
          /\ keyboard'.grab = IF keyboard.grab # p THEN keyboard.grab
                              ELSE IF popup[p].parent \in Popups THEN popup[p].parent ELSE None
      BY <1>3, <1>4, <2>2, GrabToParentOK DEF IInv
    <3>6. keyboard'.grab \in ss \cup {None}
      <4>1. keyboard.grab \in ss \cup {None}
        BY <1>5 DEF ShownIn
      <4>2. keyboard.grab = p /\ popup[p].parent \in Popups => popup[p].parent \in ss
        BY <1>3, <1>5, <4>1, Facts DEF ShownIn
      <4> QED  BY <3>5, <4>1, <4>2
    <3>7. ShownIn(ss, c, keyboard')
      BY <1>5, <3>2, <3>6 DEF ShownIn
    <3> QED  BY <3>1, <3>2, <3>4, <3>5, <3>7
  <2> QED  BY <2>1, <2>2
<1>7. Living' = Living /\ StackOK' /\ Existing' = Existing
  BY <1>4, <1>6, LivingKept, ListKept
<1>8. WalkOK'
  <2>1. CASE p # root
    <3>1. walk' = [walk EXCEPT !.at = walk.at + 1]
      BY <1>4, <2>1
    <3>2. /\ walk' \in [roots : Seq(Existing), at : Nat \ {0}]
          /\ walk'.roots = walk.roots /\ walk'.at = walk.at + 1
      BY <1>1, <3>1 DEF IInv, WalkOK
    <3>3. i # walk.at
      BY <1>2, <2>1 DEF p
    <3>4. walk'.at <= i
      BY <1>1, <1>2, <3>2, <3>3
    <3> QED  BY <1>2, <1>4, <1>7, <3>2, <3>4 DEF WalkOK
  <2>2. CASE p = root
    <3>1. Dismiss(Tail(walk.roots))
      BY <1>4, <2>2 DEF Dismiss
    <3> QED  BY <1>1, <1>7, <3>1, DismissOK
  <2> QED  BY <2>1, <2>2
<1> QED  BY <1>4, <1>6, <1>7, <1>8 DEF IInv

-----------------------------------------------------------------------------

LEMMA InitIInv == Init => IInv
<1> SUFFICES ASSUME Init PROVE IInv
  OBVIOUS
<1>1. /\ popup \in [Popups -> PopupType] /\ \A p \in Popups : popup[p] = NoPopup
      /\ window = [w \in Windows |-> "mapped"]
      /\ keyboard = [focus |-> None, grab |-> None]
      /\ stack = <<>> /\ walk = [roots |-> <<>>, at |-> 1]
  BY NoPopupOK DEF Init, KeyboardInit, Idle
<1>2. None \in Living
  BY DEF Living
<1>3. PopupsOK(popup, Living) /\ KeyboardOK(keyboard, Living)
  BY <1>1, <1>2, NoPopupOK, PopupsAssumption DEF PopupsOK, KeyboardOK
<1>4. Existing = {} /\ Configured = {}
  BY <1>1, NoPopupOK DEF Existing, Configured, Exists
<1>5. StackOK /\ WalkOK
  <2>1. Lists(<<>>, {}) /\ Layered(<<>>, {})
    BY DEF Lists, Layered
  <2> QED  BY <1>1, <1>4, <2>1 DEF StackOK, WalkOK
<1>6. ShownIn({}, popup, keyboard)
  BY <1>1, NoPopupOK DEF ShownIn
<1> QED  BY <1>1, <1>3, <1>5, <1>6 DEF IInv

LEMMA NextIInv == IInv /\ [Next]_vars => IInv'
<1> SUFFICES ASSUME IInv, [Next]_vars PROVE IInv'
  OBVIOUS
<1>1. CASE walk.roots # <<>> /\ Visit
  BY <1>1, VisitOK
<1>2. CASE walk.roots = <<>> /\ \E w \in Own :
             \/ CreateWindow(w) \/ CommitWindow(w) \/ UnmapWindow(w) \/ DestroyWindow(w)
             \/ \E p \in Popups : SetLayerParent(p, w)
  BY <1>2, CreateWindowOK, CommitWindowOK, UnmapWindowOK, DestroyWindowOK, SetLayerParentOK
<1>3. CASE walk.roots = <<>> /\ \E p \in Popups :
             \/ \E parent \in Own \cup Popups \cup {None} : GetPopup(p, parent)
             \/ \E hasBuffer \in BOOLEAN : Commit(p, hasBuffer)
             \/ Grab(p) \/ Destroy(p)
  BY <1>3, GetPopupOK, CommitOK, GrabOK, DestroyOK
<1>4. CASE walk.roots = <<>> /\ \E s \in Surfaces \cup {None} :
             TouchDown(s) \/ \E pointed \in BOOLEAN : Click(s, pointed)
  BY <1>4, TouchDownOK, ClickOK
<1>5. CASE walk.roots = <<>> /\ Disconnect
  BY <1>5, DisconnectOK
<1>6. CASE UNCHANGED vars
  <2>1. Living' = Living /\ Existing' = Existing /\ Configured' = Configured
    BY <1>6 DEF vars, Living, Existing, Configured, Exists
  <2> QED  BY <1>6, <2>1 DEF vars, IInv, StackOK, WalkOK
<1> QED  BY <1>1, <1>2, <1>3, <1>4, <1>5, <1>6 DEF Next

(* The invariant holds in every state, for any windows and popups. *)
THEOREM Invariance == Spec => []IInv
<1>1. Init => IInv  BY InitIInv
<1>2. IInv /\ [Next]_vars => IInv'  BY NextIInv
<1> QED  BY <1>1, <1>2, PTL DEF Spec

(* Types; every reference is to a surface that exists; the list holds each popup once,
   the upper layer first, and dismiss() always finds the popup where it ends. *)
THEOREM TypeCorrect == Spec => []TypeOK
<1>1. IInv => TypeOK
  <2> SUFFICES ASSUME IInv PROVE TypeOK
    OBVIOUS
  <2>1. KeyboardTypeOK(Living)
    BY Facts DEF KeyboardTypeOK
  <2>2. popup \in [Popups -> [state : {"none", "unconfigured", "configured"},
                              mapped : BOOLEAN, dismissed : BOOLEAN, done : BOOLEAN,
                              parent : Living, pending : Living]]
    <3>1. \A p \in Popups : popup[p].parent \in Living /\ popup[p].pending \in Living
      BY DEF IInv, PopupsOK
    <3> QED  BY <3>1, Facts DEF PopupType
  <2>3. stack \in Seq(Existing) /\ Len(stack) \in Nat /\ DOMAIN stack = 1..Len(stack)
    BY Facts, LenProperties DEF Lists
  <2>4. stack \in Seq(Popups) /\ Range(stack) = Existing /\ IsInjective(stack)
    <3>1. stack \in Seq(Popups)
      BY <2>3, Facts, SeqMonotonic
    <3>2. Range(stack) = Existing
      BY <2>3, Facts, ElementOfSeq DEF Lists, Range
    <3>3. IsInjective(stack)
      BY <2>3, Facts DEF Lists, IsInjective
    <3> QED  BY <3>1, <3>2, <3>3
  <2>5. \E n \in 0..Len(stack) : ConfiguredAbove(n)
    <3>1. \A i \in 1..Len(stack) : stack[i] \in Popups
      BY <2>4, ElementOfSeq
    <3> QED  BY <3>1, Facts DEF Layered, ConfiguredAbove, Configured
  <2>6. walk \in [roots : Seq(Range(stack)), at : 1..(Len(stack) + 1)]
    BY <2>3, <2>4 DEF IInv, WalkOK
  <2> QED  BY <2>1, <2>2, <2>4, <2>5, <2>6 DEF IInv, TypeOK, Existing
<1> QED  BY <1>1, Invariance, PTL

(* The surface that grabs the keyboard has its focus. *)
THEOREM GrabFocused == Spec => []GrabHasFocus
<1>1. IInv => GrabHasFocus
  BY DEF IInv, KeyboardOK, GrabHasFocus
<1> QED  BY <1>1, Invariance, PTL

(* No popup is mapped on one that was not, for any number of popups. *)
THEOREM MappedCorrect == Spec => []MappedOnMapped
<1>1. IInv => MappedOnMapped
  BY DEF IInv, ShownIn, MappedOnMapped
<1> QED  BY <1>1, Invariance, PTL

(* The grab is of a popup that is shown, or that was dismissed and is still there. *)
THEOREM GrabShown == Spec => []GrabIsShown
<1>1. IInv => GrabIsShown
  BY DEF IInv, ShownIn, GrabIsShown
<1> QED  BY <1>1, Invariance, PTL

-----------------------------------------------------------------------------
(* What the zones of a list take. *)

USE LayerShellAssumption

Counts(f, ls, list, m) ==
  f = [n \in 0..m |-> IF n = 0 THEN NothingTaken ELSE Take(f[n - 1], ls[list[n]])]

(* Induction: a set that holds 0 and the successor of each member is Nat. *)
LEMMA Naturals ==
  ASSUME NEW T \in SUBSET Nat, 0 \in T, \A m \in T : m + 1 \in T
  PROVE  T = Nat
<1>1. SUFFICES ASSUME Nat \ T # {} PROVE FALSE
  OBVIOUS
<1>2. PICK m \in Nat \ T : \A k \in Nat \ T : <<k, m>> \notin OpToRel(<, Nat)
  BY <1>1, NatLessThanWellFounded, WFMin
<1>3. m # 0 /\ m - 1 \in Nat
  OBVIOUS
<1>4. <<m - 1, m>> \in OpToRel(<, Nat)
  BY <1>3 DEF OpToRel
<1>5. m - 1 \in T
  BY <1>2, <1>3, <1>4
<1> QED  BY <1>3, <1>5

LEMMA CountsExists ==
  ASSUME NEW ls, NEW list
  PROVE  \A m \in Nat : \E f : Counts(f, ls, list, m)
<1> DEFINE T == {m \in Nat : \E f : Counts(f, ls, list, m)}
<1>1. 0 \in T
  <2> DEFINE f == [n \in 0..0 |-> NothingTaken]
  <2>1. Counts(f, ls, list, 0)
    BY DEF Counts
  <2> QED  BY <2>1
<1>2. ASSUME NEW m \in T PROVE m + 1 \in T
  <2>1. PICK f : Counts(f, ls, list, m)
    OBVIOUS
  <2> DEFINE g == [n \in 0..m + 1 |-> IF n <= m THEN f[n] ELSE Take(f[m], ls[list[m + 1]])]
  <2>2. \A n \in 0..m : f[n] = IF n = 0 THEN NothingTaken ELSE Take(f[n - 1], ls[list[n]])
    BY <2>1 DEF Counts
  <2>3. \A n \in 0..m + 1 : g[n] = IF n = 0 THEN NothingTaken ELSE Take(g[n - 1], ls[list[n]])
    <3> TAKE n \in 0..m + 1
    <3>1. CASE n = 0
      BY <2>2, <3>1
    <3>2. CASE n # 0 /\ n <= m
      <4>1. g[n] = f[n] /\ g[n - 1] = f[n - 1]
        BY <3>2
      <4> QED  BY <2>2, <3>2, <4>1
    <3>3. CASE n = m + 1
      <4>1. g[n] = Take(f[m], ls[list[m + 1]]) /\ g[n - 1] = f[m] /\ n # 0
        BY <3>3
      <4> QED  BY <3>3, <4>1
    <3> QED  BY <3>1, <3>2, <3>3
  <2>4. g = [n \in 0..m + 1 |-> g[n]]
    OBVIOUS
  <2> HIDE DEF g
  <2>5. Counts(g, ls, list, m + 1)
    BY <2>3, <2>4 DEF Counts
  <2> QED  BY <2>5
<1> HIDE DEF T
<1>3. T = Nat
  BY <1>1, <1>2, Naturals DEF T
<1> QED  BY <1>3 DEF T

LEMMA TakenCounts ==
  ASSUME NEW ls, NEW list, Len(list) \in Nat
  PROVE  Counts(Taken(ls, list), ls, list, Len(list))
<1>1. Taken(ls, list) = CHOOSE f : Counts(f, ls, list, Len(list))
  BY DEF Taken, Counts
<1> QED  BY <1>1, CountsExists

LEMMA TakenIs ==
  ASSUME NEW ls, NEW list, Len(list) \in Nat
  PROVE  LET t == Taken(ls, list) IN
         \A n \in 0..Len(list) : t[n] = IF n = 0 THEN NothingTaken ELSE Take(t[n - 1], ls[list[n]])
BY TakenCounts DEF Counts

(* It follows from the edges and sizes of the zones of the list. *)
LEMMA TakenSame ==
  ASSUME NEW ls, NEW ks, NEW list, Len(list) \in Nat,
         \A n \in 1..Len(list) : ks[list[n]].edge = ls[list[n]].edge /\ ks[list[n]].size = ls[list[n]].size
  PROVE  Taken(ks, list) = Taken(ls, list)
<1>1. ASSUME NEW t, NEW n \in 1..Len(list) PROVE Take(t, ks[list[n]]) = Take(t, ls[list[n]])
  BY DEF Take, Exclusive
<1>2. ASSUME NEW f PROVE Counts(f, ks, list, Len(list)) <=> Counts(f, ls, list, Len(list))
  <2>1. \A n \in 0..Len(list) : n # 0 => Take(f[n - 1], ks[list[n]]) = Take(f[n - 1], ls[list[n]])
    BY <1>1
  <2>2. [n \in 0..Len(list) |-> IF n = 0 THEN NothingTaken ELSE Take(f[n - 1], ks[list[n]])]
          = [n \in 0..Len(list) |-> IF n = 0 THEN NothingTaken ELSE Take(f[n - 1], ls[list[n]])]
    BY <2>1
  <2> QED  BY <2>2 DEF Counts
<1>3. Taken(ls, list) = CHOOSE f : Counts(f, ls, list, Len(list))
  BY DEF Taken, Counts
<1>4. Taken(ks, list) = CHOOSE f : Counts(f, ks, list, Len(list))
  BY DEF Taken, Counts
<1>5. (CHOOSE f : Counts(f, ks, list, Len(list))) = (CHOOSE f : Counts(f, ls, list, Len(list)))
  BY <1>2
<1> QED  BY <1>3, <1>4, <1>5

(* A size of an output, and zones as LayerTypeOK has them. *)
Size2 == Int \X Int

ZoneTypeOK(z) == z.edge \in Edges \cup {None} /\ z.size \in Int

TakenSet == [Edges -> Nat]

LEMMA TakeOK ==
  ASSUME NEW t \in TakenSet, NEW z, ZoneTypeOK(z)
  PROVE  /\ Take(t, z) \in TakenSet
         /\ \A e \in Edges : t[e] <= Take(t, z)[e]
         /\ Exclusive(z) => /\ z.edge \in Edges /\ z.size > 0
                            /\ Take(t, z)[z.edge] = t[z.edge] + z.size
                            /\ \A e \in Edges \ {z.edge} : Take(t, z)[e] = t[e]
<1>1. CASE ~Exclusive(z)
  BY <1>1 DEF Take, TakenSet
<1>2. CASE Exclusive(z)
  <2>1. z.edge \in Edges /\ z.size \in Nat /\ z.size > 0
    BY <1>2 DEF Exclusive, ZoneTypeOK
  <2>2. Take(t, z) = [t EXCEPT ![z.edge] = t[z.edge] + z.size]
    BY <1>2 DEF Take
  <2>3. t[z.edge] + z.size \in Nat
    BY <2>1 DEF TakenSet
  <2> QED  BY <1>2, <2>1, <2>2, <2>3 DEF TakenSet
<1> QED  BY <1>1, <1>2

(* The zones of a list take more and more. *)
LEMMA TakenOK ==
  ASSUME NEW ls, NEW list, Len(list) \in Nat, \A n \in 1..Len(list) : ZoneTypeOK(ls[list[n]])
  PROVE  LET t == Taken(ls, list) IN
         /\ \A n \in 0..Len(list) : t[n] \in TakenSet
         /\ \A m \in 0..Len(list), n \in 0..Len(list) : m <= n => \A e \in Edges : t[m][e] <= t[n][e]
<1> DEFINE t == Taken(ls, list)
           L == Len(list)
<1>1. \A n \in 0..L : t[n] = IF n = 0 THEN NothingTaken ELSE Take(t[n - 1], ls[list[n]])
  BY TakenCounts DEF Counts
<1> HIDE DEF t, L
<1>2. L \in Nat /\ \A n \in 1..L : ZoneTypeOK(ls[list[n]])
  BY DEF L
<1> DEFINE T == {n \in Nat : n <= L =>
                   \A m \in 0..n : t[m] \in TakenSet /\ \A e \in Edges : t[m][e] <= t[n][e]}
<1>3. 0 \in T
  <2>1. t[0] = NothingTaken
    BY <1>1, <1>2
  <2>2. t[0] \in TakenSet
    BY <2>1 DEF NothingTaken, TakenSet
  <2>3. \A m \in 0..0 : \A e \in Edges : t[m][e] <= t[0][e]
    BY <2>2 DEF TakenSet
  <2> QED  BY <2>2, <2>3
<1>4. ASSUME NEW n \in T PROVE n + 1 \in T
  <2>1. SUFFICES ASSUME n + 1 <= L
                 PROVE  \A m \in 0..n + 1 :
                          t[m] \in TakenSet /\ \A e \in Edges : t[m][e] <= t[n + 1][e]
    OBVIOUS
  <2>2. n \in Nat /\ n + 1 \in 1..L /\ n <= L
    BY <1>2, <2>1
  <2>3. \A m \in 0..n : t[m] \in TakenSet /\ \A e \in Edges : t[m][e] <= t[n][e]
    BY <2>2
  <2>4. t[n + 1] = Take(t[n], ls[list[n + 1]])
    <3>1. n + 1 \in 0..L /\ n + 1 # 0 /\ (n + 1) - 1 = n
      BY <1>2, <2>2
    <3> QED  BY <1>1, <3>1
  <2>5. ZoneTypeOK(ls[list[n + 1]])
    BY <1>2, <2>2
  <2>6. t[n + 1] \in TakenSet /\ \A e \in Edges : t[n][e] <= t[n + 1][e]
    BY <2>3, <2>4, <2>5, TakeOK
  <2>7. ASSUME NEW m \in 0..n + 1, NEW e \in Edges PROVE t[m][e] <= t[n + 1][e]
    <3>1. CASE m = n + 1
      BY <2>6, <3>1 DEF TakenSet
    <3>2. CASE m \in 0..n
      <4>1. t[m][e] <= t[n][e] /\ t[n][e] <= t[n + 1][e]
        BY <2>3, <2>6, <3>2
      <4>2. n \in 0..n
        BY <2>2
      <4>3. t[m][e] \in Nat /\ t[n][e] \in Nat /\ t[n + 1][e] \in Nat
        BY <2>3, <2>6, <3>2, <4>2 DEF TakenSet
      <4> QED  BY <4>1, <4>3
    <3> QED  BY <2>2, <3>1, <3>2
  <2> QED  BY <2>2, <2>3, <2>6, <2>7
<1> HIDE DEF T
<1>5. T = Nat
  BY <1>3, <1>4, Naturals DEF T
<1>6. \A n \in 0..L : \A m \in 0..n : t[m] \in TakenSet /\ \A e \in Edges : t[m][e] <= t[n][e]
  <2> TAKE n \in 0..L
  <2>1. n \in T /\ n <= L
    BY <1>2, <1>5
  <2> QED  BY <2>1 DEF T
<1>7. \A m \in 0..L, n \in 0..L : m <= n => \A e \in Edges : t[m][e] <= t[n][e]
  BY <1>2, <1>6
<1> QED  BY <1>6, <1>7 DEF t, L

(* The strip of an exclusive zone, by its edge. *)
LEMMA StripIs ==
  ASSUME NEW size, NEW t, NEW z, z.edge \in Edges
  PROVE  LET s == Strip(z, size, t)
             a == Available(size, t) IN
         /\ z.edge = "left" => s.x = a.x /\ s.y = a.y /\ s.w = z.size /\ s.h = a.h
         /\ z.edge = "top" => s.x = a.x /\ s.y = a.y /\ s.w = a.w /\ s.h = z.size
         /\ z.edge = "right" => s.x = size[1] - t["right"] - z.size /\ s.y = a.y
                                /\ s.w = z.size /\ s.h = a.h
         /\ z.edge = "bottom" => s.x = a.x /\ s.y = size[2] - t["bottom"] - z.size
                                 /\ s.w = a.w /\ s.h = z.size
<1> DEFINE a == Available(size, t)
<1>1. a = [x |-> a.x, y |-> a.y, w |-> a.w, h |-> a.h]
  BY DEF Available
<1> HIDE DEF a
<1>2. CASE z.edge = "left"
  <2>1. Strip(z, size, t) = [a EXCEPT !.w = z.size]
    BY <1>2 DEF Strip, a
  <2> QED  BY <1>1, <1>2, <2>1 DEF a
<1>3. CASE z.edge = "top"
  <2>1. Strip(z, size, t) = [a EXCEPT !.h = z.size]
    BY <1>3 DEF Strip, a
  <2> QED  BY <1>1, <1>3, <2>1 DEF a
<1>4. CASE z.edge = "right"
  <2>1. Strip(z, size, t) = [a EXCEPT !.x = size[1] - t.right - z.size, !.w = z.size]
    BY <1>4 DEF Strip, a
  <2> QED  BY <1>1, <1>4, <2>1 DEF a
<1>5. CASE z.edge = "bottom"
  <2>1. Strip(z, size, t) = [a EXCEPT !.y = size[2] - t.bottom - z.size, !.h = z.size]
    BY <1>5 DEF Strip, a
  <2> QED  BY <1>1, <1>5, <2>1 DEF a
<1> QED  BY <1>2, <1>3, <1>4, <1>5 DEF Edges

LEMMA AvailableIs ==
  ASSUME NEW size, NEW t
  PROVE  LET a == Available(size, t) IN
         /\ a.x = t["left"] /\ a.y = t["top"]
         /\ a.w = size[1] - t["left"] - t["right"] /\ a.h = size[2] - t["top"] - t["bottom"]
BY DEF Available

(* Two zones of a list that leaves room, the first with t before it, the second
   with u before it, and all taking v. *)
LEMMA StripsDisjoint ==
  ASSUME NEW size \in Size2, NEW t \in TakenSet, NEW u \in TakenSet, NEW v \in TakenSet,
         NEW y, ZoneTypeOK(y), Exclusive(y), NEW z, ZoneTypeOK(z), Exclusive(z),
         \A e \in Edges : Take(t, y)[e] <= u[e] /\ Take(u, z)[e] <= v[e],
         Available(size, v).w >= 0, Available(size, v).h >= 0
  PROVE  Disjoint(Strip(y, size, t), Strip(z, size, u))
<1>1. /\ y.edge \in Edges /\ y.size \in Int /\ y.size > 0 /\ z.edge \in Edges /\ z.size \in Int /\ z.size > 0
      /\ \A e \in Edges : t[e] \in Nat /\ u[e] \in Nat /\ v[e] \in Nat
      /\ size[1] \in Int /\ size[2] \in Int
  BY TakeOK DEF ZoneTypeOK, TakenSet, Size2
<1>2. /\ Take(t, y)[y.edge] = t[y.edge] + y.size /\ \A e \in Edges \ {y.edge} : Take(t, y)[e] = t[e]
      /\ Take(u, z)[z.edge] = u[z.edge] + z.size /\ \A e \in Edges \ {z.edge} : Take(u, z)[e] = u[e]
  BY TakeOK
<1>3. \A e \in Edges : t[e] <= u[e] /\ u[e] <= v[e]
  <2> TAKE e \in Edges
  <2>1. Take(t, y)[e] \in Nat /\ t[e] <= Take(t, y)[e] /\ Take(u, z)[e] \in Nat /\ u[e] <= Take(u, z)[e]
    BY TakeOK DEF TakenSet
  <2> QED  BY <1>1, <2>1
<1>4. t[y.edge] + y.size <= u[y.edge] /\ u[z.edge] + z.size <= v[z.edge]
  BY <1>1, <1>2
<1>5. /\ size[1] - v["left"] - v["right"] >= 0
      /\ size[2] - v["top"] - v["bottom"] >= 0
  BY AvailableIs
<1> DEFINE tl == t["left"]  tt == t["top"]  tr == t["right"]  tb == t["bottom"]
           ul == u["left"]  ut == u["top"]  ur == u["right"]  ub == u["bottom"]
           vl == v["left"]  vt == v["top"]  vr == v["right"]  vb == v["bottom"]
<1>6. /\ tl \in Int /\ tt \in Int /\ tr \in Int /\ tb \in Int
      /\ ul \in Int /\ ut \in Int /\ ur \in Int /\ ub \in Int
      /\ vl \in Int /\ vt \in Int /\ vr \in Int /\ vb \in Int
      /\ tl <= ul /\ tt <= ut /\ tr <= ur /\ tb <= ub
      /\ ul <= vl /\ ut <= vt /\ ur <= vr /\ ub <= vb
  BY <1>1, <1>3 DEF Edges
<1> DEFINE a == Strip(y, size, t)
           b == Strip(z, size, u)
<1>7. /\ y.edge = "left" => a.x = tl /\ a.w = y.size /\ tl + y.size <= ul
      /\ y.edge = "top" => a.y = tt /\ a.h = y.size /\ tt + y.size <= ut
      /\ y.edge = "right" => a.x = size[1] - tr - y.size /\ tr + y.size <= ur
      /\ y.edge = "bottom" => a.y = size[2] - tb - y.size /\ tb + y.size <= ub
  BY <1>1, <1>4, StripIs, AvailableIs
<1>8. /\ z.edge = "left" => b.x = ul /\ b.y = ut /\ b.w = z.size /\ b.h = size[2] - ut - ub /\ ul + z.size <= vl
      /\ z.edge = "top" => b.x = ul /\ b.y = ut /\ b.w = size[1] - ul - ur /\ b.h = z.size /\ ut + z.size <= vt
      /\ z.edge = "right" => b.x = size[1] - ur - z.size /\ b.y = ut /\ b.w = z.size /\ b.h = size[2] - ut - ub
                             /\ ur + z.size <= vr
      /\ z.edge = "bottom" => b.x = ul /\ b.y = size[2] - ub - z.size /\ b.w = size[1] - ul - ur /\ b.h = z.size
                              /\ ub + z.size <= vb
  BY <1>1, <1>4, StripIs, AvailableIs
<1>9. SUFFICES Disjoint(a, b)
  OBVIOUS
<1> DEFINE W == size[1]
           H == size[2]
<1>10. W \in Int /\ H \in Int /\ W - vl - vr >= 0 /\ H - vt - vb >= 0
  BY <1>1, <1>5
<1> HIDE DEF a, b, tl, tt, tr, tb, ul, ut, ur, ub, vl, vt, vr, vb
<1>11. CASE y.edge = "left"
  <2>1. a.x + a.w <= b.x
    BY <1>1, <1>6, <1>7, <1>8, <1>10, <1>11 DEF Edges
  <2> QED  BY <2>1 DEF Disjoint
<1>12. CASE y.edge = "top"
  <2>1. a.y + a.h <= b.y
    BY <1>1, <1>6, <1>7, <1>8, <1>10, <1>12 DEF Edges
  <2> QED  BY <2>1 DEF Disjoint
<1>13. CASE y.edge = "right"
  <2>1. b.x + b.w <= a.x
    BY <1>1, <1>6, <1>7, <1>8, <1>10, <1>13 DEF Edges
  <2> QED  BY <2>1 DEF Disjoint
<1>14. CASE y.edge = "bottom"
  <2>1. b.y + b.h <= a.y
    BY <1>1, <1>6, <1>7, <1>8, <1>10, <1>14 DEF Edges
  <2> QED  BY <2>1 DEF Disjoint
<1> QED  BY <1>1, <1>11, <1>12, <1>13, <1>14 DEF Edges

LEMMA StripBesideFree ==
  ASSUME NEW size \in Size2, NEW t \in TakenSet, NEW v \in TakenSet,
         NEW y, ZoneTypeOK(y), Exclusive(y), \A e \in Edges : Take(t, y)[e] <= v[e]
  PROVE  Disjoint(Strip(y, size, t), Available(size, v))
<1>1. /\ y.edge \in Edges /\ y.size \in Int /\ t[y.edge] + y.size <= v[y.edge]
      /\ \A e \in Edges : t[e] \in Int /\ v[e] \in Int
      /\ size[1] \in Int /\ size[2] \in Int
  BY TakeOK DEF ZoneTypeOK, TakenSet, Size2
<1> DEFINE a == Strip(y, size, t)
           b == Available(size, v)
<1>2. /\ y.edge = "left" => a.x = t["left"] /\ a.w = y.size
      /\ y.edge = "top" => a.y = t["top"] /\ a.h = y.size
      /\ y.edge = "right" => a.x = size[1] - t["right"] - y.size
      /\ y.edge = "bottom" => a.y = size[2] - t["bottom"] - y.size
  BY <1>1, StripIs, AvailableIs
<1>3. /\ b.x = v["left"] /\ b.y = v["top"]
      /\ b.w = size[1] - v["left"] - v["right"] /\ b.h = size[2] - v["top"] - v["bottom"]
  BY AvailableIs
<1> HIDE DEF a, b
<1>4. \/ y.edge = "left" /\ a.x + a.w <= b.x
      \/ y.edge = "top" /\ a.y + a.h <= b.y
      \/ y.edge = "right" /\ b.x + b.w <= a.x
      \/ y.edge = "bottom" /\ b.y + b.h <= a.y
  BY <1>1, <1>2, <1>3 DEF Edges
<1> QED  BY <1>4 DEF Disjoint, a, b

-----------------------------------------------------------------------------
(* The types. *)

Rects == [x : Int, y : Int, w : Int, h : Int]

AtomSet == {a \in [Fields -> UNION {Legal(f) : f \in Fields}] : \A f \in Fields : a[f] \in Legal(f)}

LayerSet ==
  [exists : BOOLEAN, initial : BOOLEAN, byClient : BOOLEAN, hasBuffer : BOOLEAN, mapped : BOOLEAN,
   flags : SUBSET Fields, cur : AtomSet, pend : AtomSet,
   edge : Edges \cup {None}, size : Int, rect : Rects,
   output : Outputs \cup {None}, asked : Outputs \cup {None}, told : BOOLEAN]

OutputSet == [state : {"gone", "off", "on"}, size : Sizes, available : Rects]

LayerRefs == Layers \cup {None}

WorldSet ==
  [layer : [Layers -> LayerSet], zones : [Outputs -> Seq(Layers)],
   output : [Outputs -> OutputSet], keyboard : [focus : LayerRefs, grab : LayerRefs]]

LEMMA AvailableOK ==
  ASSUME NEW size \in Sizes, NEW t \in TakenSet
  PROVE  Available(size, t) \in Rects
<1>1. size[1] \in Int /\ size[2] \in Int
  OBVIOUS
<1>2. t["left"] \in Int /\ t["top"] \in Int /\ t["right"] \in Int /\ t["bottom"] \in Int
  BY DEF TakenSet, Edges
<1> QED  BY <1>1, <1>2 DEF Available, Rects

LEMMA FreeOK ==
  ASSUME NEW ls \in [Layers -> LayerSet], NEW list \in Seq(Layers), NEW size \in Sizes
  PROVE  Free(ls, list, size) \in Rects
<1>1. Len(list) \in Nat /\ \A n \in 1..Len(list) : list[n] \in Layers
  BY ElementOfSeq, LenProperties
<1>2. \A n \in 1..Len(list) : ZoneTypeOK(ls[list[n]])
  BY <1>1 DEF ZoneTypeOK, LayerSet
<1>3. Taken(ls, list)[Len(list)] \in TakenSet
  BY <1>1, <1>2, TakenOK
<1> QED  BY <1>3, AvailableOK DEF Free

LEMMA RectOfOK ==
  ASSUME NEW ls \in [Layers -> LayerSet], NEW list \in Seq(Layers), NEW i \in 1..Len(list),
         NEW size \in Sizes
  PROVE  RectOf(ls, list, i, size) \in Rects
<1>1. Len(list) \in Nat /\ \A n \in 1..Len(list) : list[n] \in Layers
  BY ElementOfSeq, LenProperties
<1>2. \A n \in 1..Len(list) : ZoneTypeOK(ls[list[n]])
  BY <1>1 DEF ZoneTypeOK, LayerSet
<1>3. \A n \in 0..Len(list) : Taken(ls, list)[n] \in TakenSet
  BY <1>1, <1>2, TakenOK
<1>4. size[1] \in Int /\ size[2] \in Int
  OBVIOUS
<1>6. Free(ls, list, size) \in Rects
  BY FreeOK
<1>7. ASSUME NEW t \in TakenSet, NEW z, ZoneTypeOK(z), z.edge \in Edges
      PROVE  Strip(z, size, t) \in Rects
  <2> DEFINE a == Available(size, t)
  <2>1. a \in Rects /\ z.size \in Int /\ t["right"] \in Int /\ t["bottom"] \in Int
    BY <1>7, AvailableOK DEF ZoneTypeOK, TakenSet, Edges
  <2>2. /\ z.edge = "left" => Strip(z, size, t) = [a EXCEPT !.w = z.size]
        /\ z.edge = "top" => Strip(z, size, t) = [a EXCEPT !.h = z.size]
        /\ z.edge = "right" => Strip(z, size, t) = [a EXCEPT !.x = size[1] - t.right - z.size, !.w = z.size]
        /\ z.edge = "bottom" => Strip(z, size, t) = [a EXCEPT !.y = size[2] - t.bottom - z.size, !.h = z.size]
    BY DEF Strip
  <2> HIDE DEF a
  <2>4. size[1] - t.right - z.size \in Int /\ size[2] - t.bottom - z.size \in Int
    BY <1>4, <2>1
  <2> DEFINE m == size[1] - t.right - z.size
             n == size[2] - t.bottom - z.size
  <2> HIDE DEF m, n
  <2>5. m \in Int /\ n \in Int
    BY <2>4 DEF m, n
  <2>6. /\ z.edge = "left" => Strip(z, size, t) = [a EXCEPT !.w = z.size]
        /\ z.edge = "top" => Strip(z, size, t) = [a EXCEPT !.h = z.size]
        /\ z.edge = "right" => Strip(z, size, t) = [a EXCEPT !.x = m, !.w = z.size]
        /\ z.edge = "bottom" => Strip(z, size, t) = [a EXCEPT !.y = n, !.h = z.size]
    BY <2>2 DEF m, n
  <2>7. /\ [a EXCEPT !.w = z.size] \in Rects /\ [a EXCEPT !.h = z.size] \in Rects
        /\ [a EXCEPT !.x = m, !.w = z.size] \in Rects
        /\ [a EXCEPT !.y = n, !.h = z.size] \in Rects
    BY <2>1, <2>5 DEF Rects
  <2> QED  BY <1>7, <2>6, <2>7 DEF Edges
<1>8. Whole(size) \in Rects
  BY <1>4 DEF Whole, Rects
<1>9. Exclusive(ls[list[i]]) => Strip(ls[list[i]], size, Taken(ls, list)[i - 1]) \in Rects
  <2>1. i - 1 \in 0..Len(list)
    BY <1>1
  <2> QED  BY <1>2, <1>3, <1>7, <2>1 DEF Exclusive, ZoneTypeOK
<1> QED  BY <1>6, <1>8, <1>9 DEF RectOf

(* The rects follow from edges and sizes. *)
SameZones(ks, ls, list) ==
  /\ Len(list) \in Nat
  /\ \A n \in 1..Len(list) : ks[list[n]].edge = ls[list[n]].edge /\ ks[list[n]].size = ls[list[n]].size

LEMMA FreeSame ==
  ASSUME NEW ls, NEW ks, NEW list, NEW size, SameZones(ks, ls, list)
  PROVE  Free(ks, list, size) = Free(ls, list, size)
<1>1. Taken(ks, list) = Taken(ls, list)
  BY TakenSame DEF SameZones
<1> QED  BY <1>1 DEF Free

LEMMA RectSame ==
  ASSUME NEW ls, NEW ks, NEW list, NEW size, SameZones(ks, ls, list), NEW i \in 1..Len(list)
  PROVE  RectOf(ks, list, i, size) = RectOf(ls, list, i, size)
<1>1. Taken(ks, list) = Taken(ls, list)
  BY TakenSame DEF SameZones
<1>2. ks[list[i]].edge = ls[list[i]].edge /\ ks[list[i]].size = ls[list[i]].size
  BY DEF SameZones
<1>3. Exclusive(ks[list[i]]) = Exclusive(ls[list[i]])
  BY <1>2 DEF Exclusive
<1>4. \A t : Strip(ks[list[i]], size, t) = Strip(ls[list[i]], size, t)
  BY <1>2 DEF Strip
<1> QED  BY <1>1, <1>2, <1>3, <1>4, FreeSame DEF RectOf

-----------------------------------------------------------------------------
(* The calls. *)

(* The list of an output holds the zones on it, once. *)
ZonesOn(ls, o) == {l \in Layers : ls[l].output = o}

ListsOK(w) == \A o \in Outputs : Lists(w.zones[o], ZonesOn(w.layer, o))

FreshAt(w, o) ==
  /\ \A i \in 1..Len(w.zones[o]) :
       w.layer[w.zones[o][i]].rect = RectOf(w.layer, w.zones[o], i, w.output[o].size)
  /\ w.output[o].available = Free(w.layer, w.zones[o], w.output[o].size)

Fresh(w) == \A o \in Outputs : w.output[o].state # "gone" => FreshAt(w, o)

(* What no zone changes of a layer surface, and that it tells its client. *)
Steady(r, q) ==
  /\ q.exists = r.exists /\ q.initial = r.initial /\ q.byClient = r.byClient
  /\ q.hasBuffer = r.hasBuffer /\ q.flags = r.flags /\ q.cur = r.cur /\ q.pend = r.pend
  /\ q.asked = r.asked

Tells(r, q) == r.mapped /\ r.hasBuffer => q.told \/ (q.rect = r.rect /\ q.told = r.told)

(* r has become q by a change of other zones. *)
Moved(r, q) ==
  /\ Steady(r, q) /\ Tells(r, q)
  /\ q.mapped = r.mapped /\ q.output = r.output /\ q.edge = r.edge /\ q.size = r.size

LEMMA MovedTrans ==
  ASSUME NEW r, NEW q, NEW p, Moved(r, q), Moved(q, p)
  PROVE  Moved(r, p)
BY DEF Moved, Steady, Tells

LEMMA SetRectOK ==
  ASSUME NEW r \in LayerSet, NEW rect \in Rects
  PROVE  LET q == SetRect(r, rect) IN q \in LayerSet /\ q.rect = rect /\ Moved(r, q)
<1>1. CASE rect = r.rect
  BY <1>1 DEF SetRect, Moved, Steady, Tells
<1>2. CASE rect # r.rect
  <2> DEFINE m == [r EXCEPT !.rect = rect, !.told = FALSE]
             c == [m EXCEPT !.told = TRUE]
  <2>1. m \in LayerSet /\ m.rect = rect /\ Steady(r, m) /\ m.mapped = r.mapped /\ m.output = r.output
        /\ m.edge = r.edge /\ m.size = r.size
    BY DEF LayerSet, Steady
  <2> HIDE DEF m
  <2>2. c \in LayerSet /\ c.rect = rect /\ Steady(m, c) /\ c.told /\ c.mapped = m.mapped /\ c.output = m.output
        /\ c.edge = m.edge /\ c.size = m.size
    BY <2>1 DEF LayerSet, Steady
  <2>3. SetRect(r, rect) = IF r.mapped /\ r.hasBuffer THEN c ELSE m
    BY <1>2 DEF SetRect, ConfigureSize, m
  <2> HIDE DEF c
  <2> QED  BY <2>1, <2>2, <2>3 DEF Moved, Steady, Tells
<1> QED  BY <1>1, <1>2

SameOutputs(w, v) == \A p \in Outputs :
  v.output[p].state = w.output[p].state /\ v.output[p].size = w.output[p].size

(* A zone is on one list at most, once. *)
ListsApart(w) == \A o \in Outputs :
  /\ w.zones[o] \in Seq(Layers)
  /\ \A i, j \in 1..Len(w.zones[o]) : w.zones[o][i] = w.zones[o][j] => i = j
  /\ \A p \in Outputs \ {o} : \A i \in 1..Len(w.zones[o]), j \in 1..Len(w.zones[p]) :
       w.zones[o][i] # w.zones[p][j]

LEMMA OnList ==
  ASSUME NEW w, ListsOK(w), NEW o \in Outputs
  PROVE  /\ Len(w.zones[o]) \in Nat
         /\ \A i \in 1..Len(w.zones[o]) :
              w.zones[o][i] \in Layers /\ w.layer[w.zones[o][i]].output = o
         /\ \A l \in Layers : w.layer[l].output = o => l \in ToSet(w.zones[o])
<1> DEFINE s == w.zones[o]
           S == ZonesOn(w.layer, o)
<1>1. s \in Seq(S) /\ \A p \in S : \E i \in 1..Len(s) : s[i] = p
  BY DEF ListsOK, Lists
<1>2. S \subseteq Layers /\ \A l \in Layers : l \in S <=> w.layer[l].output = o
  BY DEF ZonesOn
<1> HIDE DEF s, S
<1>3. Len(s) \in Nat /\ DOMAIN s = 1..Len(s) /\ \A i \in 1..Len(s) : s[i] \in S
  BY <1>1, <1>2, ElementOfSeq, LenProperties
<1> QED  BY <1>1, <1>2, <1>3 DEF s, ToSet

LEMMA ListsAreApart ==
  ASSUME NEW w, ListsOK(w)
  PROVE  ListsApart(w)
<1> SUFFICES ASSUME NEW o \in Outputs
             PROVE  /\ w.zones[o] \in Seq(Layers)
                    /\ \A i, j \in 1..Len(w.zones[o]) : w.zones[o][i] = w.zones[o][j] => i = j
                    /\ \A p \in Outputs \ {o} : \A i \in 1..Len(w.zones[o]), j \in 1..Len(w.zones[p]) :
                         w.zones[o][i] # w.zones[p][j]
  BY DEF ListsApart
<1>1. w.zones[o] \in Seq(ZonesOn(w.layer, o)) /\ ZonesOn(w.layer, o) \subseteq Layers
  BY DEF ListsOK, Lists, ZonesOn
<1>2. w.zones[o] \in Seq(Layers)
  BY <1>1, SeqMonotonic
<1>3. \A i, j \in 1..Len(w.zones[o]) : w.zones[o][i] = w.zones[o][j] => i = j
  BY DEF ListsOK, Lists
<1>4. \A p \in Outputs : \A i \in 1..Len(w.zones[p]) : w.layer[w.zones[p][i]].output = p
  BY OnList
<1>5. \A p \in Outputs \ {o} : \A i \in 1..Len(w.zones[o]), j \in 1..Len(w.zones[p]) :
        w.zones[o][i] # w.zones[p][j]
  BY <1>4
<1> QED  BY <1>2, <1>3, <1>5

(* An output whose list, zones and size stay is arranged as before. *)
LEMMA FreshKept ==
  ASSUME NEW w, NEW v, NEW o \in Outputs, Len(w.zones[o]) \in Nat, FreshAt(w, o),
         v.zones[o] = w.zones[o],
         v.output[o].size = w.output[o].size, v.output[o].available = w.output[o].available,
         \A i \in 1..Len(w.zones[o]) :
           /\ v.layer[w.zones[o][i]].edge = w.layer[w.zones[o][i]].edge
           /\ v.layer[w.zones[o][i]].size = w.layer[w.zones[o][i]].size
           /\ v.layer[w.zones[o][i]].rect = w.layer[w.zones[o][i]].rect
  PROVE  FreshAt(v, o)
<1> DEFINE s == w.zones[o]
<1>1. SameZones(v.layer, w.layer, s)
  BY DEF SameZones
<1>2. \A i \in 1..Len(s) : v.layer[s[i]].rect = w.layer[s[i]].rect
  OBVIOUS
<1> HIDE DEF s
<1>3. \A size : Free(v.layer, s, size) = Free(w.layer, s, size)
  BY <1>1, FreeSame
<1>4. \A size : \A i \in 1..Len(s) : RectOf(v.layer, s, i, size) = RectOf(w.layer, s, i, size)
  BY <1>1, RectSame
<1> QED  BY <1>2, <1>3, <1>4 DEF FreshAt, s

LEMMA SameLists ==
  ASSUME NEW w, ListsOK(w), NEW v, v.zones = w.zones,
         \A l \in Layers : v.layer[l].output = w.layer[l].output
  PROVE  ListsOK(v)
<1>1. \A o \in Outputs : ZonesOn(v.layer, o) = ZonesOn(w.layer, o)
  BY DEF ZonesOn
<1> QED  BY <1>1 DEF ListsOK

(* updateExclusiveZones() arranges the zones of an output and moves no other. *)
LEMMA UpdateZonesOK ==
  ASSUME NEW w \in WorldSet, ListsApart(w), NEW o \in Outputs
  PROVE  LET v == UpdateExclusiveZones(w, o) IN
         /\ v \in WorldSet
         /\ v.zones = w.zones /\ v.keyboard = w.keyboard /\ SameOutputs(w, v)
         /\ \A l \in Layers : Moved(w.layer[l], v.layer[l])
         /\ FreshAt(v, o)
         /\ \A p \in Outputs \ {o} : FreshAt(w, p) => FreshAt(v, p)
         /\ \A l \in Layers : l \notin ToSet(w.zones[o]) => v.layer[l] = w.layer[l]
<1> DEFINE v == UpdateExclusiveZones(w, o)
           list == w.zones[o]
           size == w.output[o].size
           rect(l) == RectOf(w.layer, list, Link(list, l), size)
           L == [l \in Layers |-> IF l \in ToSet(list) THEN SetRect(w.layer[l], rect(l)) ELSE w.layer[l]]
           O == [w.output EXCEPT ![o].available = Free(w.layer, list, size)]
<1>1. v = [layer |-> L, zones |-> w.zones, output |-> O, keyboard |-> w.keyboard]
  <2>1. v = [w EXCEPT !.layer = L, !.output = O]
    BY DEF UpdateExclusiveZones
  <2>2. w = [layer |-> w.layer, zones |-> w.zones, output |-> w.output, keyboard |-> w.keyboard]
    BY DEF WorldSet
  <2> HIDE DEF v, L, O
  <2> QED  BY <2>1, <2>2
<1>2. /\ w.layer \in [Layers -> LayerSet] /\ size \in Sizes /\ w.output \in [Outputs -> OutputSet]
      /\ w.zones \in [Outputs -> Seq(Layers)] /\ w.keyboard \in [focus : LayerRefs, grab : LayerRefs]
  BY DEF WorldSet, OutputSet
<1>3. /\ list \in Seq(Layers) /\ Len(list) \in Nat /\ DOMAIN list = 1..Len(list)
      /\ \A i \in 1..Len(list) : list[i] \in Layers /\ list[i] \in ToSet(list)
      /\ \A i, j \in 1..Len(list) : list[i] = list[j] => i = j
      /\ \A l \in ToSet(list) : \E i \in 1..Len(list) : list[i] = l
  <2>1. list \in Seq(Layers) /\ \A i, j \in 1..Len(list) : list[i] = list[j] => i = j
    BY DEF ListsApart
  <2> HIDE DEF list
  <2>2. Len(list) \in Nat /\ DOMAIN list = 1..Len(list) /\ \A i \in 1..Len(list) : list[i] \in Layers
    BY <2>1, ElementOfSeq, LenProperties
  <2> QED  BY <2>1, <2>2 DEF ToSet
<1> HIDE DEF v, list, size
<1>4. /\ \A i \in 1..Len(list) : Link(list, list[i]) = i
      /\ \A l \in ToSet(list) : Link(list, l) \in 1..Len(list) /\ list[Link(list, l)] = l
  BY <1>3 DEF Link
<1>5. \A l \in Layers : l \in ToSet(list) => rect(l) \in Rects
  BY <1>2, <1>3, <1>4, RectOfOK
<1>6. \A l \in Layers :
        /\ L[l] \in LayerSet /\ Moved(w.layer[l], L[l])
        /\ l \in ToSet(list) => L[l].rect = rect(l)
        /\ l \notin ToSet(list) => L[l] = w.layer[l]
  <2> TAKE l \in Layers
  <2>1. CASE l \in ToSet(list)
    <3>1. L[l] = SetRect(w.layer[l], rect(l)) /\ w.layer[l] \in LayerSet /\ rect(l) \in Rects
      BY <1>2, <1>5, <2>1
    <3> HIDE DEF L, rect
    <3> QED  BY <2>1, <3>1, SetRectOK
  <2>2. CASE l \notin ToSet(list)
    <3>1. L[l] = w.layer[l]
      BY <2>2
    <3> QED  BY <1>2, <2>2, <3>1 DEF Moved, Steady, Tells
  <2> QED  BY <2>1, <2>2
<1>7. L \in [Layers -> LayerSet]
  BY <1>6
<1> HIDE DEF L, rect
<1>8. Free(w.layer, list, size) \in Rects
  BY <1>2, <1>3, FreeOK
<1>9. /\ O \in [Outputs -> OutputSet]
      /\ \A p \in Outputs : O[p].state = w.output[p].state /\ O[p].size = w.output[p].size
      /\ O[o].available = Free(w.layer, list, size)
      /\ \A p \in Outputs \ {o} : O[p] = w.output[p]
  BY <1>2, <1>8 DEF OutputSet
<1> HIDE DEF O
<1>10. v \in WorldSet
  BY <1>1, <1>2, <1>7, <1>9 DEF WorldSet
<1>11. v.layer = L /\ v.zones = w.zones /\ v.keyboard = w.keyboard /\ v.output = O
  BY <1>1
<1>13. FreshAt(v, o)
  <2>1. /\ Free(L, list, size) = Free(w.layer, list, size)
        /\ \A i \in 1..Len(list) : RectOf(L, list, i, size) = RectOf(w.layer, list, i, size)
    <3>1. SameZones(L, w.layer, list)
      BY <1>3, <1>6 DEF Moved, SameZones
    <3> QED  BY <3>1, FreeSame, RectSame
  <2>2. \A i \in 1..Len(list) : L[list[i]].rect = RectOf(w.layer, list, i, size)
    BY <1>3, <1>4, <1>6 DEF rect
  <2>3. v.zones[o] = list /\ v.output[o].size = size
    BY <1>9, <1>11 DEF list, size
  <2> QED  BY <1>9, <1>11, <2>1, <2>2, <2>3 DEF FreshAt
<1>14. ASSUME NEW p \in Outputs \ {o}, FreshAt(w, p) PROVE FreshAt(v, p)
  <2>1. w.zones[p] \in Seq(Layers)
        /\ \A i \in 1..Len(w.zones[p]), j \in 1..Len(list) : w.zones[p][i] # list[j]
    BY DEF ListsApart, list
  <2>2. Len(w.zones[p]) \in Nat /\ \A i \in 1..Len(w.zones[p]) : w.zones[p][i] \in Layers
    BY <2>1, ElementOfSeq, LenProperties
  <2>3. \A i \in 1..Len(w.zones[p]) : v.layer[w.zones[p][i]] = w.layer[w.zones[p][i]]
    BY <1>3, <1>6, <1>11, <2>1, <2>2
  <2> QED  BY <1>9, <1>11, <1>14, <2>2, <2>3, FreshKept
<1> QED  BY <1>6, <1>9, <1>10, <1>11, <1>13, <1>14 DEF v, list, SameOutputs

-----------------------------------------------------------------------------
(* A world in which one layer surface, or one list, is another. *)
LayerIs(w, v, l, q) ==
  /\ v \in WorldSet
  /\ v.zones = w.zones /\ v.output = w.output /\ v.keyboard = w.keyboard
  /\ v.layer[l] = q /\ \A k \in Layers \ {l} : v.layer[k] = w.layer[k]

LEMMA WithLayer ==
  ASSUME NEW w \in WorldSet, NEW l \in Layers, NEW q \in LayerSet
  PROVE  LayerIs(w, [w EXCEPT !.layer[l] = q], l, q)
<1> DEFINE L == [w.layer EXCEPT ![l] = q]
           v == [layer |-> L, zones |-> w.zones, output |-> w.output, keyboard |-> w.keyboard]
<1>1. w = [layer |-> w.layer, zones |-> w.zones, output |-> w.output, keyboard |-> w.keyboard]
  BY DEF WorldSet
<1>2. w.layer \in [Layers -> LayerSet]
  BY DEF WorldSet
<1>3. L \in [Layers -> LayerSet] /\ L[l] = q /\ \A k \in Layers \ {l} : L[k] = w.layer[k]
  BY <1>2
<1>4. [w EXCEPT !.layer = L] = v
  <2> HIDE DEF L
  <2> QED  BY <1>1
<1>5. [w EXCEPT !.layer[l] = q] = v
  BY <1>4
<1> HIDE DEF L
<1>6. v \in WorldSet
  BY <1>3 DEF WorldSet
<1> QED  BY <1>3, <1>5, <1>6 DEF LayerIs

ListIs(w, v, o, list) ==
  /\ v \in WorldSet
  /\ v.layer = w.layer /\ v.output = w.output /\ v.keyboard = w.keyboard
  /\ v.zones[o] = list /\ \A p \in Outputs \ {o} : v.zones[p] = w.zones[p]

LEMMA WithList ==
  ASSUME NEW w \in WorldSet, NEW o \in Outputs, NEW list \in Seq(Layers)
  PROVE  ListIs(w, [w EXCEPT !.zones[o] = list], o, list)
<1> DEFINE Z == [w.zones EXCEPT ![o] = list]
           v == [layer |-> w.layer, zones |-> Z, output |-> w.output, keyboard |-> w.keyboard]
<1>1. w = [layer |-> w.layer, zones |-> w.zones, output |-> w.output, keyboard |-> w.keyboard]
  BY DEF WorldSet
<1>2. w.zones \in [Outputs -> Seq(Layers)]
  BY DEF WorldSet
<1>3. Z \in [Outputs -> Seq(Layers)] /\ Z[o] = list /\ \A p \in Outputs \ {o} : Z[p] = w.zones[p]
  BY <1>2
<1>4. [w EXCEPT !.zones = Z] = v
  <2> HIDE DEF Z
  <2> QED  BY <1>1
<1>5. [w EXCEPT !.zones[o] = list] = v
  BY <1>4
<1> HIDE DEF Z
<1>6. v \in WorldSet
  BY <1>3 DEF WorldSet
<1> QED  BY <1>3, <1>5, <1>6 DEF ListIs

(* What holds between the calls, and what a change of the zone of l may change. *)
Arranged(w) == w \in WorldSet /\ ListsOK(w) /\ Fresh(w)

Rezoned(w, v, l) ==
  /\ Arranged(v)
  /\ v.keyboard = w.keyboard /\ SameOutputs(w, v)
  /\ \A k \in Layers \ {l} : Moved(w.layer[k], v.layer[k])
  /\ Steady(w.layer[l], v.layer[l]) /\ Tells(w.layer[l], v.layer[l])
  /\ v.layer[l].mapped = w.layer[l].mapped

LEMMA SameRezoned ==
  ASSUME NEW w, Arranged(w), NEW l \in Layers
  PROVE  Rezoned(w, w, l)
BY DEF Rezoned, SameOutputs, Moved, Steady, Tells

LEMMA FreshOthers ==
  ASSUME NEW w \in WorldSet, NEW v, NEW o, Fresh(w), SameOutputs(w, v),
         o \in Outputs => FreshAt(v, o),
         \A p \in Outputs \ {o} : FreshAt(w, p) => FreshAt(v, p)
  PROVE  Fresh(v)
<1> SUFFICES ASSUME NEW p \in Outputs, v.output[p].state # "gone" PROVE FreshAt(v, p)
  BY DEF Fresh
<1>1. CASE p = o
  BY <1>1
<1>2. CASE p # o
  BY <1>2 DEF Fresh, SameOutputs
<1> QED  BY <1>1, <1>2

LEMMA SetEdgeAndSizeOK ==
  ASSUME NEW w, Arranged(w), NEW l \in Layers, NEW edge \in Edges \cup {None}, NEW size \in Int,
         w.layer[l].mapped => w.layer[l].output # None
  PROVE  LET v == SetEdgeAndSize(w, l, edge, size) IN
         Rezoned(w, v, l) /\ v.layer[l].output = w.layer[l].output
<1> DEFINE r == w.layer[l]
           q == [r EXCEPT !.edge = edge, !.size = size]
           u == [w EXCEPT !.layer[l].edge = edge, !.layer[l].size = size]
           v == SetEdgeAndSize(w, l, edge, size)
<1>1. w \in WorldSet /\ ListsOK(w) /\ Fresh(w) /\ r \in LayerSet /\ r.output \in Outputs \cup {None}
  BY DEF Arranged, WorldSet, LayerSet
<1>2. CASE <<edge, size>> = <<r.edge, r.size>>
  <2>1. v = w
    BY <1>2 DEF SetEdgeAndSize
  <2> QED  BY <2>1, SameRezoned
<1>3. CASE <<edge, size>> # <<r.edge, r.size>>
  <2>1. v = UpdateZone(u, l)
    BY <1>3 DEF SetEdgeAndSize
  <2>2. u = [w EXCEPT !.layer[l] = q]
    <3>1. w = [layer |-> w.layer, zones |-> w.zones, output |-> w.output, keyboard |-> w.keyboard]
      BY <1>1 DEF WorldSet
    <3>2. w.layer \in [Layers -> LayerSet]
      BY <1>1 DEF WorldSet
    <3> QED  BY <3>1, <3>2
  <2>3. /\ q \in LayerSet /\ Steady(r, q) /\ q.output = r.output /\ q.mapped = r.mapped
        /\ q.rect = r.rect /\ q.told = r.told
    BY <1>1 DEF LayerSet, Steady
  <2> HIDE DEF r, q, u, v
  <2>4. LayerIs(w, u, l, q)
    BY <1>1, <2>2, <2>3, WithLayer
  <2>5. u \in WorldSet /\ ListsOK(u) /\ SameOutputs(w, u)
    BY <1>1, <2>3, <2>4, SameLists DEF LayerIs, r, SameOutputs
  <2>6. ASSUME NEW p \in Outputs, p # r.output, FreshAt(w, p) PROVE FreshAt(u, p)
    <3>1. Len(w.zones[p]) \in Nat
          /\ \A i \in 1..Len(w.zones[p]) : w.zones[p][i] \in Layers /\ w.layer[w.zones[p][i]].output = p
      BY <1>1, OnList
    <3>2. \A i \in 1..Len(w.zones[p]) : u.layer[w.zones[p][i]] = w.layer[w.zones[p][i]]
      BY <2>4, <2>6, <3>1 DEF LayerIs, r
    <3>3. u.zones[p] = w.zones[p] /\ u.output[p] = w.output[p]
      BY <2>4 DEF LayerIs
    <3> QED  BY <2>6, <3>1, <3>2, <3>3, FreshKept
  <2>7. CASE r.output = None
    <3> DEFINE n == [q EXCEPT !.rect = NoRect, !.told = FALSE]
    <3>1. v = [u EXCEPT !.layer[l].rect = NoRect, !.layer[l].told = FALSE]
      BY <2>1, <2>3, <2>4, <2>7 DEF UpdateZone, LayerIs
    <3>2. v = [u EXCEPT !.layer[l] = n]
      <4>1. u = [layer |-> u.layer, zones |-> u.zones, output |-> u.output, keyboard |-> u.keyboard]
        BY <2>5 DEF WorldSet
      <4>2. u.layer \in [Layers -> LayerSet] /\ u.layer[l] = q
        BY <2>4, <2>5 DEF WorldSet, LayerIs
      <4> QED  BY <3>1, <4>1, <4>2
    <3>3. n \in LayerSet /\ Steady(q, n) /\ n.output = q.output /\ n.mapped = q.mapped
      <4>1. NoRect \in Rects
        BY DEF NoRect, Rects
      <4> QED  BY <2>3, <4>1 DEF LayerSet, Steady
    <3> HIDE DEF n
    <3>4. LayerIs(u, v, l, n)
      BY <2>5, <3>2, <3>3, WithLayer
    <3>5. v \in WorldSet /\ ListsOK(v) /\ SameOutputs(w, v)
      BY <2>5, <3>3, <3>4, <2>4, SameLists DEF LayerIs, SameOutputs
    <3>6. ASSUME NEW p \in Outputs, FreshAt(w, p) PROVE FreshAt(v, p)
      <4>1. FreshAt(u, p)
        BY <1>1, <2>6, <2>7, <3>6, LayerShellAssumption
      <4>2. Len(u.zones[p]) \in Nat
            /\ \A i \in 1..Len(u.zones[p]) : u.zones[p][i] \in Layers /\ u.layer[u.zones[p][i]].output = p
        BY <2>5, OnList
      <4>3. \A i \in 1..Len(u.zones[p]) : v.layer[u.zones[p][i]] = u.layer[u.zones[p][i]]
        <5>1. u.layer[l].output = None
          BY <2>3, <2>4, <2>7 DEF LayerIs
        <5> QED  BY <3>4, <4>2, <5>1 DEF LayerIs
      <4>4. v.zones[p] = u.zones[p] /\ v.output[p] = u.output[p]
        BY <3>4 DEF LayerIs
      <4> QED  BY <4>1, <4>2, <4>3, <4>4, FreshKept
    <3>7. Fresh(v)
      BY <1>1, <3>5, <3>6 DEF Fresh, SameOutputs
    <3>8. ~r.mapped
      BY <2>7 DEF r
    <3>9. Steady(r, n) /\ Tells(r, n) /\ n.mapped = r.mapped /\ n.output = r.output
      BY <2>3, <3>3, <3>8 DEF Steady, Tells
    <3>10. /\ v.layer[l] = n /\ v.keyboard = w.keyboard
           /\ \A k \in Layers \ {l} : v.layer[k] = w.layer[k]
      BY <2>4, <3>4 DEF LayerIs
    <3>11. \A k \in Layers \ {l} : Moved(w.layer[k], v.layer[k])
      BY <3>10 DEF Moved, Steady, Tells
    <3> QED  BY <3>5, <3>7, <3>9, <3>10, <3>11 DEF Rezoned, Arranged, r, v
  <2>8. CASE r.output # None
    <3> DEFINE o == r.output
    <3>1. o \in Outputs /\ v = UpdateExclusiveZones(u, o)
      BY <1>1, <2>1, <2>3, <2>4, <2>8 DEF UpdateZone, LayerIs
    <3> HIDE DEF o
    <3>2. ListsApart(u)
      BY <2>5, ListsAreApart
    <3>3. /\ v \in WorldSet /\ v.zones = u.zones /\ v.keyboard = u.keyboard /\ SameOutputs(u, v)
          /\ \A k \in Layers : Moved(u.layer[k], v.layer[k])
          /\ FreshAt(v, o)
          /\ \A p \in Outputs \ {o} : FreshAt(u, p) => FreshAt(v, p)
      BY <2>5, <3>1, <3>2, UpdateZonesOK
    <3>4. SameOutputs(w, v)
      BY <2>5, <3>3 DEF SameOutputs
    <3>5. \A p \in Outputs \ {o} : FreshAt(w, p) => FreshAt(v, p)
      BY <2>6, <3>3 DEF o
    <3>6. Fresh(v)
      BY <1>1, <3>3, <3>4, <3>5, FreshOthers
    <3>7. ListsOK(v)
      BY <2>5, <3>3, SameLists DEF Moved
    <3>8. Moved(q, v.layer[l]) /\ \A k \in Layers \ {l} : Moved(w.layer[k], v.layer[k])
      BY <2>4, <3>3 DEF LayerIs
    <3>9. /\ Steady(r, v.layer[l]) /\ Tells(r, v.layer[l])
          /\ v.layer[l].mapped = r.mapped /\ v.layer[l].output = r.output
      BY <2>3, <3>8 DEF Moved, Steady, Tells
    <3>10. v.keyboard = w.keyboard
      BY <2>4, <3>3 DEF LayerIs
    <3> QED  BY <3>3, <3>4, <3>6, <3>7, <3>8, <3>9, <3>10 DEF Rezoned, Arranged, r, v
  <2> QED  BY <2>7, <2>8 DEF v
<1> QED  BY <1>2, <1>3

-----------------------------------------------------------------------------
(* The zone of l has left the list that it was on. *)
Beside(w, l, p) == ZonesOn(w.layer, p) \ {l}

LeftBy(w, v, l) ==
  /\ v \in WorldSet /\ Fresh(v) /\ v.keyboard = w.keyboard /\ SameOutputs(w, v)
  /\ \A k \in Layers : Moved(w.layer[k], v.layer[k])
  /\ \A p \in Outputs : Lists(v.zones[p], Beside(w, l, p))

LEMMA ErasedOK ==
  ASSUME NEW S, NEW s, Lists(s, S), NEW l \in S
  PROVE  Lists(Erased(s, l), S \ {l})
<1>1. Layered(s, {})
  <2>1. 0 \in 0..Len(s)
    BY LenProperties DEF Lists
  <2> QED  BY <2>1 DEF Layered
<1>2. Erased(s, l) = Without(s, l)
  BY DEF Erased, Link, Without
<1> QED  BY <1>1, <1>2, WithoutOK

LEMMA AppendOK ==
  ASSUME NEW S, NEW s, Lists(s, S), NEW l, l \notin S
  PROVE  Lists(Append(s, l), S \cup {l})
<1> DEFINE r == Append(s, l)
           T == S \cup {l}
<1>1. s \in Seq(S) /\ Len(s) \in Nat /\ \A i \in 1..Len(s) : s[i] \in S
  BY ElementOfSeq, LenProperties DEF Lists
<1>2. s \in Seq(T) /\ l \in T
  BY <1>1, SeqMonotonic
<1> HIDE DEF T
<1>3. r \in Seq(T) /\ Len(r) = Len(s) + 1 /\ \A i \in 1..Len(s) : r[i] = s[i] /\ r[Len(s) + 1] = l
  BY <1>1, <1>2, AppendProperties
<1>4. r[Len(s) + 1] = l
  BY <1>1, <1>2, AppendProperties
<1> HIDE DEF r
<1>5. \A i, j \in 1..Len(r) : r[i] = r[j] => i = j
  <2>1. \A i, j \in 1..Len(s) : s[i] = s[j] => i = j
    BY DEF Lists
  <2>2. \A i \in 1..Len(s) : r[i] = s[i] /\ s[i] # l
    BY <1>1, <1>3
  <2>3. \A i \in 1..Len(r) : i \in 1..Len(s) \/ i = Len(s) + 1
    BY <1>1, <1>3
  <2> QED  BY <1>4, <2>1, <2>2, <2>3
<1>6. \A p \in T : \E i \in 1..Len(r) : r[i] = p
  <2> TAKE p \in T
  <2>1. CASE p \in S
    <3>1. PICK i \in 1..Len(s) : s[i] = p
      BY <2>1 DEF Lists
    <3>2. i \in 1..Len(r) /\ r[i] = p
      BY <1>1, <1>3, <3>1
    <3> QED  BY <3>2
  <2>2. CASE p = l
    <3>1. Len(s) + 1 \in 1..Len(r)
      BY <1>1, <1>3
    <3> QED  BY <1>4, <2>2, <3>1
  <2> QED  BY <2>1, <2>2 DEF T
<1> QED  BY <1>3, <1>5, <1>6 DEF Lists, r, T

LEMMA LeaveOK ==
  ASSUME NEW w, Arranged(w), NEW l \in Layers, NEW o \in Outputs, w.layer[l].output = o
  PROVE  LeftBy(w, UpdateExclusiveZones([w EXCEPT !.zones[o] = Erased(@, l)], o), l)
<1> DEFINE r == w.layer[l]
           list == Erased(w.zones[o], l)
           u == [w EXCEPT !.zones[o] = Erased(@, l)]
           v == UpdateExclusiveZones(u, o)
<1>1. w \in WorldSet /\ ListsOK(w) /\ Fresh(w)
  BY DEF Arranged
<1>2. ListsApart(w) /\ \A p \in Outputs : Lists(w.zones[p], ZonesOn(w.layer, p))
  BY <1>1, ListsAreApart DEF ListsOK
<1>3. l \in ZonesOn(w.layer, o) /\ \A p \in Outputs \ {o} : l \notin ZonesOn(w.layer, p)
  BY DEF ZonesOn
<1>4. Lists(list, Beside(w, l, o))
  BY <1>2, <1>3, ErasedOK DEF Beside
<1>5. \A p \in Outputs : Beside(w, l, p) \subseteq Layers /\ \A k \in Beside(w, l, p) : w.layer[k].output = p
  BY DEF ZonesOn, Beside
<1> HIDE DEF list
<1>6. list \in Seq(Layers)
  <2>1. list \in Seq(Beside(w, l, o))
    BY <1>4 DEF Lists
  <2> QED  BY <1>5, <2>1, SeqMonotonic
<1>7. u = [w EXCEPT !.zones[o] = list]
  BY DEF list
<1> HIDE DEF u, v
<1>8. ListIs(w, u, o, list)
  BY <1>1, <1>6, <1>7, WithList
<1>9. \A p \in Outputs : Lists(u.zones[p], Beside(w, l, p))
  <2> TAKE p \in Outputs
  <2>1. CASE p = o
    BY <1>4, <1>8, <2>1 DEF ListIs
  <2>2. CASE p # o
    <3>1. Beside(w, l, p) = ZonesOn(w.layer, p)
      BY <1>3, <2>2 DEF Beside
    <3> QED  BY <1>2, <1>8, <2>2, <3>1 DEF ListIs
  <2> QED  BY <2>1, <2>2
<1>10. \A p \in Outputs : /\ Len(u.zones[p]) \in Nat /\ u.zones[p] \in Seq(Layers)
                          /\ \A i \in 1..Len(u.zones[p]) : u.zones[p][i] \in Layers
                                                           /\ w.layer[u.zones[p][i]].output = p
  <2> TAKE p \in Outputs
  <2>1. u.zones[p] \in Seq(Beside(w, l, p))
    BY <1>9 DEF Lists
  <2>2. Len(u.zones[p]) \in Nat /\ \A i \in 1..Len(u.zones[p]) : u.zones[p][i] \in Beside(w, l, p)
    BY <2>1, ElementOfSeq, LenProperties
  <2> QED  BY <1>5, <2>1, <2>2, SeqMonotonic
<1>11. ListsApart(u)
  <2>1. \A p \in Outputs : \A i, j \in 1..Len(u.zones[p]) : u.zones[p][i] = u.zones[p][j] => i = j
    BY <1>9 DEF Lists
  <2>2. \A p \in Outputs : \A q \in Outputs \ {p} :
          \A i \in 1..Len(u.zones[p]), j \in 1..Len(u.zones[q]) : u.zones[p][i] # u.zones[q][j]
    <3> TAKE p \in Outputs
    <3> TAKE q \in Outputs \ {p}
    <3> TAKE i \in 1..Len(u.zones[p]), j \in 1..Len(u.zones[q])
    <3>1. w.layer[u.zones[p][i]].output = p /\ w.layer[u.zones[q][j]].output = q
      BY <1>10
    <3> QED  BY <3>1
  <2> QED  BY <1>10, <2>1, <2>2 DEF ListsApart
<1>12. /\ v \in WorldSet /\ v.zones = u.zones /\ v.keyboard = u.keyboard /\ SameOutputs(u, v)
       /\ \A k \in Layers : Moved(u.layer[k], v.layer[k])
       /\ FreshAt(v, o)
       /\ \A p \in Outputs \ {o} : FreshAt(u, p) => FreshAt(v, p)
  BY <1>8, <1>11, UpdateZonesOK DEF ListIs, v
<1>13. u.layer = w.layer /\ u.output = w.output /\ u.keyboard = w.keyboard
  BY <1>8 DEF ListIs
<1>14. \A p \in Outputs \ {o} : FreshAt(w, p) => FreshAt(u, p)
  <2>1. \A p \in Outputs \ {o} : u.zones[p] = w.zones[p]
    BY <1>8 DEF ListIs
  <2> QED  BY <1>13, <2>1 DEF FreshAt
<1>15. SameOutputs(w, v)
  BY <1>12, <1>13 DEF SameOutputs
<1>16. Fresh(v)
  BY <1>1, <1>12, <1>14, <1>15, FreshOthers
<1> QED  BY <1>9, <1>12, <1>13, <1>15, <1>16 DEF LeftBy, u, v

(* A zone that has left its list goes to an output, or to none. *)
Entered(u, l, o) ==
  LET e == [u EXCEPT !.layer[l].output = o] IN
  UpdateZone(IF o = None THEN e ELSE [e EXCEPT !.zones[o] = Append(@, l)], l)

LEMMA EnterOK ==
  ASSUME NEW w, NEW l \in Layers, NEW u, LeftBy(w, u, l), NEW o \in Outputs \cup {None},
         ~w.layer[l].mapped, w.layer[l].output # o
  PROVE  LET v == Entered(u, l, o) IN Rezoned(w, v, l) /\ v.layer[l].output = o
<1> DEFINE r == u.layer[l]
           q == [r EXCEPT !.output = o]
           e == [u EXCEPT !.layer[l].output = o]
           list == Append(u.zones[o], l)
           n == [e EXCEPT !.zones[o] = Append(@, l)]
           a == IF o = None THEN e ELSE n
           v == Entered(u, l, o)
<1>0. v = UpdateZone(a, l)
  BY DEF Entered
<1> HIDE DEF v
<1>1. /\ u \in WorldSet /\ Fresh(u) /\ u.keyboard = w.keyboard /\ SameOutputs(w, u)
      /\ \A k \in Layers : Moved(w.layer[k], u.layer[k])
      /\ \A p \in Outputs : Lists(u.zones[p], Beside(w, l, p))
  BY DEF LeftBy
<1>2. r \in LayerSet /\ Moved(w.layer[l], r)
  BY <1>1 DEF WorldSet
<1>3. q \in LayerSet /\ q.output = o /\ q.mapped = r.mapped /\ Steady(r, q) /\ ~q.mapped
  BY <1>2 DEF LayerSet, Steady, Moved
<1>4. e = [u EXCEPT !.layer[l] = q]
  OBVIOUS
<1> HIDE DEF r, q, e
<1>5. LayerIs(u, e, l, q)
  BY <1>1, <1>3, <1>4, WithLayer
<1>6. /\ e \in WorldSet /\ e.zones = u.zones /\ e.output = u.output /\ e.keyboard = w.keyboard
      /\ e.layer[l] = q /\ \A k \in Layers \ {l} : e.layer[k] = u.layer[k]
  BY <1>1, <1>5 DEF LayerIs
<1>7. \A k \in Layers \ {l} : Moved(w.layer[k], e.layer[k])
  BY <1>1, <1>6
<1>8. Steady(w.layer[l], q)
  BY <1>2, <1>3 DEF Steady, Moved
<1>9. SameOutputs(w, e)
  BY <1>1, <1>6 DEF SameOutputs
<1>10. \A p \in Outputs : /\ Len(e.zones[p]) \in Nat /\ e.zones[p] \in Seq(Layers)
                          /\ \A i \in 1..Len(e.zones[p]) : e.zones[p][i] \in Layers \ {l}
  <2> TAKE p \in Outputs
  <2>1. e.zones[p] \in Seq(Beside(w, l, p))
    BY <1>1, <1>6 DEF Lists
  <2>2. Len(e.zones[p]) \in Nat /\ \A i \in 1..Len(e.zones[p]) : e.zones[p][i] \in Beside(w, l, p)
    BY <2>1, ElementOfSeq, LenProperties
  <2>3. Beside(w, l, p) \subseteq Layers \ {l}
    BY DEF Beside, ZonesOn
  <2> QED  BY <2>1, <2>2, <2>3, SeqMonotonic
<1>11. \A p \in Outputs : FreshAt(u, p) => FreshAt(e, p)
  <2> TAKE p \in Outputs
  <2>1. Len(u.zones[p]) \in Nat /\ \A i \in 1..Len(u.zones[p]) : e.layer[u.zones[p][i]] = u.layer[u.zones[p][i]]
    BY <1>6, <1>10
  <2> QED  BY <1>6, <2>1, FreshKept
<1>12. CASE o = None
  <2> DEFINE m == [q EXCEPT !.rect = NoRect, !.told = FALSE]
  <2>1. a = e /\ v = [e EXCEPT !.layer[l].rect = NoRect, !.layer[l].told = FALSE]
    BY <1>0, <1>3, <1>6, <1>12 DEF UpdateZone
  <2>2. v = [e EXCEPT !.layer[l] = m]
    <3>1. e = [layer |-> e.layer, zones |-> e.zones, output |-> e.output, keyboard |-> e.keyboard]
      BY <1>6 DEF WorldSet
    <3>2. e.layer \in [Layers -> LayerSet] /\ e.layer[l] = q
      BY <1>6 DEF WorldSet
    <3> QED  BY <2>1, <3>1, <3>2
  <2>3. m \in LayerSet /\ Steady(q, m) /\ m.output = q.output /\ m.mapped = q.mapped
    <3>1. NoRect \in Rects
      BY DEF NoRect, Rects
    <3> QED  BY <1>3, <3>1 DEF LayerSet, Steady
  <2> HIDE DEF m
  <2>4. LayerIs(e, v, l, m)
    BY <1>6, <2>2, <2>3, WithLayer
  <2>5. /\ v \in WorldSet /\ v.zones = e.zones /\ v.output = e.output /\ v.keyboard = w.keyboard
        /\ v.layer[l] = m /\ \A k \in Layers \ {l} : v.layer[k] = e.layer[k]
    BY <1>6, <2>4 DEF LayerIs
  <2>6. SameOutputs(w, v)
    BY <1>9, <2>5 DEF SameOutputs
  <2>7. ASSUME NEW p \in Outputs, FreshAt(u, p) PROVE FreshAt(v, p)
    <3>1. \A i \in 1..Len(e.zones[p]) : v.layer[e.zones[p][i]] = e.layer[e.zones[p][i]]
      BY <1>10, <2>5
    <3>2. FreshAt(e, p)
      BY <1>11, <2>7
    <3> QED  BY <1>10, <2>5, <3>1, <3>2, FreshKept
  <2>8. Fresh(v)
    BY <1>1, <2>5, <2>7, <1>6 DEF Fresh
  <2>9. ListsOK(v)
    <3>1. \A p \in Outputs : ZonesOn(v.layer, p) = Beside(w, l, p)
      <4> TAKE p \in Outputs
      <4>1. \A k \in Layers \ {l} : v.layer[k].output = w.layer[k].output
        BY <1>7, <2>5 DEF Moved
      <4>2. v.layer[l].output = None /\ p # None
        BY <1>3, <1>12, <2>3, <2>5
      <4> QED  BY <4>1, <4>2 DEF ZonesOn, Beside
    <3> QED  BY <1>1, <1>6, <2>5, <3>1 DEF ListsOK
  <2>10. Steady(w.layer[l], m) /\ Tells(w.layer[l], m) /\ m.mapped = w.layer[l].mapped
    BY <1>2, <1>3, <1>8, <2>3 DEF Steady, Tells, Moved
  <2>11. \A k \in Layers \ {l} : Moved(w.layer[k], v.layer[k])
    BY <1>7, <2>5
  <2>12. v.layer[l].output = o
    BY <1>3, <2>3, <2>5
  <2> QED  BY <2>5, <2>6, <2>8, <2>9, <2>10, <2>11, <2>12 DEF Rezoned, Arranged, v
<1>13. CASE o # None
  <2>1. o \in Outputs
    BY <1>13
  <2>2. Lists(u.zones[o], Beside(w, l, o)) /\ l \notin Beside(w, l, o)
    BY <1>1, <2>1 DEF Beside
  <2>3. Lists(list, Beside(w, l, o) \cup {l})
    BY <2>2, AppendOK
  <2>4. n = [e EXCEPT !.zones[o] = list]
    BY <1>6
  <2> HIDE DEF list, n
  <2>5. list \in Seq(Layers)
    <3>1. Beside(w, l, o) \cup {l} \subseteq Layers
      BY DEF Beside, ZonesOn
    <3> QED  BY <2>3, <3>1, SeqMonotonic DEF Lists
  <2>6. ListIs(e, n, o, list)
    BY <1>6, <2>1, <2>4, <2>5, WithList
  <2>7. /\ n \in WorldSet /\ n.layer = e.layer /\ n.output = e.output /\ n.keyboard = w.keyboard
        /\ n.zones[o] = list /\ \A p \in Outputs \ {o} : n.zones[p] = e.zones[p]
    BY <1>6, <2>6 DEF ListIs
  <2>8. ListsOK(n)
    <3> SUFFICES ASSUME NEW p \in Outputs PROVE Lists(n.zones[p], ZonesOn(n.layer, p))
      BY DEF ListsOK
    <3>1. \A k \in Layers \ {l} : n.layer[k].output = w.layer[k].output
      BY <1>7, <2>7 DEF Moved
    <3>2. n.layer[l].output = o
      BY <1>3, <1>6, <2>7
    <3>3. CASE p = o
      <4>1. ZonesOn(n.layer, p) = Beside(w, l, o) \cup {l}
        BY <3>1, <3>2, <3>3 DEF ZonesOn, Beside
      <4> QED  BY <2>3, <2>7, <3>3, <4>1
    <3>4. CASE p # o
      <4>1. ZonesOn(n.layer, p) = Beside(w, l, p)
        BY <3>1, <3>2, <3>4 DEF ZonesOn, Beside
      <4> QED  BY <1>1, <1>6, <2>7, <3>4, <4>1
    <3> QED  BY <3>3, <3>4
  <2>9. v = UpdateExclusiveZones(n, o)
    BY <1>0, <1>3, <1>6, <1>13, <2>7 DEF UpdateZone
  <2>10. /\ v \in WorldSet /\ v.zones = n.zones /\ v.keyboard = n.keyboard /\ SameOutputs(n, v)
         /\ \A k \in Layers : Moved(n.layer[k], v.layer[k])
         /\ FreshAt(v, o)
         /\ \A p \in Outputs \ {o} : FreshAt(n, p) => FreshAt(v, p)
    BY <2>1, <2>7, <2>8, <2>9, ListsAreApart, UpdateZonesOK
  <2>11. \A p \in Outputs \ {o} : FreshAt(u, p) => FreshAt(v, p)
    <3>1. \A p \in Outputs \ {o} : FreshAt(e, p) => FreshAt(n, p)
      BY <2>7 DEF FreshAt
    <3> QED  BY <1>11, <2>10, <3>1
  <2>12. SameOutputs(w, v) /\ SameOutputs(u, v)
    BY <1>6, <1>9, <2>7, <2>10 DEF SameOutputs
  <2>13. Fresh(v)
    BY <1>1, <2>10, <2>11, <2>12, FreshOthers
  <2>14. ListsOK(v)
    BY <2>8, <2>10, SameLists DEF Moved
  <2>15. Moved(q, v.layer[l])
    BY <1>6, <2>7, <2>10
  <2>16. /\ Steady(w.layer[l], v.layer[l]) /\ Tells(w.layer[l], v.layer[l])
         /\ v.layer[l].mapped = w.layer[l].mapped /\ v.layer[l].output = o
    BY <1>2, <1>3, <1>8, <2>15 DEF Steady, Tells, Moved
  <2>17. \A k \in Layers \ {l} : Moved(w.layer[k], v.layer[k])
    <3>1. \A k \in Layers \ {l} : Moved(w.layer[k], n.layer[k]) /\ Moved(n.layer[k], v.layer[k])
      BY <1>7, <2>7, <2>10
    <3> QED  BY <3>1, MovedTrans
  <2>18. v.keyboard = w.keyboard
    BY <2>7, <2>10
  <2> QED  BY <2>10, <2>12, <2>13, <2>14, <2>16, <2>17, <2>18 DEF Rezoned, Arranged, v
<1> QED  BY <1>12, <1>13

LEMMA SetOutputOK ==
  ASSUME NEW w, Arranged(w), NEW l \in Layers, NEW o \in Outputs \cup {None}, ~w.layer[l].mapped
  PROVE  LET v == SetOutput(w, l, o) IN Rezoned(w, v, l) /\ v.layer[l].output = o
<1> DEFINE old == w.layer[l].output
           left == IF old = None THEN w
                   ELSE UpdateExclusiveZones([w EXCEPT !.zones[old] = Erased(@, l)], old)
           v == SetOutput(w, l, o)
<1>1. w \in WorldSet /\ ListsOK(w) /\ Fresh(w) /\ old \in Outputs \cup {None}
  BY DEF Arranged, WorldSet, LayerSet
<1>2. CASE o = old
  <2>1. v = w
    BY <1>2 DEF SetOutput
  <2> QED  BY <1>2, <2>1, SameRezoned
<1>3. CASE o # old
  <2>1. LeftBy(w, left, l)
    <3>1. CASE old = None
      <4>1. \A p \in Outputs : Beside(w, l, p) = ZonesOn(w.layer, p)
        BY <3>1 DEF Beside, ZonesOn
      <4>2. left = w
        BY <3>1
      <4>3. SameOutputs(w, w) /\ \A k \in Layers : Moved(w.layer[k], w.layer[k])
        BY DEF SameOutputs, Moved, Steady, Tells
      <4> HIDE DEF left
      <4> QED  BY <1>1, <4>1, <4>2, <4>3 DEF LeftBy, ListsOK
    <3>2. CASE old # None
      <4>1. left = UpdateExclusiveZones([w EXCEPT !.zones[old] = Erased(@, l)], old)
        BY <3>2
      <4> QED  BY <1>1, <3>2, <4>1, LeaveOK
    <3> QED  BY <3>1, <3>2
  <2>2. v = Entered(left, l, o)
    BY <1>3 DEF SetOutput, Entered
  <2> HIDE DEF left, v
  <2>3. Rezoned(w, v, l) /\ v.layer[l].output = o
    BY <1>3, <2>1, <2>2, EnterOK
  <2> QED  BY <2>3 DEF v
<1> QED  BY <1>2, <1>3

-----------------------------------------------------------------------------
(* The handlers of a layer surface. *)

(* Nothing but the layer surface l and the places of zones has changed. *)
Touched(w, v, l) ==
  /\ Arranged(v) /\ SameOutputs(w, v)
  /\ \A k \in Layers \ {l} : Moved(w.layer[k], v.layer[k])

LEMMA TouchedTrans ==
  ASSUME NEW w, NEW u, NEW v, NEW l \in Layers, Touched(w, u, l), Touched(u, v, l)
  PROVE  Touched(w, v, l)
<1>1. \A k \in Layers \ {l} : Moved(w.layer[k], u.layer[k]) /\ Moved(u.layer[k], v.layer[k])
  BY DEF Touched
<1>2. \A k \in Layers \ {l} : Moved(w.layer[k], v.layer[k])
  BY <1>1, MovedTrans
<1> QED  BY <1>2 DEF Touched, SameOutputs

LEMMA RowStep ==
  ASSUME NEW w, Arranged(w), NEW l \in Layers, NEW q \in LayerSet, q.output = w.layer[l].output,
         \/ q.output = None
         \/ q.edge = w.layer[l].edge /\ q.size = w.layer[l].size /\ q.rect = w.layer[l].rect
  PROVE  LET v == [w EXCEPT !.layer[l] = q] IN
         Touched(w, v, l) /\ v.layer[l] = q /\ v.keyboard = w.keyboard /\ v.output = w.output
<1> DEFINE v == [w EXCEPT !.layer[l] = q]
<1>1. w \in WorldSet /\ ListsOK(w) /\ Fresh(w)
  BY DEF Arranged
<1>2. LayerIs(w, v, l, q)
  BY <1>1, WithLayer
<1> HIDE DEF v
<1>3. /\ v \in WorldSet /\ v.zones = w.zones /\ v.output = w.output /\ v.keyboard = w.keyboard
      /\ v.layer[l] = q /\ \A k \in Layers \ {l} : v.layer[k] = w.layer[k]
  BY <1>2 DEF LayerIs
<1>4. ListsOK(v)
  BY <1>1, <1>3, SameLists
<1>5. ASSUME NEW p \in Outputs, FreshAt(w, p) PROVE FreshAt(v, p)
  <2>1. Len(w.zones[p]) \in Nat
        /\ \A i \in 1..Len(w.zones[p]) : w.zones[p][i] \in Layers /\ w.layer[w.zones[p][i]].output = p
    BY <1>1, OnList
  <2>2. \A k \in Layers : w.layer[k].output = p =>
          /\ v.layer[k].edge = w.layer[k].edge /\ v.layer[k].size = w.layer[k].size
          /\ v.layer[k].rect = w.layer[k].rect
    BY <1>3, LayerShellAssumption
  <2>3. \A i \in 1..Len(w.zones[p]) :
          /\ v.layer[w.zones[p][i]].edge = w.layer[w.zones[p][i]].edge
          /\ v.layer[w.zones[p][i]].size = w.layer[w.zones[p][i]].size
          /\ v.layer[w.zones[p][i]].rect = w.layer[w.zones[p][i]].rect
    BY <2>1, <2>2
  <2>4. /\ v.zones[p] = w.zones[p] /\ v.output[p].size = w.output[p].size
        /\ v.output[p].available = w.output[p].available
    BY <1>3
  <2> QED  BY <1>5, <2>1, <2>3, <2>4, FreshKept
<1>6. Fresh(v)
  BY <1>1, <1>3, <1>5 DEF Fresh
<1>7. SameOutputs(w, v)
  BY <1>3 DEF SameOutputs
<1>8. \A k \in Layers \ {l} : Moved(w.layer[k], v.layer[k])
  BY <1>3 DEF Moved, Steady, Tells
<1> QED  BY <1>3, <1>4, <1>6, <1>7, <1>8 DEF Touched, Arranged, v

LEMMA RezonedTouched ==
  ASSUME NEW w, NEW v, NEW l, Rezoned(w, v, l)
  PROVE  Touched(w, v, l)
BY DEF Rezoned, Touched

(* A field of the record of l is changed. *)
LEMMA WorldRow ==
  ASSUME NEW w \in WorldSet, NEW l \in Layers
  PROVE  /\ w = [layer |-> w.layer, zones |-> w.zones, output |-> w.output, keyboard |-> w.keyboard]
         /\ w.layer \in [Layers -> LayerSet] /\ w.layer[l] \in LayerSet
         /\ w.layer[l].output \in Outputs \cup {None} /\ w.layer[l].asked \in Outputs \cup {None}
BY DEF WorldSet, LayerSet

(* The outputs of a layer surface are there, a surface that its client mapped was
   configured, and the slots of atoms agree on what is not pending. *)
Live(w, o) == o # None => w.output[o].state # "gone"

RowBase(w, l) ==
  LET r == w.layer[l] IN
  /\ Live(w, r.output) /\ Live(w, r.asked)
  /\ r.byClient => r.exists /\ ~r.initial
  /\ \A f \in Fields \ r.flags : r.cur[f] = r.pend[f]

Mapping(w, l) ==
  LET r == w.layer[l] IN
  r.output # None /\ w.output[r.output].state = "on" /\ r.byClient /\ r.hasBuffer

RowOK(w, l) == RowBase(w, l) /\ (w.layer[l].mapped => Mapping(w, l))

LEMMA OthersOK ==
  ASSUME NEW w \in WorldSet, NEW v \in WorldSet, NEW l \in Layers, RowOK(w, l), SameOutputs(w, v),
         Moved(w.layer[l], v.layer[l])
  PROVE  RowOK(v, l)
<1>1. w.layer[l].output \in Outputs \cup {None} /\ w.layer[l].asked \in Outputs \cup {None}
  BY WorldRow
<1> QED  BY <1>1 DEF RowOK, RowBase, Live, Mapping, SameOutputs, Moved, Steady

LEMMA LiveSame ==
  ASSUME NEW w, NEW v, SameOutputs(w, v), NEW o \in Outputs \cup {None}
  PROVE  Live(w, o) <=> Live(v, o)
BY DEF Live, SameOutputs

LEMMA UpdateMappingOK ==
  ASSUME NEW w, Arranged(w), NEW l \in Layers
  PROVE  LET v == UpdateMappingState(w, l)
             r == w.layer[l]
             q == v.layer[l]
         IN /\ Touched(w, v, l) /\ v.keyboard = w.keyboard /\ v.output = w.output
            /\ Steady(r, q) /\ q.mapped = Mapping(w, l) /\ q.output = r.output
            /\ q.edge = r.edge /\ q.size = r.size /\ q.rect = r.rect /\ q.told = r.told
            /\ RowBase(w, l) => RowOK(v, l)
<1> DEFINE r == w.layer[l]
           v == UpdateMappingState(w, l)
           q == [r EXCEPT !.mapped = Mapping(w, l)]
<1>1. w \in WorldSet /\ r \in LayerSet
  BY WorldRow DEF Arranged
<1>2. v = [w EXCEPT !.layer[l] = q]
  BY DEF UpdateMappingState, Mapping
<1>3. Mapping(w, l) \in BOOLEAN
  BY <1>1 DEF Mapping, LayerSet
<1> DEFINE m == Mapping(w, l)
<1> HIDE DEF m
<1>4. [r EXCEPT !.mapped = m] \in LayerSet /\ [r EXCEPT !.mapped = m].mapped = m
  BY <1>1, <1>3 DEF LayerSet, m
<1>5. /\ q \in LayerSet /\ q.mapped = Mapping(w, l) /\ Steady(r, q) /\ q.output = r.output
      /\ q.edge = r.edge /\ q.size = r.size /\ q.rect = r.rect /\ q.told = r.told
  BY <1>1, <1>4 DEF LayerSet, Steady, m
<1> HIDE DEF q, v
<1>6. Touched(w, v, l) /\ v.layer[l] = q /\ v.keyboard = w.keyboard /\ v.output = w.output
  BY <1>2, <1>5, RowStep
<1>7. RowBase(w, l) => RowOK(v, l)
  BY <1>5, <1>6 DEF RowOK, RowBase, Live, Mapping, Steady
<1> QED  BY <1>5, <1>6, <1>7 DEF v

LEMMA SetExclusiveOutputOK ==
  ASSUME NEW w, Arranged(w), NEW l \in Layers, NEW o \in Outputs \cup {None}, ~w.layer[l].mapped,
         RowBase(w, l), Live(w, o)
  PROVE  LET v == SetExclusiveOutput(w, l, o) IN
         /\ Touched(w, v, l) /\ v.keyboard = w.keyboard /\ Steady(w.layer[l], v.layer[l])
         /\ RowOK(v, l)
<1> DEFINE u == SetOutput(w, l, o)
           v == UpdateMappingState(u, l)
<1>1. Rezoned(w, u, l) /\ u.layer[l].output = o
  BY SetOutputOK
<1> HIDE DEF u
<1>2. Arranged(u) /\ Touched(w, u, l) /\ u.keyboard = w.keyboard /\ Steady(w.layer[l], u.layer[l])
      /\ SameOutputs(w, u)
  BY <1>1, RezonedTouched DEF Rezoned
<1>3. Live(u, o) /\ Live(u, u.layer[l].asked)
  <2>1. Live(w, w.layer[l].asked) /\ u.layer[l].asked = w.layer[l].asked
    BY <1>2 DEF RowBase, Steady
  <2>2. w.layer[l].asked \in Outputs \cup {None}
    BY WorldRow DEF Arranged
  <2> QED  BY <1>2, <2>1, <2>2, LiveSame
<1>4. RowBase(u, l)
  BY <1>1, <1>2, <1>3 DEF RowBase, Steady
<1>5. /\ Touched(u, v, l) /\ v.keyboard = u.keyboard /\ Steady(u.layer[l], v.layer[l]) /\ RowOK(v, l)
  BY <1>2, <1>4, UpdateMappingOK
<1>6. SetExclusiveOutput(w, l, o) = v
  BY DEF SetExclusiveOutput, u
<1> HIDE DEF v
<1>7. Touched(w, v, l)
  BY <1>2, <1>5, TouchedTrans
<1>8. Steady(w.layer[l], v.layer[l])
  BY <1>2, <1>5 DEF Steady
<1> QED  BY <1>2, <1>5, <1>6, <1>7, <1>8

LEMMA ConfigureRequestOK ==
  ASSUME NEW w, Arranged(w), NEW l \in Layers, NEW o \in Outputs \cup {None}, RowOK(w, l), Live(w, o)
  PROVE  LET v == ConfigureRequest(w, l, o) IN
         /\ Touched(w, v, l) /\ v.keyboard = w.keyboard /\ Steady(w.layer[l], v.layer[l])
         /\ RowOK(v, l) /\ v.layer[l].told
<1> DEFINE u == IF w.layer[l].output # None THEN w ELSE SetExclusiveOutput(w, l, o)
           r == u.layer[l]
           q == [r EXCEPT !.told = TRUE]
           v == [u EXCEPT !.layer[l] = q]
<1>1. /\ Touched(w, u, l) /\ u.keyboard = w.keyboard /\ Steady(w.layer[l], u.layer[l]) /\ RowOK(u, l)
  <2>1. CASE w.layer[l].output # None
    <3>1. u = w
      BY <2>1
    <3>2. Touched(w, w, l) /\ Steady(w.layer[l], w.layer[l])
      BY SameRezoned, RezonedTouched DEF Rezoned
    <3> HIDE DEF u
    <3> QED  BY <3>1, <3>2
  <2>2. CASE w.layer[l].output = None
    <3>1. ~w.layer[l].mapped /\ RowBase(w, l)
      BY <2>2 DEF RowOK, Mapping
    <3>2. u = SetExclusiveOutput(w, l, o)
      BY <2>2
    <3> HIDE DEF u
    <3> QED  BY <3>1, <3>2, SetExclusiveOutputOK
  <2> QED  BY <2>1, <2>2
<1>2. ConfigureRequest(w, l, o) = v
  BY DEF ConfigureRequest, ConfigureSize
<1> HIDE DEF u
<1>3. Arranged(u) /\ r \in LayerSet
  BY <1>1, WorldRow DEF Touched, Arranged
<1>4. /\ q \in LayerSet /\ q.told /\ Steady(r, q) /\ q.output = r.output /\ q.mapped = r.mapped
      /\ q.edge = r.edge /\ q.size = r.size /\ q.rect = r.rect
  BY <1>3 DEF LayerSet, Steady
<1> HIDE DEF q
<1>5. Touched(u, v, l) /\ v.layer[l] = q /\ v.keyboard = u.keyboard /\ v.output = u.output
  BY <1>3, <1>4, RowStep
<1> HIDE DEF v
<1>6. RowOK(v, l)
  BY <1>1, <1>4, <1>5 DEF RowOK, RowBase, Live, Mapping, Steady
<1>7. Touched(w, v, l)
  BY <1>1, <1>5, TouchedTrans
<1> QED  BY <1>1, <1>2, <1>4, <1>5, <1>6, <1>7 DEF Steady

-----------------------------------------------------------------------------
(* The keyboard, and the end of a layer surface. *)

Keyboards == [focus : LayerRefs, grab : LayerRefs]

Present(w) == {k \in Layers : w.layer[k].exists} \cup {None}

LEMMA KeyStep ==
  ASSUME NEW w, Arranged(w), NEW k \in Keyboards, NEW l
  PROVE  LET v == [w EXCEPT !.keyboard = k] IN
         /\ Touched(w, v, l) /\ v.keyboard = k /\ v.layer = w.layer /\ v.output = w.output
         /\ Present(v) = Present(w)
<1> DEFINE v == [w EXCEPT !.keyboard = k]
<1>1. w \in WorldSet /\ ListsOK(w) /\ Fresh(w)
  BY DEF Arranged
<1>2. v = [layer |-> w.layer, zones |-> w.zones, output |-> w.output, keyboard |-> k]
  <2>1. w = [layer |-> w.layer, zones |-> w.zones, output |-> w.output, keyboard |-> w.keyboard]
    BY <1>1 DEF WorldSet
  <2> QED  BY <2>1
<1>3. v \in WorldSet
  BY <1>1, <1>2 DEF WorldSet, Keyboards
<1> HIDE DEF v
<1>4. v.layer = w.layer /\ v.zones = w.zones /\ v.output = w.output /\ v.keyboard = k
  BY <1>2
<1>5. ListsOK(v)
  BY <1>1, <1>4, SameLists
<1>6. Fresh(v)
  BY <1>1, <1>4 DEF Fresh, FreshAt
<1>7. SameOutputs(w, v) /\ Present(v) = Present(w) /\ \A i \in Layers \ {l} : Moved(w.layer[i], v.layer[i])
  BY <1>4 DEF SameOutputs, Present, Moved, Steady, Tells
<1> QED  BY <1>3, <1>4, <1>5, <1>6, <1>7 DEF Touched, Arranged, v

LEMMA KeyboardsOK ==
  ASSUME NEW w, NEW k, KeyboardOK(k, Present(w))
  PROVE  k \in Keyboards
<1>1. Present(w) \subseteq LayerRefs
  BY DEF Present, LayerRefs
<1>2. k \in [focus : Present(w), grab : Present(w)]
  BY DEF KeyboardOK
<1> QED  BY <1>1, <1>2 DEF Keyboards

LEMMA PresentSame ==
  ASSUME NEW w, NEW v, NEW l \in Layers, Touched(w, v, l), v.layer[l].exists = w.layer[l].exists
  PROVE  Present(v) = Present(w)
<1>1. \A k \in Layers : v.layer[k].exists = w.layer[k].exists
  BY DEF Touched, Moved, Steady
<1> QED  BY <1>1 DEF Present

LEMMA AtomsChangedOK ==
  ASSUME NEW w, Arranged(w), NEW l \in Layers, w.layer[l].exists, KeyboardOK(w.keyboard, Present(w))
  PROVE  LET v == AtomsChanged(w, l) IN
         /\ Touched(w, v, l) /\ v.layer = w.layer /\ v.output = w.output
         /\ KeyboardOK(v.keyboard, Present(v))
<1> DEFINE k == w.keyboard
           unfocused == IF k.focus = l THEN SetFocus(k, None) ELSE k
           seen == IF w.layer[l].cur.keyboard = "none" THEN unfocused ELSE k
           new == IF w.layer[l].cur.keyboard = "exclusive" THEN SetGrab(k, l)
                  ELSE IF seen.grab = l THEN SetGrab(seen, None) ELSE seen
           v == [w EXCEPT !.keyboard = new]
<1>1. l \in Present(w) /\ None \in Present(w)
  BY DEF Present
<1>2. KeyboardOK(new, Present(w))
  <2>1. KeyboardOK(SetGrab(k, l), Present(w)) /\ KeyboardOK(SetFocus(k, None), Present(w))
    BY <1>1, SetGrabOK, SetFocusOK
  <2>2. KeyboardOK(seen, Present(w))
    BY <2>1
  <2> HIDE DEF seen
  <2>3. KeyboardOK(SetGrab(seen, None), Present(w))
    BY <1>1, <2>2, SetGrabOK
  <2> QED  BY <2>1, <2>2, <2>3
<1>3. AtomsChanged(w, l) = v
  BY DEF AtomsChanged
<1> HIDE DEF new
<1>4. new \in Keyboards
  BY <1>2, KeyboardsOK
<1>5. /\ Touched(w, v, l) /\ v.keyboard = new /\ v.layer = w.layer /\ v.output = w.output
      /\ Present(v) = Present(w)
  BY <1>4, KeyStep
<1> QED  BY <1>2, <1>3, <1>5

LEMMA NoLayerOK == NoLayer \in LayerSet /\ Atoms \in AtomSet
<1>1. Atoms \in AtomSet
  <2>1. DOMAIN Atoms = Fields
    BY DEF Atoms, Fields
  <2>2. \A f \in Fields : Atoms[f] \in Legal(f)
    BY DEF Atoms, Fields, Legal, Edges
  <2>3. Atoms = [f \in Fields |-> Atoms[f]]
    BY DEF Atoms, Fields
  <2>4. Atoms \in [Fields -> UNION {Legal(f) : f \in Fields}]
    BY <2>2, <2>3
  <2> QED  BY <2>2, <2>4 DEF AtomSet
<1>2. NoRect \in Rects
  BY DEF NoRect, Rects
<1>3. {"zone"} \in SUBSET Fields
  BY DEF Fields
<1> QED  BY <1>1, <1>2, <1>3 DEF NoLayer, LayerSet

LEMMA DestroyedOK ==
  ASSUME NEW w, Arranged(w), NEW l \in Layers, KeyboardOK(w.keyboard, Present(w))
  PROVE  LET v == Destroyed(w, l) IN
         /\ Touched(w, v, l) /\ v.layer[l] = NoLayer /\ RowOK(v, l)
         /\ KeyboardOK(v.keyboard, Present(v))
<1> DEFINE r == w.layer[l]
           q == [r EXCEPT !.mapped = FALSE]
           u == [w EXCEPT !.layer[l] = q]
           x == SetOutput(u, l, None)
           y == [x EXCEPT !.layer[l] = NoLayer]
           k == Forget(x.keyboard, {l})
           v == [y EXCEPT !.keyboard = k]
<1>1. w \in WorldSet /\ r \in LayerSet
  BY WorldRow DEF Arranged
<1>2. /\ q \in LayerSet /\ ~q.mapped /\ q.output = r.output
      /\ q.edge = r.edge /\ q.size = r.size /\ q.rect = r.rect
  BY <1>1 DEF LayerSet
<1>3. Destroyed(w, l) = [x EXCEPT !.layer[l] = NoLayer, !.keyboard = Forget(@, {l})]
  BY DEF Destroyed
<1> HIDE DEF q
<1>4. Touched(w, u, l) /\ u.layer[l] = q /\ u.keyboard = w.keyboard
  BY <1>2, RowStep
<1> HIDE DEF u
<1>5. Rezoned(u, x, l) /\ x.layer[l].output = None
  BY <1>2, <1>4, SetOutputOK DEF Touched
<1> HIDE DEF x
<1>6. Touched(u, x, l) /\ Arranged(x) /\ x.keyboard = w.keyboard
  BY <1>4, <1>5, RezonedTouched DEF Rezoned
<1>7. NoLayer \in LayerSet /\ NoLayer.output = None
  BY NoLayerOK DEF NoLayer
<1>8. Touched(x, y, l) /\ y.layer[l] = NoLayer /\ y.keyboard = x.keyboard
  BY <1>5, <1>6, <1>7, RowStep
<1>9. Destroyed(w, l) = v
  <2>1. x = [layer |-> x.layer, zones |-> x.zones, output |-> x.output, keyboard |-> x.keyboard]
    BY <1>6, WorldRow DEF Arranged
  <2> HIDE DEF k
  <2>2. [x EXCEPT !.layer[l] = NoLayer, !.keyboard = k] = [y EXCEPT !.keyboard = k]
    BY <2>1
  <2> QED  BY <1>3, <2>2 DEF k
<1> HIDE DEF y
<1>10. Touched(w, y, l)
  BY <1>4, <1>6, <1>8, TouchedTrans
<1>11. Present(y) = Present(w) \ {l}
  <2>1. \A i \in Layers \ {l} : y.layer[i].exists = w.layer[i].exists
    BY <1>10 DEF Touched, Moved, Steady
  <2>2. ~y.layer[l].exists
    BY <1>8 DEF NoLayer
  <2>3. None # l
    BY LayerShellAssumption
  <2> QED  BY <2>1, <2>2, <2>3 DEF Present
<1>12. KeyboardOK(k, Present(w) \ {l})
  <2>1. None \in Present(w) /\ None \notin {l}
    BY LayerShellAssumption DEF Present
  <2> QED  BY <1>6, <2>1, ForgetOK
<1> HIDE DEF k
<1>13. k \in Keyboards
  BY <1>11, <1>12, KeyboardsOK
<1>14. Touched(y, v, l) /\ v.keyboard = k /\ v.layer = y.layer /\ Present(v) = Present(y)
  BY <1>10, <1>13, KeyStep DEF Touched
<1> HIDE DEF v
<1>15. Touched(w, v, l)
  BY <1>10, <1>14, TouchedTrans
<1>16. v.layer[l] = NoLayer
  BY <1>8, <1>14
<1>17. RowOK(v, l)
  BY <1>16 DEF RowOK, RowBase, Live, NoLayer
<1> QED  BY <1>9, <1>11, <1>12, <1>14, <1>15, <1>16, <1>17

-----------------------------------------------------------------------------
(* A commit. *)

LEMMA UnmappedOK ==
  ASSUME NEW w, Arranged(w), NEW l \in Layers, RowBase(w, l)
  PROVE  LET v == Unmapped(w, l) IN
         /\ Touched(w, v, l) /\ RowOK(v, l) /\ v.keyboard = w.keyboard
         /\ v.layer[l].exists = w.layer[l].exists /\ ~v.layer[l].mapped
<1> DEFINE r == w.layer[l]
           q == [r EXCEPT !.byClient = FALSE]
           a == [w EXCEPT !.layer[l] = q]
           b == UpdateMappingState(a, l)
           s == b.layer[l]
           p == [s EXCEPT !.cur = Atoms, !.pend = Atoms, !.flags = {}, !.initial = TRUE]
           c == [b EXCEPT !.layer[l] = p]
           d == SetEdgeAndSize(c, l, r.edge, 0)
           v == SetExclusiveOutput(d, l, r.asked)
<1>1. w \in WorldSet /\ r \in LayerSet /\ r.asked \in Outputs \cup {None}
  BY WorldRow DEF Arranged
<1>2. /\ q \in LayerSet /\ ~q.byClient /\ q.output = r.output /\ q.asked = r.asked /\ q.exists = r.exists
      /\ q.edge = r.edge /\ q.size = r.size /\ q.rect = r.rect
  BY <1>1 DEF LayerSet
<1>3. Unmapped(w, l) = SetExclusiveOutput(SetEdgeAndSize(
        [b EXCEPT !.layer[l].cur = Atoms, !.layer[l].pend = Atoms,
                  !.layer[l].flags = {}, !.layer[l].initial = TRUE], l, r.edge, 0), l, r.asked)
  BY DEF Unmapped
<1> HIDE DEF q
<1>4. Touched(w, a, l) /\ a.layer[l] = q /\ a.keyboard = w.keyboard /\ a.output = w.output
  BY <1>2, RowStep
<1> HIDE DEF a
<1>5. /\ Touched(a, b, l) /\ b.keyboard = a.keyboard /\ b.output = a.output
      /\ Steady(q, s) /\ s.mapped = Mapping(a, l) /\ s.output = q.output
      /\ s.edge = q.edge /\ s.size = q.size /\ s.rect = q.rect
  BY <1>4, UpdateMappingOK DEF Touched
<1> HIDE DEF b
<1>6. ~s.mapped /\ ~s.byClient
  BY <1>2, <1>4, <1>5 DEF Mapping, Steady
<1>7. b \in WorldSet /\ s \in LayerSet
  BY <1>5, WorldRow DEF Touched, Arranged
<1>8. /\ p \in LayerSet /\ p.cur = Atoms /\ p.pend = Atoms /\ ~p.byClient /\ ~p.mapped
      /\ p.output = s.output /\ p.asked = s.asked /\ p.exists = s.exists
      /\ p.edge = s.edge /\ p.size = s.size /\ p.rect = s.rect
  BY <1>6, <1>7, NoLayerOK DEF LayerSet
<1>9. [b EXCEPT !.layer[l].cur = Atoms, !.layer[l].pend = Atoms,
                !.layer[l].flags = {}, !.layer[l].initial = TRUE] = c
  <2>1. /\ b = [layer |-> b.layer, zones |-> b.zones, output |-> b.output, keyboard |-> b.keyboard]
        /\ b.layer \in [Layers -> LayerSet]
    BY <1>7, WorldRow
  <2> QED  BY <2>1
<1>10. Unmapped(w, l) = v
  BY <1>3, <1>9
<1> HIDE DEF s, p
<1>11. Touched(b, c, l) /\ c.layer[l] = p /\ c.keyboard = b.keyboard /\ c.output = b.output
  BY <1>5, <1>8, RowStep DEF Touched, s
<1> HIDE DEF c
<1>12. Rezoned(c, d, l) /\ d.layer[l].output = p.output
  <2>1. r.edge \in Edges \cup {None} /\ 0 \in Int
    BY <1>1 DEF LayerSet
  <2> QED  BY <1>8, <1>11, <2>1, SetEdgeAndSizeOK DEF Touched
<1> HIDE DEF d
<1>13. Arranged(d) /\ Touched(c, d, l) /\ d.keyboard = w.keyboard /\ Steady(p, d.layer[l]) /\ ~d.layer[l].mapped
  BY <1>4, <1>5, <1>8, <1>11, <1>12, RezonedTouched DEF Rezoned
<1>14. Touched(w, d, l)
  BY <1>4, <1>5, <1>11, <1>13, TouchedTrans
<1>15. d.layer[l].output = r.output /\ d.layer[l].asked = r.asked /\ d.layer[l].exists = r.exists
  BY <1>2, <1>5, <1>8, <1>12, <1>13 DEF Steady
<1>16. Live(d, r.output) /\ Live(d, r.asked)
  <2>1. r.output \in Outputs \cup {None}
    BY WorldRow DEF Arranged
  <2> QED  BY <1>1, <1>14, <2>1, LiveSame DEF RowBase, Touched
<1>17. RowBase(d, l)
  BY <1>8, <1>13, <1>15, <1>16 DEF RowBase, Steady
<1>18. /\ Touched(d, v, l) /\ v.keyboard = d.keyboard /\ Steady(d.layer[l], v.layer[l]) /\ RowOK(v, l)
  BY <1>1, <1>13, <1>16, <1>17, SetExclusiveOutputOK
<1> HIDE DEF v
<1>19. Touched(w, v, l)
  BY <1>14, <1>18, TouchedTrans
<1>20. v.layer[l].exists = r.exists /\ ~v.layer[l].mapped
  BY <1>8, <1>13, <1>15, <1>18 DEF Steady, RowOK, Mapping
<1> QED  BY <1>10, <1>13, <1>18, <1>19, <1>20

LEMMA SingleEdgeOK ==
  ASSUME NEW a \in AtomSet
  PROVE  SingleEdge(a) \in Edges \cup {None} /\ ZoneSize(a) \in Int
<1>1. a.edge \in Edges \cup {None} /\ a.zone \in Int /\ a.anchor \in SUBSET Edges
  BY DEF AtomSet, Fields, Legal
<1>2. ZoneSize(a) \in Int
  BY <1>1 DEF ZoneSize
<1> DEFINE opposite(e) == CASE e = "left" -> "right" [] e = "right" -> "left"
                            [] e = "top" -> "bottom" [] e = "bottom" -> "top"
           single == {e \in Edges : a.anchor \in {{e}, Edges \ {opposite(e)}}}
           corner == \E h \in {"left", "right"}, v \in {"top", "bottom"} : a.anchor = {h, v}
           c == CHOOSE v \in {"top", "bottom"} : v \in a.anchor
           d == CHOOSE e \in single : TRUE
<1>3. corner => c \in Edges
  <2>1. corner => \E v \in {"top", "bottom"} : v \in a.anchor
    OBVIOUS
  <2>2. corner => c \in {"top", "bottom"}
    BY <2>1
  <2> QED  BY <2>2 DEF Edges
<1>4. single # {} => d \in Edges
  OBVIOUS
<1>5. SingleEdge(a) = IF corner THEN IF a.edge # None THEN a.edge ELSE c
                      ELSE IF single = {} THEN None ELSE d
  BY DEF SingleEdge
<1> HIDE DEF corner, single, c, d
<1> QED  BY <1>1, <1>2, <1>3, <1>4, <1>5

LEMMA AppliedOK ==
  ASSUME NEW w, Arranged(w), NEW l \in Layers, RowOK(w, l), w.layer[l].exists,
         KeyboardOK(w.keyboard, Present(w))
  PROVE  LET v == Applied(w, l) IN
         /\ Touched(w, v, l) /\ RowOK(v, l) /\ KeyboardOK(v.keyboard, Present(v))
         /\ v.layer[l].exists /\ v.layer[l].byClient = w.layer[l].byClient
         /\ v.layer[l].initial = w.layer[l].initial /\ v.layer[l].hasBuffer = w.layer[l].hasBuffer
         /\ v.layer[l].mapped = w.layer[l].mapped /\ Tells(w.layer[l], v.layer[l])
<1> DEFINE r == w.layer[l]
           changes == r.flags
           q == [r EXCEPT !.flags = {}, !.cur = r.pend, !.pend = r.cur]
           a == [w EXCEPT !.layer[l].flags = {}, !.layer[l].cur = r.pend, !.layer[l].pend = r.cur]
           b == IF changes \cap {"anchor", "edge", "zone"} = {} THEN a
                ELSE SetEdgeAndSize(a, l, SingleEdge(r.pend), ZoneSize(r.pend))
           c == IF "keyboard" \in changes THEN AtomsChanged(b, l) ELSE b
           s == c.layer[l]
           g == [f \in Fields |-> IF f \in changes THEN s.cur[f] ELSE s.pend[f]]
           p == [s EXCEPT !.pend = g]
           v == [c EXCEPT !.layer[l] = p]
<1>1. w \in WorldSet /\ r \in LayerSet /\ r.pend \in AtomSet /\ r.cur \in AtomSet /\ r.flags \in SUBSET Fields
  BY WorldRow DEF Arranged, LayerSet
<1>2. /\ q \in LayerSet /\ q.flags = {} /\ q.cur = r.pend /\ q.pend = r.cur
      /\ q.output = r.output /\ q.asked = r.asked /\ q.exists = r.exists /\ q.initial = r.initial
      /\ q.byClient = r.byClient /\ q.hasBuffer = r.hasBuffer /\ q.mapped = r.mapped
      /\ q.edge = r.edge /\ q.size = r.size /\ q.rect = r.rect /\ q.told = r.told
  BY <1>1 DEF LayerSet
<1>3. Applied(w, l) = v
  BY DEF Applied, Synced
<1>4. Touched(w, a, l) /\ a.layer[l] = q /\ a.keyboard = w.keyboard /\ a.output = w.output
  <2>1. a = [w EXCEPT !.layer[l] = q]
    <3>1. /\ w = [layer |-> w.layer, zones |-> w.zones, output |-> w.output, keyboard |-> w.keyboard]
          /\ w.layer \in [Layers -> LayerSet]
      BY <1>1, WorldRow
    <3> QED  BY <3>1
  <2> HIDE DEF q, a
  <2>2. LET x == [w EXCEPT !.layer[l] = q] IN
        Touched(w, x, l) /\ x.layer[l] = q /\ x.keyboard = w.keyboard /\ x.output = w.output
    BY <1>2, RowStep
  <2> QED  BY <2>1, <2>2
<1> HIDE DEF q
<1> HIDE DEF a
<1>5. r.mapped => r.output # None
  BY DEF RowOK, Mapping
<1>6. Rezoned(a, b, l) /\ b.layer[l].output = q.output
  <2>1. CASE changes \cap {"anchor", "edge", "zone"} = {}
    <3>1. b = a
      BY <2>1
    <3> HIDE DEF b
    <3> QED  BY <1>4, <3>1, SameRezoned DEF Touched
  <2>2. CASE changes \cap {"anchor", "edge", "zone"} # {}
    <3>1. b = SetEdgeAndSize(a, l, SingleEdge(r.pend), ZoneSize(r.pend))
      BY <2>2
    <3>2. SingleEdge(r.pend) \in Edges \cup {None} /\ ZoneSize(r.pend) \in Int
      BY <1>1, SingleEdgeOK
    <3> HIDE DEF b
    <3> QED  BY <1>2, <1>4, <1>5, <3>1, <3>2, SetEdgeAndSizeOK DEF Touched
  <2> QED  BY <2>1, <2>2
<1> HIDE DEF b
<1>7. /\ Touched(w, b, l) /\ Arranged(b) /\ b.keyboard = w.keyboard
      /\ Steady(q, b.layer[l]) /\ Tells(q, b.layer[l]) /\ b.layer[l].mapped = q.mapped
  <2>1. Touched(a, b, l)
    BY <1>6, RezonedTouched
  <2> QED  BY <1>4, <1>6, <2>1, TouchedTrans DEF Rezoned
<1>8. b.layer[l].exists /\ Present(b) = Present(w)
  BY <1>2, <1>7, PresentSame DEF Steady
<1>9. /\ Touched(w, c, l) /\ s = b.layer[l] /\ KeyboardOK(c.keyboard, Present(c))
  <2>1. CASE "keyboard" \in changes
    <3>1. c = AtomsChanged(b, l)
      BY <2>1
    <3> HIDE DEF c
    <3>2. Touched(b, c, l) /\ c.layer = b.layer /\ KeyboardOK(c.keyboard, Present(c))
      BY <1>7, <1>8, <3>1, AtomsChangedOK
    <3>3. Touched(w, c, l)
      BY <1>7, <3>2, TouchedTrans
    <3> QED  BY <3>2, <3>3
  <2>2. CASE "keyboard" \notin changes
    <3>1. c = b
      BY <2>2
    <3> HIDE DEF c
    <3> QED  BY <1>7, <1>8, <3>1
  <2> QED  BY <2>1, <2>2
<1> HIDE DEF c
<1>10. c \in WorldSet /\ s \in LayerSet /\ s.cur = r.pend /\ s.pend = r.cur /\ s.flags = {}
  BY <1>2, <1>7, <1>9, WorldRow DEF Touched, Arranged, Steady
<1>11. s.output = r.output /\ s.asked = r.asked /\ s.exists = r.exists /\ s.initial = r.initial
       /\ s.byClient = r.byClient /\ s.hasBuffer = r.hasBuffer /\ s.mapped = r.mapped /\ Tells(r, s)
  BY <1>2, <1>6, <1>7, <1>9 DEF Steady, Tells
<1>12. g = r.pend
  <2>1. \A f \in Fields : g[f] = r.pend[f]
    BY <1>10 DEF RowOK, RowBase
  <2>2. r.pend = [f \in Fields |-> r.pend[f]]
    BY <1>1 DEF AtomSet
  <2>3. g = [f \in Fields |-> g[f]]
    OBVIOUS
  <2> HIDE DEF g
  <2> QED  BY <2>1, <2>2, <2>3
<1> HIDE DEF g, s
<1>13. /\ p \in LayerSet /\ p.pend = g /\ p.cur = s.cur /\ p.flags = s.flags
       /\ p.output = s.output /\ p.asked = s.asked /\ p.exists = s.exists /\ p.initial = s.initial
       /\ p.byClient = s.byClient /\ p.hasBuffer = s.hasBuffer /\ p.mapped = s.mapped
       /\ p.edge = s.edge /\ p.size = s.size /\ p.rect = s.rect /\ p.told = s.told
  BY <1>1, <1>10, <1>12 DEF LayerSet
<1> HIDE DEF p
<1>14. Touched(c, v, l) /\ v.layer[l] = p /\ v.keyboard = c.keyboard
  BY <1>9, <1>13, RowStep DEF Touched, s
<1> HIDE DEF v
<1>15. Touched(w, v, l)
  BY <1>9, <1>14, TouchedTrans
<1>16. Present(v) = Present(c)
  BY <1>13, <1>14, PresentSame DEF s
<1>17. RowOK(v, l)
  <2>1. SameOutputs(w, v) /\ r.output \in Outputs \cup {None} /\ r.asked \in Outputs \cup {None}
    BY <1>1, <1>15, WorldRow DEF Touched
  <2>2. Live(v, r.output) /\ Live(v, r.asked)
    BY <2>1, LiveSame DEF RowOK, RowBase
  <2>3. \A f \in Fields : p.cur[f] = p.pend[f]
    BY <1>10, <1>12, <1>13
  <2>4. p.byClient => p.exists /\ ~p.initial
    BY <1>11, <1>13 DEF RowOK, RowBase
  <2>5. RowBase(v, l)
    BY <1>11, <1>13, <1>14, <2>2, <2>3, <2>4 DEF RowBase
  <2>6. v.layer[l].mapped => Mapping(v, l)
    BY <1>11, <1>13, <1>14, <2>1 DEF RowOK, Mapping, SameOutputs
  <2> QED  BY <2>5, <2>6 DEF RowOK
<1> QED  BY <1>3, <1>9, <1>11, <1>13, <1>14, <1>15, <1>16, <1>17 DEF Tells

-----------------------------------------------------------------------------
(* The invariant, and what every step does besides. *)

Sound(w) ==
  /\ Arranged(w)
  /\ \A l \in Layers : RowOK(w, l)
  /\ KeyboardOK(w.keyboard, Present(w))

(* A surface that stays mapped knows its rect. *)
Knows(r, q) == r.mapped /\ q.mapped /\ q.rect # r.rect => q.told

Sent(w, v) == \A l \in Layers : Knows(w.layer[l], v.layer[l])

LEMMA TouchedSound ==
  ASSUME NEW w, Sound(w), NEW l \in Layers, NEW v, Touched(w, v, l), RowOK(v, l),
         KeyboardOK(v.keyboard, Present(v)), Knows(w.layer[l], v.layer[l])
  PROVE  Sound(v) /\ Sent(w, v)
<1>1. w \in WorldSet /\ v \in WorldSet /\ SameOutputs(w, v) /\ Arranged(v)
  BY DEF Sound, Touched, Arranged
<1>2. ASSUME NEW k \in Layers \ {l} PROVE RowOK(v, k) /\ Knows(w.layer[k], v.layer[k])
  <2>1. RowOK(w, k) /\ Moved(w.layer[k], v.layer[k])
    BY DEF Sound, Touched
  <2>2. RowOK(v, k)
    BY <1>1, <2>1, OthersOK
  <2>3. w.layer[k].mapped => w.layer[k].hasBuffer
    BY <2>1 DEF RowOK, Mapping
  <2> QED  BY <2>1, <2>2, <2>3 DEF Moved, Tells, Knows
<1> QED  BY <1>1, <1>2 DEF Sound, Sent

LEMMA MovedSound ==
  ASSUME NEW w, Sound(w), NEW v, Arranged(v), SameOutputs(w, v),
         \A l \in Layers : Moved(w.layer[l], v.layer[l]), v.keyboard = w.keyboard
  PROVE  Sound(v) /\ Sent(w, v)
<1>1. w \in WorldSet /\ v \in WorldSet
  BY DEF Sound, Arranged
<1>2. ASSUME NEW k \in Layers PROVE RowOK(v, k) /\ Knows(w.layer[k], v.layer[k])
  <2>1. RowOK(w, k) /\ Moved(w.layer[k], v.layer[k])
    BY DEF Sound
  <2>2. RowOK(v, k)
    BY <1>1, <2>1, OthersOK
  <2>3. w.layer[k].mapped => w.layer[k].hasBuffer
    BY <2>1 DEF RowOK, Mapping
  <2> QED  BY <2>1, <2>2, <2>3 DEF Moved, Tells, Knows
<1>3. Present(v) = Present(w)
  BY DEF Present, Moved, Steady
<1> QED  BY <1>2, <1>3 DEF Sound, Sent

LEMMA WorldIs ==
  /\ World.layer = layer /\ World.zones = zones /\ World.output = output /\ World.keyboard = keyboard
  /\ World'.layer = layer' /\ World'.zones = zones' /\ World'.output = output'
  /\ World'.keyboard = keyboard'
BY DEF World

LEMMA BecomeIs ==
  ASSUME NEW v \in WorldSet, Become(v)
  PROVE  World' = v
BY DEF Become, World, WorldSet

(* Every step is of one of two kinds: it becomes a value, or sets the variables. *)
LEMMA SetIs ==
  ASSUME NEW v \in WorldSet, layer' = v.layer, zones' = v.zones, output' = v.output, keyboard' = v.keyboard
  PROVE  World' = v
BY DEF World, WorldSet

LEMMA CommitLayerOK ==
  ASSUME Sound(World), NEW l \in Layers, NEW hasBuffer \in BOOLEAN, NEW o \in CursorOutputs,
         CommitLayer(l, hasBuffer, o)
  PROVE  Sound(World') /\ Sent(World, World')
<1> DEFINE r0 == World.layer[l]
           q == [r0 EXCEPT !.hasBuffer = hasBuffer]
           w == [World EXCEPT !.layer[l].hasBuffer = hasBuffer]
           r == w.layer[l]
           applied == Applied(w, l)
           s == applied.layer[l]
           client == [applied EXCEPT !.layer[l].byClient = TRUE]
           mapping == IF r.byClient THEN applied
                      ELSE IF hasBuffer
                           THEN UpdateMappingState([applied EXCEPT !.layer[l].byClient = TRUE], l)
                           ELSE [applied EXCEPT !.layer[l].initial = FALSE]
           needsConfigure == "size" \in r.flags \/ (~r.byClient /\ ~hasBuffer)
<1>1. /\ LayerExists(l)
      /\ IF r.byClient /\ ~hasBuffer THEN Become(Unmapped(w, l))
         ELSE IF Refused(r) THEN Become(Destroyed(w, l))
         ELSE IF needsConfigure THEN Become(ConfigureRequest(mapping, l, o))
         ELSE Become(mapping)
  BY DEF CommitLayer
<1>2. /\ World \in WorldSet /\ Arranged(World) /\ r0 \in LayerSet /\ RowOK(World, l)
      /\ KeyboardOK(World.keyboard, Present(World)) /\ r0.exists
  BY <1>1, WorldRow, WorldIs DEF Sound, Arranged, LayerExists
<1>3. o \in Outputs \cup {None} /\ Live(World, o)
  BY WorldIs DEF CursorOutputs, On, Live
<1> HIDE DEF r0
<1>4. /\ q \in LayerSet /\ q.hasBuffer = hasBuffer
      /\ q.exists = r0.exists /\ q.initial = r0.initial /\ q.byClient = r0.byClient /\ q.flags = r0.flags
      /\ q.cur = r0.cur /\ q.pend = r0.pend /\ q.asked = r0.asked
      /\ q.output = r0.output /\ q.mapped = r0.mapped
      /\ q.edge = r0.edge /\ q.size = r0.size /\ q.rect = r0.rect /\ q.told = r0.told
  BY <1>2 DEF LayerSet
<1>5. w = [World EXCEPT !.layer[l] = q]
  BY DEF r0
<1> HIDE DEF w, q
<1>6. Touched(World, w, l) /\ w.layer[l] = q /\ w.keyboard = World.keyboard /\ w.output = World.output
  <2>1. q.output = World.layer[l].output /\ q.edge = World.layer[l].edge /\ q.size = World.layer[l].size
        /\ q.rect = World.layer[l].rect
    BY <1>4 DEF r0
  <2> QED  BY <1>2, <1>4, <1>5, <2>1, RowStep
<1>7. Arranged(w) /\ Present(w) = Present(World) /\ KeyboardOK(w.keyboard, Present(w))
  BY <1>2, <1>4, <1>6, PresentSame DEF Touched, r0
<1>8. RowBase(w, l)
  BY <1>2, <1>4, <1>6 DEF RowOK, RowBase, Live, r0
<1>9. r.byClient = r0.byClient /\ r.exists /\ r.hasBuffer = hasBuffer
  BY <1>2, <1>4, <1>6
<1>10. CASE r.byClient /\ ~hasBuffer
  <2> DEFINE v == Unmapped(w, l)
  <2>1. /\ Touched(w, v, l) /\ RowOK(v, l) /\ v.keyboard = w.keyboard
        /\ v.layer[l].exists = w.layer[l].exists /\ ~v.layer[l].mapped
    BY <1>7, <1>8, UnmappedOK
  <2>2. Become(v)
    BY <1>1, <1>10
  <2> HIDE DEF v
  <2>3. Touched(World, v, l) /\ Present(v) = Present(w)
    BY <1>6, <2>1, TouchedTrans, PresentSame
  <2>4. World' = v
    BY <2>2, <2>3, BecomeIs DEF Touched, Arranged
  <2>5. Knows(World.layer[l], v.layer[l])
    BY <2>1 DEF Knows
  <2>6. Sound(v) /\ Sent(World, v)
    BY <1>7, <2>1, <2>3, <2>5, TouchedSound
  <2> QED  BY <2>4, <2>6
<1>11. CASE ~(r.byClient /\ ~hasBuffer) /\ Refused(r)
  <2> DEFINE v == Destroyed(w, l)
  <2>1. Touched(w, v, l) /\ v.layer[l] = NoLayer /\ RowOK(v, l) /\ KeyboardOK(v.keyboard, Present(v))
    BY <1>7, DestroyedOK
  <2>2. Become(v)
    BY <1>1, <1>11
  <2> HIDE DEF v
  <2>3. Touched(World, v, l)
    BY <1>6, <2>1, TouchedTrans
  <2>4. World' = v
    BY <2>2, <2>3, BecomeIs DEF Touched, Arranged
  <2>5. Knows(World.layer[l], v.layer[l])
    BY <2>1 DEF Knows, NoLayer
  <2>6. Sound(v) /\ Sent(World, v)
    BY <2>1, <2>3, <2>5, TouchedSound
  <2> QED  BY <2>4, <2>6
<1>12. CASE ~(r.byClient /\ ~hasBuffer) /\ ~Refused(r)
  <2>1. r.mapped => Mapping(w, l)
    <3>1. r.mapped => r0.mapped
      BY <1>4, <1>6
    <3>2. r0.mapped => Mapping(World, l)
      BY <1>2 DEF RowOK, r0
    <3> QED  BY <1>4, <1>6, <1>9, <1>12, <3>1, <3>2 DEF Mapping, r0
  <2>2. RowOK(w, l)
    BY <1>8, <2>1 DEF RowOK
  <2>3. /\ Touched(w, applied, l) /\ RowOK(applied, l) /\ KeyboardOK(applied.keyboard, Present(applied))
        /\ s.exists /\ s.byClient = r.byClient /\ s.initial = r.initial /\ s.hasBuffer = r.hasBuffer
        /\ s.mapped = r.mapped /\ Tells(r, s)
    BY <1>7, <1>9, <2>2, AppliedOK
  <2> HIDE DEF applied
  <2>4. Arranged(applied) /\ applied \in WorldSet /\ s \in LayerSet
    BY <2>3, WorldRow DEF Touched, Arranged
  <2>5. Knows(r, s)
    BY <2>1, <2>3 DEF Tells, Knows, Mapping
  <2>6. /\ Touched(applied, mapping, l) /\ RowOK(mapping, l) /\ mapping.keyboard = applied.keyboard
        /\ mapping.layer[l].exists = s.exists
        /\ mapping.layer[l].rect = s.rect /\ mapping.layer[l].told = s.told
    <3>1. CASE r.byClient
      <4>1. mapping = applied
        BY <3>1
      <4>2. Touched(applied, applied, l)
        BY <2>4, SameRezoned, RezonedTouched
      <4> QED  BY <2>3, <4>1, <4>2
    <3>2. CASE ~r.byClient /\ hasBuffer
      <4> DEFINE p == [s EXCEPT !.byClient = TRUE]
                 m == UpdateMappingState(client, l)
      <4>1. /\ p \in LayerSet /\ p.byClient /\ p.output = s.output /\ p.asked = s.asked /\ p.exists = s.exists
            /\ p.initial = s.initial /\ p.flags = s.flags /\ p.cur = s.cur /\ p.pend = s.pend
            /\ p.edge = s.edge /\ p.size = s.size /\ p.rect = s.rect /\ p.told = s.told
        BY <2>4 DEF LayerSet
      <4>2. client = [applied EXCEPT !.layer[l] = p]
        OBVIOUS
      <4> HIDE DEF p, client
      <4>3. /\ Touched(applied, client, l) /\ client.layer[l] = p /\ client.keyboard = applied.keyboard
            /\ client.output = applied.output
        BY <2>4, <4>1, <4>2, RowStep
      <4>4. ~s.initial
        BY <1>9, <1>12, <2>3, <3>2 DEF Refused
      <4>5. RowBase(client, l)
        BY <2>3, <4>1, <4>3, <4>4 DEF RowOK, RowBase, Live
      <4>6. /\ Touched(client, m, l) /\ m.keyboard = client.keyboard /\ Steady(p, m.layer[l])
            /\ m.layer[l].rect = p.rect /\ m.layer[l].told = p.told /\ RowOK(m, l)
        BY <4>3, <4>5, UpdateMappingOK DEF Touched
      <4>7. mapping = m
        BY <3>2 DEF client
      <4> HIDE DEF m, mapping
      <4>8. Touched(applied, m, l)
        BY <4>3, <4>6, TouchedTrans
      <4> QED  BY <4>1, <4>3, <4>6, <4>7, <4>8 DEF Steady
    <3>3. CASE ~r.byClient /\ ~hasBuffer
      <4> DEFINE p == [s EXCEPT !.initial = FALSE]
                 m == [applied EXCEPT !.layer[l] = p]
      <4>1. /\ p \in LayerSet /\ ~p.initial /\ p.output = s.output /\ p.asked = s.asked /\ p.exists = s.exists
            /\ p.byClient = s.byClient /\ p.flags = s.flags /\ p.cur = s.cur /\ p.pend = s.pend
            /\ p.edge = s.edge /\ p.size = s.size /\ p.rect = s.rect /\ p.told = s.told
            /\ p.mapped = s.mapped /\ p.hasBuffer = s.hasBuffer
        BY <2>4 DEF LayerSet
      <4>2. mapping = m
        BY <3>3
      <4> HIDE DEF p, mapping
      <4>3. /\ Touched(applied, m, l) /\ m.layer[l] = p /\ m.keyboard = applied.keyboard
            /\ m.output = applied.output
        BY <2>4, <4>1, RowStep
      <4> HIDE DEF m
      <4>4. RowOK(m, l)
        BY <2>3, <4>1, <4>3 DEF RowOK, RowBase, Live, Mapping
      <4> QED  BY <2>3, <4>1, <4>2, <4>3, <4>4
    <3> QED  BY <3>1, <3>2, <3>3
  <2> HIDE DEF mapping
  <2>7. Touched(World, applied, l) /\ Touched(World, mapping, l)
    BY <1>6, <2>3, <2>6, TouchedTrans
  <2>8. KeyboardOK(mapping.keyboard, Present(mapping))
    BY <2>3, <2>6, PresentSame
  <2>9. Knows(r0, mapping.layer[l])
    <3>1. r0.mapped = r.mapped /\ r0.rect = r.rect /\ r0.told = r.told
      BY <1>4, <1>6
    <3> QED  BY <2>3, <2>5, <2>6, <3>1 DEF Knows
  <2>10. CASE ~needsConfigure
    <3>1. Become(mapping)
      BY <1>1, <1>12, <2>10
    <3>2. World' = mapping
      BY <2>7, <3>1, BecomeIs DEF Touched, Arranged
    <3>3. Sound(mapping) /\ Sent(World, mapping)
      BY <2>6, <2>7, <2>8, <2>9, TouchedSound DEF r0
    <3> QED  BY <3>2, <3>3
  <2>11. CASE needsConfigure
    <3> DEFINE v == ConfigureRequest(mapping, l, o)
    <3>1. Become(v)
      BY <1>1, <1>12, <2>11
    <3>2. Live(mapping, o)
      BY <1>3, <2>7, LiveSame DEF Touched
    <3>3. /\ Touched(mapping, v, l) /\ v.keyboard = mapping.keyboard
          /\ Steady(mapping.layer[l], v.layer[l]) /\ RowOK(v, l) /\ v.layer[l].told
      BY <1>3, <2>6, <2>7, <3>2, ConfigureRequestOK DEF Touched
    <3> HIDE DEF v
    <3>4. Touched(World, v, l) /\ Present(v) = Present(mapping)
      BY <2>7, <3>3, TouchedTrans, PresentSame DEF Steady
    <3>5. World' = v
      BY <3>1, <3>4, BecomeIs DEF Touched, Arranged
    <3>6. Sound(v) /\ Sent(World, v)
      BY <2>8, <3>3, <3>4, TouchedSound DEF Knows
    <3> QED  BY <3>5, <3>6
  <2> QED  BY <2>10, <2>11
<1> QED  BY <1>10, <1>11, <1>12

-----------------------------------------------------------------------------
(* The other steps. *)

LEMMA GetLayerSurfaceOK ==
  ASSUME Sound(World), NEW l \in Layers, NEW o \in On \cup {None}, GetLayerSurface(l, o)
  PROVE  Sound(World') /\ Sent(World, World')
<1> DEFINE r == World.layer[l]
           q == [r EXCEPT !.exists = TRUE, !.asked = o]
           w == [World EXCEPT !.layer[l].exists = TRUE, !.layer[l].asked = o]
           v == SetExclusiveOutput(w, l, o)
<1>1. /\ World \in WorldSet /\ Arranged(World) /\ r \in LayerSet /\ RowOK(World, l)
      /\ KeyboardOK(World.keyboard, Present(World)) /\ ~r.exists /\ Become(v)
  BY WorldRow, WorldIs DEF Sound, Arranged, LayerExists, GetLayerSurface
<1>2. o \in Outputs \cup {None} /\ Live(World, o)
  BY WorldIs DEF On, Live
<1>3. w = [World EXCEPT !.layer[l] = q]
  <2>1. /\ World = [layer |-> World.layer, zones |-> World.zones, output |-> World.output,
                    keyboard |-> World.keyboard]
        /\ World.layer \in [Layers -> LayerSet]
    BY <1>1, WorldRow
  <2> QED  BY <2>1
<1>4. /\ q \in LayerSet /\ q.exists /\ q.asked = o /\ q.initial = r.initial /\ q.byClient = r.byClient
      /\ q.flags = r.flags /\ q.cur = r.cur /\ q.pend = r.pend /\ q.output = r.output /\ q.mapped = r.mapped
      /\ q.edge = r.edge /\ q.size = r.size /\ q.rect = r.rect
  BY <1>1, <1>2 DEF LayerSet
<1> HIDE DEF w, q, v
<1>5. Touched(World, w, l) /\ w.layer[l] = q /\ w.keyboard = World.keyboard /\ w.output = World.output
  BY <1>1, <1>3, <1>4, RowStep
<1>6. ~r.byClient /\ ~r.mapped
  BY <1>1 DEF RowOK, RowBase, Mapping
<1>7. RowBase(w, l) /\ Live(w, o)
  BY <1>1, <1>2, <1>4, <1>5, <1>6 DEF RowOK, RowBase, Live
<1>8. /\ Touched(w, v, l) /\ v.keyboard = w.keyboard /\ Steady(w.layer[l], v.layer[l]) /\ RowOK(v, l)
  BY <1>2, <1>4, <1>5, <1>6, <1>7, SetExclusiveOutputOK DEF Touched, v
<1>9. Touched(World, v, l)
  BY <1>5, <1>8, TouchedTrans
<1>10. World' = v
  BY <1>1, <1>9, BecomeIs DEF Touched, Arranged
<1>11. KeyboardOK(v.keyboard, Present(v))
  <2>1. v.layer[l].exists /\ \A k \in Layers \ {l} : v.layer[k].exists = World.layer[k].exists
    BY <1>4, <1>5, <1>8, <1>9 DEF Steady, Touched, Moved
  <2>2. Present(World) \subseteq Present(v)
    BY <2>1 DEF Present
  <2> QED  BY <1>1, <1>5, <1>8, <2>2 DEF KeyboardOK
<1>12. Knows(World.layer[l], v.layer[l])
  BY <1>6 DEF Knows
<1>13. Sound(v) /\ Sent(World, v)
  BY <1>8, <1>9, <1>11, <1>12, TouchedSound
<1> QED  BY <1>10, <1>13

LEMMA SetOK ==
  ASSUME Sound(World), NEW l \in Layers, NEW f \in Values[l], Set(l, f)
  PROVE  Sound(World') /\ Sent(World, World')
<1> DEFINE r == World.layer[l]
           g == [i \in Fields |-> IF i \in DOMAIN f THEN f[i] ELSE r.pend[i]]
           q == [r EXCEPT !.pend = g, !.flags = @ \cup DOMAIN f]
           v == [World EXCEPT !.layer[l] = q]
<1>1. /\ World \in WorldSet /\ Arranged(World) /\ r \in LayerSet /\ RowOK(World, l)
      /\ KeyboardOK(World.keyboard, Present(World)) /\ World.layer \in [Layers -> LayerSet]
  BY WorldRow DEF Sound, Arranged
<1>2. g \in AtomSet /\ DOMAIN f \subseteq Fields
  <2>1. DOMAIN f \subseteq Fields /\ \A i \in DOMAIN f : f[i] \in Legal(i)
    BY LayerShellAssumption
  <2>2. \A i \in Fields : r.pend[i] \in Legal(i)
    BY <1>1 DEF LayerSet, AtomSet
  <2>3. \A i \in Fields : g[i] \in Legal(i)
    BY <2>1, <2>2
  <2> HIDE DEF r
  <2>4. g \in [Fields -> UNION {Legal(i) : i \in Fields}]
    BY <2>3
  <2> QED  BY <2>1, <2>3, <2>4 DEF AtomSet
<1>3. layer' = [layer EXCEPT ![l] = q]
  BY WorldIs DEF Set
<1> HIDE DEF g
<1>4. /\ q \in LayerSet /\ q.pend = g /\ q.flags = r.flags \cup DOMAIN f
      /\ q.exists = r.exists /\ q.asked = r.asked /\ q.initial = r.initial /\ q.byClient = r.byClient
      /\ q.hasBuffer = r.hasBuffer /\ q.cur = r.cur /\ q.output = r.output /\ q.mapped = r.mapped
      /\ q.edge = r.edge /\ q.size = r.size /\ q.rect = r.rect
  BY <1>1, <1>2 DEF LayerSet
<1> HIDE DEF q
<1>5. Touched(World, v, l) /\ v.layer[l] = q /\ v.keyboard = World.keyboard /\ v.output = World.output
  BY <1>1, <1>4, RowStep
<1>6. World' = v
  BY <1>3, WorldIs DEF World, Set
<1> HIDE DEF v
<1>7. RowOK(v, l)
  <2>1. \A i \in Fields \ q.flags : q.cur[i] = q.pend[i]
    BY <1>1, <1>4 DEF RowOK, RowBase, g
  <2> QED  BY <1>1, <1>4, <1>5, <2>1 DEF RowOK, RowBase, Live, Mapping
<1>8. Present(v) = Present(World)
  BY <1>4, <1>5, PresentSame
<1>9. Knows(r, v.layer[l])
  BY <1>4, <1>5 DEF Knows
<1>10. Sound(v) /\ Sent(World, v)
  BY <1>1, <1>5, <1>7, <1>8, <1>9, TouchedSound
<1> QED  BY <1>6, <1>10

LEMMA DestroyLayerOK ==
  ASSUME Sound(World), NEW l \in Layers, DestroyLayer(l)
  PROVE  Sound(World') /\ Sent(World, World')
<1> DEFINE v == Destroyed(World, l)
<1>1. Touched(World, v, l) /\ v.layer[l] = NoLayer /\ RowOK(v, l) /\ KeyboardOK(v.keyboard, Present(v))
  BY DestroyedOK DEF Sound
<1>2. Become(v)
  BY DEF DestroyLayer
<1> HIDE DEF v
<1>3. World' = v
  BY <1>1, <1>2, BecomeIs DEF Touched, Arranged
<1>4. Knows(World.layer[l], v.layer[l])
  BY <1>1 DEF Knows, NoLayer
<1>5. Sound(v) /\ Sent(World, v)
  BY <1>1, <1>4, TouchedSound
<1> QED  BY <1>3, <1>5

(* Another order of a list, or another size, and updateExclusiveZones(). *)
LEMMA RearrangedOK ==
  ASSUME NEW w, Sound(w), NEW o \in Outputs, NEW u \in WorldSet, ListsOK(u),
         u.layer = w.layer, u.keyboard = w.keyboard,
         \A p \in Outputs : u.output[p].state = w.output[p].state,
         \A p \in Outputs \ {o} : u.zones[p] = w.zones[p] /\ u.output[p] = w.output[p]
  PROVE  LET v == UpdateExclusiveZones(u, o) IN
         v \in WorldSet /\ Sound(v) /\ Sent(w, v)
<1> DEFINE v == UpdateExclusiveZones(u, o)
<1>1. /\ v \in WorldSet /\ v.zones = u.zones /\ v.keyboard = u.keyboard /\ SameOutputs(u, v)
      /\ \A k \in Layers : Moved(u.layer[k], v.layer[k])
      /\ FreshAt(v, o)
      /\ \A p \in Outputs \ {o} : FreshAt(u, p) => FreshAt(v, p)
  BY ListsAreApart, UpdateZonesOK
<1> HIDE DEF v
<1>2. ListsOK(v)
  BY <1>1, SameLists DEF Moved
<1>3. \A p \in Outputs \ {o} : FreshAt(w, p) => FreshAt(v, p)
  <2>1. \A p \in Outputs \ {o} : FreshAt(w, p) => FreshAt(u, p)
    BY DEF FreshAt
  <2> QED  BY <1>1, <2>1
<1>4. Fresh(v)
  <2>1. \A p \in Outputs : v.output[p].state = w.output[p].state
    BY <1>1 DEF SameOutputs
  <2>2. Fresh(w)
    BY DEF Sound, Arranged
  <2> QED  BY <1>1, <1>3, <2>1, <2>2 DEF Fresh
<1>5. ASSUME NEW k \in Layers PROVE RowOK(v, k) /\ Knows(w.layer[k], v.layer[k])
  <2>1. RowOK(w, k) /\ Moved(w.layer[k], v.layer[k])
    BY <1>1 DEF Sound
  <2>2. w.layer[k].output \in Outputs \cup {None} /\ w.layer[k].asked \in Outputs \cup {None}
    BY WorldRow DEF Sound, Arranged
  <2>3. \A p \in Outputs : v.output[p].state = w.output[p].state
    BY <1>1 DEF SameOutputs
  <2>4. RowOK(v, k)
    BY <2>1, <2>2, <2>3 DEF RowOK, RowBase, Live, Mapping, Moved, Steady
  <2>5. w.layer[k].mapped => w.layer[k].hasBuffer
    BY <2>1 DEF RowOK, Mapping
  <2> QED  BY <2>1, <2>4, <2>5 DEF Moved, Tells, Knows
<1>6. Present(v) = Present(w)
  BY <1>1 DEF Present, Moved, Steady
<1>7. Sound(v) /\ Sent(w, v)
  BY <1>1, <1>2, <1>4, <1>5, <1>6 DEF Sound, Arranged, Sent
<1> QED  BY <1>1, <1>7 DEF v

LEMMA InsertAfterOK ==
  ASSUME Sound(World), NEW l \in Layers, NEW after \in Layers \cup {None}, InsertAfter(l, after)
  PROVE  Sound(World') /\ Sent(World, World')
<1> DEFINE o == World.layer[l].output
           S == ZonesOn(World.layer, o)
           others == Erased(zones[o], l)
           at == IF after = None THEN 0 ELSE Link(others, after)
           list == InsertAt(others, at + 1, l)
           u == [World EXCEPT !.zones[o] = list]
           v == UpdateExclusiveZones(u, o)
<1>1. World \in WorldSet /\ ListsOK(World) /\ o \in Outputs \cup {None}
  BY WorldRow DEF Sound, Arranged
<1>2. /\ o # None /\ after # l /\ (after # None => World.layer[after].output = o) /\ Become(v)
  BY WorldIs DEF InsertAfter
<1>3. o \in Outputs /\ l \in S /\ Lists(zones[o], S) /\ S \subseteq Layers
  BY <1>1, <1>2, WorldIs DEF ListsOK, ZonesOn
<1>4. after # None => after \in S \ {l}
  BY <1>2 DEF ZonesOn
<1> HIDE DEF v, u, o
<1> HIDE DEF S
<1>5. Lists(others, S \ {l})
  BY <1>3, ErasedOK
<1> HIDE DEF others
<1>6. at \in 0..Len(others)
  <2>1. Len(others) \in Nat
    BY <1>5, LenProperties DEF Lists
  <2>2. CASE after = None
    BY <2>1, <2>2
  <2>3. CASE after # None
    <3>1. \E i \in 1..Len(others) : others[i] = after
      BY <1>4, <1>5, <2>3 DEF Lists
    <3>2. at \in 1..Len(others)
      BY <2>3, <3>1 DEF Link
    <3> QED  BY <2>1, <3>2
  <2> QED  BY <2>2, <2>3
<1> HIDE DEF at
<1>7. Lists(list, (S \ {l}) \cup {l})
  <2> DEFINE C == {others[i] : i \in 1..at}
  <2>1. Len(others) \in Nat /\ \A i \in 1..Len(others) : others[i] \in S \ {l}
    BY <1>5, ElementOfSeq, LenProperties DEF Lists
  <2>2. l \notin C
    BY <1>6, <2>1
  <2>3. \A i \in 1..Len(others) : i <= at <=> others[i] \in C
    <3> TAKE i \in 1..Len(others)
    <3>1. \A j \in 1..Len(others) : others[i] = others[j] => i = j
      BY <1>5 DEF Lists
    <3>2. 1..at \subseteq 1..Len(others) /\ (i <= at <=> i \in 1..at)
      BY <1>6, <2>1
    <3> QED  BY <3>1, <3>2
  <2> HIDE DEF C
  <2>4. l \notin S \ {l}
    OBVIOUS
  <2> DEFINE T == S \ {l}
  <2> HIDE DEF T
  <2>5. Lists(others, T) /\ l \notin T
    BY <1>5, <2>4 DEF T
  <2>6. Lists(InsertAt(others, at + 1, l), T \cup {l})
    BY <1>6, <2>2, <2>3, <2>5, InsertedOK
  <2> QED  BY <2>6 DEF T
<1> HIDE DEF list
<1>8. Lists(list, S)
  <2>1. (S \ {l}) \cup {l} = S
    BY <1>3
  <2> QED  BY <1>7, <2>1
<1>9. list \in Seq(Layers)
  BY <1>3, <1>8, SeqMonotonic DEF Lists
<1>10. ListIs(World, u, o, list)
  BY <1>1, <1>3, <1>9, WithList DEF u
<1>11. /\ u \in WorldSet /\ u.layer = World.layer /\ u.output = World.output /\ u.keyboard = World.keyboard
       /\ u.zones[o] = list /\ \A p \in Outputs \ {o} : u.zones[p] = World.zones[p]
  BY <1>10 DEF ListIs
<1>12. ListsOK(u)
  BY <1>1, <1>8, <1>11 DEF ListsOK, S
<1>13. v \in WorldSet /\ Sound(v) /\ Sent(World, v)
  BY <1>3, <1>11, <1>12, RearrangedOK DEF v
<1> QED  BY <1>2, <1>13, BecomeIs

LEMMA WithOutput ==
  ASSUME NEW w \in WorldSet, NEW o \in Outputs, NEW q \in OutputSet
  PROVE  LET v == [w EXCEPT !.output[o] = q] IN
         /\ v \in WorldSet /\ v.layer = w.layer /\ v.zones = w.zones /\ v.keyboard = w.keyboard
         /\ v.output[o] = q /\ \A p \in Outputs \ {o} : v.output[p] = w.output[p]
<1> DEFINE O == [w.output EXCEPT ![o] = q]
           v == [layer |-> w.layer, zones |-> w.zones, output |-> O, keyboard |-> w.keyboard]
<1>1. /\ w = [layer |-> w.layer, zones |-> w.zones, output |-> w.output, keyboard |-> w.keyboard]
      /\ w.output \in [Outputs -> OutputSet]
  BY DEF WorldSet
<1>2. O \in [Outputs -> OutputSet] /\ O[o] = q /\ \A p \in Outputs \ {o} : O[p] = w.output[p]
  BY <1>1
<1>3. [w EXCEPT !.output = O] = v
  <2> HIDE DEF O
  <2> QED  BY <1>1
<1>4. [w EXCEPT !.output[o] = q] = v
  BY <1>3
<1> HIDE DEF O
<1>5. v \in WorldSet
  BY <1>2 DEF WorldSet
<1> QED  BY <1>2, <1>4, <1>5

LEMMA UpdateRectOK ==
  ASSUME Sound(World), NEW o \in Outputs, NEW size \in Sizes, UpdateRect(o, size)
  PROVE  Sound(World') /\ Sent(World, World')
<1> DEFINE q == [World.output[o] EXCEPT !.size = size]
           u == [World EXCEPT !.output[o].size = size]
           v == UpdateExclusiveZones(u, o)
<1>1. World \in WorldSet /\ ListsOK(World) /\ World.output[o] \in OutputSet /\ Become(v)
  BY DEF Sound, Arranged, WorldSet, UpdateRect
<1>2. q \in OutputSet /\ q.state = World.output[o].state
  BY <1>1 DEF OutputSet
<1>3. u = [World EXCEPT !.output[o] = q]
  OBVIOUS
<1> HIDE DEF u, q, v
<1>4. /\ u \in WorldSet /\ u.layer = World.layer /\ u.zones = World.zones /\ u.keyboard = World.keyboard
      /\ u.output[o] = q /\ \A p \in Outputs \ {o} : u.output[p] = World.output[p]
  BY <1>1, <1>2, <1>3, WithOutput
<1>5. ListsOK(u)
  BY <1>1, <1>4, SameLists
<1>6. \A p \in Outputs : u.output[p].state = World.output[p].state
  BY <1>2, <1>4
<1>7. v \in WorldSet /\ Sound(v) /\ Sent(World, v)
  BY <1>4, <1>5, <1>6, RearrangedOK DEF v
<1> QED  BY <1>1, <1>7, BecomeIs

LEMMA PlugOutputOK ==
  ASSUME Sound(World), NEW o \in Outputs, PlugOutput(o)
  PROVE  Sound(World') /\ Sent(World, World')
<1> DEFINE q == [state |-> "off", size |-> Preferred, available |-> Whole(Preferred)]
           v == [World EXCEPT !.output[o] = q]
<1>1. /\ World \in WorldSet /\ Arranged(World) /\ ListsOK(World) /\ World.output[o].state = "gone"
      /\ \A l \in Layers : RowOK(World, l)
  BY WorldIs DEF Sound, Arranged, PlugOutput
<1>2. Preferred \in Sizes
  BY LayerShellAssumption DEF Preferred
<1>3. q \in OutputSet
  <2>1. Preferred[1] \in Int /\ Preferred[2] \in Int
    BY <1>2, LayerShellAssumption
  <2> QED  BY <1>2, <2>1 DEF OutputSet, Whole, Rects
<1>4. World' = v
  BY WorldIs DEF World, PlugOutput
<1> HIDE DEF v
<1>5. /\ v \in WorldSet /\ v.layer = World.layer /\ v.zones = World.zones /\ v.keyboard = World.keyboard
      /\ v.output[o] = q /\ \A p \in Outputs \ {o} : v.output[p] = World.output[p]
  BY <1>1, <1>3, WithOutput DEF v
<1>6. \A l \in Layers : World.layer[l].output # o
  BY <1>1, LayerShellAssumption DEF RowOK, RowBase, Live
<1>7. Len(World.zones[o]) = 0
  <2>1. Len(World.zones[o]) \in Nat /\ \A i \in 1..Len(World.zones[o]) :
           World.zones[o][i] \in Layers /\ World.layer[World.zones[o][i]].output = o
    BY <1>1, OnList
  <2>2. Len(World.zones[o]) # 0 => 1 \in 1..Len(World.zones[o])
    BY <2>1
  <2> QED  BY <1>6, <2>1, <2>2
<1>8. FreshAt(v, o)
  <2>1. Len(v.zones[o]) = 0
    BY <1>5, <1>7
  <2>2. Taken(v.layer, v.zones[o])[0] = NothingTaken
    BY <2>1, TakenIs
  <2>3. Available(Preferred, NothingTaken) = Whole(Preferred)
    BY <1>2, LayerShellAssumption DEF Available, NothingTaken, Whole, Edges
  <2>4. Free(v.layer, v.zones[o], Preferred) = Whole(Preferred)
    BY <2>1, <2>2, <2>3 DEF Free
  <2> QED  BY <1>5, <2>1, <2>4 DEF FreshAt
<1>9. Fresh(v)
  <2>1. \A p \in Outputs \ {o} : FreshAt(World, p) => FreshAt(v, p)
    BY <1>5 DEF FreshAt
  <2> QED  BY <1>1, <1>5, <1>8, <2>1 DEF Arranged, Fresh
<1>10. ListsOK(v)
  BY <1>1, <1>5, SameLists
<1>11. ASSUME NEW l \in Layers PROVE RowOK(v, l) /\ Knows(World.layer[l], v.layer[l])
  <2>1. RowOK(World, l) /\ World.layer[l].output # o
    BY <1>1, <1>6
  <2>2. World.layer[l].output \in Outputs \cup {None} /\ World.layer[l].asked \in Outputs \cup {None}
    BY <1>1, WorldRow
  <2>3. World.layer[l].asked # o
    BY <1>1, <2>1, LayerShellAssumption DEF RowOK, RowBase, Live
  <2> QED  BY <1>5, <2>1, <2>2, <2>3 DEF RowOK, RowBase, Live, Mapping, Knows
<1>12. Present(v) = Present(World)
  BY <1>5 DEF Present
<1> QED  BY <1>4, <1>5, <1>9, <1>10, <1>11, <1>12 DEF Sound, Arranged, Sent

(* An output is initialized or not: the layer surfaces on it are mapped or not. *)
LEMMA SwitchedOK ==
  ASSUME Sound(World), NEW o \in Outputs, NEW state \in {"off", "on"}, World.output[o].state # "gone",
         Become(UpdateLayerSurfacesMapping([World EXCEPT !.output[o].state = state], o))
  PROVE  Sound(World') /\ Sent(World, World')
<1> DEFINE q == [World.output[o] EXCEPT !.state = state]
           u == [World EXCEPT !.output[o].state = state]
           L == [l \in Layers |-> IF u.layer[l].output = o
                                  THEN UpdateMappingState(u, l).layer[l] ELSE u.layer[l]]
           v == [u EXCEPT !.layer = L]
<1>1. World \in WorldSet /\ Arranged(World) /\ ListsOK(World) /\ Fresh(World) /\ World.output[o] \in OutputSet
      /\ \A l \in Layers : RowOK(World, l)
  BY DEF Sound, Arranged, WorldSet
<1>2. Become(v)
  BY DEF UpdateLayerSurfacesMapping
<1>3. q \in OutputSet /\ q.state = state /\ q.size = World.output[o].size
      /\ q.available = World.output[o].available
  BY <1>1 DEF OutputSet
<1>4. u = [World EXCEPT !.output[o] = q]
  OBVIOUS
<1> HIDE DEF u, q
<1>5. /\ u \in WorldSet /\ u.layer = World.layer /\ u.zones = World.zones /\ u.keyboard = World.keyboard
      /\ u.output[o] = q /\ \A p \in Outputs \ {o} : u.output[p] = World.output[p]
  BY <1>1, <1>3, <1>4, WithOutput
<1>6. Arranged(u)
  <2>1. ListsOK(u)
    BY <1>1, <1>5, SameLists
  <2>2. \A p \in Outputs : FreshAt(World, p) => FreshAt(u, p)
    BY <1>3, <1>5 DEF FreshAt
  <2>3. \A p \in Outputs : u.output[p].state # "gone" => World.output[p].state # "gone"
    BY <1>5
  <2> QED  BY <1>1, <1>5, <2>1, <2>2, <2>3 DEF Arranged, Fresh
<1>7. ASSUME NEW l \in Layers
      PROVE  /\ L[l] \in LayerSet /\ Steady(u.layer[l], L[l])
             /\ L[l].output = u.layer[l].output /\ L[l].edge = u.layer[l].edge
             /\ L[l].size = u.layer[l].size /\ L[l].rect = u.layer[l].rect
             /\ L[l].mapped = IF u.layer[l].output = o THEN Mapping(u, l) ELSE u.layer[l].mapped
  <2>1. CASE u.layer[l].output # o
    <3>1. L[l] = u.layer[l]
      BY <2>1
    <3>2. u.layer[l] \in LayerSet
      BY <1>5, WorldRow
    <3> HIDE DEF L
    <3> QED  BY <2>1, <3>1, <3>2 DEF Steady
  <2>2. CASE u.layer[l].output = o
    <3> DEFINE m == UpdateMappingState(u, l)
    <3>1. L[l] = m.layer[l]
      BY <2>2
    <3>2. /\ Touched(u, m, l) /\ Steady(u.layer[l], m.layer[l]) /\ m.layer[l].mapped = Mapping(u, l)
          /\ m.layer[l].output = u.layer[l].output /\ m.layer[l].edge = u.layer[l].edge
          /\ m.layer[l].size = u.layer[l].size /\ m.layer[l].rect = u.layer[l].rect
      BY <1>6, UpdateMappingOK
    <3> HIDE DEF L, m
    <3>3. m.layer[l] \in LayerSet
      BY <3>2, WorldRow DEF Touched, Arranged
    <3> QED  BY <2>2, <3>1, <3>2, <3>3
  <2> QED  BY <2>1, <2>2
<1>8. L \in [Layers -> LayerSet]
  BY <1>7
<1> HIDE DEF L
<1>9. v = [layer |-> L, zones |-> u.zones, output |-> u.output, keyboard |-> u.keyboard]
  <2>1. u = [layer |-> u.layer, zones |-> u.zones, output |-> u.output, keyboard |-> u.keyboard]
    BY <1>5 DEF WorldSet
  <2> QED  BY <2>1
<1> HIDE DEF v
<1>10. v \in WorldSet
  BY <1>5, <1>8, <1>9 DEF WorldSet
<1>11. v.layer = L /\ v.zones = u.zones /\ v.output = u.output /\ v.keyboard = u.keyboard
  BY <1>9
<1>12. ListsOK(v)
  BY <1>6, <1>7, <1>11, SameLists DEF Arranged
<1>13. Fresh(v)
  <2>1. ASSUME NEW p \in Outputs, FreshAt(u, p) PROVE FreshAt(v, p)
    <3>1. Len(u.zones[p]) \in Nat /\ \A i \in 1..Len(u.zones[p]) : u.zones[p][i] \in Layers
      BY <1>6, OnList DEF Arranged
    <3> QED  BY <1>7, <1>11, <2>1, <3>1, FreshKept
  <2> QED  BY <1>6, <1>11, <2>1 DEF Fresh, Arranged
<1>14. ASSUME NEW l \in Layers PROVE RowOK(v, l) /\ Knows(World.layer[l], v.layer[l])
  <2>1. RowOK(World, l) /\ World.layer[l] = u.layer[l]
    BY <1>1, <1>5
  <2>2. u.layer[l].output \in Outputs \cup {None} /\ u.layer[l].asked \in Outputs \cup {None}
    BY <1>5, WorldRow
  <2>3. RowBase(v, l)
    <3>1. \A p \in Outputs : World.output[p].state # "gone" => v.output[p].state # "gone"
      BY <1>3, <1>5, <1>11
    <3> QED  BY <1>7, <1>11, <2>1, <2>2, <3>1 DEF RowOK, RowBase, Live, Steady
  <2>4. v.layer[l].mapped => Mapping(v, l)
    <3>1. CASE u.layer[l].output = o
      <4>1. v.layer[l].mapped => Mapping(u, l)
        BY <1>7, <1>11, <3>1
      <4>2. Mapping(u, l) => Mapping(v, l)
        BY <1>7, <1>11 DEF Mapping, Steady
      <4> QED  BY <4>1, <4>2
    <3>2. CASE u.layer[l].output # o
      <4>1. v.layer[l].mapped => Mapping(World, l)
        BY <1>7, <1>11, <2>1, <3>2 DEF RowOK
      <4> QED  BY <1>5, <1>7, <1>11, <2>1, <2>2, <3>2, <4>1 DEF Mapping, Steady
    <3> QED  BY <3>1, <3>2
  <2> QED  BY <1>7, <1>11, <2>1, <2>3, <2>4 DEF RowOK, Knows
<1>15. Present(v) = Present(World) /\ v.keyboard = World.keyboard
  BY <1>5, <1>7, <1>11 DEF Present, Steady
<1>16. World' = v
  BY <1>2, <1>10, BecomeIs
<1> QED  BY <1>10, <1>12, <1>13, <1>14, <1>15, <1>16 DEF Sound, Arranged, Sent

LEMMA UnplugOutputOK ==
  ASSUME Sound(World), NEW o \in Outputs, UnplugOutput(o)
  PROVE  Sound(World') /\ Sent(World, World')
<1> DEFINE w == World
           q(l) == [w.layer[l] EXCEPT !.output = IF @ = o THEN None ELSE @,
                                      !.asked = IF @ = o THEN None ELSE @,
                                      !.rect = IF w.layer[l].output = o THEN NoRect ELSE @,
                                      !.told = @ /\ w.layer[l].output # o]
           L == [l \in Layers |-> q(l)]
           Z == [w.zones EXCEPT ![o] = <<>>]
           O == [w.output EXCEPT ![o] = [state |-> "gone", size |-> Preferred, available |-> NoRect]]
           v == [layer |-> L, zones |-> Z, output |-> O, keyboard |-> w.keyboard]
<1>1. /\ w \in WorldSet /\ ListsOK(w) /\ Fresh(w) /\ w.output[o].state = "off"
      /\ \A l \in Layers : RowOK(w, l)
      /\ w.layer \in [Layers -> LayerSet] /\ w.zones \in [Outputs -> Seq(Layers)]
      /\ w.output \in [Outputs -> OutputSet] /\ w.keyboard \in Keyboards
  BY WorldIs DEF Sound, Arranged, UnplugOutput, WorldSet, Keyboards
<1>2. World' = v
  BY WorldIs DEF World, UnplugOutput
<1>3. ASSUME NEW l \in Layers
      PROVE  LET r == w.layer[l] IN
             /\ L[l] \in LayerSet /\ L[l].exists = r.exists /\ L[l].initial = r.initial
             /\ L[l].byClient = r.byClient /\ L[l].hasBuffer = r.hasBuffer /\ L[l].mapped = r.mapped
             /\ L[l].flags = r.flags /\ L[l].cur = r.cur /\ L[l].pend = r.pend
             /\ L[l].edge = r.edge /\ L[l].size = r.size
             /\ L[l].output = IF r.output = o THEN None ELSE r.output
             /\ L[l].asked = IF r.asked = o THEN None ELSE r.asked
             /\ r.output # o => L[l].rect = r.rect
  <2> DEFINE r == w.layer[l]
  <2>1. r \in LayerSet
    BY <1>1
  <2>2. NoRect \in Rects
    BY DEF NoRect, Rects
  <2>3. L[l] = [r EXCEPT !.output = IF @ = o THEN None ELSE @, !.asked = IF @ = o THEN None ELSE @,
                         !.rect = IF r.output = o THEN NoRect ELSE @, !.told = @ /\ r.output # o]
    OBVIOUS
  <2> HIDE DEF L, r
  <2>4. (r.told /\ r.output # o) \in BOOLEAN
    OBVIOUS
  <2> DEFINE a == IF r.output = o THEN None ELSE r.output
             b == IF r.asked = o THEN None ELSE r.asked
             c == IF r.output = o THEN NoRect ELSE r.rect
             d == r.told /\ r.output # o
  <2>5. L[l] = [r EXCEPT !.output = a, !.asked = b, !.rect = c, !.told = d]
    BY <2>3
  <2>6. a \in Outputs \cup {None} /\ b \in Outputs \cup {None} /\ c \in Rects /\ d \in BOOLEAN
    BY <2>1, <2>2 DEF LayerSet
  <2>7. r.output # o => c = r.rect
    OBVIOUS
  <2> HIDE DEF a, b, c, d
  <2>8. /\ L[l] \in LayerSet /\ L[l].exists = r.exists /\ L[l].initial = r.initial
        /\ L[l].byClient = r.byClient /\ L[l].hasBuffer = r.hasBuffer /\ L[l].mapped = r.mapped
        /\ L[l].flags = r.flags /\ L[l].cur = r.cur /\ L[l].pend = r.pend
        /\ L[l].edge = r.edge /\ L[l].size = r.size
        /\ L[l].output = a /\ L[l].asked = b /\ L[l].rect = c
    BY <2>1, <2>5, <2>6 DEF LayerSet
  <2> QED  BY <2>7, <2>8 DEF a, b, r
<1>4. L \in [Layers -> LayerSet]
  BY <1>3
<1> HIDE DEF L
<1>5. <<>> \in Seq(Layers) /\ Z \in [Outputs -> Seq(Layers)] /\ Z[o] = <<>>
      /\ \A p \in Outputs \ {o} : Z[p] = w.zones[p]
  BY <1>1, EmptySeq
<1>6. O \in [Outputs -> OutputSet] /\ O[o].state = "gone" /\ \A p \in Outputs \ {o} : O[p] = w.output[p]
  <2>1. Preferred \in Sizes /\ NoRect \in Rects
    BY LayerShellAssumption DEF Preferred, NoRect, Rects
  <2>2. [state |-> "gone", size |-> Preferred, available |-> NoRect] \in OutputSet
    BY <2>1 DEF OutputSet
  <2> QED  BY <1>1, <2>2
<1> HIDE DEF Z, O
<1>7. v \in WorldSet
  BY <1>1, <1>4, <1>5, <1>6 DEF WorldSet, Keyboards
<1> DEFINE x == v
<1> HIDE DEF w
<1>8. x.layer = L /\ x.zones = Z /\ x.output = O /\ x.keyboard = w.keyboard
  OBVIOUS
<1> HIDE DEF v
<1>9. ListsOK(x)
  <2> SUFFICES ASSUME NEW p \in Outputs PROVE Lists(x.zones[p], ZonesOn(x.layer, p))
    BY DEF ListsOK
  <2>1. CASE p = o
    <3>1. ZonesOn(x.layer, p) = {}
      BY <1>3, <1>8, <2>1, LayerShellAssumption DEF ZonesOn
    <3>2. x.zones[p] = <<>> /\ Len(<<>>) = 0 /\ <<>> \in Seq({})
      BY <1>5, <1>8, <2>1, EmptySeq
    <3> QED  BY <3>1, <3>2 DEF Lists
  <2>2. CASE p # o
    <3>1. ZonesOn(x.layer, p) = ZonesOn(w.layer, p)
      BY <1>3, <1>8, <2>2, LayerShellAssumption DEF ZonesOn
    <3> QED  BY <1>1, <1>5, <1>8, <2>2, <3>1 DEF ListsOK
  <2> QED  BY <2>1, <2>2
<1>10. Fresh(x)
  <2> SUFFICES ASSUME NEW p \in Outputs, x.output[p].state # "gone" PROVE FreshAt(x, p)
    BY DEF Fresh
  <2>1. p # o /\ x.output[p] = w.output[p] /\ x.zones[p] = w.zones[p]
    BY <1>5, <1>6, <1>8
  <2>2. FreshAt(w, p)
    BY <1>1, <2>1 DEF Fresh
  <2>3. Len(w.zones[p]) \in Nat /\ \A i \in 1..Len(w.zones[p]) :
           w.zones[p][i] \in Layers /\ w.layer[w.zones[p][i]].output = p
    BY <1>1, OnList
  <2>4. \A i \in 1..Len(w.zones[p]) :
          /\ x.layer[w.zones[p][i]].edge = w.layer[w.zones[p][i]].edge
          /\ x.layer[w.zones[p][i]].size = w.layer[w.zones[p][i]].size
          /\ x.layer[w.zones[p][i]].rect = w.layer[w.zones[p][i]].rect
    BY <1>3, <1>8, <2>1, <2>3
  <2> HIDE DEF x
  <2> QED  BY <2>1, <2>2, <2>3, <2>4, FreshKept
<1>11. ASSUME NEW l \in Layers PROVE RowOK(x, l) /\ Knows(w.layer[l], x.layer[l])
  <2>1. RowOK(w, l)
    BY <1>1
  <2>2. w.layer[l].output \in Outputs \cup {None} /\ w.layer[l].asked \in Outputs \cup {None}
    BY <1>1, WorldRow
  <2>3. w.layer[l].mapped => w.layer[l].output # o
    BY <1>1, <2>1 DEF RowOK, Mapping
  <2>4. RowBase(x, l)
    BY <1>3, <1>6, <1>8, <2>1, <2>2 DEF RowOK, RowBase, Live
  <2>5. x.layer[l].mapped => Mapping(x, l)
    BY <1>3, <1>6, <1>8, <2>1, <2>2, <2>3 DEF RowOK, Mapping
  <2> QED  BY <1>3, <1>8, <2>3, <2>4, <2>5 DEF RowOK, Knows
<1>12. Present(x) = Present(w)
  BY <1>3, <1>8 DEF Present
<1>13. KeyboardOK(w.keyboard, Present(w))
  BY DEF Sound, w
<1>14. Sound(x) /\ Sent(w, x)
  BY <1>7, <1>8, <1>9, <1>10, <1>11, <1>12, <1>13 DEF Sound, Arranged, Sent
<1> QED  BY <1>2, <1>14 DEF w

LEMMA ClickLayerOK ==
  ASSUME Sound(World), NEW l \in Layers \cup {None}, ClickLayer(l)
  PROVE  Sound(World') /\ Sent(World, World')
<1> DEFINE k == SetFocus(World.keyboard, l)
           v == [World EXCEPT !.keyboard = k]
<1>1. World \in WorldSet /\ Arranged(World) /\ KeyboardOK(World.keyboard, Present(World))
      /\ \A i \in Layers : RowOK(World, i)
  BY DEF Sound, Arranged
<1>2. l \in Present(World)
  <2>1. l # None => World.layer[l].mapped
    BY WorldIs DEF ClickLayer
  <2> QED  BY <1>1, <2>1 DEF RowOK, RowBase, Mapping, Present
<1>3. KeyboardOK(k, Present(World))
  BY <1>1, <1>2, SetFocusOK
<1>4. World' = v
  BY WorldIs DEF World, ClickLayer
<1>5. k \in Keyboards
  BY <1>3, KeyboardsOK
<1> HIDE DEF k
<1>6. \A i : Touched(World, v, i)
  BY <1>1, <1>5, KeyStep
<1>7. v.keyboard = k /\ v.layer = World.layer /\ v.output = World.output /\ Present(v) = Present(World)
  BY <1>1, <1>5, KeyStep
<1> HIDE DEF v
<1>8. Arranged(v)
  BY <1>6 DEF Touched
<1>9. \A i \in Layers : RowOK(v, i) /\ Knows(World.layer[i], v.layer[i])
  BY <1>1, <1>7 DEF RowOK, RowBase, Live, Mapping, Knows
<1> QED  BY <1>3, <1>4, <1>7, <1>8, <1>9 DEF Sound, Sent

-----------------------------------------------------------------------------
(* The theorems about layer surfaces. *)

LayerInv == Sound(World)

LEMMA InitLayerInv == LayerShellInit => LayerInv
<1> SUFFICES ASSUME LayerShellInit PROVE Sound(World)
  BY DEF LayerInv
<1> DEFINE q == [state |-> "gone", size |-> Preferred, available |-> NoRect]
<1>1. /\ keyboard = [focus |-> None, grab |-> None]
      /\ layer = [l \in Layers |-> NoLayer] /\ zones = [o \in Outputs |-> <<>>]
      /\ output = [o \in Outputs |-> q]
  BY DEF LayerShellInit, KeyboardInit
<1>2. q \in OutputSet /\ q.state = "gone"
  <2>1. Preferred \in Sizes /\ NoRect \in Rects
    BY LayerShellAssumption DEF Preferred, NoRect, Rects
  <2> QED  BY <2>1 DEF OutputSet
<1> HIDE DEF q
<1>3. layer \in [Layers -> LayerSet] /\ \A l \in Layers : layer[l] = NoLayer
  BY <1>1, NoLayerOK
<1>4. zones \in [Outputs -> Seq(Layers)] /\ \A o \in Outputs : zones[o] = <<>>
  BY <1>1, EmptySeq
<1>5. output \in [Outputs -> OutputSet] /\ \A o \in Outputs : output[o].state = "gone"
  BY <1>1, <1>2
<1>6. World \in WorldSet
  <2>1. keyboard \in [focus : LayerRefs, grab : LayerRefs]
    BY <1>1 DEF LayerRefs
  <2> QED  BY <1>3, <1>4, <1>5, <2>1 DEF World, WorldSet
<1>7. ListsOK(World)
  <2>1. \A o \in Outputs : ZonesOn(World.layer, o) = {}
    BY <1>3, WorldIs, LayerShellAssumption DEF ZonesOn, NoLayer
  <2>2. Lists(<<>>, {})
    BY EmptySeq DEF Lists
  <2> QED  BY <1>4, <2>1, <2>2, WorldIs DEF ListsOK
<1>8. Fresh(World)
  BY <1>5, WorldIs DEF Fresh
<1>9. \A l \in Layers : RowOK(World, l)
  BY <1>3, WorldIs DEF RowOK, RowBase, Live, NoLayer
<1>10. KeyboardOK(World.keyboard, Present(World))
  BY <1>1, WorldIs DEF KeyboardOK, Present
<1> QED  BY <1>6, <1>7, <1>8, <1>9, <1>10 DEF Sound, Arranged

LEMMA NextLayerInv == LayerInv /\ [LayerShellNext]_layerVars => LayerInv' /\ Sent(World, World')
<1> SUFFICES ASSUME Sound(World), [LayerShellNext]_layerVars PROVE Sound(World') /\ Sent(World, World')
  BY DEF LayerInv
<1>1. CASE UNCHANGED layerVars
  <2>1. World' = World
    BY <1>1 DEF World, layerVars
  <2>2. Sent(World, World)
    BY DEF Sent, Knows
  <2> QED  BY <2>1, <2>2
<1>2. ASSUME NEW l \in Layers,
             \/ \E o \in (On \cup {None}) \cap Asked[l] : GetLayerSurface(l, o)
             \/ \E v \in Values[l] : Set(l, v)
             \/ \E hasBuffer \in BOOLEAN, o \in CursorOutputs : CommitLayer(l, hasBuffer, o)
             \/ \E after \in Layers \cup {None} : InsertAfter(l, after)
             \/ DestroyLayer(l)
      PROVE  Sound(World') /\ Sent(World, World')
  BY <1>2, GetLayerSurfaceOK, SetOK, CommitLayerOK, InsertAfterOK, DestroyLayerOK
<1>3. ASSUME NEW o \in Outputs,
             \/ \E size \in Sizes : UpdateRect(o, size)
             \/ PlugOutput(o) \/ Initialize(o) \/ Uninitialize(o) \/ UnplugOutput(o)
      PROVE  Sound(World') /\ Sent(World, World')
  <2>1. CASE Initialize(o)
    <3>1. World.output[o].state # "gone"
          /\ Become(UpdateLayerSurfacesMapping([World EXCEPT !.output[o].state = "on"], o))
      BY <2>1, WorldIs DEF Initialize
    <3> QED  BY <3>1, SwitchedOK
  <2>2. CASE Uninitialize(o)
    <3>1. World.output[o].state # "gone"
          /\ Become(UpdateLayerSurfacesMapping([World EXCEPT !.output[o].state = "off"], o))
      BY <2>2, WorldIs DEF Uninitialize
    <3> QED  BY <3>1, SwitchedOK
  <2> QED  BY <1>3, <2>1, <2>2, UpdateRectOK, PlugOutputOK, UnplugOutputOK
<1>4. ASSUME NEW l \in Layers \cup {None}, ClickLayer(l)
      PROVE  Sound(World') /\ Sent(World, World')
  BY <1>4, ClickLayerOK
<1> QED  BY <1>1, <1>2, <1>3, <1>4 DEF LayerShellNext

(* The invariant of the layer surfaces holds in every state. *)
THEOREM LayerInvariance == LayerShellSpec => []LayerInv
<1>1. LayerInv /\ [LayerShellNext]_layerVars => LayerInv'
  BY NextLayerInv
<1> QED  BY InitLayerInv, <1>1, PTL DEF LayerShellSpec

(* Types; the iterator of a zone into the list of its output is valid, whatever
   the requests, the outputs that come and go, and the order of the zones. *)
THEOREM LayerTypeCorrect == LayerShellSpec => []LayerTypeOK
<1>1. LayerInv => LayerTypeOK
  <2> SUFFICES ASSUME Sound(World) PROVE LayerTypeOK
    BY DEF LayerInv
  <2>1. /\ World \in WorldSet /\ ListsOK(World) /\ KeyboardOK(keyboard, Present(World))
        /\ layer \in [Layers -> LayerSet] /\ output \in [Outputs -> OutputSet]
    BY WorldIs DEF Sound, Arranged, WorldSet
  <2>2. KeyboardTypeOK({l \in Layers : LayerExists(l)})
    BY <2>1, WorldIs DEF KeyboardTypeOK, KeyboardOK, Present, LayerExists
  <2>3. \A l \in Layers :
          /\ layer[l].flags \subseteq Fields
          /\ layer[l].output \in Outputs \cup {None} /\ layer[l].asked \in Outputs \cup {None}
    BY <2>1 DEF LayerSet
  <2>4. ASSUME NEW o \in Outputs
        PROVE  /\ output[o].state \in {"gone", "off", "on"}
               /\ ToSet(zones[o]) = {l \in Layers : layer[l].output = o}
               /\ IsInjective(zones[o])
    <3> DEFINE s == zones[o]
               S == {l \in Layers : layer[l].output = o}
    <3>1. Lists(s, S)
      BY <2>1, WorldIs DEF ListsOK, ZonesOn
    <3>2. output[o].state \in {"gone", "off", "on"}
      BY <2>1 DEF OutputSet
    <3> HIDE DEF s, S
    <3>3. DOMAIN s = 1..Len(s) /\ \A i \in 1..Len(s) : s[i] \in S
      BY <3>1, ElementOfSeq, LenProperties DEF Lists
    <3>4. ToSet(s) = S
      BY <3>1, <3>3 DEF Lists, ToSet
    <3>5. IsInjective(s)
      BY <3>1, <3>3 DEF Lists, IsInjective
    <3> QED  BY <3>2, <3>4, <3>5 DEF s, S
  <2> QED  BY <2>2, <2>3, <2>4 DEF LayerTypeOK
<1> QED  BY LayerInvariance, <1>1, PTL

(* The rects of two exclusive zones of a list that leaves room, and the room. *)
LEMMA RectsDisjoint ==
  ASSUME NEW ls \in [Layers -> LayerSet], NEW list \in Seq(Layers), NEW size \in Sizes,
         NEW i \in 1..Len(list), Exclusive(ls[list[i]])
  PROVE  /\ Disjoint(RectOf(ls, list, i, size), Free(ls, list, size))
         /\ \A j \in 1..Len(list) :
              /\ i < j /\ Exclusive(ls[list[j]])
              /\ Free(ls, list, size).w >= 0 /\ Free(ls, list, size).h >= 0
              => Disjoint(RectOf(ls, list, i, size), RectOf(ls, list, j, size))
<1> DEFINE L == Len(list)
           t == Taken(ls, list)
           z(n) == ls[list[n]]
<1>1. L \in Nat /\ \A n \in 1..L : list[n] \in Layers
  BY ElementOfSeq, LenProperties
<1>2. \A n \in 1..L : ZoneTypeOK(z(n))
  BY <1>1 DEF ZoneTypeOK, LayerSet
<1>3. /\ \A n \in 0..L : t[n] \in TakenSet
      /\ \A m \in 0..L, n \in 0..L : m <= n => \A e \in Edges : t[m][e] <= t[n][e]
  BY <1>1, <1>2, TakenOK
<1>4. \A n \in 1..L : t[n] = Take(t[n - 1], z(n))
  <2> TAKE n \in 1..L
  <2>1. n \in 0..L /\ n # 0
    BY <1>1
  <2> QED  BY <1>1, <2>1, TakenIs
<1>5. \A n \in 1..L : Exclusive(z(n)) => RectOf(ls, list, n, size) = Strip(z(n), size, t[n - 1])
  BY <1>1, <1>2 DEF RectOf, Exclusive, ZoneTypeOK
<1>6. size \in Size2
  BY LayerShellAssumption DEF Size2
<1>7. Free(ls, list, size) = Available(size, t[L])
  BY DEF Free
<1> HIDE DEF t, z, L
<1>8. i \in 1..L /\ i - 1 \in 0..L /\ i \in 0..L /\ L \in 0..L /\ i <= L
  BY <1>1 DEF L
<1>9. \A e \in Edges : Take(t[i - 1], z(i))[e] <= t[L][e]
  BY <1>3, <1>4, <1>8
<1>10. Exclusive(z(i)) /\ ZoneTypeOK(z(i)) /\ t[i - 1] \in TakenSet /\ t[L] \in TakenSet
  BY <1>2, <1>3, <1>8 DEF z
<1>11. Disjoint(RectOf(ls, list, i, size), Free(ls, list, size))
  <2>1. Disjoint(Strip(z(i), size, t[i - 1]), Available(size, t[L]))
    BY <1>6, <1>9, <1>10, StripBesideFree
  <2> QED  BY <1>5, <1>7, <1>8, <1>10, <2>1
<1>12. ASSUME NEW j \in 1..L, i < j, Exclusive(z(j)),
              Free(ls, list, size).w >= 0, Free(ls, list, size).h >= 0
       PROVE  Disjoint(RectOf(ls, list, i, size), RectOf(ls, list, j, size))
  <2>1. j - 1 \in 0..L /\ j \in 0..L /\ j <= L /\ i <= j - 1
    BY <1>1, <1>8, <1>12
  <2>2. t[j - 1] \in TakenSet /\ ZoneTypeOK(z(j))
    BY <1>2, <1>3, <2>1
  <2>3. \A e \in Edges : Take(t[i - 1], z(i))[e] <= t[j - 1][e]
    BY <1>3, <1>4, <1>8, <2>1
  <2>4. \A e \in Edges : Take(t[j - 1], z(j))[e] <= t[L][e]
    BY <1>3, <1>4, <1>8, <2>1
  <2>5. Disjoint(Strip(z(i), size, t[i - 1]), Strip(z(j), size, t[j - 1]))
    BY <1>6, <1>7, <1>10, <1>12, <2>2, <2>3, <2>4, StripsDisjoint
  <2> QED  BY <1>5, <1>8, <1>10, <1>12, <2>5
<1> QED  BY <1>11, <1>12 DEF L, z

(* The zones are where their places in the lists say, and leave each other and the
   windows room, on any number of outputs of any sizes, with any number of layer
   surfaces. *)
THEOREM ZonesArrangedCorrect == LayerShellSpec => []ZonesArranged
<1>1. LayerInv => ZonesArranged
  <2> SUFFICES ASSUME Sound(World) PROVE ZonesFresh /\ ZonesDisjoint
    BY DEF LayerInv, ZonesArranged
  <2>1. /\ ListsOK(World) /\ Fresh(World)
        /\ layer \in [Layers -> LayerSet] /\ output \in [Outputs -> OutputSet]
    BY WorldIs DEF Sound, Arranged, WorldSet
  <2>2. ASSUME NEW o \in Outputs, output[o].state # "gone"
        PROVE  /\ \A i \in 1..Len(zones[o]) :
                    layer[zones[o][i]].rect = RectOf(layer, zones[o], i, output[o].size)
               /\ output[o].available = Free(layer, zones[o], output[o].size)
    BY <2>1, <2>2, WorldIs DEF Fresh, FreshAt
  <2>3. \A o \in Outputs :
          /\ zones[o] \in Seq(Layers) /\ Len(zones[o]) \in Nat /\ DOMAIN zones[o] = 1..Len(zones[o])
    <3> TAKE o \in Outputs
    <3>1. zones[o] \in Seq(Layers)
      BY <2>1, ListsAreApart, WorldIs DEF ListsApart
    <3> QED  BY <3>1, LenProperties
  <2>4. ZonesFresh
    BY <2>2, <2>3 DEF ZonesFresh
  <2>5. ASSUME NEW o \in Outputs, output[o].state # "gone",
               output[o].available.w >= 0, output[o].available.h >= 0,
               NEW l \in ToSet(zones[o]), Exclusive(layer[l])
        PROVE  /\ Disjoint(layer[l].rect, output[o].available)
               /\ \A k \in ToSet(zones[o]) \ {l} : Exclusive(layer[k]) => Disjoint(layer[l].rect, layer[k].rect)
    <3> DEFINE s == zones[o]
               size == output[o].size
    <3>1. size \in Sizes /\ s \in Seq(Layers) /\ Len(s) \in Nat
      BY <2>1, <2>3 DEF OutputSet
    <3>2. \A k \in ToSet(s) : \E i \in 1..Len(s) : s[i] = k
      BY <2>3 DEF ToSet
    <3>3. /\ \A i \in 1..Len(s) : layer[s[i]].rect = RectOf(layer, s, i, size)
          /\ output[o].available = Free(layer, s, size)
      BY <2>2, <2>5
    <3>4. Free(layer, s, size).w >= 0 /\ Free(layer, s, size).h >= 0
      BY <2>5, <3>3
    <3>5. PICK i \in 1..Len(s) : s[i] = l
      BY <3>2
    <3> HIDE DEF s, size
    <3>6. Disjoint(layer[l].rect, output[o].available)
      BY <2>1, <2>5, <3>1, <3>3, <3>5, RectsDisjoint
    <3>7. ASSUME NEW k \in ToSet(s) \ {l}, Exclusive(layer[k])
          PROVE  Disjoint(layer[l].rect, layer[k].rect)
      <4>1. PICK j \in 1..Len(s) : s[j] = k
        BY <3>2
      <4>2. i # j /\ i \in Int /\ j \in Int
        BY <3>1, <3>5, <3>7, <4>1
      <4>3. CASE i < j
        BY <2>1, <2>5, <3>1, <3>3, <3>4, <3>5, <3>7, <4>1, <4>3, RectsDisjoint
      <4>4. CASE j < i
        <5>1. Exclusive(layer[s[j]]) /\ Exclusive(layer[s[i]])
          BY <2>5, <3>5, <3>7, <4>1
        <5>2. Disjoint(RectOf(layer, s, j, size), RectOf(layer, s, i, size))
          BY <2>1, <3>1, <3>4, <4>4, <5>1, RectsDisjoint
        <5>3. Disjoint(layer[k].rect, layer[l].rect)
          BY <3>3, <3>5, <4>1, <5>2
        <5> QED  BY <5>3 DEF Disjoint
      <4> QED  BY <4>2, <4>3, <4>4
    <3> QED  BY <3>6, <3>7 DEF s
  <2>6. ZonesDisjoint
    BY <2>5 DEF ZonesDisjoint
  <2> QED  BY <2>4, <2>6
<1> QED  BY LayerInvariance, <1>1, PTL

(* The two slots of atoms agree on what is not pending, after any commits. *)
THEOREM AtomsAgreeCorrect == LayerShellSpec => []AtomsAgree
<1>1. LayerInv => AtomsAgree
  BY WorldIs DEF LayerInv, Sound, RowOK, RowBase, AtomsAgree
<1> QED  BY LayerInvariance, <1>1, PTL

(* A surface is mapped only on an output that is initialized, after its client was
   configured. *)
THEOREM MappedOnOutputCorrect == LayerShellSpec => []MappedOnOutput
<1>1. LayerInv => MappedOnOutput
  <2> SUFFICES ASSUME Sound(World), NEW l \in Layers, layer[l].mapped
               PROVE  layer[l].output \in On /\ layer[l].byClient /\ ~layer[l].initial
    BY DEF LayerInv, MappedOnOutput
  <2>1. World \in WorldSet /\ RowOK(World, l)
    BY DEF Sound, Arranged
  <2>2. layer[l].output \in Outputs \cup {None}
    BY <2>1, WorldRow, WorldIs
  <2> QED  BY <2>1, <2>2, WorldIs DEF RowOK, RowBase, Mapping, On
<1> QED  BY LayerInvariance, <1>1, PTL

(* No step changes the rect of a surface that stays mapped without telling its
   client. *)
THEOREM RectIsSentCorrect == LayerShellSpec => RectIsSent
<1> DEFINE A == \A l \in Layers :
             layer[l].mapped /\ layer'[l].mapped /\ layer'[l].rect # layer[l].rect => layer'[l].told
<1>1. LayerInv /\ [LayerShellNext]_layerVars => [A]_layerVars
  <2>1. Sent(World, World') => A
    BY WorldIs DEF Sent, Knows
  <2> QED  BY <2>1, NextLayerInv
<1> QED  BY LayerInvariance, <1>1, PTL DEF LayerShellSpec, RectIsSent

(* The layer surface that grabs the keyboard has its focus. *)
THEOREM LayerGrabFocused == LayerShellSpec => []GrabHasFocus
<1>1. LayerInv => GrabHasFocus
  BY WorldIs DEF LayerInv, Sound, KeyboardOK, GrabHasFocus
<1> QED  BY LayerInvariance, <1>1, PTL
================================================================================

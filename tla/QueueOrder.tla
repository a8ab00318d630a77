----------------------------- MODULE QueueOrder -----------------------------
(***************************************************************************)
(* Lemmas about a sequence whose elements follow the order in which they   *)
(* were put into a queue: what is left of a queue, put behind what has     *)
(* been taken out of it.  Taking an element out, or adding one that has no *)
(* place in the order, keeps it.                                           *)
(***************************************************************************)
EXTENDS Integers, Sequences, SequenceTheorems, TLAPS

In(x, f) == \E i \in DOMAIN f : f[i] = x

Distinct(q) == \A k, l \in DOMAIN q : q[k] = q[l] => k = l

\* Those elements of f that are in R are in q, and come in the order of q.
Follows(q, f, R) ==
  /\ \A i \in DOMAIN f : f[i] \in R => In(f[i], q)
  /\ \A i, j \in DOMAIN f :
       i < j /\ f[i] \in R /\ f[j] \in R =>
         \E k, l \in DOMAIN q : k < l /\ q[k] = f[i] /\ q[l] = f[j]

LEMMA InConcat ==
  ASSUME NEW S, NEW s \in Seq(S), NEW t \in Seq(S), NEW x
  PROVE  In(x, s \o t) <=> In(x, s) \/ In(x, t)
<1>1. ASSUME In(x, s \o t) PROVE In(x, s) \/ In(x, t)
  BY <1>1 DEF In
<1>2. ASSUME In(x, s) PROVE In(x, s \o t)
  BY <1>2 DEF In
<1>3. ASSUME In(x, t) PROVE In(x, s \o t)
  <2>1. PICK i \in DOMAIN t : t[i] = x
    BY <1>3 DEF In
  <2>2. /\ Len(s) + i \in DOMAIN (s \o t)
        /\ (s \o t)[Len(s) + i] = t[i]
    BY <2>1
  <2> QED BY <2>1, <2>2 DEF In
<1> QED BY <1>1, <1>2, <1>3

LEMMA InAppend ==
  ASSUME NEW S, NEW s \in Seq(S), NEW p \in S, NEW x
  PROVE  In(x, Append(s, p)) <=> In(x, s) \/ x = p
<1>1. ASSUME In(x, s) PROVE In(x, Append(s, p))
  BY <1>1 DEF In
<1>2. In(p, Append(s, p))
  <2>1. /\ Len(s) + 1 \in DOMAIN Append(s, p)
        /\ Append(s, p)[Len(s) + 1] = p
    OBVIOUS
  <2> QED BY <2>1 DEF In
<1>3. ASSUME In(x, Append(s, p)) PROVE In(x, s) \/ x = p
  BY <1>3 DEF In
<1> QED BY <1>1, <1>2, <1>3

LEMMA InHeadTail ==
  ASSUME NEW S, NEW s \in Seq(S), s # <<>>, NEW x
  PROVE  In(x, s) <=> x = Head(s) \/ In(x, Tail(s))
<1>1. ASSUME In(x, s) PROVE x = Head(s) \/ In(x, Tail(s))
  <2>1. PICK i \in 1..Len(s) : s[i] = x
    BY <1>1 DEF In
  <2>2. CASE i = 1 BY <2>1, <2>2
  <2>3. CASE i # 1
    <3>1. i - 1 \in DOMAIN Tail(s) /\ Tail(s)[i - 1] = s[i]
      BY <2>3
    <3> QED BY <2>1, <3>1 DEF In
  <2> QED BY <2>2, <2>3
<1>2. In(Head(s), s)
  <2>1. 1 \in DOMAIN s /\ s[1] = Head(s) OBVIOUS
  <2> QED BY <2>1 DEF In
<1>3. ASSUME In(x, Tail(s)) PROVE In(x, s)
  <2>1. PICK i \in 1..Len(Tail(s)) : Tail(s)[i] = x
    BY <1>3 DEF In
  <2>2. i + 1 \in DOMAIN s /\ s[i + 1] = x
    BY <2>1
  <2> QED BY <2>2 DEF In
<1> QED BY <1>1, <1>2, <1>3

LEMMA DistinctAppend ==
  ASSUME NEW S, NEW s \in Seq(S), NEW c \in S, Distinct(s), ~In(c, s)
  PROVE  Distinct(Append(s, c))
BY DEF Distinct, In

LEMMA DistinctTail ==
  ASSUME NEW S, NEW s \in Seq(S), s # <<>>, Distinct(s)
  PROVE  Distinct(Tail(s)) /\ ~In(Head(s), Tail(s))
<1>1. /\ 1 \in DOMAIN s /\ s[1] = Head(s)
      /\ \A i \in DOMAIN Tail(s) : /\ i + 1 \in DOMAIN s /\ Tail(s)[i] = s[i + 1]
                                   /\ i \in Nat /\ i >= 1
  OBVIOUS
<1>2. ~In(Head(s), Tail(s))
  <2> SUFFICES ASSUME NEW i \in DOMAIN Tail(s), Tail(s)[i] = Head(s) PROVE FALSE
    BY DEF In
  <2>1. i + 1 = 1
    BY <1>1, Zenon DEF Distinct
  <2> QED BY <1>1, <2>1
<1>3. Distinct(Tail(s))
  <2> SUFFICES ASSUME NEW i \in DOMAIN Tail(s), NEW j \in DOMAIN Tail(s),
                      Tail(s)[i] = Tail(s)[j]
               PROVE  i = j
    BY DEF Distinct
  <2>1. i + 1 \in DOMAIN s /\ j + 1 \in DOMAIN s /\ s[i + 1] = s[j + 1]
    BY <1>1
  <2>2. i + 1 = j + 1
    BY <2>1, Zenon DEF Distinct
  <2> QED BY <1>1, <2>2
<1> QED BY <1>2, <1>3

LEMMA HeadThenTail ==
  ASSUME NEW S, NEW b \in Seq(S), b # <<>>
  PROVE  /\ Head(b) \in S /\ Tail(b) \in Seq(S)
         /\ <<Head(b)>> \in Seq(S)
         /\ b = <<Head(b)>> \o Tail(b)
<1>1. Head(b) \in S /\ Tail(b) \in Seq(S) /\ <<Head(b)>> \in Seq(S)
  OBVIOUS
<1>2. b = <<Head(b)>> \o Tail(b)
  <2>1. Len(<<Head(b)>> \o Tail(b)) = Len(b)
    OBVIOUS
  <2>2. \A i \in 1..Len(b) : (<<Head(b)>> \o Tail(b))[i] = b[i]
    OBVIOUS
  <2>3. <<Head(b)>> \o Tail(b) \in Seq(S)
    BY <1>1
  <2> QED BY <2>1, <2>2, <2>3, SeqEqual
<1> QED BY <1>1, <1>2

\* Taking an element out keeps the order of the others.
LEMMA FollowsDrop ==
  ASSUME NEW q, NEW R, NEW S, NEW s \in Seq(S), NEW t \in Seq(S), NEW p \in S,
         Follows(q, s \o (<<p>> \o t), R)
  PROVE  Follows(q, s \o t, R)
<1> DEFINE f == s \o (<<p>> \o t)
           g == s \o t
           Old(i) == IF i <= Len(s) THEN i ELSE i + 1
<1>1. \A i \in DOMAIN g : Old(i) \in DOMAIN f /\ f[Old(i)] = g[i]
  <2>1. /\ <<p>> \o t \in Seq(S) /\ Len(<<p>> \o t) = Len(t) + 1
        /\ \A i \in 1..Len(t) : (<<p>> \o t)[i + 1] = t[i]
    OBVIOUS
  <2>2. /\ Len(f) = Len(s) + Len(t) + 1 /\ Len(g) = Len(s) + Len(t)
        /\ DOMAIN f = 1..Len(f) /\ DOMAIN g = 1..Len(g)
    BY <2>1
  <2> SUFFICES ASSUME NEW i \in DOMAIN g
               PROVE  Old(i) \in DOMAIN f /\ f[Old(i)] = g[i]
    OBVIOUS
  <2>3. CASE i <= Len(s) BY <2>1, <2>2, <2>3
  <2>4. CASE i > Len(s)
    <3>1. i - Len(s) \in 1..Len(t) /\ i \in Nat
      BY <2>2, <2>4
    <3>2. f[i + 1] = (<<p>> \o t)[i - Len(s) + 1]
      BY <2>1, <2>2, <2>4, <3>1
    <3>3. g[i] = t[i - Len(s)]
      BY <2>2, <2>4
    <3> QED BY <2>1, <2>2, <2>4, <3>1, <3>2, <3>3
  <2> QED BY <2>2, <2>3, <2>4
<1>2. \A i, j \in DOMAIN g : i < j => Old(i) < Old(j)
  OBVIOUS
<1> HIDE DEF f, g, Old
<1>3. Follows(q, f, R)
  BY DEF f
<1>4. Follows(q, g, R)
  BY <1>1, <1>2, <1>3 DEF Follows
<1> QED BY <1>4 DEF g

\* So does putting one in that is not in R.
LEMMA FollowsInsert ==
  ASSUME NEW q, NEW R, NEW S, NEW s \in Seq(S), NEW t \in Seq(S), NEW p \in S,
         p \notin R, Follows(q, s \o t, R)
  PROVE  Follows(q, s \o (<<p>> \o t), R)
<1> DEFINE f == s \o (<<p>> \o t)
           g == s \o t
           New(i) == IF i <= Len(s) THEN i ELSE i - 1
<1>1. \A i \in DOMAIN f : f[i] \in R =>
         i # Len(s) + 1 /\ New(i) \in DOMAIN g /\ g[New(i)] = f[i]
  <2>1. /\ <<p>> \o t \in Seq(S) /\ Len(<<p>> \o t) = Len(t) + 1
        /\ (<<p>> \o t)[1] = p
        /\ \A i \in 1..Len(t) : (<<p>> \o t)[i + 1] = t[i]
    OBVIOUS
  <2>2. /\ Len(f) = Len(s) + Len(t) + 1 /\ Len(g) = Len(s) + Len(t)
        /\ DOMAIN f = 1..Len(f) /\ DOMAIN g = 1..Len(g)
    BY <2>1
  <2> SUFFICES ASSUME NEW i \in DOMAIN f, f[i] \in R
               PROVE  i # Len(s) + 1 /\ New(i) \in DOMAIN g /\ g[New(i)] = f[i]
    OBVIOUS
  <2>3. CASE i <= Len(s) BY <2>1, <2>2, <2>3
  <2>4. CASE i = Len(s) + 1 BY <2>1, <2>2, <2>4
  <2>5. CASE i > Len(s) + 1
    <3>1. i - 1 - Len(s) \in 1..Len(t) /\ i \in Nat
      BY <2>2, <2>5
    <3>2. f[i] = (<<p>> \o t)[i - 1 - Len(s) + 1]
      BY <2>1, <2>2, <2>5, <3>1
    <3>3. g[i - 1] = t[i - 1 - Len(s)]
      BY <2>2, <2>5, <3>1
    <3> QED BY <2>1, <2>2, <2>5, <3>1, <3>2, <3>3
  <2> QED BY <2>2, <2>3, <2>4, <2>5
<1>2. \A i, j \in DOMAIN f :
        i < j /\ i # Len(s) + 1 /\ j # Len(s) + 1 => New(i) < New(j)
  OBVIOUS
<1> HIDE DEF f, g, New
<1>3. Follows(q, g, R)
  BY DEF g
<1>4. ASSUME NEW i \in DOMAIN f, f[i] \in R PROVE In(f[i], q)
  BY <1>1, <1>3, <1>4 DEF Follows
<1>5. ASSUME NEW i \in DOMAIN f, NEW j \in DOMAIN f, i < j, f[i] \in R, f[j] \in R
      PROVE  \E k, l \in DOMAIN q : k < l /\ q[k] = f[i] /\ q[l] = f[j]
  <2>1. /\ New(i) \in DOMAIN g /\ g[New(i)] = f[i] /\ New(j) \in DOMAIN g
        /\ g[New(j)] = f[j] /\ New(i) < New(j)
    BY <1>1, <1>2, <1>5
  <2> QED BY <1>3, <1>5, <2>1 DEF Follows
<1>6. Follows(q, f, R)
  BY <1>4, <1>5 DEF Follows
<1> QED BY <1>6 DEF f

\* An element added to both ends comes behind every other.
LEMMA FollowsPush ==
  ASSUME NEW Q, NEW q \in Seq(Q), NEW R, NEW S, NEW f \in Seq(S),
         NEW c \in Q \cap S, Follows(q, f, R)
  PROVE  Follows(Append(q, c), Append(f, c), R)
<1> DEFINE q2 == Append(q, c)
           f2 == Append(f, c)
<1>1. /\ Len(q2) = Len(q) + 1 /\ q2[Len(q) + 1] = c
      /\ DOMAIN q = 1..Len(q) /\ DOMAIN q2 = 1..Len(q2)
      /\ \A k \in DOMAIN q : k \in DOMAIN q2 /\ q2[k] = q[k] /\ k < Len(q) + 1
  OBVIOUS
<1>2. /\ Len(f2) = Len(f) + 1 /\ f2[Len(f) + 1] = c
      /\ DOMAIN f = 1..Len(f) /\ DOMAIN f2 = 1..Len(f2)
      /\ \A i \in DOMAIN f : f2[i] = f[i]
  OBVIOUS
<1> HIDE DEF q2, f2
<1>3. ASSUME NEW i \in DOMAIN f2, f2[i] \in R PROVE In(f2[i], q2)
  <2>1. CASE i = Len(f) + 1
    <3>1. Len(q) + 1 \in DOMAIN q2 BY <1>1
    <3> QED BY <1>1, <1>2, <2>1, <3>1 DEF In
  <2>2. CASE i \in DOMAIN f
    BY <1>1, <1>2, <1>3, <2>2 DEF Follows, In
  <2> QED BY <1>2, <2>1, <2>2
<1>4. ASSUME NEW i \in DOMAIN f2, NEW j \in DOMAIN f2, i < j,
             f2[i] \in R, f2[j] \in R
      PROVE  \E k, l \in DOMAIN q2 : k < l /\ q2[k] = f2[i] /\ q2[l] = f2[j]
  <2>1. i \in DOMAIN f BY <1>2, <1>4
  <2>2. CASE j \in DOMAIN f
    <3>1. PICK k \in DOMAIN q, l \in DOMAIN q : k < l /\ q[k] = f[i] /\ q[l] = f[j]
      BY <1>2, <1>4, <2>1, <2>2 DEF Follows
    <3> QED BY <1>1, <1>2, <2>1, <2>2, <3>1
  <2>3. CASE j = Len(f) + 1
    <3>1. PICK k \in DOMAIN q : q[k] = f[i]
      BY <1>2, <1>4, <2>1 DEF Follows, In
    <3>2. Len(q) + 1 \in DOMAIN q2 BY <1>1
    <3> QED BY <1>1, <1>2, <2>1, <2>3, <3>1, <3>2
  <2> QED BY <1>2, <2>2, <2>3
<1>5. Follows(q2, f2, R)
  BY <1>3, <1>4 DEF Follows
<1> QED BY <1>5 DEF q2, f2

\* A longer queue keeps the order of what followed it.
LEMMA FollowsLater ==
  ASSUME NEW Q, NEW q \in Seq(Q), NEW R, NEW f, NEW c \in Q, Follows(q, f, R)
  PROVE  Follows(Append(q, c), f, R)
<1>1. \A k \in DOMAIN q : k \in DOMAIN Append(q, c) /\ Append(q, c)[k] = q[k]
  OBVIOUS
<1> QED BY <1>1 DEF Follows, In

\* What follows a queue without repetition repeats nothing.
LEMMA FollowsDistinct ==
  ASSUME NEW Q, NEW q \in Seq(Q), NEW R, NEW f, Distinct(q), Follows(q, f, R),
         NEW i \in DOMAIN f, NEW j \in DOMAIN f, i < j, f[i] = f[j]
  PROVE  f[i] \notin R
<1> SUFFICES ASSUME f[i] \in R PROVE FALSE
  OBVIOUS
<1>1. PICK k \in DOMAIN q, l \in DOMAIN q : k < l /\ q[k] = f[i] /\ q[l] = f[j]
  BY DEF Follows
<1>2. k = l /\ k \in Nat
  BY <1>1 DEF Distinct
<1> QED BY <1>1, <1>2

\* The beginning of what follows a queue follows it.
LEMMA FollowsPrefix ==
  ASSUME NEW q, NEW R, NEW S, NEW s \in Seq(S), NEW t \in Seq(S),
         Follows(q, s \o t, R)
  PROVE  Follows(q, s, R)
<1>1. \A i \in DOMAIN s : i \in DOMAIN (s \o t) /\ (s \o t)[i] = s[i]
  OBVIOUS
<1>2. \A i \in DOMAIN s : s[i] \in R => In(s[i], q)
  BY <1>1 DEF Follows
<1>3. ASSUME NEW i \in DOMAIN s, NEW j \in DOMAIN s, i < j, s[i] \in R, s[j] \in R
      PROVE  \E k, l \in DOMAIN q : k < l /\ q[k] = s[i] /\ q[l] = s[j]
  BY <1>1, <1>3 DEF Follows
<1> QED BY <1>2, <1>3 DEF Follows

\* An element in the middle of what follows a queue is in the queue, and was not
\* met before.
LEMMA FollowsNext ==
  ASSUME NEW Q, NEW q \in Seq(Q), NEW R, NEW S, NEW s \in Seq(S), NEW t \in Seq(S),
         NEW p \in S, p \in R, Distinct(q), Follows(q, s \o (<<p>> \o t), R)
  PROVE  In(p, q) /\ ~In(p, s)
<1> DEFINE f == s \o (<<p>> \o t)
           n == Len(s) + 1
<1>1. <<p>> \o t \in Seq(S) /\ (<<p>> \o t)[1] = p /\ Len(<<p>> \o t) = Len(t) + 1
  OBVIOUS
<1>2. /\ n \in DOMAIN f /\ f[n] = p
      /\ \A i \in DOMAIN s : i \in DOMAIN f /\ f[i] = s[i] /\ i < n
  BY <1>1
<1> HIDE DEF f, n
<1>3. Follows(q, f, R)
  BY DEF f
<1>4. In(p, q)
  BY <1>2, <1>3 DEF Follows
<1>5. ASSUME In(p, s) PROVE FALSE
  <2>1. PICK i \in DOMAIN s : s[i] = p
    BY <1>5 DEF In
  <2> QED BY <1>2, <1>3, <2>1, FollowsDistinct
<1> QED BY <1>4, <1>5

-----------------------------------------------------------------------------
(* Six queues in line, the first emptied last.                             *)

Line(w, s, l, o, b, q) == w \o (s \o (l \o (o \o (b \o q))))

LEMMA Unnest ==
  ASSUME NEW S, NEW w \in Seq(S), NEW s \in Seq(S), NEW l \in Seq(S),
         NEW x \in Seq(S), NEW r, NEW R
  PROVE  /\ (w \o s) \o l \in Seq(S)
         /\ Follows(r, w \o (s \o (l \o x)), R) <=> Follows(r, ((w \o s) \o l) \o x, R)
<1> DEFINE e == l \o x
           v == w \o s
<1>1. e \in Seq(S) /\ v \in Seq(S) /\ v \o l \in Seq(S)
  OBVIOUS
<1>2. w \o (s \o e) = v \o e
  <2> HIDE DEF e
  <2> QED BY <1>1
<1>3. v \o e = (v \o l) \o x
  <2> HIDE DEF v
  <2> QED BY <1>1
<1>4. w \o (s \o e) = (v \o l) \o x
  BY <1>2, <1>3, Zenon
<1> QED BY <1>1, <1>4, Zenon

\* A packet of another thread, or a close, gets in the middle of the line.
LEMMA InsertMiddle ==
  ASSUME NEW S, NEW r, NEW R, NEW w \in Seq(S), NEW s \in Seq(S),
         NEW l \in Seq(S), NEW x \in Seq(S), NEW c \in S, c \notin R,
         Follows(r, w \o (s \o (l \o x)), R)
  PROVE  Follows(r, w \o (s \o (l \o (<<c>> \o x))), R)
<1> DEFINE y == <<c>> \o x
           p == (w \o s) \o l
<1>1. y \in Seq(S) /\ p \in Seq(S)
  OBVIOUS
<1>2. Follows(r, p \o x, R)
  BY Unnest
<1>3. Follows(r, p \o y, R)
  <2> HIDE DEF p
  <2> QED BY <1>1, <1>2, FollowsInsert
<1> HIDE DEF y
<1>4. Follows(r, w \o (s \o (l \o y)), R)
  BY <1>1, <1>3, Unnest
<1> QED BY <1>4 DEF y

\* Appending to the last part of a line appends to the line.
Longer(d, y, e) == d = y \o e

LEMMA LongerPart ==
  ASSUME NEW S, NEW x \in Seq(S), NEW y \in Seq(S), NEW e \in Seq(S),
         NEW d, Longer(d, y, e)
  PROVE  Longer(x \o d, x \o y, e)
<1>1. (x \o y) \o e = x \o (y \o e)
  BY ConcatAssociative
<1>2. d = y \o e
  BY DEF Longer
<1> QED BY <1>1, <1>2, Zenon DEF Longer

LEMMA JoinType ==
  ASSUME NEW S, NEW x \in Seq(S), NEW y \in Seq(S)
  PROVE  x \o y \in Seq(S)
OBVIOUS

LEMMA LineEnd ==
  ASSUME NEW S, NEW w \in Seq(S), NEW s \in Seq(S), NEW l \in Seq(S),
         NEW o \in Seq(S), NEW b \in Seq(S), NEW q \in Seq(S),
         NEW e \in Seq(S), NEW r, NEW R
  PROVE  /\ Line(w, s, l, o, b, q) \in Seq(S)
         /\ Follows(r, Line(w, s, l, o, b, q \o e), R)
              <=> Follows(r, Line(w, s, l, o, b, q) \o e, R)
<1>1. b \o q \in Seq(S) /\ Longer(b \o (q \o e), b \o q, e)
  <2>1. Longer(q \o e, q, e)
    BY DEF Longer
  <2>2. b \o q \in Seq(S)
    BY JoinType, Zenon
  <2>3. Longer(b \o (q \o e), b \o q, e)
    BY <2>1, LongerPart, Zenon
  <2> QED BY <2>2, <2>3
<1> DEFINE x == b \o q
           xe == b \o (q \o e)
<1> HIDE DEF x, xe
<1>2. o \o x \in Seq(S) /\ Longer(o \o xe, o \o x, e)
  <2>1. x \in Seq(S) /\ Longer(xe, x, e)
    BY <1>1, Zenon DEF x, xe
  <2>2. o \o x \in Seq(S)
    BY <2>1, JoinType, Zenon
  <2>3. Longer(o \o xe, o \o x, e)
    BY <2>1, LongerPart, Zenon
  <2> QED BY <2>2, <2>3
<1> DEFINE y == o \o x
           ye == o \o xe
<1> HIDE DEF y, ye
<1>3. l \o y \in Seq(S) /\ Longer(l \o ye, l \o y, e)
  <2>1. y \in Seq(S) /\ Longer(ye, y, e)
    BY <1>2, Zenon DEF y, ye
  <2>2. l \o y \in Seq(S)
    BY <2>1, JoinType, Zenon
  <2>3. Longer(l \o ye, l \o y, e)
    BY <2>1, LongerPart, Zenon
  <2> QED BY <2>2, <2>3
<1> DEFINE z == l \o y
           ze == l \o ye
<1> HIDE DEF z, ze
<1>4. s \o z \in Seq(S) /\ Longer(s \o ze, s \o z, e)
  <2>1. z \in Seq(S) /\ Longer(ze, z, e)
    BY <1>3, Zenon DEF z, ze
  <2>2. s \o z \in Seq(S)
    BY <2>1, JoinType, Zenon
  <2>3. Longer(s \o ze, s \o z, e)
    BY <2>1, LongerPart, Zenon
  <2> QED BY <2>2, <2>3
<1> DEFINE u == s \o z
           ue == s \o ze
<1> HIDE DEF u, ue
<1>5. w \o u \in Seq(S) /\ Longer(w \o ue, w \o u, e)
  <2>1. u \in Seq(S) /\ Longer(ue, u, e)
    BY <1>4, Zenon DEF u, ue
  <2>2. w \o u \in Seq(S)
    BY <2>1, JoinType, Zenon
  <2>3. Longer(w \o ue, w \o u, e)
    BY <2>1, LongerPart, Zenon
  <2> QED BY <2>2, <2>3
<1>6. Line(w, s, l, o, b, q \o e) = w \o ue
  BY Zenon DEF Line, xe, ye, ze, ue
<1>7. Line(w, s, l, o, b, q) = w \o u
  BY Zenon DEF Line, x, y, z, u
<1> QED BY <1>5, <1>6, <1>7, Zenon DEF Longer

LEMMA TailLine ==
  ASSUME NEW S, NEW l \in Seq(S), NEW o \in Seq(S), NEW b \in Seq(S), NEW q \in Seq(S)
  PROVE  /\ b \o q \in Seq(S) /\ o \o (b \o q) \in Seq(S)
         /\ l \o (o \o (b \o q)) \in Seq(S)
<1> DEFINE x == b \o q
<1>1. x \in Seq(S)
  OBVIOUS
<1> HIDE DEF x
<1> DEFINE y == o \o x
<1>2. y \in Seq(S)
  BY <1>1
<1> HIDE DEF y
<1>3. l \o y \in Seq(S)
  BY <1>2
<1> QED BY <1>1, <1>2, <1>3, Zenon DEF x, y

LEMMA Empty ==
  ASSUME NEW S, NEW x \in Seq(S), NEW y \in Seq(S)
  PROVE  /\ <<>> \in Seq(S) /\ <<>> \o x = x /\ x \o <<>> = x
         /\ <<>> \o (x \o y) = x \o (<<>> \o y)
<1>1. <<>> \in Seq(S) /\ <<>> \o x = x /\ x \o <<>> = x
  OBVIOUS
<1>2. <<>> \o y = y /\ x \o y \in Seq(S)
  OBVIOUS
<1>3. <<>> \o (x \o y) = x \o y
  <2> DEFINE z == x \o y
  <2> HIDE DEF z
  <2>1. z \in Seq(S) BY <1>2 DEF z
  <2>2. <<>> \o z = z BY <2>1
  <2> QED BY <2>2, Zenon DEF z
<1> QED BY <1>1, <1>2, <1>3, Zenon

(* A step of one element down the line.                                    *)

\* The first queue is emptied into the one before it, which is empty.
LEMMA LineTake ==
  ASSUME NEW S, NEW w \in Seq(S), NEW s \in Seq(S), NEW l \in Seq(S),
         NEW q \in Seq(S), NEW r, NEW R,
         Follows(r, Line(w, s, l, <<>>, <<>>, q), R)
  PROVE  Follows(r, Line(w, s, l, <<>>, q, <<>>), R)
<1>1. <<>> \o q = q /\ q \o <<>> = q
  BY Empty
<1>2. Line(w, s, l, <<>>, <<>>, q) = Line(w, s, l, <<>>, q, <<>>)
  BY <1>1, Zenon DEF Line
<1> QED BY <1>2, Zenon

\* The second queue sends its head on, ...
LEMMA LineStart ==
  ASSUME NEW S, NEW w \in Seq(S), NEW s \in Seq(S), NEW l \in Seq(S),
         NEW b \in Seq(S), NEW q \in Seq(S), NEW r, NEW R, NEW c \in S,
         Follows(r, Line(w, s, l, <<>>, <<c>> \o b, q), R)
  PROVE  Follows(r, Line(w, s, l, <<c>>, b, q), R)
<1>1. <<>> \in Seq(S) /\ <<c>> \in Seq(S) /\ b \o q \in Seq(S)
  OBVIOUS
<1>2. (<<c>> \o b) \o q = <<c>> \o (b \o q)
  <2> DEFINE h == <<c>>
  <2> HIDE DEF h
  <2>1. h \in Seq(S) BY <1>1 DEF h
  <2>2. (h \o b) \o q = h \o (b \o q) BY <2>1
  <2> QED BY <2>2, Zenon DEF h
<1>3. <<>> \o (<<c>> \o (b \o q)) = <<c>> \o (b \o q)
  <2> DEFINE h == <<c>>
             y == b \o q
  <2> HIDE DEF h, y
  <2>1. h \in Seq(S) /\ y \in Seq(S) BY <1>1 DEF h, y
  <2>2. h \o y \in Seq(S) BY <2>1
  <2>3. <<>> \o (h \o y) = h \o y BY <2>2, Empty, Zenon
  <2> QED BY <2>3, Zenon DEF h, y
<1>4. Line(w, s, l, <<>>, <<c>> \o b, q) = Line(w, s, l, <<c>>, b, q)
  BY <1>2, <1>3, Zenon DEF Line
<1> QED BY <1>4, Zenon

\* ... with or without an element that is not in R before it.
LEMMA LineStartTwo ==
  ASSUME NEW S, NEW w \in Seq(S), NEW s \in Seq(S), NEW l \in Seq(S),
         NEW b \in Seq(S), NEW q \in Seq(S), NEW r, NEW R, NEW c \in S,
         NEW d \in S, d \notin R,
         Follows(r, Line(w, s, l, <<>>, <<c>> \o b, q), R)
  PROVE  Follows(r, Line(w, s, l, <<d, c>>, b, q), R)
<1>1. Follows(r, Line(w, s, l, <<c>>, b, q), R)
  BY LineStart, Zenon
<1> DEFINE y == b \o q
           h == <<c>>
           x == h \o y
<1>2. h \in Seq(S) /\ y \in Seq(S) /\ <<d, c>> = <<d>> \o h /\ <<d>> \in Seq(S)
  OBVIOUS
<1> HIDE DEF h, y
<1>3. x \in Seq(S)
  BY <1>2
<1>4. <<d, c>> \o y = <<d>> \o x
  <2> DEFINE e == <<d>>
  <2>1. e \in Seq(S) /\ <<d, c>> = e \o h BY <1>2
  <2> HIDE DEF e
  <2>2. (e \o h) \o y = e \o x BY <1>2, <2>1
  <2>3. <<d, c>> \o y = e \o x BY <2>1, <2>2, Zenon
  <2> QED BY <2>3 DEF e
<1> HIDE DEF x
<1>5. Follows(r, w \o (s \o (l \o x)), R)
  BY <1>1, Zenon DEF Line, x, y, h
<1>6. Follows(r, w \o (s \o (l \o (<<d>> \o x))), R)
  BY <1>3, <1>5, InsertMiddle, Zenon
<1>7. Line(w, s, l, <<d, c>>, b, q) = w \o (s \o (l \o (<<d>> \o x)))
  BY <1>4, Zenon DEF Line, y
<1> QED BY <1>6, <1>7, Zenon

\* The third queue sends its head on, ...
LEMMA LinePush ==
  ASSUME NEW S, NEW w \in Seq(S), NEW s \in Seq(S), NEW l \in Seq(S),
         NEW o \in Seq(S), NEW b \in Seq(S), NEW q \in Seq(S), NEW r, NEW R,
         NEW h \in Seq(S), Follows(r, Line(w, s, l, h \o o, b, q), R)
  PROVE  Follows(r, Line(w, s, l \o h, o, b, q), R)
<1> DEFINE x == b \o q
<1>1. x \in Seq(S)
  OBVIOUS
<1> HIDE DEF x
<1>2. (h \o o) \o x = h \o (o \o x)
  BY <1>1
<1> DEFINE y == o \o x
<1>3. y \in Seq(S)
  BY <1>1
<1> HIDE DEF y
<1>4. l \o (h \o y) = (l \o h) \o y
  BY <1>3
<1>5. Line(w, s, l, h \o o, b, q) = Line(w, s, l \o h, o, b, q)
  BY <1>2, <1>4, Zenon DEF Line, x, y
<1> QED BY <1>5, Zenon

\* ... and another line's third queue does.
LEMMA LinePushOther ==
  ASSUME NEW S, NEW w \in Seq(S), NEW s \in Seq(S), NEW l \in Seq(S),
         NEW o \in Seq(S), NEW b \in Seq(S), NEW q \in Seq(S), NEW r, NEW R,
         NEW c \in S, c \notin R, Follows(r, Line(w, s, l, o, b, q), R)
  PROVE  Follows(r, Line(w, s, l \o <<c>>, o, b, q), R)
<1> DEFINE x == o \o (b \o q)
<1>1. b \o q \in Seq(S) /\ x \in Seq(S)
  BY TailLine
<1> HIDE DEF x
<1> DEFINE h == <<c>>
<1>6. h \in Seq(S)
  OBVIOUS
<1> HIDE DEF h
<1>2. l \o (h \o x) = (l \o h) \o x
  BY <1>1, <1>6
<1>3. Follows(r, w \o (s \o (l \o x)), R)
  BY Zenon DEF Line, x
<1>4. Follows(r, w \o (s \o (l \o (h \o x))), R)
  BY <1>1, <1>3, InsertMiddle, Zenon DEF h
<1>5. Line(w, s, l \o <<c>>, o, b, q) = w \o (s \o ((l \o h) \o x))
  BY Zenon DEF Line, x, h
<1> QED BY <1>2, <1>4, <1>5, Zenon

\* The fourth queue is taken whole.
LEMMA LineAsync ==
  ASSUME NEW S, NEW w \in Seq(S), NEW l \in Seq(S),
         NEW o \in Seq(S), NEW b \in Seq(S), NEW q \in Seq(S), NEW r, NEW R,
         Follows(r, Line(w, <<>>, l, o, b, q), R)
  PROVE  Follows(r, Line(w, l, <<>>, o, b, q), R)
<1> DEFINE x == o \o (b \o q)
<1>1. x \in Seq(S)
  BY TailLine
<1> HIDE DEF x
<1>2. <<>> \o (l \o x) = l \o (<<>> \o x)
  BY <1>1, Empty, Zenon
<1>3. Line(w, <<>>, l, o, b, q) = Line(w, l, <<>>, o, b, q)
  BY <1>2, Zenon DEF Line, x
<1> QED BY <1>3, Zenon

\* Its head is written, ...
LEMMA LineWrite ==
  ASSUME NEW S, NEW w \in Seq(S), NEW s \in Seq(S), NEW l \in Seq(S),
         NEW o \in Seq(S), NEW b \in Seq(S), NEW q \in Seq(S), NEW r, NEW R,
         NEW h \in Seq(S), Follows(r, Line(w, h \o s, l, o, b, q), R)
  PROVE  Follows(r, Line(w \o h, s, l, o, b, q), R)
<1> DEFINE x == l \o (o \o (b \o q))
<1>1. x \in Seq(S)
  BY TailLine
<1> HIDE DEF x
<1>2. (h \o s) \o x = h \o (s \o x)
  BY <1>1
<1> DEFINE y == s \o x
<1>3. y \in Seq(S)
  BY <1>1
<1> HIDE DEF y
<1>4. w \o (h \o y) = (w \o h) \o y
  BY <1>3
<1>5. Line(w, h \o s, l, o, b, q) = Line(w \o h, s, l, o, b, q)
  BY <1>2, <1>4, Zenon DEF Line, x, y
<1> QED BY <1>5, Zenon

\* ... or dropped, ...
LEMMA LineDrop ==
  ASSUME NEW S, NEW w \in Seq(S), NEW s \in Seq(S), NEW l \in Seq(S),
         NEW o \in Seq(S), NEW b \in Seq(S), NEW q \in Seq(S), NEW r, NEW R,
         NEW c \in S, Follows(r, Line(w, <<c>> \o s, l, o, b, q), R)
  PROVE  Follows(r, Line(w, s, l, o, b, q), R)
<1> DEFINE x == l \o (o \o (b \o q))
<1>1. x \in Seq(S)
  BY TailLine
<1> HIDE DEF x
<1> DEFINE h == <<c>>
<1>6. h \in Seq(S)
  OBVIOUS
<1> HIDE DEF h
<1>2. (h \o s) \o x = h \o (s \o x)
  BY <1>1, <1>6
<1>3. Follows(r, w \o (<<c>> \o (s \o x)), R)
  BY <1>2, Zenon DEF Line, x, h
<1>4. s \o x \in Seq(S)
  BY <1>1
<1>5. Follows(r, w \o (s \o x), R)
  BY <1>3, <1>4, FollowsDrop, Zenon
<1> QED BY <1>5, Zenon DEF Line, x

\* ... or an element that is not in R is written.
LEMMA LineNote ==
  ASSUME NEW S, NEW w \in Seq(S), NEW s \in Seq(S), NEW l \in Seq(S),
         NEW o \in Seq(S), NEW b \in Seq(S), NEW q \in Seq(S), NEW r, NEW R,
         NEW c \in S, c \notin R, Follows(r, Line(w, s, l, o, b, q), R)
  PROVE  Follows(r, Line(w \o <<c>>, s, l, o, b, q), R)
<1> DEFINE x == l \o (o \o (b \o q))
<1>1. x \in Seq(S)
  BY TailLine
<1> HIDE DEF x
<1>2. s \o x \in Seq(S)
  BY <1>1
<1> DEFINE h == <<c>>
           z == s \o x
<1>6. h \in Seq(S)
  OBVIOUS
<1> HIDE DEF h, z
<1>7. z \in Seq(S)
  BY <1>2 DEF z
<1>3. w \o (h \o z) = (w \o h) \o z
  BY <1>6, <1>7
<1>4. Follows(r, w \o (s \o x), R)
  BY Zenon DEF Line, x
<1>5. Follows(r, w \o (<<c>> \o (s \o x)), R)
  BY <1>2, <1>4, FollowsInsert, Zenon
<1> QED BY <1>3, <1>5, Zenon DEF Line, x, h, z

=============================================================================

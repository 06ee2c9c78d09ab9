--------------------------- MODULE OvniSortProofs ---------------------------
(***************************************************************************)
(* ovnisort keeps its ring exact (RingSafe), leaves well formed streams in *)
(* order with their own events (SortedSafe), and gives up or dies only     *)
(* when it may (GivesUpSafe), for every trace and every look-back limit.   *)
(*                                                                         *)
(* The argument needs three things: a pointer of the ring is an offset,    *)
(* and the offset of an event is the number of bytes of the events before  *)
(* it, whatever their order (OffsetSame); what qsort() leaves              *)
(* (SortedPartsIs); and that the events before the destination are all     *)
(* before the region (RegionSorted), because the clock that is looked for  *)
(* is the least one of the region.                                         *)
(***************************************************************************)
EXTENDS OvniSort, WellFoundedInduction, FiniteSetTheorems, SequenceTheorems, TLAPS

(* The invariant.                                                          *)

\* The events of a prefix of a stream, and whether they are all different.
Pre(s, n) == {s[i] : i \in 1..n}
Uniq(s) == \A i, j \in 1..Len(s) : s[i] = s[j] => i = j

\* The events of o in another order.
Shuffled(s, o) ==
    /\ s \in Seq(Event) /\ Uniq(s)
    /\ Len(s) = Len(o) /\ Pre(s, Len(s)) = Pre(o, Len(o))

\* The streams keep their events, and those not read yet their place too.
StreamsKept ==
    /\ trace \in Seq(Seq(Event)) /\ orig \in Seq(Seq(Event)) /\ Len(trace) = Len(orig)
    /\ \A c \in 1..Len(orig) :
          /\ \A i \in 1..Len(orig[c]) : orig[c][i].id = i
          /\ Shuffled(trace[c], orig[c])
    /\ mode = "check" => trace = orig

Unread ==
    /\ \A c \in cur + 1..Len(trace) : trace[c] = orig[c]
    /\ cur <= Len(trace) => \A i \in pos..Len(Stream) : Stream[i] = orig[cur][i]

\* Where the tool is.
Place ==
    /\ mode \in {"sort", "check"} /\ size \in Nat \ {0} /\ unsorted \in BOOLEAN
    /\ cur \in 1..Len(trace) + 1
    /\ IF cur <= Len(trace) THEN pos \in 1..Len(Stream) + 1 ELSE pos = 1

\* The ring: the last events, from the head to the tail.
RingOk(r, n) ==
    /\ r = [head |-> r.head, tail |-> r.tail, ev |-> r.ev]
    /\ r.head \in 0..size - 1 /\ r.tail \in 0..size - 1
    /\ r.ev = [i \in 0..size - 1 |-> r.ev[i]]
    /\ IF n < size - 1 THEN r.head = 0 /\ r.tail = n
       ELSE Count(r, r.head) = size - 1

Points(r, n, s, p) == \A k \in 0..n - 1 : r.ev[Nth(r, k)] = Offset(s, p - 1 - k)

Kept == IF pos - 1 < size - 1 THEN pos - 1 ELSE size - 1

RingInv == RingOk(ring, Kept) /\ Points(ring, Kept, Stream, pos)

UpTo(s, n) == \A i, j \in 1..n : i < j => s[i].clock <= s[j].clock

\* A region that begins with event b.
Region(b) ==
    LET q == States(orig[cur]) IN
    /\ b \in 2..pos - 1 /\ q[b - 1] = "U" /\ \A i \in b..pos - 1 : q[i] = "X"
    /\ bad0 = Offset(Stream, b)
    /\ \A i \in b..pos - 1 : Stream[i] = orig[cur][i]
    /\ WellFormed(orig[cur]) => UpTo(Stream, b - 1)

\* What stream_winsort() has done in the stream.
Winsorted ==
    cur <= Len(trace) =>
        /\ st = States(orig[cur])[pos - 1]
        /\ IF st = "X" THEN \E b \in 1..pos - 1 : Region(b)
           ELSE WellFormed(orig[cur]) => UpTo(Stream, pos - 1)

Checked ==
    /\ ~unsorted /\ cur <= Len(trace) =>
          /\ \A i \in 1..pos - 2 : Stream[i].clock <= Stream[i + 1].clock
          /\ pos > 1 => last = Stream[pos - 1].clock
    /\ unsorted => \E c \in 1..Len(orig) : Broken(orig[c]) \/ ~Ordered(orig[c])

PastOrdered ==
    \A c \in 1..cur - 1 :
        (IF mode = "check" THEN ~unsorted ELSE WellFormed(orig[c])) => Ordered(trace[c])

SortInv ==
    /\ StreamsKept /\ Place
    /\ status = "run" => Unread /\ PastOrdered
    /\ status = "run" /\ mode = "sort" => RingInv /\ Winsorted /\ ~unsorted
    /\ status = "run" /\ mode = "check" => Checked
    /\ status = "ok" => \A c \in 1..Len(trace) :
                            mode = "check" \/ WellFormed(orig[c]) => Ordered(trace[c])
    /\ GivesUpFar

-----------------------------------------------------------------------------
(* Induction, and recursive functions of the naturals.                     *)

\* Every nonempty set of naturals has a least element.
LEMMA LeastNat ==
  ASSUME NEW S \in SUBSET Nat, S # {}
  PROVE  \E m \in S : \A n \in S : m <= n
<1> DEFINE R == OpToRel(<, Nat)
<1>1. IsWellFoundedOn(R, Nat)
  BY NatLessThanWellFounded
<1>2. R = {p \in Nat \X Nat : p[1] < p[2]}
  BY DEF OpToRel
<1> HIDE DEF R
<1>3. \E x \in S : \A y \in S : ~(<<y, x>> \in R)
  BY <1>1, WFMin
<1>4. \A x, y \in S : <<y, x>> \in R <=> y < x
  BY <1>2
<1>5. PICK x \in S : \A y \in S : ~(<<y, x>> \in R)
  BY <1>3
<1>6. \A y \in S : x <= y
  <2> TAKE y \in S
  <2>1. x \in Nat /\ y \in Nat /\ ~(y < x)
    BY <1>4, <1>5
  <2> QED
    BY <2>1
<1> QED
  BY <1>6

\* Induction, for a set of naturals.
LEMMA SetInduction ==
  ASSUME NEW S, \A n \in Nat : (\A m \in Nat : m < n => m \in S) => n \in S
  PROVE  \A n \in Nat : n \in S
<1> SUFFICES ASSUME Nat \ S # {} PROVE FALSE
  OBVIOUS
<1>1. PICK m \in Nat \ S : \A n \in Nat \ S : m <= n
  BY LeastNat
<1>2. \A n \in Nat : n < m => n \in S
  BY <1>1
<1> QED
  BY <1>1, <1>2

\* A recursive function of a natural: f[0] is b and g gives f[i] from f[i - 1].
Recurrence(n, S, b, g) == n \in Nat /\ b \in S /\ g \in [S \X (1..n) -> S]

\* Such a function exists.
LEMMA RecurrenceDefined ==
  ASSUME NEW n, NEW S, NEW b, NEW g, Recurrence(n, S, b, g)
  PROVE  \E f \in [0..n -> S] : f[0] = b /\ \A i \in 1..n : f[i] = g[<<f[i - 1], i>>]
<1> USE DEF Recurrence
<1> DEFINE Sol(f, m) == f \in [0..m -> S] /\ f[0] = b /\ \A i \in 1..m : f[i] = g[<<f[i - 1], i>>]
           T == {m \in Nat : m <= n => \E f : Sol(f, m)}
<1>1. ASSUME NEW m \in Nat, \A k \in Nat : k < m => k \in T PROVE m \in T
  <2> SUFFICES ASSUME m <= n PROVE \E f : Sol(f, m)
    OBVIOUS
  <2>1. CASE m = 0
    <3> DEFINE h == [i \in 0..0 |-> b]
    <3>2. h \in [0..0 -> S] /\ h[0] = b /\ 1..0 = {}
      OBVIOUS
    <3> HIDE DEF h
    <3>1. Sol(h, 0)
      BY <3>2
    <3> QED
      BY <2>1, <3>1
  <2>2. CASE m # 0
    <3>1. m - 1 \in T /\ m - 1 \in Nat /\ m - 1 <= n /\ n \in Nat /\ m \in 1..n
      <4>1. m - 1 \in Nat /\ m - 1 < m /\ m - 1 <= n /\ n \in Nat /\ m \in 1..n
        BY <2>2
      <4> HIDE DEF T
      <4> QED
        BY <1>1, <4>1
    <3>2. PICK f : Sol(f, m - 1)
      BY <3>1
    <3> DEFINE h == [i \in 0..m |-> IF i = m THEN g[<<f[m - 1], m>>] ELSE f[i]]
    <3>3. f[m - 1] \in S /\ <<f[m - 1], m>> \in S \X (1..n)
      BY <3>1, <3>2
    <3>4. h \in [0..m -> S]
      <4>1. g[<<f[m - 1], m>>] \in S
        BY <3>3
      <4>2. \A i \in 0..m : i # m => f[i] \in S
        BY <3>1, <3>2
      <4> QED
        BY <4>1, <4>2
    <3>5. h[0] = b
      BY <2>2, <3>1, <3>2
    <3>6. ASSUME NEW i \in 1..m PROVE h[i] = g[<<h[i - 1], i>>]
      <4>1. h[i - 1] = f[i - 1]
        BY <3>1
      <4>2. CASE i = m
        <5>1. h[m] = g[<<f[m - 1], m>>]
          BY <3>1
        <5> HIDE DEF h
        <5> QED
          BY <4>1, <4>2, <5>1
      <4>3. CASE i # m
        <5>1. i \in 1..m - 1
          BY <3>1, <4>3
        <5>2. f[i] = g[<<f[i - 1], i>>]
          BY <3>2, <5>1
        <5>3. h[i] = f[i]
          BY <4>3
        <5> QED
          BY <4>1, <5>2, <5>3
      <4> QED
        BY <4>2, <4>3
    <3>7. Sol(h, m)
      BY <3>4, <3>5, <3>6
    <3> QED
      BY <3>7
  <2> QED
    BY <2>1, <2>2
<1> HIDE DEF T
<1>2. \A m \in Nat : m \in T
  BY <1>1, SetInduction
<1>3. n \in T /\ n \in Nat
  BY <1>2
<1> QED
  BY <1>3 DEF T

\* The fields of an event.
LEMMA EventType ==
  ASSUME NEW e \in Event
  PROVE  e.clock \in Nat /\ e.size \in Nat /\ e.size > 0 /\ e.mark \in {"[", "]", "none"} /\ e.id \in Nat
  BY DEF Event

\* Where the events begin: the first at zero, each after the one before it.
LEMMA OffsetStep ==
  ASSUME NEW s \in Seq(Event)
  PROVE  /\ Offset(s, 1) = 0
         /\ \A i \in 1..Len(s) + 1 : Offset(s, i) \in Nat
         /\ \A i \in 1..Len(s) : Offset(s, i + 1) = Offset(s, i) + s[i].size
<1> DEFINE n == Len(s)
           g == [x \in Nat \X (1..n) |-> x[1] + s[x[2]].size]
           Body(f) == [k \in 0..Len(s) |-> IF k = 0 THEN 0 ELSE f[k - 1] + s[k].size]
           F == CHOOSE u : u = Body(u)
<1>1. n \in Nat /\ \A i \in 1..n : s[i] \in Event /\ s[i].size \in Nat
  <2>1. n \in Nat /\ \A i \in 1..n : s[i] \in Event
    BY LenProperties, ElementOfSeq
  <2> QED
    BY <2>1, EventType
<1> HIDE DEF n
<1>2. Recurrence(n, Nat, 0, g)
  <2>1. \A x \in Nat \X (1..n) : x[1] \in Nat /\ x[2] \in 1..n
    OBVIOUS
  <2>2. \A x \in Nat \X (1..n) : x[1] + s[x[2]].size \in Nat
    BY <1>1, <2>1
  <2> QED
    BY <1>1, <2>2 DEF Recurrence
<1>3. \A x \in Nat, i \in 1..n : g[<<x, i>>] = x + s[i].size
  OBVIOUS
<1> HIDE DEF g
<1>4. PICK f \in [0..n -> Nat] : f[0] = 0 /\ \A i \in 1..n : f[i] = g[<<f[i - 1], i>>]
  BY <1>2, RecurrenceDefined
<1>5. ASSUME NEW i \in 1..n PROVE f[i] = f[i - 1] + s[i].size
  <2>1. i - 1 \in 0..n
    BY <1>1
  <2>2. f[i - 1] \in Nat
    BY <1>4, <2>1
  <2> QED
    BY <1>3, <1>4, <2>2
<1>6. f = Body(f)
  <2>1. \A k \in 0..n : f[k] = IF k = 0 THEN 0 ELSE f[k - 1] + s[k].size
    BY <1>1, <1>4, <1>5
  <2>2. f = [k \in 0..n |-> f[k]]
    BY <1>4
  <2> QED
    BY <2>1, <2>2 DEF n
<1>7. F = Body(F)
  <2> HIDE DEF Body
  <2> QED
    BY <1>6
<1>8. \A i : Offset(s, i) = F[i - 1]
  BY Zenon DEF Offset
<1> HIDE DEF F
<1>9. /\ F[0] = 0 /\ \A i \in 1..n : F[i] = F[i - 1] + s[i].size
  BY <1>1, <1>7 DEF n
<1>10. \A i \in 0..n : F[i] \in Nat
  <2> DEFINE T == {m \in Nat : m <= n => F[m] \in Nat}
  <2>1. ASSUME NEW m \in Nat, \A k \in Nat : k < m => k \in T PROVE m \in T
    <3> SUFFICES ASSUME m <= n PROVE F[m] \in Nat
      OBVIOUS
    <3>1. CASE m = 0
      BY <1>9, <3>1
    <3>2. CASE m # 0
      <4>1. m - 1 \in T /\ m - 1 \in Nat /\ m - 1 <= n /\ m \in 1..n
        BY <1>1, <2>1, <3>2
      <4>2. F[m - 1] \in Nat /\ s[m].size \in Nat
        BY <1>1, <4>1
      <4> QED
        BY <1>9, <4>1, <4>2
    <3> QED
      BY <3>1, <3>2
  <2> HIDE DEF T
  <2>2. \A m \in Nat : m \in T
    BY <2>1, SetInduction
  <2> QED
    BY <1>1, <2>2 DEF T
<1>11. \A i \in 1..n + 1 : i - 1 \in 0..n
  BY <1>1
<1>12. \A i \in 1..n : (i + 1) - 1 = i
  BY <1>1
<1>13. \A i \in 1..n + 1 : Offset(s, i) = F[i - 1] /\ F[i - 1] \in Nat
  BY <1>8, <1>10, <1>11
<1>14. ASSUME NEW i \in 1..n PROVE Offset(s, i + 1) = Offset(s, i) + s[i].size
  <2>1. Offset(s, i + 1) = F[i] /\ Offset(s, i) = F[i - 1]
    BY <1>8, <1>12
  <2> QED
    BY <1>9, <2>1
<1>15. Offset(s, 1) = F[0]
  BY <1>8
<1> QED
  BY <1>9, <1>13, <1>14, <1>15 DEF n

\* The state of stream_winsort() after each event.
LEMMA StatesStep ==
  ASSUME NEW s \in Seq(Event)
  PROVE  /\ States(s)[0] = "S"
         /\ \A i \in 1..Len(s) : States(s)[i] = NextSt(States(s)[i - 1], s[i])
<1> DEFINE n == Len(s)
           S == {"S", "U", "X"}
           g == [x \in S \X (1..n) |-> NextSt(x[1], s[x[2]])]
           Body(f) == [i \in 0..Len(s) |-> IF i = 0 THEN "S" ELSE NextSt(f[i - 1], s[i])]
           F == CHOOSE u : u = Body(u)
<1>1. n \in Nat
  BY LenProperties
<1> HIDE DEF n
<1>2. \A x \in S \X (1..n) : NextSt(x[1], s[x[2]]) \in S
  BY DEF NextSt
<1>3. Recurrence(n, S, "S", g)
  BY <1>1, <1>2 DEF Recurrence
<1>4. \A x \in S, i \in 1..n : g[<<x, i>>] = NextSt(x, s[i])
  OBVIOUS
<1> HIDE DEF g, S
<1>5. PICK f \in [0..n -> S] : f[0] = "S" /\ \A i \in 1..n : f[i] = g[<<f[i - 1], i>>]
  BY <1>3, RecurrenceDefined
<1>6. ASSUME NEW i \in 1..n PROVE f[i] = NextSt(f[i - 1], s[i])
  <2>1. i - 1 \in 0..n
    BY <1>1
  <2>2. f[i - 1] \in S
    BY <1>5, <2>1
  <2> QED
    BY <1>4, <1>5, <2>2
<1>7. f = Body(f)
  <2>1. \A k \in 0..n : f[k] = IF k = 0 THEN "S" ELSE NextSt(f[k - 1], s[k])
    BY <1>1, <1>5, <1>6
  <2>2. f = [k \in 0..n |-> f[k]]
    BY <1>5
  <2> QED
    BY <2>1, <2>2 DEF n
<1>8. F = Body(F)
  <2> HIDE DEF Body
  <2> QED
    BY <1>7
<1>9. States(s) = F
  BY Zenon DEF States
<1> HIDE DEF F
<1>10. /\ F[0] = "S" /\ \A i \in 1..n : F[i] = NextSt(F[i - 1], s[i])
  BY <1>1, <1>8 DEF n
<1> QED
  BY <1>9, <1>10 DEF n

-----------------------------------------------------------------------------
(* Where events begin.                                                     *)

\* Offsets grow: no event is empty.
LEMMA OffsetLess ==
  ASSUME NEW s \in Seq(Event), NEW i \in 1..Len(s) + 1, NEW j \in 1..Len(s) + 1, i < j
  PROVE  Offset(s, i) < Offset(s, j)
<1>1. Len(s) \in Nat /\ i \in Nat
  BY LenProperties
<1> DEFINE T == {m \in Nat : m \in 1..Len(s) + 1 /\ i < m => Offset(s, i) < Offset(s, m)}
<1>2. ASSUME NEW m \in Nat, \A k \in Nat : k < m => k \in T PROVE m \in T
  <2> SUFFICES ASSUME m \in 1..Len(s) + 1, i < m PROVE Offset(s, i) < Offset(s, m)
    OBVIOUS
  <2> DEFINE k == m - 1
  <2>1. k \in Nat /\ k < m /\ k \in 1..Len(s) /\ k \in 1..Len(s) + 1 /\ m = k + 1 /\ i <= k
    BY <1>1
  <2>2. k \in T
    BY <1>2, <2>1
  <2> HIDE DEF k
  <2>3. s[k].size \in Nat /\ s[k].size > 0
    BY <2>1, ElementOfSeq, EventType
  <2>4. Offset(s, m) = Offset(s, k) + s[k].size /\ Offset(s, k) \in Nat /\ Offset(s, i) \in Nat
    BY <2>1, OffsetStep
  <2>5. i = k \/ Offset(s, i) < Offset(s, k)
    <3>1. i = k \/ i < k
      BY <1>1, <2>1
    <3> QED
      BY <2>1, <2>2, <3>1
  <2> QED
    BY <2>3, <2>4, <2>5
<1> HIDE DEF T
<1>3. \A m \in Nat : m \in T
  BY <1>2, SetInduction
<1> QED
  BY <1>1, <1>3 DEF T

\* One event begins at an offset.
LEMMA AtIs ==
  ASSUME NEW s \in Seq(Event), NEW i \in 1..Len(s)
  PROVE  At(s, Offset(s, i)) = {i} /\ ClockAt(s, Offset(s, i)) = s[i].clock
<1>1. Len(s) \in Nat /\ DOMAIN s = 1..Len(s)
  BY LenProperties
<1>2. ASSUME NEW j \in 1..Len(s), Offset(s, j) = Offset(s, i) PROVE j = i
  <2>1. Offset(s, i) \in Nat /\ i \in 1..Len(s) + 1 /\ j \in 1..Len(s) + 1 /\ i \in Nat /\ j \in Nat
    BY <1>1, OffsetStep
  <2>2. ~(i < j) /\ ~(j < i)
    BY <1>2, <2>1, OffsetLess
  <2> QED
    BY <2>1, <2>2
<1>3. At(s, Offset(s, i)) = {i}
  BY <1>1, <1>2 DEF At
<1>4. (CHOOSE k \in {i} : TRUE) = i
  OBVIOUS
<1>5. {i} # {}
  OBVIOUS
<1> QED
  BY <1>3, <1>4, <1>5 DEF ClockAt

\* The bytes of the events of a set.
Cells(E) == UNION {{e} \X (1..e.size) : e \in E}

\* An event more has its bytes more.
LEMMA CellsAdd ==
  ASSUME NEW E, NEW e, e \notin E, IsFiniteSet(Cells(E)), e.size \in Nat, e.size > 0
  PROVE  IsFiniteSet(Cells(E \union {e})) /\ Cardinality(Cells(E \union {e})) = Cardinality(Cells(E)) + e.size
<1> DEFINE C == {e} \X (1..e.size)
<1>1. IsFiniteSet(C) /\ Cardinality(C) = e.size
  <2>1. IsFiniteSet({e}) /\ Cardinality({e}) = 1
    BY FS_Singleton
  <2>2. IsFiniteSet(1..e.size) /\ Cardinality(1..e.size) = e.size
    <3> DEFINE z == e.size
    <3>1. z \in Nat /\ z > 0 /\ z \in Int /\ 1 \in Int
      OBVIOUS
    <3> HIDE DEF z
    <3>2. IsFiniteSet(1..z) /\ Cardinality(1..z) = IF 1 > z THEN 0 ELSE z - 1 + 1
      BY <3>1, FS_Interval
    <3>3. Cardinality(1..z) = z
      BY <3>1, <3>2
    <3> QED
      BY <3>2, <3>3 DEF z
  <2>3. IsFiniteSet(C) /\ Cardinality(C) = 1 * e.size
    BY <2>1, <2>2, FS_Product
  <2> QED
    BY <2>3
<1>2. Cells(E) \intersect C = {}
  BY DEF Cells
<1>3. Cells(E \union {e}) = Cells(E) \union C
  BY DEF Cells
<1> HIDE DEF C
<1>4. IsFiniteSet(Cells(E) \union C) /\ Cardinality(Cells(E) \union C) = Cardinality(Cells(E)) + Cardinality(C) - Cardinality(Cells(E) \intersect C)
  BY <1>1, FS_Union
<1>5. Cardinality(Cells(E) \intersect C) = 0 /\ Cardinality(Cells(E)) \in Nat
  BY <1>2, FS_EmptySet, FS_CardinalityType
<1> DEFINE u == Cardinality(Cells(E))
           v == Cardinality(Cells(E) \union C)
           z == e.size
<1>6. v = u + z - 0 /\ u \in Nat /\ z \in Nat
  BY <1>1, <1>4, <1>5
<1>7. v = u + z
  <2> HIDE DEF u, v, z
  <2> QED
    BY <1>6
<1> QED
  BY <1>3, <1>4, <1>7

\* An offset is the number of bytes of the events before it, in any order.
LEMMA OffsetCells ==
  ASSUME NEW s \in Seq(Event), Uniq(s), NEW i \in 1..Len(s) + 1
  PROVE  Offset(s, i) = Cardinality(Cells(Pre(s, i - 1)))
<1>1. Len(s) \in Nat
  BY LenProperties
<1> DEFINE C(m) == Cells(Pre(s, m))
           T == {m \in Nat : m <= Len(s) => IsFiniteSet(C(m)) /\ Offset(s, m + 1) = Cardinality(C(m))}
<1>2. ASSUME NEW m \in Nat, \A k \in Nat : k < m => k \in T PROVE m \in T
  <2> SUFFICES ASSUME m <= Len(s) PROVE IsFiniteSet(C(m)) /\ Offset(s, m + 1) = Cardinality(C(m))
    OBVIOUS
  <2>1. CASE m = 0
    <3>1. C(m) = {}
      BY <2>1 DEF Cells, Pre
    <3>2. Offset(s, m + 1) = 0
      BY <2>1, OffsetStep
    <3> QED
      BY <3>1, <3>2, FS_EmptySet
  <2>2. CASE m # 0
    <3> DEFINE k == m - 1
    <3>1. k \in Nat /\ k < m /\ k <= Len(s) /\ m = k + 1 /\ m \in 1..Len(s)
      BY <1>1, <2>2
    <3>2. k \in T
      BY <1>2, <3>1
    <3> HIDE DEF k
    <3>3. Pre(s, m) = Pre(s, k) \union {s[m]}
      <4>1. 1..m = (1..k) \union {m}
        BY <3>1
      <4> QED
        BY <4>1 DEF Pre
    <3>4. s[m] \notin Pre(s, k)
      <4>1. ASSUME NEW j \in 1..k PROVE s[j] # s[m]
        <5>1. j \in 1..Len(s) /\ j # m
          BY <1>1, <3>1
        <5> QED
          BY <3>1, <5>1 DEF Uniq
      <4> QED
        BY <4>1 DEF Pre
    <3>5. s[m].size \in Nat /\ s[m].size > 0
      BY <3>1, ElementOfSeq, EventType
    <3>6. IsFiniteSet(C(k)) /\ Offset(s, k + 1) = Cardinality(C(k))
      BY <3>1, <3>2
    <3>7. IsFiniteSet(C(m)) /\ Cardinality(C(m)) = Cardinality(C(k)) + s[m].size
      BY <3>3, <3>4, <3>5, <3>6, CellsAdd
    <3>8. Offset(s, m + 1) = Offset(s, m) + s[m].size
      BY <3>1, OffsetStep
    <3> QED
      BY <3>1, <3>6, <3>7, <3>8
  <2> QED
    BY <2>1, <2>2
<1> HIDE DEF T
<1>3. \A m \in Nat : m \in T
  BY <1>2, SetInduction
<1>4. i - 1 \in T /\ i - 1 <= Len(s) /\ (i - 1) + 1 = i
  BY <1>1, <1>3
<1>5. Offset(s, (i - 1) + 1) = Cardinality(C(i - 1))
  BY <1>4 DEF T
<1> QED
  BY <1>4, <1>5

\* So it does not change when the events before it are moved.
LEMMA OffsetSame ==
  ASSUME NEW s \in Seq(Event), Uniq(s), NEW t \in Seq(Event), Uniq(t), Len(s) = Len(t),
         NEW i \in 1..Len(s) + 1, Pre(s, i - 1) = Pre(t, i - 1)
  PROVE  Offset(s, i) = Offset(t, i)
  BY OffsetCells

\* Arithmetic of the ring.
LEMMA RingMod ==
  ASSUME NEW n \in Nat \ {0}, NEW x \in -n..n - 1
  PROVE  x % n = (IF x >= 0 THEN x ELSE x + n)
  OBVIOUS

-----------------------------------------------------------------------------
(* qsort().                                                                *)

\* The events a to b - 1 of a stream.
Part(s, a, b) == {s[i] : i \in a..b - 1}

\* The first of a set of events, as qsort() may choose.
First(S) == {e \in S : \A f \in S : e.clock <= f.clock}

\* A beginning of the events of E in order.
Begins(p, E, n) ==
    /\ p \in Seq(E) /\ Len(p) = n /\ Uniq(p) /\ UpTo(p, n)
    /\ \A i \in 1..n : \A e \in E \ ToSet(p) : p[i].clock <= e.clock

\* The next event that qsort() leaves.
LEMMA BeginsAppend ==
  ASSUME NEW E \in SUBSET Event, NEW n \in Nat, NEW p, Begins(p, E, n), NEW e \in First(E \ ToSet(p))
  PROVE  Begins(Append(p, e), E, n + 1)
<1> DEFINE q == Append(p, e)
<1>1. p \in Seq(E) /\ Len(p) = n /\ Uniq(p) /\ UpTo(p, n) /\ e \in E /\ e \notin ToSet(p)
  BY DEF Begins, First
<1>2. /\ q \in Seq(E) /\ Len(q) = n + 1 /\ q[n + 1] = e /\ \A i \in 1..n : q[i] = p[i]
      /\ DOMAIN p = 1..n /\ DOMAIN q = 1..n + 1
  BY <1>1, AppendProperties, LenProperties
<1> HIDE DEF q
<1>3. \A i \in 1..n : p[i] \in ToSet(p) /\ p[i] # e
  BY <1>1, <1>2 DEF ToSet
<1>4. Uniq(q)
  <2> SUFFICES ASSUME NEW i \in 1..n + 1, NEW j \in 1..n + 1, q[i] = q[j] PROVE i = j
    BY <1>2 DEF Uniq
  <2>1. i \in 1..n \/ i = n + 1
    OBVIOUS
  <2>2. j \in 1..n \/ j = n + 1
    OBVIOUS
  <2>3. i \in 1..n /\ j \in 1..n => i = j
    BY <1>1, <1>2 DEF Uniq
  <2> QED
    BY <1>2, <1>3, <2>1, <2>2, <2>3
<1>5. \A i \in 1..n : p[i].clock <= e.clock
  BY <1>1 DEF Begins
<1>6. UpTo(q, n + 1)
  <2> SUFFICES ASSUME NEW i \in 1..n + 1, NEW j \in 1..n + 1, i < j PROVE q[i].clock <= q[j].clock
    BY DEF UpTo
  <2>1. i \in 1..n
    OBVIOUS
  <2>2. CASE j = n + 1
    BY <1>2, <1>5, <2>1, <2>2
  <2>3. CASE j # n + 1
    <3>1. j \in 1..n
      BY <2>3
    <3>2. p[i].clock <= p[j].clock
      BY <1>1, <2>1, <3>1 DEF UpTo
    <3> QED
      BY <1>2, <2>1, <3>1, <3>2
  <2> QED
    BY <2>2, <2>3
<1>7. ASSUME NEW i \in 1..n + 1, NEW f \in E \ ToSet(q) PROVE q[i].clock <= f.clock
  <2>1. f \notin ToSet(p)
    <3>1. \A k \in 1..n : k \in 1..n + 1
      OBVIOUS
    <3>2. \A k \in DOMAIN p : p[k] = q[k] /\ k \in DOMAIN q
      BY <1>2, <3>1
    <3> QED
      BY <3>2 DEF ToSet
  <2>2. CASE i = n + 1
    <3>1. e.clock <= f.clock
      BY <2>1 DEF First
    <3> QED
      BY <1>2, <2>2, <3>1
  <2>3. CASE i # n + 1
    <3>1. i \in 1..n
      BY <2>3
    <3> QED
      BY <1>2, <2>1, <3>1 DEF Begins
  <2> QED
    BY <2>2, <2>3
<1>8. Begins(q, E, n + 1)
  BY <1>2, <1>4, <1>6, <1>7 DEF Begins
<1> QED
  BY <1>8 DEF q

\* A part of a stream has as many events as places.
LEMMA PartSize ==
  ASSUME NEW s \in Seq(Event), Uniq(s), NEW a \in Nat \ {0}, NEW b \in Nat, a <= b, b <= Len(s) + 1
  PROVE  IsFiniteSet(Part(s, a, b)) /\ Cardinality(Part(s, a, b)) = b - a
<1>1. Len(s) \in Nat
  BY LenProperties
<1>2. \A i \in a..b - 1 : i \in 1..Len(s)
  BY <1>1
<1>3. IsFiniteSet(a..b - 1) /\ Cardinality(a..b - 1) = b - a
  <2>1. a \in Int /\ b - 1 \in Int
    OBVIOUS
  <2>2. IsFiniteSet(a..b - 1) /\ Cardinality(a..b - 1) = IF a > b - 1 THEN 0 ELSE (b - 1) - a + 1
    BY <2>1, FS_Interval
  <2> QED
    BY <2>2
<1> DEFINE f == [i \in a..b - 1 |-> s[i]]
<1>4. f \in Bijection(a..b - 1, Part(s, a, b))
  <2>1. f \in [a..b - 1 -> Part(s, a, b)]
    BY DEF Part
  <2>2. \A i, j \in a..b - 1 : f[i] = f[j] => i = j
    BY <1>2 DEF Uniq
  <2>3. \A e \in Part(s, a, b) : \E i \in a..b - 1 : f[i] = e
    BY DEF Part
  <2> HIDE DEF f
  <2> QED
    BY <2>1, <2>2, <2>3 DEF Bijection, Injection, Surjection, IsInjective
<1>5. ExistsBijection(a..b - 1, Part(s, a, b))
  BY <1>4 DEF ExistsBijection
<1> QED
  BY <1>3, <1>5, FS_Bijection

\* qsort() leaves the events of the part in order.
LEMMA SortedPartsIs ==
  ASSUME NEW s \in Seq(Event), Uniq(s), NEW a \in Nat \ {0}, NEW b \in Nat, a <= b, b <= Len(s) + 1,
         NEW p \in SortedParts(s, a, b)
  PROVE  /\ p \in Seq(Event) /\ Len(p) = b - a /\ Uniq(p) /\ UpTo(p, Len(p))
         /\ ToSet(p) = Part(s, a, b)
<1> DEFINE n == b - a
           E == Part(s, a, b)
           S == SUBSET Seq(E)
           Nxt(X) == UNION {{Append(r, e) : e \in First(E \ ToSet(r))} : r \in X}
           g == [x \in S \X (1..n) |-> Nxt(x[1])]
           Body(f) == [k \in 0..b - a |-> IF k = 0 THEN {<<>>} ELSE Nxt(f[k - 1])]
           F == CHOOSE u : u = Body(u)
<1>1. n \in Nat
  OBVIOUS
<1>2. E \in SUBSET Event
  <2>1. Len(s) \in Nat
    BY LenProperties
  <2>2. \A i \in a..b - 1 : i \in 1..Len(s)
    BY <2>1
  <2> QED
    BY <2>2, ElementOfSeq DEF Part
<1>3. \A X \in S : Nxt(X) \in S
  <2> SUFFICES ASSUME NEW X \in S, NEW y \in Nxt(X) PROVE y \in Seq(E)
    BY Zenon
  <2>1. PICK r \in X : \E e \in First(E \ ToSet(r)) : y = Append(r, e)
    OBVIOUS
  <2>2. PICK e \in First(E \ ToSet(r)) : y = Append(r, e)
    BY <2>1
  <2>3. r \in Seq(E) /\ e \in E
    BY DEF First
  <2> QED
    BY <2>2, <2>3, AppendProperties
<1>4. SortedParts(s, a, b) = F[b - a]
  BY Zenon DEF SortedParts, Part, First
<1> HIDE DEF Nxt
<1>5. Recurrence(n, S, {<<>>}, g)
  <2>1. {<<>>} \in S
    OBVIOUS
  <2>2. \A x \in S \X (1..n) : x[1] \in S
    OBVIOUS
  <2>3. \A x \in S \X (1..n) : Nxt(x[1]) \in S
    BY <1>3, <2>2
  <2> QED
    BY <1>1, <2>1, <2>3 DEF Recurrence
<1>6. \A X \in S, i \in 1..n : g[<<X, i>>] = Nxt(X)
  OBVIOUS
<1> HIDE DEF g, S, E
<1>7. PICK f \in [0..n -> S] : f[0] = {<<>>} /\ \A i \in 1..n : f[i] = g[<<f[i - 1], i>>]
  BY <1>5, RecurrenceDefined
<1>8. f = Body(f)
  <2>1. ASSUME NEW i \in 1..n PROVE f[i] = Nxt(f[i - 1])
    <3>1. i - 1 \in 0..n
      BY <1>1
    <3>2. f[i - 1] \in S
      BY <1>7, <3>1
    <3> QED
      BY <1>6, <1>7, <3>2
  <2>2. \A k \in 0..n : f[k] = IF k = 0 THEN {<<>>} ELSE Nxt(f[k - 1])
    BY <1>1, <1>7, <2>1
  <2>3. f = [k \in 0..n |-> f[k]]
    BY <1>7
  <2> QED
    BY <2>2, <2>3
<1>9. F = Body(F)
  <2> HIDE DEF Body
  <2> QED
    BY <1>8
<1> HIDE DEF F
<1>10. F[0] = {<<>>} /\ \A i \in 1..n : F[i] = Nxt(F[i - 1])
  <2>1. \A i \in 0..n : Body(F)[i] = IF i = 0 THEN {<<>>} ELSE Nxt(F[i - 1])
    BY Zenon
  <2>2. \A i \in 0..n : F[i] = Body(F)[i]
    <3> HIDE DEF Body
    <3> QED
      BY <1>9
  <2> HIDE DEF Body
  <2>3. \A i \in 1..n : i \in 0..n /\ i # 0
    BY <1>1
  <2>4. 0 \in 0..n
    BY <1>1
  <2>5. F[0] = {<<>>}
    BY <2>1, <2>2, <2>4, Zenon
  <2> QED
    BY <2>1, <2>2, <2>3, <2>5, Zenon
<1>11. \A r \in F[n] : Begins(r, E, n)
  <2> DEFINE T == {m \in Nat : m <= n => \A r \in F[m] : Begins(r, E, m)}
  <2>1. ASSUME NEW m \in Nat, \A k \in Nat : k < m => k \in T PROVE m \in T
    <3> SUFFICES ASSUME m <= n, NEW r \in F[m] PROVE Begins(r, E, m)
      OBVIOUS
    <3>1. CASE m = 0
      <4>1. r = <<>>
        BY <1>10, <3>1
      <4>2. <<>> \in Seq(E) /\ Len(<<>>) = 0 /\ 1..0 = {}
        OBVIOUS
      <4> QED
        BY <3>1, <4>1, <4>2 DEF Begins, Uniq, UpTo
    <3>2. CASE m # 0
      <4> DEFINE k == m - 1
      <4>1. k \in Nat /\ k < m /\ k <= n /\ m \in 1..n /\ m = k + 1
        BY <1>1, <3>2
      <4>2. k \in T
        BY <2>1, <4>1
      <4>3. r \in Nxt(F[k])
        BY <1>10, <4>1
      <4> HIDE DEF k
      <4>4. PICK q \in F[k] : \E e \in First(E \ ToSet(q)) : r = Append(q, e)
        BY <4>3 DEF Nxt
      <4>5. PICK e \in First(E \ ToSet(q)) : r = Append(q, e)
        BY <4>4
      <4>6. Begins(q, E, k)
        BY <4>1, <4>2, <4>4
      <4>7. Begins(Append(q, e), E, k + 1)
        BY <1>2, <4>1, <4>6, BeginsAppend
      <4> QED
        BY <4>1, <4>5, <4>7
    <3> QED
      BY <3>1, <3>2
  <2> HIDE DEF T
  <2>2. \A m \in Nat : m \in T
    BY <2>1, SetInduction
  <2>3. n \in T
    BY <1>1, <2>2
  <2> QED
    BY <1>1, <2>3 DEF T
<1>12. Begins(p, E, n)
  BY <1>4, <1>11
<1>13. p \in Seq(E) /\ Len(p) = n /\ Uniq(p) /\ UpTo(p, n)
  BY <1>12 DEF Begins
<1>14. p \in [1..n -> E] /\ DOMAIN p = 1..n /\ \A i \in 1..n : p[i] \in E
  BY <1>13, LenProperties, ElementOfSeq
<1>15. IsFiniteSet(E) /\ Cardinality(E) = n
  BY PartSize DEF E
<1>16. IsFiniteSet(1..n) /\ Cardinality(1..n) = n
  <2> HIDE DEF n
  <2>1. IsFiniteSet(1..n) /\ Cardinality(1..n) = IF 1 > n THEN 0 ELSE n - 1 + 1
    BY <1>1, FS_Interval
  <2> QED
    BY <1>1, <2>1
<1>17. p \in Injection(1..n, E)
  BY <1>13, <1>14 DEF Injection, IsInjective, Uniq
<1>18. p \in Surjection(1..n, E)
  BY <1>15, <1>16, <1>17, FS_Injection
<1>19. ToSet(p) = E
  <2>1. \A e \in E : \E i \in 1..n : p[i] = e
    BY <1>18 DEF Surjection
  <2> QED
    BY <1>14, <2>1 DEF ToSet
<1>20. p \in Seq(Event)
  <2>1. \A i \in 1..Len(p) : p[i] \in Event
    BY <1>2, <1>13, <1>14
  <2> QED
    BY <1>2, <1>13
<1> QED
  BY <1>13, <1>19, <1>20 DEF E

\* The stream with the events a to b - 1 in order.
PlacedOk(t, s, a, b) ==
    /\ t \in Seq(Event) /\ Len(t) = Len(s) /\ Uniq(t)
    /\ \A i \in 1..Len(s) : i < a \/ i >= b => t[i] = s[i]
    /\ \A i, j \in a..b - 1 : i < j => t[i].clock <= t[j].clock
    /\ Part(t, a, b) = Part(s, a, b)

\* Any result of qsort(), written to the stream, leaves the part in order.
LEMMA PlacedIs ==
  ASSUME NEW s \in Seq(Event), Uniq(s), NEW a \in Nat \ {0}, NEW b \in Nat, a <= b, b <= Len(s) + 1,
         NEW p \in SortedParts(s, a, b)
  PROVE  PlacedOk(Placed(s, a, p), s, a, b)
<1> DEFINE t == Placed(s, a, p)
           n == Len(s)
<1>1. /\ p \in Seq(Event) /\ Len(p) = b - a /\ Uniq(p) /\ UpTo(p, b - a) /\ ToSet(p) = Part(s, a, b)
      /\ DOMAIN p = 1..b - a
  BY SortedPartsIs, LenProperties
<1>2. n \in Nat /\ DOMAIN s = 1..n
  BY LenProperties
<1>3. \A i : i \in a..a + Len(p) - 1 <=> i \in a..b - 1
  BY <1>1
<1>4. t = [i \in 1..n |-> IF i \in a..b - 1 THEN p[i - a + 1] ELSE s[i]]
  BY <1>2, <1>3 DEF Placed
<1> HIDE DEF t, n
<1>5. \A i \in a..b - 1 : i \in 1..n /\ i - a + 1 \in 1..b - a
  BY <1>2 DEF n
<1>6. \A i \in a..b - 1 : t[i] = p[i - a + 1]
  BY <1>4, <1>5
<1>7. ASSUME NEW i \in 1..n, i < a \/ i >= b PROVE t[i] = s[i]
  <2>1. i \notin a..b - 1
    BY <1>2, <1>7
  <2> QED
    BY <1>4, <2>1
<1>8. t \in Seq(Event) /\ Len(t) = n
  <2>1. \A i \in 1..n : s[i] \in Event
    BY ElementOfSeq DEF n
  <2>2. \A i \in 1..b - a : p[i] \in Event
    BY <1>1, ElementOfSeq
  <2>3. ASSUME NEW i \in 1..n PROVE t[i] \in Event
    <3>1. CASE i \in a..b - 1
      BY <1>5, <1>6, <2>2, <3>1
    <3>2. CASE i \notin a..b - 1
      BY <1>4, <2>1, <3>2
    <3> QED
      BY <3>1, <3>2
  <2>4. t \in [1..n -> Event]
    BY <1>4, <2>3
  <2> QED
    BY <1>2, <2>4, IsASeq, LenProperties
<1>9. Part(t, a, b) = Part(s, a, b)
  <2>1. Part(t, a, b) \subseteq ToSet(p)
    BY <1>1, <1>5, <1>6 DEF Part, ToSet
  <2>2. ASSUME NEW e \in ToSet(p) PROVE e \in Part(t, a, b)
    <3>1. PICK k \in 1..b - a : p[k] = e
      BY <1>1 DEF ToSet
    <3>2. k + a - 1 \in a..b - 1 /\ (k + a - 1) - a + 1 = k
      OBVIOUS
    <3>3. t[k + a - 1] = e
      BY <1>6, <3>1, <3>2
    <3> QED
      BY <3>2, <3>3 DEF Part
  <2> QED
    BY <1>1, <2>1, <2>2
<1>10. Uniq(t)
  <2> SUFFICES ASSUME NEW i \in 1..n, NEW j \in 1..n, t[i] = t[j] PROVE i = j
    BY <1>8 DEF Uniq
  <2>1. \A k \in 1..n : k \in a..b - 1 \/ ((k < a \/ k >= b) /\ t[k] = s[k])
    BY <1>2, <1>7
  <2>2. ASSUME NEW k \in 1..n, k \in a..b - 1, NEW l \in 1..n, l < a \/ l >= b PROVE t[k] # s[l]
    <3>1. t[k] \in Part(s, a, b)
      BY <1>9, <2>2 DEF Part
    <3>2. PICK m \in a..b - 1 : t[k] = s[m]
      BY <3>1 DEF Part
    <3>3. m # l /\ m \in 1..n
      BY <1>2, <1>5, <2>2
    <3> QED
      BY <3>2, <3>3 DEF Uniq, n
  <2>3. CASE i \in a..b - 1 /\ j \in a..b - 1
    <3> DEFINE x == i - a + 1
               y == j - a + 1
    <3>1. x \in 1..b - a /\ y \in 1..b - a /\ p[x] = p[y]
      BY <1>5, <1>6, <2>3
    <3>2. x = y
      <4> HIDE DEF x, y
      <4> QED
        BY <1>1, <3>1 DEF Uniq
    <3> QED
      BY <1>2, <3>2
  <2>4. CASE i \notin a..b - 1 /\ j \notin a..b - 1
    <3>1. s[i] = s[j]
      BY <2>1, <2>4
    <3> QED
      BY <3>1 DEF Uniq, n
  <2> QED
    BY <2>1, <2>2, <2>3, <2>4
<1>11. ASSUME NEW i \in a..b - 1, NEW j \in a..b - 1, i < j PROVE t[i].clock <= t[j].clock
  <2> DEFINE x == i - a + 1
             y == j - a + 1
  <2>1. x \in 1..b - a /\ y \in 1..b - a /\ x < y /\ t[i] = p[x] /\ t[j] = p[y]
    BY <1>5, <1>6, <1>11
  <2> HIDE DEF x, y
  <2> QED
    BY <1>1, <2>1 DEF UpTo
<1>12. PlacedOk(t, s, a, b)
  BY <1>7, <1>8, <1>9, <1>10, <1>11 DEF PlacedOk, n
<1> QED
  BY <1>12 DEF t

\* The events before a place out of the part are the ones of before.
LEMMA PlacedPre ==
  ASSUME NEW s \in Seq(Event), NEW t, NEW a \in Nat \ {0}, NEW b \in Nat, a <= b, b <= Len(s) + 1,
         PlacedOk(t, s, a, b), NEW m \in 0..Len(s), m < a \/ m >= b - 1
  PROVE  Pre(t, m) = Pre(s, m)
<1>1. Len(s) \in Nat /\ m \in Nat
  BY LenProperties
<1>2. \A i \in 1..Len(s) : i < a \/ i >= b => t[i] = s[i]
  BY DEF PlacedOk
<1>3. CASE m < a
  <2>1. \A i \in 1..m : t[i] = s[i]
    BY <1>1, <1>2, <1>3
  <2> QED
    BY <2>1 DEF Pre
<1>4. CASE m >= b - 1
  <2>1. ASSUME NEW u, NEW i \in 1..m PROVE i \in a..b - 1 \/ (i \in 1..Len(s) /\ (i < a \/ i >= b))
    BY <1>1
  <2>2. \A i \in a..b - 1 : i \in 1..m
    BY <1>1, <1>4
  <2>3. \A i \in 1..m : t[i] \in Pre(s, m) /\ s[i] \in Pre(t, m)
    <3> TAKE i \in 1..m
    <3>1. CASE i \in a..b - 1
      <4>1. t[i] \in Part(s, a, b) /\ s[i] \in Part(t, a, b)
        BY <3>1 DEF PlacedOk, Part
      <4> QED
        BY <2>2, <4>1 DEF Part, Pre
    <3>2. CASE i \notin a..b - 1
      <4>1. t[i] = s[i]
        BY <1>2, <2>1, <3>2
      <4> QED
        BY <4>1 DEF Pre
    <3> QED
      BY <3>1, <3>2
  <2> QED
    BY <2>3 DEF Pre
<1> QED
  BY <1>3, <1>4

-----------------------------------------------------------------------------
(* The ring.                                                               *)

\* The events that the ring has when the next one is p.
KeptAt(p) == IF p - 1 < size - 1 THEN p - 1 ELSE size - 1

\* A ring when the next event to add is number p of the stream s.
RingAt(r, s, p) == RingOk(r, KeptAt(p)) /\ Points(r, KeptAt(p), s, p)

\* How many events a ring has, and where it begins.
LEMMA RingParts ==
  ASSUME size \in Nat \ {0}, NEW r, NEW p \in Nat \ {0}, RingOk(r, KeptAt(p))
  PROVE  /\ KeptAt(p) \in 0..size - 1 /\ KeptAt(p) <= p - 1
         /\ r.head \in 0..size - 1 /\ r.tail \in 0..size - 1
         /\ Count(r, r.head) = KeptAt(p)
         /\ KeptAt(p) < size - 1 => r.head = 0 /\ r.tail = KeptAt(p) /\ KeptAt(p) = p - 1
<1> DEFINE n == KeptAt(p)
<1>1. n \in 0..size - 1 /\ n <= p - 1 /\ (n < size - 1 => n = p - 1)
  BY DEF KeptAt
<1> HIDE DEF n
<1>2. r.head \in 0..size - 1 /\ r.tail \in 0..size - 1
  BY DEF RingOk
<1>3. IF n < size - 1 THEN r.head = 0 /\ r.tail = n ELSE Count(r, r.head) = size - 1
  BY DEF RingOk, n
<1>4. Count(r, r.head) = n
  <2>1. CASE n < size - 1
    <3>1. r.tail - r.head = n /\ n \in -size..size - 1 /\ n >= 0
      BY <1>1, <1>3, <2>1
    <3>2. n % size = n
      BY <3>1, RingMod
    <3> QED
      BY <3>1, <3>2 DEF Count
  <2>2. CASE ~(n < size - 1)
    BY <1>1, <1>3, <2>2
  <2> QED
    BY <2>1, <2>2
<1> QED
  BY <1>1, <1>2, <1>3, <1>4 DEF n

\* The place of an event, and how far it is from the tail.
LEMMA NthIs ==
  ASSUME size \in Nat \ {0}, NEW r, r.tail \in 0..size - 1, NEW k \in 0..size - 2
  PROVE  /\ Nth(r, k) = (IF r.tail - 1 - k >= 0 THEN r.tail - 1 - k ELSE r.tail - 1 - k + size)
         /\ Nth(r, k) \in 0..size - 1
         /\ Count(r, Nth(r, k)) = k + 1
<1> DEFINE t == r.tail
           x == t - 1 - k
           m == Nth(r, k)
<1>1. t \in 0..size - 1
  OBVIOUS
<1> HIDE DEF t
<1>2. x \in -size..size - 1
  BY <1>1
<1>3. m = IF x >= 0 THEN x ELSE x + size
  BY <1>2, RingMod DEF Nth, t
<1> HIDE DEF m
<1>4. m \in 0..size - 1
  BY <1>1, <1>3
<1>5. t - m \in -size..size - 1
  BY <1>1, <1>4
<1>6. (t - m) % size = IF t - m >= 0 THEN t - m ELSE t - m + size
  BY <1>5, RingMod
<1>7. (t - m) % size = k + 1
  BY <1>1, <1>3, <1>4, <1>6
<1> QED
  BY <1>3, <1>4, <1>7 DEF Count, t, m

\* ring_add(): the new event is the last, and the oldest leaves a full ring.
LEMMA RingAddOk ==
  ASSUME size \in Nat \ {0}, NEW r, NEW s, NEW p \in Nat \ {0}, RingAt(r, s, p)
  PROVE  RingAt(RingAdd(r, Offset(s, p)), s, p + 1)
<1> DEFINE o == Offset(s, p)
           r2 == RingAdd(r, o)
           n == KeptAt(p)
           h == r.head
           t == r.tail
           t2 == IF t + 1 >= size THEN 0 ELSE t + 1
           h1 == IF h = t2 THEN t2 + 1 ELSE h
           h2 == IF h1 >= size THEN 0 ELSE h1
           n2 == KeptAt(p + 1)
<1> HIDE DEF o
<1>1. RingOk(r, n) /\ \A k \in 0..n - 1 : r.ev[Nth(r, k)] = Offset(s, p - 1 - k)
  BY DEF RingAt, Points
<1>2. /\ n \in 0..size - 1 /\ n <= p - 1 /\ h \in 0..size - 1 /\ t \in 0..size - 1 /\ Count(r, h) = n
      /\ n < size - 1 => h = 0 /\ t = n /\ n = p - 1
  BY <1>1, RingParts
<1>3. r2 = [ev |-> [r.ev EXCEPT ![t] = o], tail |-> t2, head |-> h2]
  BY DEF RingAdd
<1>4. r2.ev = [r.ev EXCEPT ![t] = o] /\ r2.tail = t2 /\ r2.head = h2
  BY <1>3
<1>5. r.ev = [i \in 0..size - 1 |-> r.ev[i]]
  BY <1>1 DEF RingOk
<1>6. n2 = IF n < size - 1 THEN n + 1 ELSE n
  BY <1>2 DEF KeptAt
<1> HIDE DEF r2, n, n2
<1>7. t2 \in 0..size - 1 /\ h2 \in 0..size - 1
  BY <1>2
<1>8. (t - h) % size = IF t - h >= 0 THEN t - h ELSE t - h + size
  <2>1. t - h \in -size..size - 1
    BY <1>2
  <2> HIDE DEF t, h
  <2> QED
    BY <2>1, RingMod
<1>9. n = IF t >= h THEN t - h ELSE t - h + size
  BY <1>2, <1>8 DEF Count
<1>10. Count(r2, r2.head) = IF t2 - h2 >= 0 THEN t2 - h2 ELSE t2 - h2 + size
  <2>1. t2 - h2 \in -size..size - 1
    BY <1>7
  <2>2. (t2 - h2) % size = IF t2 - h2 >= 0 THEN t2 - h2 ELSE t2 - h2 + size
    <3> HIDE DEF t2, h2
    <3> QED
      BY <2>1, RingMod
  <2> QED
    BY <1>4, <2>2 DEF Count
<1>11. IF n2 < size - 1 THEN h2 = 0 /\ t2 = n2 ELSE Count(r2, r2.head) = size - 1
  <2> HIDE DEF h, t
  <2> QED
    BY <1>2, <1>6, <1>9, <1>10
<1>12. RingOk(r2, n2)
  <2>1. r2.ev = [i \in 0..size - 1 |-> r2.ev[i]]
    BY <1>4, <1>5
  <2>2. r2 = [head |-> r2.head, tail |-> r2.tail, ev |-> r2.ev]
    BY <1>3, <1>4
  <2> QED
    BY <1>4, <1>7, <1>11, <2>1, <2>2 DEF RingOk
<1>13. ASSUME NEW k \in 0..n2 - 1 PROVE r2.ev[Nth(r2, k)] = Offset(s, p - k)
  <2>1. n2 \in 0..size - 1 /\ k \in 0..size - 2 /\ k \in Nat
    BY <1>2, <1>6
  <2>2. Nth(r2, k) = IF t2 - 1 - k >= 0 THEN t2 - 1 - k ELSE t2 - 1 - k + size
    BY <1>4, <1>7, <2>1, NthIs
  <2>3. CASE k = 0
    <3>1. Nth(r2, k) = t
      <4> HIDE DEF t
      <4> QED
        BY <1>2, <2>1, <2>2, <2>3
    <3>2. r2.ev[t] = o
      BY <1>2, <1>4, <1>5
    <3> QED
      BY <2>3, <3>1, <3>2 DEF o
  <2>4. CASE k # 0
    <3> DEFINE j == k - 1
    <3>1. j \in 0..n - 1 /\ j \in 0..size - 2
      BY <1>2, <1>6, <2>1, <2>4
    <3>2. Nth(r, j) = IF t - 1 - j >= 0 THEN t - 1 - j ELSE t - 1 - j + size
      BY <1>2, <3>1, NthIs
    <3>3. Nth(r2, k) = Nth(r, j) /\ Nth(r, j) # t /\ Nth(r, j) \in 0..size - 1
      <4> HIDE DEF t
      <4> QED
        BY <1>2, <2>1, <2>2, <2>4, <3>2
    <3>4. r2.ev[Nth(r, j)] = r.ev[Nth(r, j)]
      BY <1>4, <1>5, <3>3
    <3>5. p - 1 - j = p - k
      BY <2>1
    <3>6. r.ev[Nth(r, j)] = Offset(s, p - 1 - j)
      BY <1>1, <3>1
    <3> QED
      BY <3>3, <3>4, <3>5, <3>6
  <2> QED
    BY <2>3, <2>4
<1>14. \A k \in 0..n2 - 1 : (p + 1) - 1 - k = p - k
  BY <1>2, <1>6
<1>15. RingAt(r2, s, p + 1)
  BY <1>12, <1>13, <1>14 DEF RingAt, Points, n2
<1> QED
  BY <1>15 DEF r2, o

\* rebuild_ring(): the events from the destination have moved, and the places
\* from i0 point to where they are now.
LEMMA RebuildOk ==
  ASSUME size \in Nat \ {0}, NEW r, NEW s \in Seq(Event), NEW p \in 1..Len(s), RingAt(r, s, p), Uniq(s),
         NEW k0 \in 0..KeptAt(p) - 1, NEW t, PlacedOk(t, s, p - 1 - k0, p)
  PROVE  RingAt(RebuildRing(r, Nth(r, k0), t, p - 1 - k0), t, p)
<1> DEFINE a == p - 1 - k0
           i0 == Nth(r, k0)
           r2 == RebuildRing(r, i0, t, a)
           n == KeptAt(p)
           w == r.tail
<1>0. p \in Nat \ {0} /\ Len(s) \in Nat /\ p <= Len(s)
  BY LenProperties
<1>1. RingOk(r, n) /\ \A k \in 0..n - 1 : r.ev[Nth(r, k)] = Offset(s, p - 1 - k)
  BY DEF RingAt, Points
<1>2. /\ n \in 0..size - 1 /\ n <= p - 1 /\ w \in 0..size - 1 /\ r.head \in 0..size - 1
  BY <1>0, <1>1, RingParts
<1> HIDE DEF n
<1>3. k0 \in 0..size - 2 /\ k0 \in 0..n - 1 /\ a \in 1..p - 1 /\ a \in Nat \ {0} /\ a <= p
  BY <1>0, <1>2 DEF n
<1>4. /\ i0 = (IF w - 1 - k0 >= 0 THEN w - 1 - k0 ELSE w - 1 - k0 + size) /\ i0 \in 0..size - 1
      /\ Count(r, i0) = k0 + 1
  BY <1>2, <1>3, NthIs
<1>5. r2 = [r EXCEPT !.ev = [i \in 0..size - 1 |->
                IF (i - i0) % size < k0 + 1 THEN Offset(t, a + ((i - i0) % size)) ELSE r.ev[i]]]
  BY <1>4 DEF RebuildRing
<1> DEFINE e2 == [i \in 0..size - 1 |->
                IF (i - i0) % size < k0 + 1 THEN Offset(t, a + ((i - i0) % size)) ELSE r.ev[i]]
<1>6. r = [head |-> r.head, tail |-> r.tail, ev |-> r.ev]
  BY <1>1 DEF RingOk
<1> HIDE DEF r2, i0
<1>7. r2 = [head |-> r.head, tail |-> r.tail, ev |-> e2]
  <2> HIDE DEF e2
  <2>1. r2 = [r EXCEPT !.ev = e2]
    BY <1>5 DEF e2
  <2> QED
    BY <1>6, <2>1
<1>8. r2.head = r.head /\ r2.tail = w /\ r2.ev = e2
  <2> HIDE DEF e2
  <2> QED
    BY <1>7
<1>9. Count(r2, r2.head) = Count(r, r.head) /\ \A k : Nth(r2, k) = Nth(r, k)
  BY <1>8 DEF Count, Nth
<1>10. RingOk(r2, n)
  <2>1. r2.ev = [i \in 0..size - 1 |-> r2.ev[i]]
    BY <1>8
  <2> HIDE DEF e2
  <2> QED
    BY <1>1, <1>7, <1>8, <1>9, <2>1 DEF RingOk
<1>11. ASSUME NEW k \in 0..n - 1 PROVE r2.ev[Nth(r, k)] = Offset(t, p - 1 - k)
  <2> DEFINE i == Nth(r, k)
             d == (i - i0) % size
  <2>1. k \in 0..size - 2 /\ k \in Nat
    BY <1>2
  <2>2. i = (IF w - 1 - k >= 0 THEN w - 1 - k ELSE w - 1 - k + size) /\ i \in 0..size - 1
    BY <1>2, <2>1, NthIs
  <2> HIDE DEF i
  <2>3. d = IF i - i0 >= 0 THEN i - i0 ELSE i - i0 + size
    <3>0. i \in 0..size - 1 /\ i0 \in 0..size - 1
      BY <1>4, <2>2
    <3>1. i - i0 \in -size..size - 1
      BY <3>0
    <3> QED
      BY <3>1, RingMod
  <2>4. r2.ev[i] = IF d < k0 + 1 THEN Offset(t, a + d) ELSE r.ev[i]
    BY <1>8, <2>2
  <2> HIDE DEF d, w
  <2>5. CASE k <= k0
    <3>1. d = k0 - k
      BY <1>2, <1>3, <1>4, <2>1, <2>2, <2>3, <2>5
    <3>2. d < k0 + 1 /\ a + d = p - 1 - k
      BY <1>0, <1>3, <2>1, <2>5, <3>1
    <3> QED
      BY <2>4, <3>2 DEF i
  <2>6. CASE ~(k <= k0)
    <3>1. d = k0 - k + size
      BY <1>2, <1>3, <1>4, <2>1, <2>2, <2>3, <2>6
    <3>2. ~(d < k0 + 1)
      BY <1>2, <1>3, <2>1, <3>1
    <3> DEFINE j == p - 1 - k
    <3>3. j \in 1..Len(s) + 1 /\ j - 1 \in 0..Len(s) /\ j - 1 < a
      BY <1>0, <1>2, <1>3, <2>6
    <3>4. r2.ev[i] = Offset(s, j)
      BY <1>1, <2>4, <3>2 DEF i
    <3> HIDE DEF j
    <3>5. Pre(t, j - 1) = Pre(s, j - 1)
      <4> HIDE DEF a
      <4>1. p \in Nat /\ p <= Len(s) + 1 /\ PlacedOk(t, s, a, p)
        BY <1>0 DEF a
      <4> QED
        BY <1>3, <3>3, <4>1, PlacedPre
    <3>6. t \in Seq(Event) /\ Uniq(t) /\ Len(t) = Len(s)
      BY DEF PlacedOk
    <3>7. Offset(t, j) = Offset(s, j)
      BY <3>3, <3>5, <3>6, OffsetSame
    <3> QED
      BY <3>4, <3>7 DEF i, j
  <2> QED
    BY <2>5, <2>6
<1>12. RingAt(r2, t, p)
  BY <1>9, <1>10, <1>11 DEF RingAt, Points, n
<1> QED
  BY <1>12 DEF r2, i0

-----------------------------------------------------------------------------
(* find_destination() and find_min_clock().                                *)

\* Min is the least of a nonempty set of naturals.
LEMMA MinIs ==
  ASSUME NEW S \in SUBSET Nat, S # {}
  PROVE  Min(S) \in S /\ \A n \in S : Min(S) <= n
  BY LeastNat DEF Min

\* The destination: event p - 1 - k is before clock, or it is the first, and
\* those after it are not.
Destination(s, p, clock, k) ==
    /\ k \in 0..KeptAt(p) - 1
    /\ \A j \in 0..k - 1 : s[p - 1 - j].clock >= clock
    /\ s[p - 1 - k].clock < clock \/ p - 1 - k = 1

\* find_destination() finds the ring as it expects, and the last event before
\* clock; it finds none only if the whole ring is after clock.
LEMMA FindIs ==
  ASSUME size \in Nat \ {0}, NEW r, NEW s \in Seq(Event), NEW p \in 2..Len(s) + 1, RingAt(r, s, p),
         NEW clock \in Nat
  PROVE  /\ ~BadRing(s, r, clock)
         /\ IF FindDestination(s, r, clock) = -1
            THEN size - 1 <= p - 1 /\ \A j \in 0..size - 2 : s[p - 1 - j].clock >= clock
            ELSE \E k \in Nat : /\ FindDestination(s, r, clock) = Nth(r, k)
                                /\ Destination(s, p, clock, k)
<1> DEFINE n == KeptAt(p)
           C(k) == ClockAt(s, r.ev[Nth(r, k)])
           hits == {k \in 0..n - 1 : C(k) < clock}
           fd == FindDestination(s, r, clock)
<1>0. Len(s) \in Nat /\ p \in Nat \ {0} /\ p > 1 /\ p <= Len(s) + 1
  BY LenProperties
<1>1. RingOk(r, n) /\ \A k \in 0..n - 1 : r.ev[Nth(r, k)] = Offset(s, p - 1 - k)
  BY DEF RingAt, Points
<1>2. /\ n \in 0..size - 1 /\ n <= p - 1 /\ r.head \in 0..size - 1 /\ r.tail \in 0..size - 1
      /\ Count(r, r.head) = n
      /\ n < size - 1 => r.head = 0 /\ r.tail = n /\ n = p - 1
  BY <1>0, <1>1, RingParts
<1> HIDE DEF n
<1>3. ~BadRing(s, r, clock)
  BY <1>2 DEF BadRing
<1>4. ASSUME NEW k \in 0..n - 1 PROVE C(k) = s[p - 1 - k].clock /\ C(k) \in Nat /\ k \in 0..size - 2
  <2>1. p - 1 - k \in 1..Len(s) /\ k \in 0..size - 2
    BY <1>0, <1>2
  <2>2. C(k) = s[p - 1 - k].clock
    BY <1>1, <2>1, AtIs
  <2>3. s[p - 1 - k] \in Event
    BY <2>1, ElementOfSeq
  <2> QED
    BY <2>1, <2>2, <2>3, EventType
<1>5. fd = IF hits # {} THEN Nth(r, Min(hits)) ELSE IF n < size - 1 THEN r.head ELSE -1
  BY <1>2 DEF FindDestination
<1> HIDE DEF fd
<1>6. CASE hits # {}
  <2> DEFINE k == Min(hits)
  <2>0. hits \in SUBSET Nat
    BY <1>2
  <2>1. k \in hits /\ \A j \in hits : k <= j
    <3> HIDE DEF hits
    <3> QED
      BY <1>6, <2>0, MinIs
  <2>2. fd = Nth(r, k)
    BY <1>5, <1>6
  <2> HIDE DEF k
  <2>3. k \in 0..n - 1 /\ k \in Nat /\ C(k) < clock
    BY <1>2, <2>1
  <2>4. ASSUME NEW j \in 0..k - 1 PROVE s[p - 1 - j].clock >= clock
    <3>1. j \in 0..n - 1 /\ ~(k <= j)
      BY <1>2, <2>3
    <3>2. ~(C(j) < clock)
      BY <2>1, <3>1
    <3>3. C(j) \in Nat /\ C(j) = s[p - 1 - j].clock
      BY <1>4, <3>1
    <3> HIDE DEF C
    <3>4. C(j) >= clock
      BY <3>2, <3>3
    <3> QED
      BY <3>3, <3>4
  <2>5. s[p - 1 - k].clock < clock
    BY <1>4, <2>3
  <2>6. Destination(s, p, clock, k)
    BY <2>3, <2>4, <2>5 DEF Destination, n
  <2>7. fd # -1
    <3>1. Nth(r, k) \in 0..size - 1
      BY <1>2, <1>4, <2>3, NthIs
    <3> QED
      BY <2>2, <3>1
  <2> QED
    BY <1>3, <2>2, <2>3, <2>6, <2>7 DEF fd
<1>7. CASE hits = {}
  <2>1. ASSUME NEW j \in 0..n - 1 PROVE s[p - 1 - j].clock >= clock
    <3>1. ~(C(j) < clock)
      BY <1>7
    <3>2. C(j) \in Nat /\ C(j) = s[p - 1 - j].clock
      BY <1>4
    <3> HIDE DEF C
    <3>3. C(j) >= clock
      BY <3>1, <3>2
    <3> QED
      BY <3>2, <3>3
  <2>2. CASE n < size - 1
    <3> DEFINE k == n - 1
    <3>1. k \in 0..n - 1 /\ k \in Nat /\ p - 1 - k = 1 /\ r.tail - 1 - k = 0 /\ k \in 0..size - 2
      BY <1>0, <1>2, <2>2
    <3>2. Nth(r, k) = r.head
      <4> HIDE DEF k
      <4>1. Nth(r, k) = IF r.tail - 1 - k >= 0 THEN r.tail - 1 - k ELSE r.tail - 1 - k + size
        BY <1>2, <3>1, NthIs
      <4> QED
        BY <1>2, <2>2, <3>1, <4>1
    <3>3. fd = r.head /\ fd # -1
      BY <1>2, <1>5, <1>7, <2>2
    <3>4. \A j \in 0..k - 1 : j \in 0..n - 1
      BY <1>2
    <3> HIDE DEF k
    <3>5. Destination(s, p, clock, k)
      BY <2>1, <3>1, <3>4 DEF Destination, n
    <3> QED
      BY <1>3, <3>1, <3>2, <3>3, <3>5 DEF fd
  <2>3. CASE ~(n < size - 1)
    <3>1. fd = -1 /\ n = size - 1
      BY <1>2, <1>5, <1>7, <2>3
    <3>2. \A j \in 0..size - 2 : j \in 0..n - 1
      BY <3>1
    <3>3. size - 1 <= p - 1
      BY <1>2, <3>1
    <3> QED
      BY <1>3, <2>1, <3>1, <3>2, <3>3 DEF fd
  <2> QED
    BY <2>2, <2>3
<1> QED
  BY <1>6, <1>7

\* find_min_clock(): the clocks of the region, and no others.
LEMMA RegionClockIs ==
  ASSUME NEW s \in Seq(Event), NEW b \in 1..Len(s), NEW p \in 1..Len(s) + 1, b < p
  PROVE  MinClock(s, Offset(s, b), Offset(s, p)) = Min({s[i].clock : i \in b..p - 1})
<1> DEFINE J == {j \in DOMAIN s : Offset(s, j) \in Offset(s, b)..Offset(s, p) - 1}
<1>1. Len(s) \in Nat /\ DOMAIN s = 1..Len(s)
  BY LenProperties
<1>2. ASSUME NEW j \in 1..Len(s) PROVE Offset(s, j) \in Offset(s, b)..Offset(s, p) - 1 <=> j \in b..p - 1
  <2>1. j \in 1..Len(s) + 1 /\ b \in 1..Len(s) + 1 /\ j \in Nat /\ b \in Nat /\ p \in Nat
    BY <1>1
  <2>2. Offset(s, j) \in Nat /\ Offset(s, b) \in Nat /\ Offset(s, p) \in Nat
    BY <2>1, OffsetStep
  <2>3. (j < b => Offset(s, j) < Offset(s, b)) /\ (b < j => Offset(s, b) < Offset(s, j))
    BY <2>1, OffsetLess
  <2>4. (j < p => Offset(s, j) < Offset(s, p)) /\ (p < j => Offset(s, p) < Offset(s, j))
    BY <2>1, OffsetLess
  <2> QED
    BY <2>1, <2>2, <2>3, <2>4
<1>3. J = b..p - 1
  <2>1. \A j \in b..p - 1 : j \in 1..Len(s)
    BY <1>1
  <2>2. \A j \in J : j \in b..p - 1
    BY <1>1, <1>2
  <2>3. \A j \in b..p - 1 : j \in J
    BY <1>1, <1>2, <2>1
  <2> QED
    BY <2>2, <2>3
<1> QED
  BY <1>3 DEF MinClock

\* The least clock of the region.
LEMMA LowIs ==
  ASSUME NEW s \in Seq(Event), NEW b \in 1..Len(s), NEW p \in 1..Len(s) + 1, b < p
  PROVE  LET low == Min({s[i].clock : i \in b..p - 1})
         IN  low \in Nat /\ \A i \in b..p - 1 : low <= s[i].clock
<1> DEFINE S == {s[i].clock : i \in b..p - 1}
<1>1. Len(s) \in Nat
  BY LenProperties
<1>2. \A i \in b..p - 1 : i \in 1..Len(s)
  BY <1>1
<1>3. \A i \in b..p - 1 : s[i].clock \in Nat
  BY <1>2, ElementOfSeq, EventType
<1>4. S \in SUBSET Nat
  BY <1>3
<1>5. b \in b..p - 1
  BY <1>1
<1>6. S # {}
  BY <1>5
<1>7. \A i \in b..p - 1 : s[i].clock \in S
  OBVIOUS
<1> HIDE DEF S
<1>8. Min(S) \in Nat /\ \A n \in S : Min(S) <= n
  BY <1>4, <1>6, MinIs
<1> QED
  BY <1>7, <1>8 DEF S

-----------------------------------------------------------------------------
(* execute_sort_plan().                                                    *)

\* Arithmetic of the ring, for places after one.
LEMMA RingModUp ==
  ASSUME NEW n \in Nat \ {0}, NEW x \in 0..2 * n - 1
  PROVE  x % n = (IF x < n THEN x ELSE x - n)
  OBVIOUS

\* From the place of an event, the places of those after it.
LEMMA NthUp ==
  ASSUME size \in Nat \ {0}, NEW r, r.tail \in 0..size - 1, NEW k \in 0..size - 2, NEW j \in 0..k
  PROVE  (Nth(r, k) + j) % size = Nth(r, k - j)
<1> DEFINE i0 == Nth(r, k)
           i1 == Nth(r, k - j)
           w == r.tail
<1>1. w \in 0..size - 1 /\ k \in Nat /\ j \in Nat /\ k - j \in 0..size - 2
  OBVIOUS
<1>2. i0 = (IF w - 1 - k >= 0 THEN w - 1 - k ELSE w - 1 - k + size) /\ i0 \in 0..size - 1
  BY NthIs
<1>3. i1 = (IF w - 1 - (k - j) >= 0 THEN w - 1 - (k - j) ELSE w - 1 - (k - j) + size) /\ i1 \in 0..size - 1
  BY <1>1, NthIs
<1> HIDE DEF i0, i1, w
<1>4. i0 + j \in 0..2 * size - 1
  <2>1. i0 \in Int /\ 0 <= i0 /\ i0 <= size - 1
    BY <1>2
  <2>2. j \in Int /\ 0 <= j /\ j <= size - 1
    BY <1>1
  <2>3. i0 + j \in Int /\ 0 <= i0 + j /\ i0 + j <= 2 * size - 1
    BY <2>1, <2>2
  <2> QED
    BY <2>3
<1> DEFINE y == i0 + j
<1>5. y = i0 + j /\ y \in 0..2 * size - 1
  BY <1>4
<1> HIDE DEF y
<1>6. y % size = IF y < size THEN y ELSE y - size
  BY <1>5, RingModUp
<1>7. y % size = i1
  BY <1>1, <1>2, <1>3, <1>5, <1>6
<1> QED
  BY <1>7 DEF i0, i1, y

\* ring_check() passes: the events from the destination are in order.
LEMMA RingCheckedOk ==
  ASSUME size \in Nat \ {0}, NEW r, NEW s \in Seq(Event), NEW p \in 1..Len(s), RingAt(r, s, p),
         NEW k \in 0..KeptAt(p) - 1,
         \A i, j \in p - 1 - k..p - 1 : i < j => s[i].clock <= s[j].clock
  PROVE  RingChecked(r, Nth(r, k), s) /\ Count(r, Nth(r, k)) = k + 1
<1> DEFINE n == KeptAt(p)
           a == p - 1 - k
           i0 == Nth(r, k)
<1>0. p \in Nat \ {0} /\ Len(s) \in Nat /\ p <= Len(s)
  BY LenProperties
<1>1. RingOk(r, n) /\ \A j \in 0..n - 1 : r.ev[Nth(r, j)] = Offset(s, p - 1 - j)
  BY DEF RingAt, Points
<1>2. n \in 0..size - 1 /\ n <= p - 1 /\ r.tail \in 0..size - 1
  BY <1>0, <1>1, RingParts
<1> HIDE DEF n
<1>3. k \in 0..size - 2 /\ k \in 0..n - 1 /\ k \in Nat
  BY <1>2 DEF n
<1>4. Count(r, i0) = k + 1
  BY <1>2, <1>3, NthIs
<1>5. ASSUME NEW j \in 0..k PROVE ClockAt(s, r.ev[(i0 + j) % size]) = s[a + j].clock
  <2>1. (i0 + j) % size = Nth(r, k - j)
    BY <1>2, <1>3, NthUp
  <2>2. k - j \in 0..n - 1 /\ p - 1 - (k - j) = a + j /\ a + j \in 1..Len(s)
    BY <1>0, <1>2, <1>3
  <2>3. r.ev[Nth(r, k - j)] = Offset(s, a + j)
    BY <1>1, <2>2
  <2> QED
    BY <2>1, <2>2, <2>3, AtIs
<1> HIDE DEF i0
<1>6. ASSUME NEW j \in 1..k
      PROVE  ClockAt(s, r.ev[(i0 + j - 1) % size]) <= ClockAt(s, r.ev[(i0 + j) % size])
  <2>1. j \in 0..k /\ j - 1 \in 0..k
    OBVIOUS
  <2>2. i0 \in 0..size - 1
    BY <1>2, <1>3, NthIs DEF i0
  <2>3. i0 + (j - 1) = i0 + j - 1
    BY <2>2
  <2>4. a + (j - 1) \in a..p - 1 /\ a + j \in a..p - 1 /\ a + (j - 1) < a + j
    BY <1>0, <1>3
  <2>5. s[a + (j - 1)].clock <= s[a + j].clock
    BY <2>4
  <2> QED
    BY <1>5, <2>1, <2>3, <2>5
<1>7. Count(r, i0) - 1 = k
  BY <1>3, <1>4
<1> QED
  BY <1>4, <1>6, <1>7 DEF RingChecked, i0

\* execute_sort_plan() with the destination k events before the end of the
\* region: none of its checks fails.
LEMMA PlanOk ==
  ASSUME size \in Nat \ {0}, Stream \in Seq(Event), Uniq(Stream), pos \in 2..Len(Stream),
         RingAt(ring, Stream, pos), NEW k \in 0..KeptAt(pos) - 1, ExecuteSortPlan(Nth(ring, k))
  PROVE  /\ status' = status
         /\ \E s : /\ PlacedOk(s, Stream, pos - 1 - k, pos)
                   /\ trace' = [trace EXCEPT ![cur] = s]
                   /\ RingAt(ring', s, pos + 1)
<1> DEFINE x == Stream
           p == pos
           a == p - 1 - k
           i0 == Nth(ring, k)
           n == KeptAt(p)
<1>0. x \in Seq(Event) /\ Uniq(x) /\ p \in 1..Len(x) /\ p \in Nat \ {0} /\ p > 1 /\ Len(x) \in Nat
  BY LenProperties
<1>1. RingOk(ring, n) /\ \A j \in 0..n - 1 : ring.ev[Nth(ring, j)] = Offset(x, p - 1 - j)
  BY DEF RingAt, Points
<1>2. n \in 0..size - 1 /\ n <= p - 1 /\ ring.tail \in 0..size - 1
  BY <1>0, <1>1, RingParts
<1> HIDE DEF n
<1>3. k \in 0..size - 2 /\ k \in 0..n - 1 /\ a \in 1..p - 1 /\ a \in Nat \ {0} /\ a <= p /\ a < p /\ a \in 1..Len(x)
  BY <1>0, <1>2 DEF n
<1>4. At(x, ring.ev[i0]) = {a}
  <2>1. ring.ev[i0] = Offset(x, a)
    BY <1>1, <1>3
  <2> HIDE DEF x, a
  <2> QED
    BY <1>0, <1>3, <2>1, AtIs
<1>5. (IF At(x, ring.ev[i0]) = {} THEN p ELSE CHOOSE i \in At(x, ring.ev[i0]) : TRUE) = a
  <2> HIDE DEF x, a, i0, p
  <2> QED
    BY <1>4
<1>6. Count(ring, i0) = k + 1 /\ p - a = k + 1
  BY <1>0, <1>2, <1>3, NthIs
<1>7. PICK q \in SortedParts(x, a, p) :
        LET s == Placed(x, a, q)
            r == RebuildRing(ring, i0, s, a)
        IN  IF a < p /\ Count(ring, i0) = p - a /\ RingChecked(r, i0, s)
            THEN trace' = [trace EXCEPT ![cur] = s] /\ ring' = RingAdd(r, Here) /\ UNCHANGED status
            ELSE status' = "died" /\ UNCHANGED <<trace, ring>>
  <2>1. \E aa \in 1..p :
          /\ aa = a
          /\ \E q \in SortedParts(x, aa, p) :
               LET s == Placed(x, aa, q)
                   r == RebuildRing(ring, i0, s, aa)
               IN  IF aa < p /\ Count(ring, i0) = p - aa /\ RingChecked(r, i0, s)
                   THEN trace' = [trace EXCEPT ![cur] = s] /\ ring' = RingAdd(r, Here) /\ UNCHANGED status
                   ELSE status' = "died" /\ UNCHANGED <<trace, ring>>
    <3> HIDE DEF a
    <3> QED
      BY ONLY <1>5, ExecuteSortPlan(i0), Zenon DEF ExecuteSortPlan, x, p
  <2> HIDE DEF x, p, a, i0
  <2> QED
    BY <2>1
<1> DEFINE s == Placed(x, a, q)
           r == RebuildRing(ring, i0, s, a)
<1> HIDE DEF x, p, a
<1>8. PlacedOk(s, x, a, p)
  <2>1. p \in Nat /\ p <= Len(x) + 1
    BY <1>0
  <2> QED
    BY <1>0, <1>3, <2>1, PlacedIs
<1> HIDE DEF s
<1>9. s \in Seq(Event) /\ Len(s) = Len(x) /\ Uniq(s) /\ \A i, j \in a..p - 1 : i < j => s[i].clock <= s[j].clock
  BY <1>8 DEF PlacedOk
<1>10. RingAt(r, s, p)
  <2>1. RingAt(ring, x, p) /\ k \in 0..KeptAt(p) - 1 /\ a = p - 1 - k
    BY DEF x, p, a
  <2> QED
    BY <1>0, <1>8, <2>1, RebuildOk
<1>11. r.tail = ring.tail
  <2>1. ring = [head |-> ring.head, tail |-> ring.tail, ev |-> ring.ev]
    BY <1>1 DEF RingOk
  <2> QED
    BY <2>1 DEF RebuildRing
<1> HIDE DEF i0, r
<1>12. Nth(r, k) = i0
  BY <1>11 DEF Nth, i0
<1>13. RingChecked(r, i0, s)
  <2>1. p \in 1..Len(s) /\ k \in 0..KeptAt(p) - 1 /\ a = p - 1 - k
    BY <1>0, <1>9 DEF p, a
  <2> QED
    BY <1>9, <1>10, <1>12, <2>1, RingCheckedOk
<1>14. trace' = [trace EXCEPT ![cur] = s] /\ ring' = RingAdd(r, Here) /\ status' = status
  BY <1>3, <1>6, <1>7, <1>13 DEF s, r
<1>15. Here = Offset(s, p)
  <2>1. p - 1 \in 0..Len(x) /\ p - 1 >= p - 1 /\ p \in Nat /\ p <= Len(x) + 1 /\ p \in 1..Len(x) + 1
    BY <1>0
  <2>2. Pre(s, p - 1) = Pre(x, p - 1)
    BY <1>0, <1>3, <1>8, <2>1, PlacedPre
  <2>3. Offset(s, p) = Offset(x, p)
    BY <1>0, <1>9, <2>1, <2>2, OffsetSame
  <2> QED
    BY <2>3 DEF Here, x, p
<1>16. RingAt(ring', s, p + 1)
  BY <1>0, <1>10, <1>14, <1>15, RingAddOk
<1> QED
  BY <1>8, <1>14, <1>16 DEF x, p, a

-----------------------------------------------------------------------------
(* The streams.                                                            *)

\* Two streams with the same events, and the same ones from n + 1 on.
LEMMA PreSame ==
  ASSUME NEW s, NEW o, Uniq(s), Uniq(o), Len(s) = Len(o), Len(s) \in Nat, Pre(s, Len(s)) = Pre(o, Len(o)),
         NEW n \in 0..Len(s), \A i \in n + 1..Len(s) : s[i] = o[i]
  PROVE  Pre(s, n) = Pre(o, n)
<1> DEFINE L == Len(s)
<1>0. L \in Nat /\ L = Len(o) /\ n \in 0..L /\ \A i \in n + 1..L : s[i] = o[i]
  OBVIOUS
<1>a. Pre(s, L) = Pre(o, L) /\ (\A i, j \in 1..L : s[i] = s[j] => i = j) /\ \A i, j \in 1..L : o[i] = o[j] => i = j
  BY <1>0 DEF Uniq
<1>b. {s[x] : x \in 1..L} = {o[x] : x \in 1..L}
  BY <1>a DEF Pre
<1> HIDE DEF L
<1>1. ASSUME NEW i \in 1..n PROVE \E j \in 1..n : o[j] = s[i]
  <2>1. i \in 1..L
    BY <1>0
  <2>2. s[i] \in {s[x] : x \in 1..L}
    BY <2>1
  <2>3. PICK j \in 1..L : o[j] = s[i]
    BY <1>b, <2>2
  <2>4. j \in n + 1..L => j = i
    BY <1>0, <1>a, <2>1, <2>3
  <2>5. j \in 1..n
    BY <1>0, <2>4
  <2> QED
    BY <2>3, <2>5
<1>2. ASSUME NEW i \in 1..n PROVE \E j \in 1..n : s[j] = o[i]
  <2>1. i \in 1..L
    BY <1>0
  <2>2. o[i] \in {o[x] : x \in 1..L}
    BY <2>1
  <2>3. PICK j \in 1..L : s[j] = o[i]
    BY <1>b, <2>2
  <2>4. j \in n + 1..L => j = i
    BY <1>0, <1>a, <2>1, <2>3
  <2>5. j \in 1..n
    BY <1>0, <2>4
  <2> QED
    BY <2>3, <2>5
<1>3. \A e \in Pre(s, n) : e \in Pre(o, n)
  BY <1>1, Zenon DEF Pre
<1>4. \A e \in Pre(o, n) : e \in Pre(s, n)
  BY <1>2, Zenon DEF Pre
<1> QED
  BY <1>3, <1>4

\* A stream with a part in order has the events of before.
LEMMA PlacedShuffled ==
  ASSUME NEW s, NEW o, Shuffled(s, o), NEW a \in Nat \ {0}, NEW b \in Nat, a <= b, b <= Len(s) + 1,
         NEW t, PlacedOk(t, s, a, b)
  PROVE  Shuffled(t, o)
<1>1. s \in Seq(Event) /\ Len(s) \in Nat /\ Len(s) \in 0..Len(s) /\ Len(s) >= b - 1
  BY LenProperties DEF Shuffled
<1>2. Pre(t, Len(s)) = Pre(s, Len(s))
  BY <1>1, PlacedPre
<1> QED
  BY <1>2 DEF Shuffled, PlacedOk

\* The events before the destination are before those of the region, and so the
\* stream is in order up to the end of the region.
LEMMA RegionSorted ==
  ASSUME NEW s \in Seq(Event), NEW p \in 1..Len(s), NEW b \in 2..p - 1, UpTo(s, b - 1),
         NEW a \in 1..p - 1, NEW low \in Nat, \A i \in b..p - 1 : low <= s[i].clock,
         s[a].clock < low \/ a = 1, NEW t, PlacedOk(t, s, a, p)
  PROVE  UpTo(t, p - 1)
<1>0. p \in Nat /\ a \in Nat /\ b \in Nat /\ Len(s) \in Nat
  BY LenProperties
<1>1. \A i \in 1..p - 1 : s[i].clock \in Nat
  <2>1. \A i \in 1..p - 1 : i \in 1..Len(s)
    BY <1>0
  <2> QED
    BY <2>1, ElementOfSeq, EventType
<1>2. \A i \in 1..p - 1 : i < a => t[i] = s[i]
  BY <1>0 DEF PlacedOk
<1>3. \A i, j \in a..p - 1 : i < j => t[i].clock <= t[j].clock
  BY DEF PlacedOk
<1>4. \A j \in a..p - 1 : \E m \in a..p - 1 : t[j] = s[m]
  BY DEF PlacedOk, Part
<1>5. \A i, j \in 1..b - 1 : i < j => s[i].clock <= s[j].clock
  BY DEF UpTo
<1>6. ASSUME NEW i \in 1..p - 1, NEW j \in 1..p - 1, i < j PROVE t[i].clock <= t[j].clock
  <2>1. CASE i >= a
    <3>1. i \in a..p - 1 /\ j \in a..p - 1
      BY <1>0, <1>6, <2>1
    <3> QED
      BY <1>3, <1>6, <3>1
  <2>2. CASE j < a
    <3>1. i < a /\ a # 1 /\ i < a
      BY <1>0, <1>6, <2>2
    <3>2. s[a].clock < low /\ s[a].clock \in Nat
      BY <1>1, <3>1
    <3>3. a < b
      <4>1. ~(a \in b..p - 1)
        BY <3>2
      <4> QED
        BY <1>0, <4>1
    <3>4. i \in 1..b - 1 /\ j \in 1..b - 1
      BY <1>0, <2>2, <3>1, <3>3
    <3> QED
      BY <1>2, <1>5, <1>6, <2>2, <3>1, <3>4
  <2>3. CASE i < a /\ j >= a
    <3>1. a # 1 /\ j \in a..p - 1 /\ a \in 1..p - 1
      BY <1>0, <2>3
    <3>2. s[a].clock < low /\ s[a].clock \in Nat
      BY <1>1, <3>1
    <3>3. a < b
      <4>1. ~(a \in b..p - 1)
        BY <3>2
      <4> QED
        BY <1>0, <4>1
    <3>4. PICK m \in a..p - 1 : t[j] = s[m]
      BY <1>4, <3>1
    <3>5. s[i].clock <= s[a].clock /\ s[i].clock \in Nat /\ i < m
      <4>1. i \in 1..b - 1 /\ a \in 1..b - 1 /\ i < a
        BY <1>0, <2>3, <3>3
      <4> QED
        BY <1>0, <1>1, <1>5, <4>1
    <3>6. s[i].clock <= s[m].clock
      <4>1. CASE m < b
        <5>1. i \in 1..b - 1 /\ m \in 1..b - 1 /\ i < m
          BY <1>0, <2>3, <3>3, <3>5, <4>1
        <5> QED
          BY <1>5, <5>1
      <4>2. CASE m >= b
        <5>1. m \in b..p - 1 /\ m \in 1..p - 1
          BY <1>0, <4>2
        <5>2. low <= s[m].clock /\ s[m].clock \in Nat
          BY <1>1, <5>1
        <5> QED
          BY <3>2, <3>5, <5>2
      <4> QED
        BY <1>0, <4>1, <4>2
    <3>7. t[i] = s[i]
      BY <1>2, <2>3
    <3> QED
      BY <3>4, <3>6, <3>7
  <2> QED
    BY <1>0, <2>1, <2>2, <2>3
<1> QED
  BY <1>6 DEF UpTo

\* In a well formed stream an event out of the regions is after all those
\* before it, wherever they have moved.
LEMMA AfterAll ==
  ASSUME NEW o \in Seq(Event), WellFormed(o), NEW s, NEW p \in 1..Len(o), Pre(s, p - 1) = Pre(o, p - 1),
         s[p] = o[p], States(o)[p] # "X", UpTo(s, p - 1)
  PROVE  UpTo(s, p)
<1>0. p \in Nat /\ Len(o) \in Nat /\ DOMAIN o = 1..Len(o)
  BY LenProperties
<1>1. \A i \in 1..p - 1 : o[i].clock <= o[p].clock
  <2>1. \A i, j \in DOMAIN o : i < j /\ States(o)[j] # "X" => o[i].clock <= o[j].clock
    BY DEF WellFormed
  <2>2. \A i \in 1..p - 1 : i \in DOMAIN o /\ i < p
    BY <1>0
  <2>3. p \in DOMAIN o
    BY <1>0
  <2> QED
    BY <2>1, <2>2, <2>3
<1>2. ASSUME NEW i \in 1..p - 1 PROVE s[i].clock <= s[p].clock
  <2>1. s[i] \in Pre(o, p - 1)
    BY DEF Pre
  <2>2. PICK j \in 1..p - 1 : s[i] = o[j]
    BY <2>1 DEF Pre
  <2> QED
    BY <1>1, <2>2
<1>3. ASSUME NEW i \in 1..p, NEW j \in 1..p, i < j PROVE s[i].clock <= s[j].clock
  <2>1. CASE j = p
    <3>1. i \in 1..p - 1
      BY <1>0, <1>3, <2>1
    <3> QED
      BY <1>2, <2>1, <3>1
  <2>2. CASE j # p
    <3>1. i \in 1..p - 1 /\ j \in 1..p - 1
      BY <1>0, <1>3, <2>2
    <3> QED
      BY <1>3, <3>1 DEF UpTo
  <2> QED
    BY <2>1, <2>2
<1> QED
  BY <1>3 DEF UpTo

\* A stream in order up to its end is in order.
LEMMA UpToOrdered ==
  ASSUME NEW s, Len(s) \in Nat, UpTo(s, Len(s))
  PROVE  Ordered(s)
<1>1. ASSUME NEW i \in 1..Len(s) - 1 PROVE s[i].clock <= s[i + 1].clock
  <2>1. i \in 1..Len(s) /\ i + 1 \in 1..Len(s) /\ i < i + 1
    OBVIOUS
  <2> QED
    BY <2>1 DEF UpTo
<1> QED
  BY <1>1 DEF Ordered

\* The stream that is read.
LEMMA StreamIs ==
  ASSUME SortInv, cur <= Len(trace)
  PROVE  /\ cur \in 1..Len(trace) /\ Len(trace) \in Nat /\ cur \in Nat /\ DOMAIN trace = 1..Len(trace)
         /\ Stream \in Seq(Event) /\ Uniq(Stream) /\ Len(Stream) \in Nat /\ DOMAIN Stream = 1..Len(Stream)
         /\ orig[cur] \in Seq(Event) /\ Uniq(orig[cur]) /\ Len(orig[cur]) = Len(Stream)
         /\ Shuffled(Stream, orig[cur]) /\ \A i \in 1..Len(Stream) : orig[cur][i].id = i
         /\ pos \in 1..Len(Stream) + 1 /\ pos \in Nat
<1>1. trace \in Seq(Seq(Event)) /\ orig \in Seq(Seq(Event)) /\ Len(trace) = Len(orig)
  BY DEF SortInv, StreamsKept
<1>2. Len(trace) \in Nat /\ DOMAIN trace = 1..Len(trace)
  BY <1>1, LenProperties
<1>3. cur \in 1..Len(trace) + 1 /\ pos \in 1..Len(Stream) + 1
  BY DEF SortInv, Place
<1>4. cur \in 1..Len(trace) /\ cur \in Nat
  BY <1>2, <1>3
<1>5. Shuffled(Stream, orig[cur]) /\ \A i \in 1..Len(orig[cur]) : orig[cur][i].id = i
  BY <1>1, <1>4 DEF SortInv, StreamsKept, Stream
<1>6. Stream \in Seq(Event) /\ Uniq(Stream) /\ Len(Stream) = Len(orig[cur])
  BY <1>5 DEF Shuffled
<1>7. orig[cur] \in Seq(Event)
  BY <1>1, <1>4, ElementOfSeq
<1>8. Uniq(orig[cur])
  <2>1. ASSUME NEW i \in 1..Len(orig[cur]), NEW j \in 1..Len(orig[cur]), orig[cur][i] = orig[cur][j] PROVE i = j
    <3>1. orig[cur][i].id = i /\ orig[cur][j].id = j
      BY <1>5
    <3> QED
      BY <2>1, <3>1
  <2> QED
    BY <2>1 DEF Uniq
<1>9. Len(Stream) \in Nat /\ DOMAIN Stream = 1..Len(Stream)
  BY <1>6, LenProperties
<1>10. pos \in Nat
  BY <1>3, <1>9
<1> QED
  BY <1>2, <1>3, <1>4, <1>5, <1>6, <1>7, <1>8, <1>9, <1>10

\* The events read are the ones read at the start.
LEMMA ReadSame ==
  ASSUME SortInv, cur <= Len(trace), status = "run"
  PROVE  Pre(Stream, pos - 1) = Pre(orig[cur], pos - 1)
<1> DEFINE s == Stream
           o == orig[cur]
           n == pos - 1
<1>1. Uniq(s) /\ Uniq(o) /\ Len(s) = Len(o) /\ Len(s) \in Nat /\ pos \in 1..Len(s) + 1 /\ pos \in Nat
  BY StreamIs
<1>2. Pre(s, Len(s)) = Pre(o, Len(o))
  BY StreamIs DEF Shuffled
<1>3. \A i \in pos..Len(s) : s[i] = o[i]
  BY DEF SortInv, Unread
<1>4. n \in 0..Len(s) /\ n + 1 = pos
  BY <1>1
<1> HIDE DEF s, o, n
<1>5. Pre(s, n) = Pre(o, n)
  BY <1>1, <1>2, <1>3, <1>4, PreSame
<1> QED
  BY <1>5 DEF s, o, n

-----------------------------------------------------------------------------
(* The invariant holds.                                                    *)

\* What a step of stream_winsort() has to keep.
LEMMA SortKeeps ==
  ASSUME mode' = "sort", status' = "run", StreamsKept', Place', Unread', PastOrdered', RingInv', Winsorted',
         unsorted' = FALSE
  PROVE  SortInv'
<1>1. GivesUpFar'
  BY Zenon DEF GivesUpFar
<1> QED
  BY <1>1, Zenon DEF SortInv

\* What a step of stream_check() has to keep.
LEMMA CheckKeeps ==
  ASSUME mode' = "check", status' = "run", StreamsKept', Place', Unread', PastOrdered', Checked'
  PROVE  SortInv'
<1>1. GivesUpFar'
  BY Zenon DEF GivesUpFar
<1> QED
  BY <1>1, Zenon DEF SortInv

\* The invariant holds at the start.
LEMMA SortStarts ==
  ASSUME Init
  PROVE  SortInv
<1>1. /\ mode \in {"sort", "check"} /\ size \in Nat \ {0} /\ trace \in Traces /\ orig = trace
      /\ cur = 1 /\ pos = 1 /\ st = "S" /\ bad0 = 0 /\ last = 0 /\ ring = EmptyRing(size)
      /\ unsorted = FALSE /\ status = "run"
  BY OvniSortAssumption DEF Init
<1>2. trace \in Seq(Seq(Event)) /\ \A s \in DOMAIN trace : \A i \in DOMAIN trace[s] : trace[s][i].id = i
  BY <1>1, OvniSortAssumption
<1>3. Len(trace) \in Nat /\ DOMAIN trace = 1..Len(trace)
  BY <1>2, LenProperties
<1>4. ASSUME NEW c \in 1..Len(trace)
      PROVE  /\ trace[c] \in Seq(Event) /\ Len(trace[c]) \in Nat
             /\ \A i \in 1..Len(trace[c]) : trace[c][i].id = i
  <2>1. trace[c] \in Seq(Event)
    BY <1>2, <1>3, ElementOfSeq
  <2>2. DOMAIN trace[c] = 1..Len(trace[c]) /\ Len(trace[c]) \in Nat
    BY <2>1, LenProperties
  <2> QED
    BY <1>2, <1>3, <2>1, <2>2
<1>5. ASSUME NEW c \in 1..Len(trace) PROVE Shuffled(trace[c], trace[c])
  <2>1. ASSUME NEW i \in 1..Len(trace[c]), NEW j \in 1..Len(trace[c]), trace[c][i] = trace[c][j] PROVE i = j
    <3>1. trace[c][i].id = i /\ trace[c][j].id = j
      BY <1>4
    <3> QED
      BY <2>1, <3>1
  <2>2. Uniq(trace[c])
    BY <2>1 DEF Uniq
  <2> QED
    BY <1>4, <2>2 DEF Shuffled
<1>6. StreamsKept
  BY <1>1, <1>2, <1>4, <1>5 DEF StreamsKept
<1>7. Place
  <2>1. cur \in 1..Len(trace) + 1
    BY <1>1, <1>3
  <2>2. cur <= Len(trace) => pos \in 1..Len(Stream) + 1
    <3> SUFFICES ASSUME cur <= Len(trace) PROVE pos \in 1..Len(Stream) + 1
      OBVIOUS
    <3>1. cur \in 1..Len(trace)
      BY <1>1, <1>3
    <3>2. Len(Stream) \in Nat
      BY <1>4, <3>1 DEF Stream
    <3> QED
      BY <1>1, <3>2
  <2> QED
    BY <1>1, <2>1, <2>2 DEF Place
<1>8. Unread
  BY <1>1 DEF Unread, Stream
<1>9. PastOrdered
  <2>1. 1..cur - 1 = {}
    BY <1>1
  <2> QED
    BY <2>1 DEF PastOrdered
<1>10. RingInv
  <2>1. Kept = 0
    BY <1>1 DEF Kept
  <2>2. ring = [head |-> 0, tail |-> 0, ev |-> [i \in 0..size - 1 |-> 0]]
    BY <1>1 DEF EmptyRing
  <2>3. ring.head = 0 /\ ring.tail = 0 /\ ring.ev = [i \in 0..size - 1 |-> 0]
    BY <2>2
  <2>4. Count(ring, ring.head) = 0
    <3>1. 0 \in -size..size - 1
      BY <1>1
    <3>2. 0 % size = 0
      BY <1>1, <3>1, RingMod
    <3> QED
      BY <2>3, <3>2 DEF Count
  <2>5. RingOk(ring, 0)
    <3>1. ring = [head |-> ring.head, tail |-> ring.tail, ev |-> ring.ev]
      BY <2>2, <2>3
    <3>2. ring.ev = [i \in 0..size - 1 |-> ring.ev[i]]
      BY <2>3
    <3>3. IF 0 < size - 1 THEN ring.head = 0 /\ ring.tail = 0 ELSE Count(ring, ring.head) = size - 1
      BY <1>1, <2>3, <2>4
    <3>4. ring.head \in 0..size - 1 /\ ring.tail \in 0..size - 1
      BY <1>1, <2>3
    <3> QED
      BY <3>1, <3>2, <3>3, <3>4 DEF RingOk
  <2>6. Points(ring, 0, Stream, pos)
    BY DEF Points
  <2> QED
    BY <2>1, <2>5, <2>6 DEF RingInv
<1>11. Winsorted
  <2> SUFFICES ASSUME cur <= Len(trace)
               PROVE  st = States(orig[cur])[pos - 1] /\ st # "X" /\ UpTo(Stream, pos - 1)
    BY DEF Winsorted
  <2>1. orig[cur] \in Seq(Event)
    BY <1>1, <1>3, <1>4
  <2>2. pos - 1 = 0
    BY <1>1
  <2>3. States(orig[cur])[0] = "S"
    BY <2>1, StatesStep
  <2> QED
    BY <1>1, <2>2, <2>3 DEF UpTo
<1>12. Checked
  <2>1. 1..pos - 2 = {} /\ ~(pos > 1)
    BY <1>1
  <2> QED
    BY <1>1, <2>1 DEF Checked
<1>13. GivesUpFar
  BY <1>1, Zenon DEF GivesUpFar
<1> QED
  BY <1>1, <1>6, <1>7, <1>8, <1>9, <1>10, <1>11, <1>12, <1>13, Zenon DEF SortInv

\* The state of stream_winsort() goes on as NextSt says.
LEMMA StIs ==
  ASSUME SortInv, InStream, mode = "sort"
  PROVE  /\ st = States(orig[cur])[pos - 1] /\ Ev = orig[cur][pos]
         /\ NextSt(st, Ev) = States(orig[cur])[pos]
         /\ RingAt(ring, Stream, pos) /\ pos \in 1..Len(Stream) /\ unsorted = FALSE
         /\ (st = "X" => \E b \in 1..pos - 1 : Region(b))
         /\ (st # "X" /\ WellFormed(orig[cur]) => UpTo(Stream, pos - 1))
         /\ Pre(Stream, pos - 1) = Pre(orig[cur], pos - 1)
<1>1. status = "run" /\ cur <= Len(trace) /\ pos <= Len(Stream)
  BY DEF InStream
<1>2. RingInv /\ Winsorted /\ unsorted = FALSE /\ Unread
  <2>1. unsorted \in BOOLEAN
    BY DEF SortInv, Place
  <2> QED
    BY <1>1, <2>1, Zenon DEF SortInv
<1>3. pos \in 1..Len(Stream) /\ orig[cur] \in Seq(Event) /\ Len(orig[cur]) = Len(Stream) /\ pos \in Nat
  BY <1>1, StreamIs
<1>4. RingAt(ring, Stream, pos)
  BY <1>2 DEF RingInv, RingAt, Kept, KeptAt
<1>5. /\ st = States(orig[cur])[pos - 1]
      /\ (st = "X" => \E b \in 1..pos - 1 : Region(b))
      /\ (st # "X" /\ WellFormed(orig[cur]) => UpTo(Stream, pos - 1))
  BY <1>1, <1>2, Zenon DEF Winsorted
<1>6. Ev = orig[cur][pos]
  <2>1. pos \in pos..Len(Stream)
    BY <1>3
  <2> QED
    BY <1>1, <1>2, <2>1 DEF Unread, Ev
<1>7. States(orig[cur])[pos] = NextSt(States(orig[cur])[pos - 1], orig[cur][pos])
  BY <1>3, StatesStep
<1>8. Pre(Stream, pos - 1) = Pre(orig[cur], pos - 1)
  BY <1>1, ReadSame
<1> QED
  BY <1>2, <1>3, <1>4, <1>5, <1>6, <1>7, <1>8

\* The ring after a step.
LEMMA RingAtPrime ==
  ASSUME RingAt(ring', Stream', pos'), size' = size
  PROVE  RingInv'
<1>1. Kept' = KeptAt(pos')
  BY DEF Kept, KeptAt
<1>2. RingOk(ring', KeptAt(pos')) /\ Points(ring', KeptAt(pos'), Stream', pos')
  BY DEF RingAt
<1>3. RingOk(ring, Kept)'
  BY <1>1, <1>2 DEF RingOk, Count
<1>4. Points(ring, Kept, Stream, pos)'
  BY <1>1, <1>2 DEF Points, Nth
<1> QED
  BY <1>3, <1>4 DEF RingInv

\* An event that does not end a region.
LEMMA WinsortEventKeeps ==
  ASSUME SortInv, WinsortEvent
  PROVE  SortInv'
<1> DEFINE o == orig[cur]
           q == States(o)
<1>1. /\ mode = "sort" /\ InStream /\ status = "run" /\ cur <= Len(trace) /\ pos <= Len(Stream)
      /\ ~(st = "X" /\ Ev.mark = "]")
  BY DEF WinsortEvent, InStream, EndsRegion
<1>2. /\ st' = NextSt(st, Ev) /\ bad0' = (IF st = "U" /\ Ev.mark # "]" THEN Here ELSE bad0)
      /\ ring' = RingAdd(ring, Here) /\ pos' = pos + 1
      /\ mode' = mode /\ size' = size /\ trace' = trace /\ orig' = orig /\ cur' = cur
      /\ unsorted' = unsorted /\ status' = status
  BY DEF WinsortEvent
<1>3. Stream' = Stream
  BY <1>2 DEF Stream
<1>4. /\ st = q[pos - 1] /\ Ev = o[pos] /\ NextSt(st, Ev) = q[pos]
      /\ RingAt(ring, Stream, pos) /\ pos \in 1..Len(Stream) /\ unsorted = FALSE
      /\ (st = "X" => \E b \in 1..pos - 1 : Region(b))
      /\ (st # "X" /\ WellFormed(o) => UpTo(Stream, pos - 1))
      /\ Pre(Stream, pos - 1) = Pre(o, pos - 1)
  BY <1>1, StIs
<1>5. /\ Stream \in Seq(Event) /\ Len(Stream) \in Nat /\ pos \in Nat \ {0} /\ o \in Seq(Event)
      /\ Len(o) = Len(Stream) /\ cur \in Nat /\ size \in Nat \ {0} /\ cur \in 1..Len(trace) + 1
  BY <1>1, StreamIs DEF SortInv, Place
<1>6. StreamsKept /\ Place /\ Unread /\ PastOrdered
  BY <1>1, Zenon DEF SortInv
<1>7. StreamsKept'
  BY <1>2, <1>6 DEF StreamsKept
<1>8. Place'
  <2>1. pos + 1 \in 1..Len(Stream) + 1
    BY <1>4, <1>5
  <2> QED
    BY <1>1, <1>2, <1>3, <1>6, <2>1 DEF Place
<1>9. Unread'
  <2>1. \A i \in pos + 1..Len(Stream) : i \in pos..Len(Stream)
    BY <1>5
  <2> QED
    BY <1>1, <1>2, <1>3, <1>6, <2>1 DEF Unread
<1>10. PastOrdered'
  BY <1>2, <1>6, Zenon DEF PastOrdered
<1>11. RingInv'
  <2>1. RingAt(RingAdd(ring, Here), Stream, pos + 1)
    BY <1>4, <1>5, RingAddOk DEF Here
  <2> QED
    BY <1>2, <1>3, <2>1, RingAtPrime
<1>12. pos' - 1 = pos /\ st' = q[pos' - 1]
  BY <1>2, <1>4, <1>5
<1>13. Winsorted'
  <2>0. Stream[pos] = o[pos]
    BY <1>4 DEF Ev
  <2>1. CASE st' # "X"
    <3>1. st # "X"
      BY <1>1, <1>2, <2>1 DEF NextSt
    <3>2. WellFormed(o) => UpTo(Stream, pos)
      <4> SUFFICES ASSUME WellFormed(o) PROVE UpTo(Stream, pos)
        OBVIOUS
      <4>1. UpTo(Stream, pos - 1) /\ q[pos] # "X" /\ pos \in 1..Len(o)
        BY <1>2, <1>4, <1>5, <2>1, <3>1
      <4> HIDE DEF o
      <4> QED
        BY <1>4, <1>5, <2>0, <4>1, AfterAll
    <3> QED
      BY <1>2, <1>3, <1>12, <2>1, <3>2, Zenon DEF Winsorted
  <2>2. CASE st' = "X" /\ st = "X"
    <3>1. PICK b \in 1..pos - 1 : Region(b)
      BY <1>4, <2>2
    <3>2. /\ b \in 2..pos - 1 /\ q[b - 1] = "U" /\ (\A i \in b..pos - 1 : q[i] = "X")
          /\ bad0 = Offset(Stream, b) /\ (\A i \in b..pos - 1 : Stream[i] = o[i])
          /\ (WellFormed(o) => UpTo(Stream, b - 1))
      BY <3>1, Zenon DEF Region
    <3>3. bad0' = bad0 /\ q[pos] = "X"
      BY <1>2, <1>4, <2>2
    <3>4. b \in 2..pos /\ b \in 1..pos /\ \A i \in b..pos : i \in b..pos - 1 \/ i = pos
      BY <1>5, <3>2
    <3>5. \A i \in b..pos : q[i] = "X" /\ Stream[i] = o[i]
      BY <2>0, <3>2, <3>3, <3>4
    <3>6. Region(b)'
      BY <1>2, <1>3, <1>12, <3>2, <3>3, <3>4, <3>5, Zenon DEF Region
    <3>7. \E c \in 1..pos' - 1 : Region(c)'
      BY <1>12, <3>4, <3>6, Zenon
    <3> QED
      BY <1>2, <1>12, <2>2, <3>7, Zenon DEF Winsorted
  <2>3. CASE st' = "X" /\ st # "X"
    <3>1. st = "U" /\ Ev.mark # "]" /\ q[pos] = "X" /\ q[pos - 1] = "U" /\ bad0' = Here
      <4>1. st' = NextSt(st, Ev)
        BY <1>2
      <4>2. st # "S" /\ Ev.mark # "]"
        BY <2>3, <4>1 DEF NextSt
      <4>3. st \in {"S", "U", "X"}
        <5>1. \A z \in {"S", "U", "X"} : NextSt(z, o[pos]) \in {"S", "U", "X"}
          BY DEF NextSt
        <5>2. CASE pos = 1
          BY <1>4, <1>5, <5>2, StatesStep
        <5>3. CASE pos # 1
          <6>1. pos - 1 \in 1..Len(o)
            BY <1>4, <1>5, <5>3
          <6>2. q[pos - 1] = NextSt(q[pos - 1 - 1], o[pos - 1])
            BY <1>5, <6>1, StatesStep
          <6>3. \A y, z : NextSt(y, z) \in {"S", "U", "X"}
            BY DEF NextSt
          <6> QED
            BY <1>4, <6>2, <6>3
        <5> QED
          BY <5>2, <5>3
      <4>4. st = "U"
        BY <2>3, <4>2, <4>3
      <4> QED
        BY <1>2, <1>4, <2>3, <4>2, <4>4
    <3>2. pos # 1
      <4>1. pos = 1 => q[pos - 1] = "S"
        BY <1>5, StatesStep
      <4> QED
        BY <3>1, <4>1
    <3>3. pos \in 2..pos /\ pos \in 1..pos /\ \A i \in pos..pos : i = pos
      BY <1>5, <3>2
    <3>4. \A i \in pos..pos : q[i] = "X" /\ Stream[i] = o[i]
      BY <2>0, <3>1, <3>3
    <3>5. bad0' = Offset(Stream, pos)
      BY <3>1 DEF Here
    <3> PICK b : b = pos
      OBVIOUS
    <3>6. Region(b)'
      <4>1. WellFormed(o) => UpTo(Stream, b - 1)
        BY <1>4, <2>3
      <4>2. /\ b \in 2..pos /\ q[b - 1] = "U" /\ (\A i \in b..pos : q[i] = "X" /\ Stream[i] = o[i])
            /\ bad0' = Offset(Stream, b)
        BY <3>1, <3>3, <3>4, <3>5
      <4> QED
        BY <1>2, <1>3, <1>12, <4>1, <4>2, Zenon DEF Region
    <3>7. \E c \in 1..pos' - 1 : Region(c)'
      BY <1>12, <3>3, <3>6, Zenon
    <3> QED
      BY <1>2, <1>12, <2>3, <3>7, Zenon DEF Winsorted
  <2> QED
    BY <2>1, <2>2, <2>3
<1> QED
  BY <1>1, <1>2, <1>4, <1>7, <1>8, <1>9, <1>10, <1>11, <1>13, SortKeeps

\* The events of the ring, after the clock of the region, are different events of
\* the stream as it was.
LEMMA FarIs ==
  ASSUME NEW s \in Seq(Event), NEW o \in Seq(Event), Uniq(s), Len(o) = Len(s),
         \A i \in 1..Len(o) : o[i].id = i,
         NEW p \in 2..Len(s) + 1, Pre(s, p - 1) = Pre(o, p - 1), NEW low \in Nat, NEW m \in Nat, m <= p - 1,
         \A j \in 0..m - 1 : s[p - 1 - j].clock >= low
  PROVE  Cardinality({i \in 1..p - 1 : o[i].clock >= low}) >= m
<1> DEFINE T == {i \in 1..p - 1 : o[i].clock >= low}
           D == p - m..p - 1
           f == [j \in D |-> s[j].id]
<1>0. p \in Nat /\ Len(s) \in Nat /\ p <= Len(s) + 1
  BY LenProperties
<1>1. ASSUME NEW j \in D PROVE f[j] \in T /\ o[f[j]] = s[j] /\ j \in 1..Len(s)
  <2>1. j \in 1..p - 1 /\ j \in 1..Len(s) /\ p - 1 - j \in 0..m - 1 /\ p - 1 - (p - 1 - j) = j
    BY <1>0
  <2>2. s[j] \in Pre(o, p - 1)
    BY <2>1 DEF Pre
  <2>3. PICK i \in 1..p - 1 : s[j] = o[i]
    BY <2>2 DEF Pre
  <2>4. i \in 1..Len(o)
    BY <1>0
  <2>5. f[j] = i
    BY <2>3, <2>4
  <2>6. s[j].clock >= low
    BY <2>1
  <2> QED
    BY <2>1, <2>3, <2>5, <2>6
<1>2. f \in Injection(D, T)
  <2>1. ASSUME NEW x \in D, NEW y \in D, f[x] = f[y] PROVE x = y
    BY <1>1, <2>1 DEF Uniq
  <2>2. f \in [D -> T]
    BY <1>1
  <2> HIDE DEF f, D, T
  <2> QED
    BY <2>1, <2>2 DEF Injection, IsInjective
<1>3. IsFiniteSet(T)
  <2>1. IsFiniteSet(1..p - 1)
    <3>1. 1 \in Int /\ p - 1 \in Int
      BY <1>0
    <3> QED
      BY <3>1, FS_Interval
  <2> QED
    BY <2>1, FS_Subset
<1> HIDE DEF T, f
<1>4. Cardinality(D) <= Cardinality(T)
  BY <1>2, <1>3, FS_Injection
<1>5. Cardinality(D) = m
  <2>1. p - m \in Int /\ p - 1 \in Int
    BY <1>0
  <2>2. Cardinality(D) = IF p - m > p - 1 THEN 0 ELSE (p - 1) - (p - m) + 1
    BY <2>1, FS_Interval
  <2> HIDE DEF D
  <2> QED
    BY <1>0, <2>2
<1>6. Cardinality(T) \in Nat
  BY <1>3, FS_CardinalityType
<1> HIDE DEF D
<1>7. Cardinality(T) >= m
  BY <1>4, <1>5, <1>6
<1> QED
  BY <1>7 DEF T

\* Max is the greatest of a set.
LEMMA MaxIs ==
  ASSUME NEW S, NEW b \in S, \A i \in S : i \in Int /\ b >= i
  PROVE  Max(S) = b
<1>1. \A x \in S : (\A y \in S : x >= y) => x = b
  <2> TAKE x \in S
  <2> HAVE \A y \in S : x >= y
  <2>1. x >= b /\ b >= x /\ x \in Int /\ b \in Int
    OBVIOUS
  <2> QED
    BY <2>1
<1> QED
  BY <1>1, Zenon DEF Max

\* The end of a region.
LEMMA WinsortRegionKeeps ==
  ASSUME SortInv, WinsortRegion
  PROVE  SortInv'
<1> DEFINE o == orig[cur]
           q == States(o)
           p == pos
           x == Stream
           clock == RegionClock
           fd == FindDestination(x, ring, clock)
<1>1. /\ mode = "sort" /\ InStream /\ status = "run" /\ cur <= Len(trace) /\ pos <= Len(Stream)
      /\ st = "X" /\ Ev.mark = "]"
  BY DEF WinsortRegion, InStream, EndsRegion
<1>2. /\ st' = NextSt(st, Ev) /\ bad0' = 0 /\ pos' = pos + 1
      /\ mode' = mode /\ size' = size /\ orig' = orig /\ cur' = cur /\ unsorted' = unsorted
  BY DEF WinsortRegion
<1>3. IF BadRing(x, ring, clock) THEN status' = "died" /\ UNCHANGED <<trace, ring>>
      ELSE IF fd = -1 THEN status' = "failed" /\ UNCHANGED <<trace, ring>>
      ELSE ExecuteSortPlan(fd)
  BY Zenon DEF WinsortRegion
<1>4. /\ q[p] = NextSt(st, Ev) /\ Ev = o[p] /\ RingAt(ring, x, p) /\ p \in 1..Len(x) /\ unsorted = FALSE
      /\ Pre(x, p - 1) = Pre(o, p - 1) /\ \E b \in 1..p - 1 : Region(b)
  BY <1>1, StIs
<1>5. /\ x \in Seq(Event) /\ Uniq(x) /\ Len(x) \in Nat /\ p \in Nat \ {0} /\ o \in Seq(Event)
      /\ Len(o) = Len(x) /\ cur \in Nat /\ cur \in 1..Len(trace) /\ Len(trace) \in Nat /\ DOMAIN trace = 1..Len(trace)
      /\ Shuffled(x, o) /\ \A i \in 1..Len(x) : o[i].id = i
  BY <1>1, StreamIs
<1>6. size \in Nat \ {0}
  BY DEF SortInv, Place
<1>7. StreamsKept /\ Place /\ Unread /\ PastOrdered
  BY <1>1, Zenon DEF SortInv
<1>8. PICK b \in 1..p - 1 : Region(b)
  BY <1>4
<1>9. /\ b \in 2..p - 1 /\ q[b - 1] = "U" /\ (\A i \in b..p - 1 : q[i] = "X")
      /\ bad0 = Offset(x, b) /\ (\A i \in b..p - 1 : x[i] = o[i])
      /\ (WellFormed(o) => UpTo(x, b - 1))
  BY <1>8, Zenon DEF Region
<1> DEFINE low == Min({x[i].clock : i \in b..p - 1})
<1>10. b \in 1..Len(x) /\ p \in 1..Len(x) + 1 /\ b < p /\ p \in 2..Len(x) + 1 /\ p \in 2..Len(x) /\ b \in Nat
  BY <1>4, <1>5, <1>9
<1>11. clock = low
  <2>1. MinClock(x, Offset(x, b), Offset(x, p)) = low
    <3> HIDE DEF x, p
    <3> QED
      BY <1>5, <1>10, RegionClockIs
  <2> QED
    BY <1>9, <2>1 DEF RegionClock, Here
<1>12. low \in Nat /\ \A i \in b..p - 1 : low <= x[i].clock
  <2> HIDE DEF x, p
  <2> QED
    BY <1>5, <1>10, LowIs
<1> HIDE DEF clock
<1>13. /\ ~BadRing(x, ring, clock)
       /\ IF fd = -1
          THEN size - 1 <= p - 1 /\ \A j \in 0..size - 2 : x[p - 1 - j].clock >= clock
          ELSE \E k \in Nat : fd = Nth(ring, k) /\ Destination(x, p, clock, k)
  <2> HIDE DEF x, p, low
  <2> QED
    BY <1>4, <1>5, <1>6, <1>10, <1>11, <1>12, FindIs
<1> HIDE DEF low, fd
<1>14. pos + 1 \in 1..Len(x) + 1 /\ pos' - 1 = pos
  BY <1>2, <1>4, <1>5
<1>15. CASE fd = -1
  <2>1. status' = "failed" /\ trace' = trace
    BY <1>3, <1>13, <1>15
  <2>2. StreamsKept'
    BY <1>2, <1>7, <2>1 DEF StreamsKept
  <2>3. Place'
    BY <1>1, <1>2, <1>7, <1>14, <2>1 DEF Place, Stream
  <2>4. size - 1 \in Nat /\ size - 1 <= p - 1 /\ \A j \in 0..(size - 1) - 1 : x[p - 1 - j].clock >= low
    <3>1. (size - 1) - 1 = size - 2
      BY <1>6
    <3> QED
      BY <1>6, <1>11, <1>13, <1>15, <3>1
  <2>5. Cardinality({i \in 1..p - 1 : o[i].clock >= low}) >= size - 1
    <3> HIDE DEF x, p, o
    <3> DEFINE m == size - 1
    <3>1. m \in Nat /\ m <= p - 1 /\ \A j \in 0..m - 1 : x[p - 1 - j].clock >= low
      BY <2>4
    <3>a. x \in Seq(Event) /\ o \in Seq(Event) /\ Uniq(x) /\ Len(o) = Len(x) /\ p \in 2..Len(x) + 1 /\ low \in Nat
      BY <1>5, <1>10, <1>12
    <3>b. \A i \in 1..Len(o) : o[i].id = i
      BY <1>5
    <3>c. Pre(x, p - 1) = Pre(o, p - 1)
      BY <1>4
    <3> HIDE DEF m, q
    <3>2. Cardinality({i \in 1..p - 1 : o[i].clock >= low}) >= m
      BY <3>a, <3>b, <3>c, <3>1, FarIs
    <3> QED
      BY <3>2 DEF m
  <2>6. Max({i \in 1..p - 1 : i = 1 \/ q[i - 1] # "X"}) = b
    <3> DEFINE S == {i \in 1..p - 1 : i = 1 \/ q[i - 1] # "X"}
    <3>1. b \in S
      <4>1. q[b - 1] # "X" /\ b \in 1..p - 1
        BY <1>8, <1>9
      <4> HIDE DEF q, p
      <4> QED
        BY <4>1
    <3>2. ASSUME NEW i \in S PROVE i \in Int /\ b >= i
      <4>1. i \in 1..p - 1 /\ (i = 1 \/ q[i - 1] # "X")
        OBVIOUS
      <4>2. CASE i > b
        <5>1. i - 1 \in b..p - 1 /\ i # 1
          BY <1>5, <1>9, <1>10, <4>1, <4>2
        <5> QED
          BY <1>9, <4>1, <5>1
      <4> QED
        BY <1>5, <1>10, <4>1, <4>2
    <3> HIDE DEF S
    <3>3. Max(S) = b
      BY <3>1, <3>2, MaxIs
    <3> QED
      BY <3>3 DEF S
  <2>7. low = Min({o[i].clock : i \in b..p - 1})
    <3>1. {x[i].clock : i \in b..p - 1} = {o[i].clock : i \in b..p - 1}
      <4>1. \A i \in b..p - 1 : x[i] = o[i]
        BY <1>9
      <4> HIDE DEF x, o, p
      <4> QED
        BY <4>1
    <3> QED
      BY <3>1 DEF low
  <2>8. pos' - 2 = p - 1
    BY <1>2, <1>5
  <2>9. GivesUpFar'
    <3>1. LET s == orig'[cur']
              g == States(s)
              c == Max({i \in 1..pos' - 2 : i = 1 \/ g[i - 1] # "X"})
              l == Min({s[i].clock : i \in c..pos' - 2})
          IN  Cardinality({i \in 1..pos' - 2 : s[i].clock >= l}) >= size' - 1
      BY <1>2, <2>5, <2>6, <2>7, <2>8, Zenon
    <3>2. mode' # "check" /\ status' # "died"
      BY <1>1, <1>2, <2>1
    <3> QED
      BY <3>1, <3>2, Zenon DEF GivesUpFar
  <2>10. status' # "run" /\ status' # "ok"
    BY <2>1
  <2> QED
    BY <2>2, <2>3, <2>9, <2>10, Zenon DEF SortInv
<1>16. CASE fd # -1
  <2>1. PICK k \in Nat : fd = Nth(ring, k) /\ Destination(x, p, clock, k)
    BY <1>13, <1>16
  <2>2. ExecuteSortPlan(Nth(ring, k))
    BY <1>3, <1>13, <1>16, <2>1
  <2>3. k \in 0..KeptAt(pos) - 1 /\ (x[p - 1 - k].clock < low \/ p - 1 - k = 1)
    BY <1>11, <2>1 DEF Destination
  <2>4. /\ status' = status
        /\ \E s : /\ PlacedOk(s, Stream, pos - 1 - k, pos)
                  /\ trace' = [trace EXCEPT ![cur] = s]
                  /\ RingAt(ring', s, pos + 1)
    BY <1>4, <1>5, <1>6, <1>10, <2>2, <2>3, PlanOk
  <2>5. PICK s : /\ PlacedOk(s, Stream, pos - 1 - k, pos)
                 /\ trace' = [trace EXCEPT ![cur] = s]
                 /\ RingAt(ring', s, pos + 1)
    BY <2>4
  <2> DEFINE a == p - 1 - k
  <2>6. a \in 1..p - 1 /\ a \in Nat \ {0} /\ a <= p /\ p <= Len(x) + 1
    <3>1. KeptAt(pos) <= p - 1
      BY <1>5, <1>6 DEF KeptAt
    <3>2. KeptAt(pos) \in Int
      BY <1>5, <1>6 DEF KeptAt
    <3> QED
      BY <1>5, <1>10, <2>3, <3>1, <3>2
  <2>7. s \in Seq(Event) /\ Len(s) = Len(x) /\ (\A i \in 1..Len(x) : i >= p => s[i] = x[i])
    BY <2>5 DEF PlacedOk
  <2>8. /\ Len(trace') = Len(trace) /\ trace'[cur] = s /\ (\A c \in 1..Len(trace) : c # cur => trace'[c] = trace[c])
        /\ trace' \in Seq(Seq(Event))
    <3>1. trace \in Seq(Seq(Event))
      BY <1>7 DEF StreamsKept
    <3> HIDE DEF x, o
    <3> QED
      BY <1>5, <2>5, <2>7, <3>1, ExceptSeq
  <2>9. Stream' = s
    BY <1>2, <2>8 DEF Stream
  <2>10. Shuffled(s, o)
    <3>1. PlacedOk(s, x, a, p)
      BY <2>5
    <3> HIDE DEF x, o, a, p
    <3> QED
      BY <1>5, <2>6, <3>1, PlacedShuffled
  <2>11. StreamsKept'
    <3>1. orig' \in Seq(Seq(Event)) /\ Len(trace') = Len(orig')
      BY <1>2, <1>7, <2>8 DEF StreamsKept
    <3>2. ASSUME NEW c \in 1..Len(orig)
          PROVE  (\A i \in 1..Len(orig[c]) : orig[c][i].id = i) /\ Shuffled(trace'[c], orig[c])
      <4>1. (\A i \in 1..Len(orig[c]) : orig[c][i].id = i) /\ Shuffled(trace[c], orig[c]) /\ c \in 1..Len(trace)
        BY <1>7 DEF StreamsKept
      <4>2. CASE c = cur
        BY <2>8, <2>10, <4>1, <4>2
      <4>3. CASE c # cur
        BY <2>8, <4>1, <4>3
      <4> QED
        BY <4>2, <4>3
    <3>3. mode' # "check"
      BY <1>1, <1>2
    <3> QED
      BY <1>2, <2>8, <3>1, <3>2, <3>3 DEF StreamsKept
  <2>12. Place'
    <3>1. pos' \in 1..Len(Stream') + 1
      BY <1>2, <1>14, <2>7, <2>9
    <3> QED
      BY <1>1, <1>2, <1>7, <2>8, <3>1 DEF Place
  <2>13. Unread'
    <3>1. ASSUME NEW i \in pos'..Len(Stream') PROVE Stream'[i] = orig'[cur'][i]
      <4>1. i \in p..Len(x) /\ i \in 1..Len(x) /\ i >= p
        BY <1>2, <1>5, <2>7, <2>9
      <4>2. x[i] = o[i]
        BY <1>1, <1>7, <4>1 DEF Unread
      <4> QED
        BY <1>2, <2>7, <2>9, <4>1, <4>2
    <3>2. ASSUME NEW c \in cur' + 1..Len(trace') PROVE trace'[c] = orig'[c]
      <4>1. c \in cur + 1..Len(trace) /\ c \in 1..Len(trace) /\ c # cur
        BY <1>2, <1>5, <2>8
      <4> QED
        BY <1>2, <1>7, <2>8, <4>1 DEF Unread
    <3> QED
      BY <3>1, <3>2 DEF Unread
  <2>14. PastOrdered'
    <3>1. ASSUME NEW c \in 1..cur - 1 PROVE trace'[c] = trace[c]
      <4>1. c \in 1..Len(trace) /\ c # cur
        BY <1>5
      <4> QED
        BY <2>8, <4>1
    <3> QED
      BY <1>2, <1>7, <3>1, Zenon DEF PastOrdered
  <2>15. RingInv'
    BY <1>2, <2>5, <2>9, RingAtPrime
  <2>16. Winsorted'
    <3>1. st' = "S" /\ st' = q[p]
      BY <1>1, <1>2, <1>4 DEF NextSt
    <3>2. WellFormed(o) => UpTo(s, p)
      <4> SUFFICES ASSUME WellFormed(o) PROVE UpTo(s, p)
        OBVIOUS
      <4>1. UpTo(x, b - 1) /\ PlacedOk(s, x, a, p) /\ (x[a].clock < low \/ a = 1)
        BY <1>9, <2>3, <2>5
      <4>2. UpTo(s, p - 1)
        <5> HIDE DEF x, p, a
        <5> QED
          BY <1>4, <1>5, <1>9, <1>12, <2>6, <4>1, RegionSorted
      <4>3. Pre(s, p - 1) = Pre(x, p - 1)
        <5>1. p - 1 \in 0..Len(x) /\ p - 1 >= p - 1 /\ p \in Nat
          BY <1>4, <1>5
        <5> HIDE DEF x, p, a
        <5> QED
          BY <1>5, <2>6, <4>1, <5>1, PlacedPre
      <4>4. s[p] = o[p] /\ q[p] # "X" /\ p \in 1..Len(o)
        <5>1. p \in 1..Len(x) /\ p >= p
          BY <1>4, <1>5
        <5>2. s[p] = x[p]
          BY <2>7, <5>1
        <5> QED
          BY <1>4, <1>5, <3>1, <5>2 DEF Ev
      <4> HIDE DEF x, p, o
      <4> QED
        BY <1>4, <1>5, <4>2, <4>3, <4>4, AfterAll
    <3> QED
      BY <1>2, <1>14, <2>9, <3>1, <3>2, Zenon DEF Winsorted
  <2> QED
    BY <1>1, <1>2, <1>4, <2>4, <2>11, <2>12, <2>13, <2>14, <2>15, <2>16, SortKeeps
<1> QED
  BY <1>15, <1>16

\* stream_check() compares each event with the one before it.
LEMMA StreamCheckKeeps ==
  ASSUME SortInv, StreamCheck
  PROVE  SortInv'
<1>1. mode = "check" /\ status = "run" /\ cur <= Len(trace) /\ pos <= Len(Stream)
  BY DEF StreamCheck, InStream
<1>2. /\ unsorted' = (unsorted \/ (pos > 1 /\ Ev.clock < last)) /\ last' = Ev.clock /\ pos' = pos + 1
      /\ mode' = mode /\ size' = size /\ trace' = trace /\ orig' = orig /\ cur' = cur /\ status' = status
  BY DEF StreamCheck
<1>3. Stream' = Stream
  BY <1>2 DEF Stream
<1>4. StreamsKept /\ Place /\ Unread /\ PastOrdered /\ Checked
  BY <1>1, Zenon DEF SortInv
<1>5. /\ Stream \in Seq(Event) /\ Len(Stream) \in Nat /\ pos \in Nat \ {0} /\ pos \in 1..Len(Stream)
      /\ cur \in 1..Len(trace) /\ Len(trace) \in Nat
  BY <1>1, StreamIs
<1>6. unsorted \in BOOLEAN /\ trace = orig /\ Len(trace) = Len(orig)
  BY <1>1, <1>4 DEF Place, StreamsKept
<1>7. StreamsKept'
  BY <1>2, <1>4 DEF StreamsKept
<1>8. Place'
  <2>1. pos + 1 \in 1..Len(Stream) + 1
    BY <1>5
  <2>2. unsorted' \in BOOLEAN
    BY <1>2, Zenon
  <2> QED
    BY <1>1, <1>2, <1>3, <1>4, <2>1, <2>2 DEF Place
<1>9. Unread'
  <2>1. \A i \in pos + 1..Len(Stream) : i \in pos..Len(Stream)
    BY <1>5
  <2> QED
    BY <1>1, <1>2, <1>3, <1>4, <2>1 DEF Unread
<1>10. PastOrdered'
  <2>1. ~unsorted' => ~unsorted
    BY <1>2
  <2> QED
    BY <1>2, <1>4, <2>1, Zenon DEF PastOrdered
<1>11. \A i \in 1..Len(Stream) : Stream[i].clock \in Nat
  BY <1>5, ElementOfSeq, EventType
<1>12. ~unsorted => /\ \A i \in 1..pos - 2 : Stream[i].clock <= Stream[i + 1].clock
                    /\ pos > 1 => last = Stream[pos - 1].clock
  BY <1>1, <1>4, Zenon DEF Checked
<1>13. ASSUME ~unsorted'
       PROVE  /\ \A i \in 1..pos' - 2 : Stream'[i].clock <= Stream'[i + 1].clock
              /\ last' = Stream'[pos' - 1].clock
  <2>1. ~unsorted /\ ~(pos > 1 /\ Ev.clock < last)
    BY <1>2, <1>13
  <2>2. pos' - 1 = pos /\ pos' - 2 = pos - 1
    BY <1>2, <1>5
  <2>3. ASSUME NEW i \in 1..pos - 1 PROVE Stream[i].clock <= Stream[i + 1].clock
    <3>1. CASE i = pos - 1
      <4>1. pos > 1 /\ i + 1 = pos /\ i \in 1..Len(Stream)
        BY <1>5, <3>1
      <4>2. last = Stream[i].clock /\ ~(Stream[pos].clock < last)
        BY <1>12, <2>1, <3>1, <4>1 DEF Ev
      <4>3. Stream[i].clock \in Nat /\ Stream[pos].clock \in Nat
        BY <1>5, <1>11, <4>1
      <4> QED
        BY <4>1, <4>2, <4>3
    <3>2. CASE i # pos - 1
      <4>1. i \in 1..pos - 2
        BY <1>5, <3>2
      <4> QED
        BY <1>12, <2>1, <4>1
    <3> QED
      BY <3>1, <3>2
  <2> QED
    BY <1>2, <1>3, <2>2, <2>3 DEF Ev
<1>14. ASSUME unsorted' = TRUE PROVE \E c \in 1..Len(orig') : Broken(orig'[c]) \/ ~Ordered(orig'[c])
  <2>1. CASE unsorted
    BY <1>2, <1>4, <2>1 DEF Checked
  <2>2. CASE ~unsorted
    <3>1. pos > 1 /\ Ev.clock < last /\ last = Stream[pos - 1].clock
      BY <1>2, <1>12, <1>14, <2>2
    <3>2. pos - 1 \in 1..Len(Stream) - 1 /\ (pos - 1) + 1 = pos /\ pos - 1 \in 1..Len(Stream)
      BY <1>5, <3>1
    <3>3. ~(Stream[pos - 1].clock <= Stream[(pos - 1) + 1].clock)
      <4>1. Stream[pos - 1].clock \in Nat /\ Stream[pos].clock \in Nat
        BY <1>5, <1>11, <3>2
      <4> QED
        BY <3>1, <3>2, <4>1 DEF Ev
    <3>4. ~Ordered(Stream)
      BY <3>2, <3>3 DEF Ordered
    <3> QED
      BY <1>2, <1>5, <1>6, <3>4 DEF Stream
  <2> QED
    BY <2>1, <2>2
<1>15. Checked'
  <2>1. unsorted' \in BOOLEAN
    BY <1>2, Zenon
  <2> QED
    BY <1>13, <1>14, <2>1, Zenon DEF Checked
<1> QED
  BY <1>1, <1>2, <1>7, <1>8, <1>9, <1>10, <1>15, CheckKeeps

\* Between two streams.
LEMMA NextStreamKeeps ==
  ASSUME SortInv, NextStream
  PROVE  SortInv'
<1>1. status = "run" /\ cur <= Len(trace) /\ pos > Len(Stream)
  BY DEF NextStream
<1>2. /\ mode' = mode /\ size' = size /\ trace' = trace /\ orig' = orig
      /\ IF mode = "sort" /\ Broken(orig[cur])
         THEN status' = "failed" /\ cur' = cur /\ pos' = pos /\ unsorted' = unsorted
         ELSE /\ cur' = cur + 1 /\ pos' = 1 /\ st' = "S" /\ bad0' = 0 /\ last' = 0
              /\ ring' = RingReset(ring) /\ unsorted' = (unsorted \/ Broken(orig[cur])) /\ status' = status
  BY Zenon DEF NextStream, walkVars
<1>3. StreamsKept /\ Place /\ Unread /\ PastOrdered
  BY <1>1, Zenon DEF SortInv
<1>4. StreamsKept'
  BY <1>2, <1>3 DEF StreamsKept
<1>5. /\ Stream \in Seq(Event) /\ Len(Stream) \in Nat /\ pos = Len(Stream) + 1 /\ pos - 1 = Len(Stream)
      /\ cur \in 1..Len(trace) /\ cur \in Nat /\ Len(trace) \in Nat /\ DOMAIN trace = 1..Len(trace)
      /\ orig[cur] \in Seq(Event) /\ Len(orig[cur]) = Len(Stream)
  BY <1>1, StreamIs
<1>6. trace \in Seq(Seq(Event)) /\ orig \in Seq(Seq(Event)) /\ Len(trace) = Len(orig) /\ unsorted \in BOOLEAN
      /\ mode \in {"sort", "check"} /\ size \in Nat \ {0}
  BY <1>3 DEF StreamsKept, Place
<1>7. CASE mode = "sort" /\ Broken(orig[cur])
  <2>1. status' = "failed" /\ cur' = cur /\ pos' = pos /\ unsorted' = unsorted
    BY <1>2, <1>7
  <2>2. Place'
    BY <1>2, <1>3, <2>1 DEF Place, Stream
  <2>3. cur \in DOMAIN orig
    BY <1>5, <1>6, LenProperties
  <2>4. GivesUpFar'
    <3>1. ~(\A s \in DOMAIN orig' : ~Broken(orig'[s]))
      BY <1>2, <1>7, <2>3
    <3>2. status' # "died"
      BY <2>1
    <3> QED
      BY <3>1, <3>2, Zenon DEF GivesUpFar
  <2>5. status' # "run" /\ status' # "ok"
    BY <2>1
  <2> QED
    BY <1>4, <2>2, <2>4, <2>5, Zenon DEF SortInv
<1>8. CASE ~(mode = "sort" /\ Broken(orig[cur]))
  <2>1. /\ cur' = cur + 1 /\ pos' = 1 /\ st' = "S" /\ bad0' = 0 /\ last' = 0
        /\ ring' = RingReset(ring) /\ unsorted' = (unsorted \/ Broken(orig[cur])) /\ status' = status
    BY <1>2, <1>8
  <2>2. unsorted' \in BOOLEAN /\ (~unsorted' => ~unsorted)
    BY <2>1, Zenon
  <2>3. cur' \in 1..Len(trace') + 1 /\ cur' - 1 = cur
    BY <1>2, <1>5, <2>1
  <2>4. ASSUME cur' <= Len(trace')
        PROVE  Stream' \in Seq(Event) /\ Len(Stream') \in Nat /\ orig'[cur'] \in Seq(Event)
    <3>1. cur' \in 1..Len(trace) /\ cur' \in 1..Len(orig)
      BY <1>2, <1>5, <1>6, <2>1, <2>4
    <3>2. Stream' \in Seq(Event) /\ orig[cur'] \in Seq(Event)
      BY <1>2, <1>6, <3>1, ElementOfSeq DEF Stream
    <3> QED
      BY <1>2, <3>2, LenProperties
  <2>5. Place'
    <3>1. cur' <= Len(trace') => pos' \in 1..Len(Stream') + 1
      BY <2>1, <2>4
    <3> QED
      BY <1>2, <1>6, <2>1, <2>2, <2>3, <3>1 DEF Place
  <2>6. Unread'
    <3>1. ASSUME NEW c \in cur'..Len(trace') PROVE trace'[c] = orig'[c]
      <4>1. c \in cur + 1..Len(trace)
        BY <1>2, <1>5, <2>1
      <4> QED
        BY <1>2, <1>3, <4>1 DEF Unread
    <3>2. \A c \in cur' + 1..Len(trace') : c \in cur'..Len(trace')
      BY <1>2, <1>5, <2>1
    <3>3. cur' <= Len(trace') => cur' \in cur'..Len(trace')
      BY <1>2, <1>5, <2>1
    <3>4. cur' <= Len(trace') => Stream' = orig'[cur']
      BY <3>1, <3>3 DEF Stream
    <3> QED
      BY <3>1, <3>2, <3>4 DEF Unread
  <2>7. ASSUME IF mode = "check" THEN ~unsorted' ELSE WellFormed(orig[cur]) PROVE Ordered(trace[cur])
    <3>1. CASE mode = "check"
      <4>1. ~unsorted
        BY <2>2, <2>7, <3>1
      <4>2. Checked
        BY <1>1, <3>1, Zenon DEF SortInv
      <4>3. \A i \in 1..pos - 2 : Stream[i].clock <= Stream[i + 1].clock
        BY <1>1, <4>1, <4>2, Zenon DEF Checked
      <4>4. pos - 2 = Len(Stream) - 1
        BY <1>5
      <4> QED
        BY <4>3, <4>4 DEF Ordered, Stream
    <3>2. CASE mode = "sort"
      <4>1. Winsorted
        BY <1>1, <3>2, Zenon DEF SortInv
      <4>2. WellFormed(orig[cur])
        BY <2>7, <3>2
      <4>3. st = States(orig[cur])[Len(orig[cur])]
        BY <1>1, <1>5, <4>1, Zenon DEF Winsorted
      <4>4. st # "X"
        BY <4>2, <4>3, Zenon DEF WellFormed
      <4>5. UpTo(Stream, Len(Stream))
        BY <1>1, <1>5, <4>1, <4>2, <4>4, Zenon DEF Winsorted
      <4> QED
        BY <1>5, <4>5, UpToOrdered DEF Stream
    <3> QED
      BY <1>6, <3>1, <3>2
  <2>8. PastOrdered'
    <3>1. ASSUME NEW c \in 1..cur' - 1, IF mode' = "check" THEN ~unsorted' ELSE WellFormed(orig'[c])
          PROVE  Ordered(trace'[c])
      <4>1. CASE c = cur
        BY <1>2, <2>7, <3>1, <4>1
      <4>2. CASE c # cur
        <5>a. c \in 1..cur /\ cur \in Nat
          BY <1>5, <2>3
        <5>1. c \in 1..cur - 1
          BY <4>2, <5>a
        <5>2. IF mode = "check" THEN ~unsorted ELSE WellFormed(orig[c])
          BY <1>2, <2>2, <3>1
        <5> QED
          BY <1>2, <1>3, <5>1, <5>2, Zenon DEF PastOrdered
      <4> QED
        BY <4>1, <4>2
    <3> QED
      BY <3>1, Zenon DEF PastOrdered
  <2>9. CASE mode = "check"
    <3>1. Checked
      BY <1>1, <2>9, Zenon DEF SortInv
    <3>2. 1..pos' - 2 = {} /\ ~(pos' > 1)
      BY <2>1
    <3>3. ASSUME unsorted' = TRUE PROVE \E c \in 1..Len(orig') : Broken(orig'[c]) \/ ~Ordered(orig'[c])
      <4>1. CASE unsorted
        BY <1>2, <3>1, <4>1 DEF Checked
      <4>2. CASE ~unsorted
        <5>1. Broken(orig[cur])
          BY <2>1, <3>3, <4>2
        <5> QED
          BY <1>2, <1>5, <1>6, <5>1
      <4> QED
        BY <4>1, <4>2
    <3>4. Checked'
      BY <2>2, <3>2, <3>3, Zenon DEF Checked
    <3> QED
      BY <1>1, <1>2, <1>4, <2>1, <2>5, <2>6, <2>8, <2>9, <3>4, CheckKeeps
  <2>10. CASE mode = "sort"
    <3>1. RingInv /\ unsorted = FALSE
      BY <1>1, <1>6, <2>10, Zenon DEF SortInv
    <3>2. unsorted' = FALSE
      BY <1>8, <2>1, <2>10, <3>1
    <3>3. RingInv'
      <4>1. ring = [head |-> ring.head, tail |-> ring.tail, ev |-> ring.ev]
            /\ ring.ev = [i \in 0..size - 1 |-> ring.ev[i]]
        BY <3>1 DEF RingInv, RingOk
      <4>2. ring' = [head |-> 0, tail |-> 0, ev |-> ring.ev]
        BY <2>1, <4>1 DEF RingReset
      <4>3. ring'.head = 0 /\ ring'.tail = 0 /\ ring'.ev = ring.ev
        BY <4>2
      <4>4. KeptAt(pos') = 0
        BY <1>6, <2>1 DEF KeptAt
      <4>5. Count(ring', ring'.head) = 0
        <5>1. 0 \in -size..size - 1
          BY <1>6
        <5>2. 0 % size = 0
          BY <1>6, <5>1, RingMod
        <5> QED
          BY <4>3, <5>2 DEF Count
      <4>6. RingOk(ring', 0)
        <5>1. ring' = [head |-> ring'.head, tail |-> ring'.tail, ev |-> ring'.ev]
          BY <4>2, <4>3
        <5>2. ring'.ev = [i \in 0..size - 1 |-> ring'.ev[i]]
          BY <4>1, <4>3
        <5>3. IF 0 < size - 1 THEN ring'.head = 0 /\ ring'.tail = 0 ELSE Count(ring', ring'.head) = size - 1
          BY <1>6, <4>3, <4>5
        <5>4. ring'.head \in 0..size - 1 /\ ring'.tail \in 0..size - 1
          BY <1>6, <4>3
        <5> QED
          BY <5>1, <5>2, <5>3, <5>4 DEF RingOk
      <4>7. Points(ring', 0, Stream', pos')
        BY DEF Points
      <4> QED
        BY <1>2, <4>4, <4>6, <4>7, RingAtPrime DEF RingAt
    <3>4. Winsorted'
      <4> SUFFICES ASSUME cur' <= Len(trace')
                   PROVE  st' = States(orig'[cur'])[pos' - 1] /\ st' # "X" /\ UpTo(Stream', pos' - 1)
        BY Zenon DEF Winsorted
      <4>1. pos' - 1 = 0
        BY <2>1
      <4>2. States(orig'[cur'])[0] = "S"
        BY <2>4, StatesStep
      <4> QED
        BY <2>1, <4>1, <4>2 DEF UpTo
    <3> QED
      BY <1>1, <1>2, <1>4, <2>1, <2>5, <2>6, <2>8, <2>10, <3>2, <3>3, <3>4, SortKeeps
  <2> QED
    BY <1>6, <2>9, <2>10
<1> QED
  BY <1>7, <1>8

\* The end.
LEMMA DoneKeeps ==
  ASSUME SortInv, Done
  PROVE  SortInv'
<1>1. status = "run" /\ cur > Len(trace) /\ status' = IF unsorted THEN "failed" ELSE "ok"
  BY DEF Done
<1>2. mode' = mode /\ size' = size /\ trace' = trace /\ orig' = orig /\ cur' = cur /\ pos' = pos /\ unsorted' = unsorted
  BY DEF Done, walkVars
<1>3. StreamsKept /\ Place /\ PastOrdered
  BY <1>1, Zenon DEF SortInv
<1>4. StreamsKept' /\ Place'
  BY <1>2, <1>3 DEF StreamsKept, Place, Stream
<1>5. unsorted \in BOOLEAN /\ mode \in {"sort", "check"} /\ Len(trace) \in Nat /\ cur \in 1..Len(trace) + 1
      /\ Len(trace) = Len(orig) /\ DOMAIN orig = 1..Len(orig)
  BY <1>3, LenProperties DEF Place, StreamsKept
<1>6. CASE unsorted
  <2>1. status' = "failed"
    BY <1>1, <1>6
  <2>2. mode = "check"
    <3>1. ~(mode = "sort")
      BY <1>1, <1>6, Zenon DEF SortInv
    <3> QED
      BY <1>5, <3>1
  <2>3. PICK c \in 1..Len(orig) : Broken(orig[c]) \/ ~Ordered(orig[c])
    <3>1. Checked
      BY <1>1, <2>2, Zenon DEF SortInv
    <3> QED
      BY <1>6, <3>1 DEF Checked
  <2>4. GivesUpFar'
    <3>1. (\A s \in DOMAIN orig' : ~Broken(orig'[s])) => \E s \in DOMAIN orig' : ~Ordered(orig'[s])
      BY <1>2, <1>5, <2>3
    <3>2. mode' = "check" /\ status' # "died"
      BY <1>2, <2>1, <2>2
    <3> QED
      BY <3>1, <3>2, Zenon DEF GivesUpFar
  <2>5. status' # "run" /\ status' # "ok"
    BY <2>1
  <2> QED
    BY <1>4, <2>4, <2>5, Zenon DEF SortInv
<1>7. CASE ~unsorted
  <2>1. status' = "ok"
    BY <1>1, <1>7
  <2>2. ASSUME NEW c \in 1..Len(trace), mode = "check" \/ WellFormed(orig[c]) PROVE Ordered(trace[c])
    <3>1. c \in 1..cur - 1
      BY <1>1, <1>5
    <3>2. IF mode = "check" THEN ~unsorted ELSE WellFormed(orig[c])
      BY <1>7, <2>2
    <3> QED
      BY <1>3, <3>1, <3>2, Zenon DEF PastOrdered
  <2>3. GivesUpFar'
    <3>1. status' # "died" /\ status' # "failed"
      BY <2>1
    <3> QED
      BY <3>1, Zenon DEF GivesUpFar
  <2>4. status' # "run"
    BY <2>1
  <2> QED
    BY <1>2, <1>4, <2>2, <2>3, <2>4, Zenon DEF SortInv
<1> QED
  BY <1>6, <1>7

\* The invariant holds in every state, for every trace and every limit.
THEOREM SortInvHolds == Spec => []SortInv
<1>1. Init => SortInv
  BY SortStarts
<1>2. SortInv /\ [Next]_vars => SortInv'
  <2> SUFFICES ASSUME SortInv, [Next]_vars PROVE SortInv'
    OBVIOUS
  <2>1. CASE WinsortEvent
    BY <2>1, WinsortEventKeeps
  <2>2. CASE WinsortRegion
    BY <2>2, WinsortRegionKeeps
  <2>3. CASE StreamCheck
    BY <2>3, StreamCheckKeeps
  <2>4. CASE NextStream
    BY <2>4, NextStreamKeeps
  <2>5. CASE Done
    BY <2>5, DoneKeeps
  <2>6. CASE UNCHANGED vars
    <3>1. /\ mode' = mode /\ size' = size /\ trace' = trace /\ orig' = orig /\ cur' = cur /\ pos' = pos /\ st' = st
          /\ bad0' = bad0 /\ ring' = ring /\ last' = last /\ unsorted' = unsorted /\ status' = status
      BY <2>6 DEF vars, walkVars
    <3>2. StreamsKept' = StreamsKept /\ Place' = Place /\ Unread' = Unread /\ PastOrdered' = PastOrdered
      BY <3>1, Zenon DEF StreamsKept, Place, Unread, PastOrdered, Stream
    <3>3. RingInv' = RingInv
      BY <3>1, Zenon DEF RingInv, RingOk, Count, Points, Nth, Kept, Stream
    <3>4. Winsorted' = Winsorted /\ Checked' = Checked
      BY <3>1, Zenon DEF Winsorted, Region, Checked, Stream
    <3>5. GivesUpFar' = GivesUpFar
      BY <3>1, Zenon DEF GivesUpFar
    <3> QED
      BY <3>1, <3>2, <3>3, <3>4, <3>5, Zenon DEF SortInv
  <2> QED
    BY <2>1, <2>2, <2>3, <2>4, <2>5, <2>6 DEF Next
<1> QED
  BY <1>1, <1>2, PTL DEF Spec

\* The ring of ovnisort points to the last events read, where they are now,
\* although execute_sort_plan() moves them (ring_add, rebuild_ring).
THEOREM RingSafe == Spec => []RingExact
<1>1. SortInv => RingExact
  <2> SUFFICES ASSUME SortInv, mode = "sort", status = "run"
               PROVE  /\ Count(ring, ring.head) = Min({pos - 1, size - 1})
                      /\ \A k \in 0..Count(ring, ring.head) - 1 :
                             ring.ev[Nth(ring, k)] = Offset(Stream, pos - 1 - k)
    BY Zenon DEF RingExact
  <2>1. RingInv /\ size \in Nat \ {0}
    BY Zenon DEF SortInv, Place
  <2>2. pos \in Nat \ {0}
    <3>1. CASE cur <= Len(trace)
      BY <3>1, StreamIs
    <3>2. CASE ~(cur <= Len(trace))
      BY <3>2 DEF SortInv, Place
    <3> QED
      BY <3>1, <3>2
  <2>3. RingOk(ring, KeptAt(pos)) /\ \A k \in 0..KeptAt(pos) - 1 : ring.ev[Nth(ring, k)] = Offset(Stream, pos - 1 - k)
    BY <2>1 DEF RingInv, Kept, KeptAt, Points
  <2>4. Count(ring, ring.head) = KeptAt(pos)
    BY <2>1, <2>2, <2>3, RingParts
  <2>5. KeptAt(pos) = Min({pos - 1, size - 1})
    <3> DEFINE S == {pos - 1, size - 1}
    <3>1. S \in SUBSET Nat /\ S # {} /\ pos - 1 \in S /\ size - 1 \in S
      BY <2>1, <2>2
    <3>2. \A n \in S : n = pos - 1 \/ n = size - 1
      OBVIOUS
    <3> HIDE DEF S
    <3>3. Min(S) \in S /\ \A n \in S : Min(S) <= n
      BY <3>1, MinIs
    <3> DEFINE m == Min(S)
    <3>4. (m = pos - 1 \/ m = size - 1) /\ m <= pos - 1 /\ m <= size - 1
      BY <3>1, <3>2, <3>3
    <3> HIDE DEF m
    <3>5. KeptAt(pos) = m
      BY <2>1, <2>2, <3>4 DEF KeptAt
    <3> QED
      BY <3>5 DEF m, S
  <2> QED
    BY <2>3, <2>4, <2>5
<1> QED
  BY <1>1, SortInvHolds, PTL

\* ovnisort keeps the events of each stream and, when it ends without errors,
\* leaves every well formed stream in order; in check mode, it accepts only streams
\* in order.
THEOREM SortedSafe == Spec => []SortedOnSuccess
<1>1. SortInv => SortedOnSuccess
  <2> SUFFICES ASSUME SortInv PROVE SortedOnSuccess
    OBVIOUS
  <2>1. StreamsKept
    BY DEF SortInv
  <2>2. DOMAIN trace = 1..Len(trace) /\ Len(trace) = Len(orig)
    BY <2>1, LenProperties DEF StreamsKept
  <2>3. status = "ok" => \A s \in DOMAIN trace : mode = "check" \/ WellFormed(orig[s]) => Ordered(trace[s])
    BY <2>2, Zenon DEF SortInv
  <2>4. ASSUME NEW s \in DOMAIN trace
        PROVE  ToSet(trace[s]) = ToSet(orig[s]) /\ Len(trace[s]) = Len(orig[s])
    <3>1. Shuffled(trace[s], orig[s]) /\ s \in 1..Len(orig) /\ orig \in Seq(Seq(Event))
      BY <2>1, <2>2 DEF StreamsKept
    <3>2. orig[s] \in Seq(Event) /\ trace[s] \in Seq(Event)
      BY <3>1, ElementOfSeq DEF Shuffled
    <3>3. DOMAIN orig[s] = 1..Len(orig[s]) /\ DOMAIN trace[s] = 1..Len(trace[s])
      BY <3>2, LenProperties
    <3>4. ToSet(orig[s]) = Pre(orig[s], Len(orig[s])) /\ ToSet(trace[s]) = Pre(trace[s], Len(trace[s]))
      BY <3>3, Zenon DEF ToSet, Pre
    <3> QED
      BY <3>1, <3>4 DEF Shuffled
  <2>5. mode = "check" => trace = orig
    BY <2>1 DEF StreamsKept
  <2> QED
    BY <2>3, <2>4, <2>5, Zenon DEF SortedOnSuccess
<1> QED
  BY <1>1, SortInvHolds, PTL

\* None of the calls to die() of find_destination(), rebuild_ring() and ring_check()
\* is reached, and ovnisort gives up only when the events to jump over fill the
\* ring.
THEOREM GivesUpSafe == Spec => []GivesUpFar
<1>1. SortInv => GivesUpFar
  BY Zenon DEF SortInv
<1> QED
  BY <1>1, SortInvHolds, PTL
=============================================================================

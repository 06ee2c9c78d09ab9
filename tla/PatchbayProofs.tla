--------------------------- MODULE PatchbayProofs ---------------------------
(***************************************************************************)
(* Lemmas on the patch bay, for every graph of channels, muxes and select  *)
(* functions, in three parts.                                              *)
(*                                                                         *)
(* The bookkeeping: BayInv says that the dirty list is exact and that a    *)
(* channel out of it has not changed since its last flush.  Each channel   *)
(* operation keeps it, so each handler that is made of them and each       *)
(* callback of a propagation do too.                                       *)
(*                                                                         *)
(* The propagation: Sound(V) says that every mux shows what it selects, or *)
(* that a callback which will correct it is still to run in the walk of    *)
(* the dirty list (Pending).  RunMux keeps it although it adds and removes *)
(* the callbacks of the lists that are being walked; when the walk ends    *)
(* nothing is pending and the muxes are right (SoundReady).                *)
(*                                                                         *)
(* The sort module: sort_replace() keeps the array an arrangement of the   *)
(* values of the inputs in increasing order (Arranged).                    *)
(*                                                                         *)
(* ViewsProofs uses them for the specification of the timelines and        *)
(* BreakdownProofs for the one of the breakdown views.                     *)
(***************************************************************************)
EXTENDS Patchbay, SequenceTheorems, FiniteSetTheorems, NaturalsInduction, WellFoundedInduction,
        TLAPS

\* The fields of the record and their domains.
IsBay(b) ==
    /\ b \in [data : {b.data}, last : {b.last}, flag : {b.flag},
               list : {b.list}, ok : {b.ok}]
    /\ b.data = [c \in DOMAIN b.data |-> b.data[c]]
    /\ b.last = [c \in DOMAIN b.data |-> b.last[c]]

Listed(b) ==
    /\ b.list \in Seq(b.flag)
    /\ \A c \in b.flag : \E i \in DOMAIN b.list : b.list[i] = c
    /\ \A i, j \in DOMAIN b.list : b.list[i] = b.list[j] => i = j

Unchanged(b) ==
    \A c \in DOMAIN b.data : c \notin b.flag => b.last[c] = ChanRead(b, c)

BayInv(b) == IsBay(b) /\ Listed(b) /\ Unchanged(b)

IInv == BayInv(bay) /\ (state = "ready" => bay.flag = {})

-----------------------------------------------------------------------------

\* Failing keeps the invariant: only ok changes.
LEMMA FailInv == ASSUME NEW b, BayInv(b) PROVE BayInv(Fail(b))
<1> DEFINE r == Fail(b)
<1>1. /\ r \in [data : {r.data}, last : {r.last}, flag : {r.flag}, list : {r.list}, ok : {r.ok}]
      /\ r.data = b.data /\ r.last = b.last /\ r.flag = b.flag /\ r.list = b.list
  BY DEF BayInv, IsBay, Fail
<1> HIDE DEF r
<1>2. BayInv(r)
  BY <1>1 DEF BayInv, IsBay, Listed, Unchanged, ChanRead
<1> QED
  BY <1>2 DEF r

\* A channel that changes is queued if it was not, so the invariant is kept
\* whatever its new data are.
LEMMA SetDirtyInv ==
  ASSUME NEW b, NEW c, NEW d, BayInv(b)
  PROVE  BayInv(SetDirty([b EXCEPT !.data[c] = d], c))
<1> DEFINE n == [b EXCEPT !.data[c] = d]
           r == SetDirty(n, c)
<1>1. /\ n \in [data : {n.data}, last : {n.last}, flag : {n.flag}, list : {n.list}, ok : {n.ok}]
      /\ n.data = [b.data EXCEPT ![c] = d]
      /\ n.last = b.last /\ n.flag = b.flag /\ n.list = b.list
  BY DEF BayInv, IsBay
<1>2. /\ DOMAIN n.data = DOMAIN b.data
      /\ n.data = [e \in DOMAIN n.data |-> n.data[e]]
      /\ n.last = [e \in DOMAIN n.data |-> n.last[e]]
      /\ \A e \in DOMAIN b.data : e # c => n.data[e] = b.data[e]
  BY <1>1 DEF BayInv, IsBay
<1>3. CASE c \in b.flag
  <2>1. r = n
    BY <1>1, <1>3 DEF SetDirty
  <2> HIDE DEF n, r
  <2>2. Unchanged(n)
    BY <1>1, <1>2, <1>3 DEF Unchanged, ChanRead, BayInv
  <2>3. BayInv(n)
    BY <1>1, <1>2, <2>2 DEF BayInv, Listed, IsBay
  <2> QED
    BY <2>1, <2>3 DEF n, r
<1>4. CASE c \notin b.flag
  <2> HIDE DEF n
  <2>1. /\ r \in [data : {r.data}, last : {r.last}, flag : {r.flag}, list : {r.list}, ok : {r.ok}]
        /\ r.data = n.data /\ r.last = b.last /\ r.flag = b.flag \cup {c}
        /\ r.list = Append(b.list, c)
    BY <1>1, <1>4 DEF SetDirty
  <2> HIDE DEF r
  <2>2. IsBay(r)
    BY <1>1, <1>2, <2>1 DEF IsBay
  <2>3. Unchanged(r)
    <3> SUFFICES ASSUME NEW e \in DOMAIN b.data, e \notin b.flag, e # c
                 PROVE  b.last[e] = ChanRead(r, e)
      BY <1>2, <2>1 DEF Unchanged
    <3>1. ChanRead(r, e) = ChanRead(b, e)
      BY <1>2, <2>1 DEF ChanRead
    <3> QED
      BY <3>1 DEF Unchanged, BayInv
  <2>4. Listed(r)
    <3> DEFINE s == Append(b.list, c)
    <3>0. b.list \in Seq(b.flag) /\ b.list \in Seq(b.flag \cup {c})
      BY DEF BayInv, Listed
    <3>1. /\ s \in Seq(b.flag \cup {c})
          /\ s[Len(b.list) + 1] = c
          /\ \A i \in 1 .. Len(b.list) : s[i] = b.list[i] /\ b.list[i] \in b.flag
          /\ DOMAIN b.list = 1 .. Len(b.list) /\ Len(b.list) \in Nat
          /\ DOMAIN s = 1 .. Len(b.list) + 1
      BY <3>0
    <3> HIDE DEF s
    <3>2. \A e \in b.flag \cup {c} : \E i \in DOMAIN s : s[i] = e
      <4> SUFFICES ASSUME NEW e \in b.flag PROVE \E i \in DOMAIN s : s[i] = e
        BY <3>1
      <4>1. PICK i \in DOMAIN b.list : b.list[i] = e
        BY DEF BayInv, Listed
      <4> QED
        BY <4>1, <3>1
    <3>3. \A i, j \in DOMAIN s : s[i] = s[j] => i = j
      <4> SUFFICES ASSUME NEW i \in DOMAIN s, NEW j \in DOMAIN s, s[i] = s[j], i <= j
                   PROVE  i = j
        BY <3>1
      <4>1. CASE j = Len(b.list) + 1
        BY <4>1, <3>1, <1>4
      <4>2. CASE j \in 1 .. Len(b.list)
        <5>1. i \in 1 .. Len(b.list) /\ b.list[i] = b.list[j]
          BY <4>2, <3>1
        <5> QED
          BY <4>2, <5>1, <3>1 DEF BayInv, Listed
      <4> QED
        BY <4>1, <4>2, <3>1
    <3> QED
      BY <2>1, <3>1, <3>2, <3>3 DEF s, Listed
  <2>5. BayInv(r)
    BY <2>2, <2>3, <2>4 DEF BayInv
  <2> QED
    BY <2>5 DEF r, n
<1> QED
  BY <1>3, <1>4

\* Every channel operation keeps the invariant, also when it is refused.
LEMMA ChanInv ==
  ASSUME NEW b, NEW c, NEW v, BayInv(b)
  PROVE  /\ BayInv(ChanSet(b, c, v))
         /\ BayInv(ChanPush(b, c, v))
         /\ BayInv(ChanPop(b, c, v))
<1>1. BayInv(ChanSet(b, c, v))
  BY FailInv, SetDirtyInv DEF ChanSet
<1>2. BayInv(ChanPush(b, c, v))
  BY FailInv, SetDirtyInv DEF ChanPush
<1>3. BayInv(ChanPop(b, c, v))
  BY FailInv, SetDirtyInv DEF ChanPop
<1> QED
  BY <1>1, <1>2, <1>3

\* The flush of the dirty list leaves no channel dirty, and every channel with
\* the value it shows as its last one.
LEMMA FlushInv ==
  ASSUME NEW b, BayInv(b)
  PROVE  BayInv(Flush(b)) /\ Flush(b).flag = {}
<1>1. ToSet(b.list) = b.flag
  BY DEF ToSet, BayInv, Listed
<1> DEFINE r == Flush(b)
<1>3. /\ r \in [data : {r.data}, last : {r.last}, flag : {r.flag}, list : {r.list}, ok : {r.ok}]
      /\ r.data = b.data /\ r.flag = {} /\ r.list = <<>>
      /\ r.last = [c \in DOMAIN b.data |-> IF c \in b.flag THEN ChanRead(b, c) ELSE b.last[c]]
  BY <1>1 DEF Flush, BayInv, IsBay
<1> HIDE DEF r
<1>4. IsBay(r)
  BY <1>3 DEF IsBay, BayInv
<1>5. Listed(r)
  BY <1>3 DEF Listed
<1>6. Unchanged(r)
  BY <1>3 DEF Unchanged, ChanRead, BayInv
<1> QED
  BY <1>3, <1>4, <1>5, <1>6 DEF BayInv, r
-----------------------------------------------------------------------------

\* The start: no channel is dirty and all show null.
LEMMA EmptyInv == ASSUME NEW C PROVE BayInv(EmptyBay(C))
<1> DEFINE b == EmptyBay(C)
<1>1. /\ b.data = [c \in C |-> IF c \in Stack THEN <<>> ELSE <<Null>>]
      /\ b.last = [c \in C |-> Null]
      /\ b.flag = {} /\ b.list = <<>>
      /\ IsBay(b)
  BY DEF EmptyBay, IsBay
<1> HIDE DEF b
<1>2. Listed(b)
  BY <1>1 DEF Listed
<1>3. \A c \in C : ChanRead(b, c) = Null
  BY <1>1 DEF ChanRead, Last
<1>4. BayInv(b)
  BY <1>1, <1>2, <1>3 DEF BayInv, Unchanged
<1> QED
  BY <1>4 DEF b

\* A handler that leaves the channels as b.
LEMMA HandledInv == ASSUME NEW b, BayInv(b), IInv, Handled(b) PROVE IInv'
  BY DEF IInv, Handled

\* A callback of the propagation.
LEMMA PropagateInv == IInv /\ Propagate => IInv'
<1> SUFFICES ASSUME IInv, Propagate PROVE IInv'
  OBVIOUS
<1>1. CASE RunMux
  <2>1. BayInv(bay')
    <3>1. CASE cb_select(CurCb[2])
      BY <3>1, ChanInv, FailInv DEF cb_select, IInv
    <3>2. CASE cb_input(CurCb[2], CurCb[3])
      BY <3>2, ChanInv DEF cb_input, IInv
    <3> QED
      BY <1>1, <3>1, <3>2 DEF RunMux
  <2> QED
    BY <2>1, <1>1 DEF RunMux, Walking, StopOnError, IInv
<1>2. CASE RunSort
  BY <1>2 DEF RunSort, sort_cb_input, Walking, IInv
<1>3. CASE WriteOutput
  <2>1. BayInv(bay')
    BY <1>3, ChanInv DEF WriteOutput, IInv
  <2> QED
    BY <2>1, <1>3 DEF WriteOutput, Walking, StopOnError, IInv
<1>4. CASE EmitAndFlush
  <2>1. \/ state' = "ready" /\ bay' = Flush(bay)
        \/ state' = "error" /\ bay' = Fail(bay)
    BY <1>4 DEF EmitAndFlush
  <2> QED
    BY <2>1, FlushInv, FailInv DEF IInv
<1> QED
  BY <1>1, <1>2, <1>3, <1>4 DEF Propagate

\* What the invariant says of the dirty list and of the flushed channels.
LEMMA InvListed == IInv => ListedOnce
  BY DEF IInv, BayInv, Listed, ListedOnce, ToSet

\* The bookkeeping leaves nothing dirty between two events.
LEMMA InvClean == IInv => CleanWhenReady
  BY DEF IInv, BayInv, Listed, Unchanged, CleanWhenReady
-----------------------------------------------------------------------------
(* Lists of callbacks.                                                     *)

NoRepeat(s) == \A i, j \in DOMAIN s : s[i] = s[j] => i = j

\* A list of callbacks, each once.
CbList(s) == s \in Seq(ToSet(s)) /\ NoRepeat(s)

CbLists(cs) ==
    /\ cs = [c \in DOMAIN cs |-> cs[c]]
    /\ \A c \in DOMAIN cs : CbList(cs[c])

\* b comes after a in s.
Later(s, a, b) == \E i, j \in DOMAIN s : i < j /\ s[i] = a /\ s[j] = b

\* When s becomes t while a runs, what was after a and is still there is after it,
\* and so is what is new.
KeepsAfter(s, t, a) ==
    a \in ToSet(s) =>
        /\ a \in ToSet(t)
        /\ \A b \in ToSet(t) : Later(s, a, b) \/ b \notin ToSet(s) => Later(t, a, b)

\* A function of 1 .. n is a sequence of its values.
LEMMA InSeq ==
  ASSUME NEW S, NEW T, NEW s \in Seq(S), \A i \in 1 .. Len(s) : s[i] \in T
  PROVE  s \in Seq(T)
  OBVIOUS

\* An element out of a list.
LEMMA RemoveAtIs ==
  ASSUME NEW S, NEW s \in Seq(S), NEW k \in 1 .. Len(s)
  PROVE  /\ RemoveAt(s, k) \in Seq(S)
         /\ Len(RemoveAt(s, k)) = Len(s) - 1
         /\ \A i \in 1 .. Len(s) - 1 : RemoveAt(s, k)[i] = IF i < k THEN s[i] ELSE s[i + 1]
<1> DEFINE a == SubSeq(s, 1, k - 1)
           b == SubSeq(s, k + 1, Len(s))
<1>1. /\ a \in Seq(S) /\ Len(a) = k - 1
      /\ \A i \in 1 .. k - 1 : a[i] = s[i]
  OBVIOUS
<1>2. /\ b \in Seq(S) /\ Len(b) = Len(s) - k
      /\ \A i \in 1 .. Len(s) - k : b[i] = s[k + i]
  OBVIOUS
<1> HIDE DEF a, b
<1>3. /\ a \o b \in Seq(S) /\ Len(a \o b) = Len(s) - 1
      /\ \A i \in 1 .. Len(s) - 1 : (a \o b)[i] = IF i < k THEN s[i] ELSE s[i + 1]
  <2>1. /\ a \o b \in Seq(S) /\ Len(a \o b) = Len(s) - 1
        /\ \A i \in 1 .. Len(s) - 1 : (a \o b)[i] = IF i <= Len(a) THEN a[i] ELSE b[i - Len(a)]
    <3>1. a \o b \in Seq(S) /\ Len(a \o b) = Len(a) + Len(b)
      BY <1>1, <1>2, ConcatProperties
    <3>2. \A i \in 1 .. Len(a) + Len(b) :
             (a \o b)[i] = IF i <= Len(a) THEN a[i] ELSE b[i - Len(a)]
      BY <1>1, <1>2, ConcatProperties
    <3>3. Len(a) + Len(b) = Len(s) - 1
      BY <1>1, <1>2
    <3> QED
      BY <3>1, <3>2, <3>3
  <2>2. ASSUME NEW i \in 1 .. Len(s) - 1, i >= k PROVE b[i - (k - 1)] = s[i + 1]
    <3>1. i - (k - 1) \in 1 .. Len(s) - k /\ k + (i - (k - 1)) = i + 1
      BY <2>2
    <3> QED
      BY <3>1, <1>2
  <2> QED
    BY <2>1, <2>2, <1>1
<1> QED
  BY <1>3 DEF RemoveAt, a, b

\* One element less.
LEMMA RemoveCb ==
  ASSUME NEW s, CbList(s), NEW k \in DOMAIN s
  PROVE  LET t == RemoveAt(s, k)
         IN  /\ CbList(t) /\ ToSet(t) = ToSet(s) \ {s[k]}
             /\ \A a : a # s[k] => KeepsAfter(s, t, a)
<1> DEFINE t == RemoveAt(s, k)
           n == Len(s)
           To(i) == IF i < k THEN i ELSE i + 1
<1>1. /\ s \in Seq(ToSet(s)) /\ DOMAIN s = 1 .. n /\ n \in Nat /\ k \in 1 .. n
      /\ \A i, j \in 1 .. n : s[i] = s[j] => i = j
  BY DEF CbList, NoRepeat
<1>2. /\ t \in Seq(ToSet(s)) /\ Len(t) = n - 1 /\ DOMAIN t = 1 .. n - 1
      /\ \A i \in 1 .. n - 1 : t[i] = s[To(i)]
  <2>1. /\ t \in Seq(ToSet(s)) /\ Len(t) = Len(s) - 1
        /\ \A i \in 1 .. Len(s) - 1 : t[i] = IF i < k THEN s[i] ELSE s[i + 1]
    BY <1>1, RemoveAtIs
  <2> HIDE DEF t
  <2> QED
    BY <1>1, <2>1
<1> HIDE DEF t
<1>3. /\ \A i \in 1 .. n - 1 : To(i) \in 1 .. n /\ To(i) # k
      /\ \A i, j \in 1 .. n - 1 : (To(i) = To(j) => i = j) /\ (i < j <=> To(i) < To(j))
      /\ \A i \in 1 .. n : i # k => \E j \in 1 .. n - 1 : To(j) = i
  <2>1. ASSUME NEW i \in 1 .. n, i # k PROVE \E j \in 1 .. n - 1 : To(j) = i
    <3>1. CASE i < k
      BY <3>1, <1>1
    <3>2. CASE i > k
      <4>1. i - 1 \in 1 .. n - 1 /\ To(i - 1) = i
        BY <3>2, <1>1
      <4> QED
        BY <4>1
    <3> QED
      BY <2>1, <3>1, <3>2, <1>1
  <2> QED
    BY <1>1, <2>1
<1> HIDE DEF To
<1>4. NoRepeat(t)
  <2> SUFFICES ASSUME NEW i \in 1 .. n - 1, NEW j \in 1 .. n - 1, t[i] = t[j] PROVE i = j
    BY <1>2 DEF NoRepeat
  <2>1. To(i) = To(j)
    BY <1>1, <1>2, <1>3
  <2> QED
    BY <2>1, <1>3
<1>5. ToSet(t) = ToSet(s) \ {s[k]}
  <2>1. ASSUME NEW x \in ToSet(t) PROVE x \in ToSet(s) \ {s[k]}
    <3>1. PICK i \in 1 .. n - 1 : x = t[i]
      BY <1>2 DEF ToSet
    <3>2. x = s[To(i)] /\ To(i) \in 1 .. n /\ To(i) # k
      BY <3>1, <1>2, <1>3
    <3> QED
      BY <3>2, <1>1 DEF ToSet
  <2>2. ASSUME NEW x \in ToSet(s) \ {s[k]} PROVE x \in ToSet(t)
    <3>1. PICK i \in 1 .. n : s[i] = x
      BY <1>1 DEF ToSet
    <3>2. PICK j \in 1 .. n - 1 : To(j) = i
      BY <3>1, <1>3
    <3> QED
      BY <3>1, <3>2, <1>2 DEF ToSet
  <2> QED
    BY <2>1, <2>2
<1>6. t \in Seq(ToSet(t))
  <2>1. \A i \in 1 .. n - 1 : t[i] \in ToSet(t)
    BY <1>2 DEF ToSet
  <2> QED
    BY <1>2, <2>1, InSeq
<1>7. ASSUME NEW a, a # s[k] PROVE KeepsAfter(s, t, a)
  <2> SUFFICES ASSUME a \in ToSet(s), NEW b \in ToSet(t), Later(s, a, b) PROVE Later(t, a, b)
    BY <1>5, <1>7 DEF KeepsAfter
  <2>1. PICK i, j \in 1 .. n : i < j /\ s[i] = a /\ s[j] = b
    BY <1>1 DEF Later
  <2>2. i # k /\ j # k
    BY <2>1, <1>7, <1>5
  <2>3. PICK p \in 1 .. n - 1 : To(p) = i
    BY <2>2, <1>3
  <2>4. PICK q \in 1 .. n - 1 : To(q) = j
    BY <2>2, <1>3
  <2> QED
    BY <2>1, <2>3, <2>4, <1>2, <1>3 DEF Later
<1> QED
  BY <1>4, <1>5, <1>6, <1>7 DEF CbList, t

\* One element more, at the end.
LEMMA AppendCb ==
  ASSUME NEW s, CbList(s), NEW x, x \notin ToSet(s)
  PROVE  LET t == Append(s, x)
         IN  /\ CbList(t) /\ ToSet(t) = ToSet(s) \cup {x}
             /\ \A a : KeepsAfter(s, t, a)
<1> DEFINE t == Append(s, x)
           n == Len(s)
<1>1. /\ s \in Seq(ToSet(s)) /\ DOMAIN s = 1 .. n /\ n \in Nat
      /\ \A i, j \in 1 .. n : s[i] = s[j] => i = j
  BY DEF CbList, NoRepeat
<1>2. /\ t \in Seq(ToSet(s) \cup {x}) /\ Len(t) = n + 1 /\ DOMAIN t = 1 .. n + 1
      /\ \A i \in 1 .. n : t[i] = s[i]
      /\ t[n + 1] = x
  <2>1. s \in Seq(ToSet(s) \cup {x})
    BY <1>1
  <2> QED
    BY <2>1, <1>1
<1> HIDE DEF t
<1>3. \A i \in 1 .. n : s[i] \in ToSet(s)
  BY <1>1 DEF ToSet
<1>4. ToSet(t) = ToSet(s) \cup {x}
  <2>1. \A y \in ToSet(t) : y \in ToSet(s) \cup {x}
    BY <1>1, <1>2, <1>3 DEF ToSet
  <2>2. \A y \in ToSet(s) \cup {x} : y \in ToSet(t)
    BY <1>1, <1>2 DEF ToSet
  <2> QED
    BY <2>1, <2>2
<1>5. NoRepeat(t)
  BY <1>1, <1>2, <1>3 DEF NoRepeat
<1>6. ASSUME NEW a PROVE KeepsAfter(s, t, a)
  <2> SUFFICES ASSUME a \in ToSet(s), NEW b \in ToSet(t), Later(s, a, b) \/ b \notin ToSet(s)
               PROVE  Later(t, a, b)
    BY <1>4 DEF KeepsAfter
  <2>1. PICK i \in 1 .. n : s[i] = a
    BY <1>1 DEF ToSet
  <2>2. CASE b \notin ToSet(s)
    <3>1. b = x /\ i < n + 1 /\ t[i] = a /\ t[n + 1] = b
      BY <2>1, <2>2, <1>1, <1>2, <1>4
    <3> QED
      BY <3>1, <1>1, <1>2 DEF Later
  <2>3. CASE Later(s, a, b)
    BY <2>3, <1>1, <1>2 DEF Later
  <2> QED
    BY <2>2, <2>3
<1> QED
  BY <1>2, <1>4, <1>5, <1>6 DEF CbList, t
\* bay_enable_cb()
LEMMA EnableIs ==
  ASSUME NEW cs, CbLists(cs), NEW c \in DOMAIN cs, NEW x
  PROVE  LET t == Enable(cs, c, x)
         IN  /\ CbLists(t) /\ DOMAIN t = DOMAIN cs
             /\ \A e \in DOMAIN cs : e # c => t[e] = cs[e]
             /\ ToSet(t[c]) = ToSet(cs[c]) \cup {x}
             /\ \A a : KeepsAfter(cs[c], t[c], a)
<1>1. CASE x \in ToSet(cs[c])
  BY <1>1 DEF Enable, KeepsAfter
<1>2. CASE x \notin ToSet(cs[c])
  <2> DEFINE l == Append(cs[c], x)
             t == [cs EXCEPT ![c] = l]
  <2>1. Enable(cs, c, x) = t
    BY <1>2 DEF Enable
  <2>2. /\ CbList(l) /\ ToSet(l) = ToSet(cs[c]) \cup {x}
        /\ \A a : KeepsAfter(cs[c], l, a)
    BY <1>2, AppendCb DEF CbLists
  <2> HIDE DEF l
  <2>3. DOMAIN t = DOMAIN cs /\ t[c] = l /\ (\A e \in DOMAIN cs : e # c => t[e] = cs[e])
        /\ t = [e \in DOMAIN t |-> t[e]]
    OBVIOUS
  <2> QED
    BY <2>1, <2>2, <2>3 DEF CbLists
<1> QED
  BY <1>1, <1>2

\* bay_disable_cb()
LEMMA DisableIs ==
  ASSUME NEW cs, CbLists(cs), NEW c \in DOMAIN cs, NEW x
  PROVE  LET t == Disable(cs, c, x)
         IN  /\ CbLists(t) /\ DOMAIN t = DOMAIN cs
             /\ \A e \in DOMAIN cs : e # c => t[e] = cs[e]
             /\ ToSet(t[c]) = ToSet(cs[c]) \ {x}
             /\ \A a : a # x => KeepsAfter(cs[c], t[c], a)
<1>1. CASE x \notin ToSet(cs[c])
  BY <1>1 DEF Disable, KeepsAfter
<1>2. CASE x \in ToSet(cs[c])
  <2> DEFINE k == CHOOSE i \in DOMAIN cs[c] : cs[c][i] = x
             l == RemoveAt(cs[c], k)
             t == [cs EXCEPT ![c] = l]
  <2>1. Disable(cs, c, x) = t
    BY <1>2 DEF Disable
  <2>2. k \in DOMAIN cs[c] /\ cs[c][k] = x
    BY <1>2 DEF ToSet
  <2> HIDE DEF k
  <2>3. /\ CbList(l) /\ ToSet(l) = ToSet(cs[c]) \ {x}
        /\ \A a : a # x => KeepsAfter(cs[c], l, a)
    BY <2>2, RemoveCb DEF CbLists
  <2> HIDE DEF l
  <2>4. DOMAIN t = DOMAIN cs /\ t[c] = l /\ (\A e \in DOMAIN cs : e # c => t[e] = cs[e])
        /\ t = [e \in DOMAIN t |-> t[e]]
    OBVIOUS
  <2> QED
    BY <2>1, <2>3, <2>4 DEF CbLists
<1> QED
  BY <1>1, <1>2

\* A list that changes twice.
LEMMA KeepsAfterTwice ==
  ASSUME NEW s, NEW t, NEW u, NEW a, KeepsAfter(s, t, a), KeepsAfter(t, u, a)
  PROVE  KeepsAfter(s, u, a)
  BY DEF KeepsAfter

-----------------------------------------------------------------------------
(* The walk of the dirty list.                                             *)

\* The callback cb of the channel c is still to run in this propagation.
Pending(c, cb) ==
    \E j \in pos .. Len(bay.list) : bay.list[j] = c /\
        \E k \in DOMAIN cbs[c] : cbs[c][k] = cb /\ (j = pos => k >= cbi)

\* Every nonempty set of naturals has a least element.
LEMMA LeastNat ==
  ASSUME NEW S \in SUBSET Nat, S # {}
  PROVE  Min(S) \in S /\ \A n \in S : Min(S) <= n
<1> DEFINE R == OpToRel(<, Nat)
<1>1. IsWellFoundedOn(R, Nat)
  BY NatLessThanWellFounded
<1>2. R = {p \in Nat \X Nat : p[1] < p[2]}
  BY DEF OpToRel
<1> HIDE DEF R
<1>3. \E x \in S : \A y \in S : ~(<<y, x>> \in R)
  BY <1>1, WFMin
<1>4. \A x, y \in S : <<y, x>> \in R <=> y < x
  BY <1>2
<1>5. PICK x \in S : \A y \in S : ~(<<y, x>> \in R)
  BY <1>3
<1>6. \A y \in S : x <= y
  <2> TAKE y \in S
  <2>1. x \in Nat /\ y \in Nat /\ ~(y < x)
    BY <1>4, <1>5
  <2> QED
    BY <2>1
<1> QED
  BY <1>6 DEF Min

\* The next channel with callbacks is the first one from p on.
LEMMA NextChanIs ==
  ASSUME NEW list, NEW cs, NEW p \in Nat \ {0}, list \in Seq(DOMAIN cs), p <= Len(list) + 1
  PROVE  LET n == NextChan(list, cs, p)
         IN  /\ n \in p .. Len(list) + 1
             /\ n <= Len(list) => cs[list[n]] # <<>>
             /\ \A j \in p .. Len(list) : cs[list[j]] # <<>> => n <= j
<1> DEFINE q == {j \in p .. Len(list) : cs[list[j]] # <<>>}
           n == NextChan(list, cs, p)
<1>1. q \in SUBSET Nat /\ Len(list) \in Nat
  OBVIOUS
<1>2. CASE q = {}
  <2>1. n = Len(list) + 1
    BY <1>2 DEF NextChan
  <2> QED
    BY <2>1, <1>1, <1>2
<1>3. CASE q # {}
  <2>1. n = Min(q)
    BY <1>3 DEF NextChan
  <2>2. n \in q /\ \A j \in q : n <= j
    <3> HIDE DEF n, q
    <3> QED
      BY <1>1, <1>3, <2>1, LeastNat, Zenon
  <2>3. n \in p .. Len(list) /\ cs[list[n]] # <<>>
    <3> HIDE DEF n
    <3> QED
      BY <2>2
  <2>4. \A j \in p .. Len(list) : cs[list[j]] # <<>> => n <= j
    <3> HIDE DEF n
    <3> QED
      BY <2>2
  <2>5. n \in p .. Len(list) + 1
    <3> HIDE DEF n, q
    <3> QED
      BY <2>3, <1>1
  <2> QED
    BY <2>3, <2>4, <2>5
<1> QED
  BY <1>2, <1>3

\* The walk goes on after the callback that ran: it does not leave out any callback
\* that was pending and is still enabled, nor those of the channels that were not yet
\* visited.
LEMMA AdvanceIs ==
  ASSUME Listed(bay), Listed(bay'), Walking, pos \in Nat \ {0},
         cbi \in DOMAIN cbs[CurChan], CbLists(cbs), CbLists(cbs'),
         bay.flag \subseteq DOMAIN cbs, bay'.flag \subseteq DOMAIN cbs',
         Len(bay.list) <= Len(bay'.list),
         \A i \in 1 .. Len(bay.list) : bay'.list[i] = bay.list[i],
         KeepsAfter(cbs[CurChan], cbs'[CurChan], CurCb),
         Advance(CurChan, CurCb)
  PROVE  /\ pos' \in pos .. Len(bay'.list) + 1
         /\ pos' <= Len(bay'.list) => cbi' \in DOMAIN cbs'[bay'.list[pos']]
         /\ \/ /\ pos' = pos /\ cbi' \in Nat /\ cbi' > 1 /\ cbi' - 1 \in DOMAIN cbs'[CurChan]
               /\ cbs'[CurChan][cbi' - 1] = CurCb
            \/ pos' > pos /\ cbi' = 1
         /\ \A e, y : Pending(e, y) /\ y \in ToSet(cbs'[e]) /\ <<e, y>> # <<CurChan, CurCb>>
                => Pending(e, y)'
         /\ \A e \in bay'.flag : \A y \in ToSet(cbs'[e]) :
                (\A j \in 1 .. pos : bay.list[j] # e) => Pending(e, y)'
<1> DEFINE c == CurChan
           cb == CurCb
           L == bay'.list
           here == CHOOSE k \in DOMAIN cbs'[c] : cbs'[c][k] = cb
<1>1. /\ pos \in 1 .. Len(bay.list) /\ Len(bay.list) \in Nat /\ Len(L) \in Nat
      /\ DOMAIN bay.list = 1 .. Len(bay.list) /\ DOMAIN L = 1 .. Len(L)
      /\ L \in Seq(bay'.flag)
      /\ c = bay.list[pos] /\ L[pos] = c /\ c \in bay.flag /\ c \in bay'.flag
      /\ cb = cbs[c][cbi]
  BY DEF Walking, Listed, CurChan, CurCb
<1>2. /\ CbList(cbs[c]) /\ CbList(cbs'[c])
      /\ DOMAIN cbs[c] = 1 .. Len(cbs[c]) /\ DOMAIN cbs'[c] = 1 .. Len(cbs'[c])
      /\ Len(cbs[c]) \in Nat /\ Len(cbs'[c]) \in Nat
      /\ cbi \in Nat /\ cb \in ToSet(cbs[c])
  <2>1. CbList(cbs[c]) /\ CbList(cbs'[c])
    BY <1>1 DEF CbLists
  <2>2. /\ DOMAIN cbs[c] = 1 .. Len(cbs[c]) /\ DOMAIN cbs'[c] = 1 .. Len(cbs'[c])
        /\ Len(cbs[c]) \in Nat /\ Len(cbs'[c]) \in Nat
    BY <2>1 DEF CbList
  <2> QED
    BY <2>1, <2>2, <1>1 DEF ToSet
<1>3. here \in DOMAIN cbs'[c] /\ cbs'[c][here] = cb
  BY <1>2 DEF KeepsAfter, ToSet
<1>4. IF here < Len(cbs'[c])
      THEN pos' = pos /\ cbi' = here + 1
      ELSE pos' = NextChan(L, cbs', pos + 1) /\ cbi' = 1
  BY DEF Advance
<1> HIDE DEF here
<1>5. CASE here < Len(cbs'[c])
  <2>1. /\ pos' = pos /\ cbi' = here + 1 /\ here \in Nat /\ here >= 1
        /\ cbi' \in DOMAIN cbs'[c] /\ cbi' - 1 = here
    BY <1>2, <1>3, <1>4, <1>5
  <2>2. ASSUME NEW e, NEW y, e = c, Later(cbs'[c], cb, y) PROVE Pending(e, y)'
    <3>1. PICK i, k \in DOMAIN cbs'[c] : i < k /\ cbs'[c][i] = cb /\ cbs'[c][k] = y
      BY <2>2 DEF Later
    <3>2. i = here
      BY <3>1, <1>2, <1>3 DEF CbList, NoRepeat
    <3>3. k >= cbi' /\ pos' \in pos' .. Len(L) /\ L[pos'] = c
      BY <3>1, <3>2, <2>1, <1>1, <1>2
    <3> QED
      BY <3>1, <3>3, <2>2 DEF Pending
  <2>3. ASSUME NEW e, NEW j \in pos + 1 .. Len(L), L[j] = e, NEW y \in ToSet(cbs'[e])
        PROVE  Pending(e, y)'
    <3>1. PICK k \in DOMAIN cbs'[e] : cbs'[e][k] = y
      BY DEF ToSet
    <3>2. j \in pos' .. Len(L) /\ j # pos'
      BY <2>1, <2>3, <1>1
    <3> QED
      BY <3>1, <3>2, <2>3 DEF Pending
  <2>4. ASSUME NEW e, NEW y, Pending(e, y), y \in ToSet(cbs'[e]), <<e, y>> # <<c, cb>>
        PROVE  Pending(e, y)'
    <3>1. PICK j \in pos .. Len(bay.list) : bay.list[j] = e /\
            \E k \in DOMAIN cbs[e] : cbs[e][k] = y /\ (j = pos => k >= cbi)
      BY <2>4 DEF Pending
    <3>2. CASE j = pos
      <4>1. PICK k \in DOMAIN cbs[c] : cbs[c][k] = y /\ k >= cbi /\ e = c
        BY <3>1, <3>2, <1>1
      <4>2. k # cbi /\ k > cbi
        BY <4>1, <2>4, <1>1, <1>2
      <4>3. Later(cbs[c], cb, y)
        BY <4>1, <4>2, <1>1 DEF Later
      <4>4. Later(cbs'[c], cb, y)
        BY <4>3, <4>1, <2>4, <1>2 DEF KeepsAfter
      <4> QED
        BY <4>1, <4>4, <2>2
    <3>3. CASE j # pos
      <4>1. j \in pos + 1 .. Len(L) /\ L[j] = e
        BY <3>1, <3>3, <1>1
      <4> QED
        BY <4>1, <2>3, <2>4
    <3> QED
      BY <3>2, <3>3
  <2>5. ASSUME NEW e \in bay'.flag, NEW y \in ToSet(cbs'[e]),
               \A j \in 1 .. pos : bay.list[j] # e
        PROVE  Pending(e, y)'
    <3>1. PICK j \in DOMAIN L : L[j] = e
      BY DEF Listed
    <3>2. j \in pos + 1 .. Len(L)
      BY <3>1, <2>5, <1>1
    <3> QED
      BY <3>1, <3>2, <2>3
  <2> QED
    BY <2>1, <2>4, <2>5, <1>1, <1>3
<1>6. CASE ~(here < Len(cbs'[c]))
  <2>0. here = Len(cbs'[c])
    BY <1>2, <1>3, <1>6
  <2>1. /\ pos' = NextChan(L, cbs', pos + 1) /\ cbi' = 1
        /\ L \in Seq(DOMAIN cbs') /\ pos + 1 \in Nat \ {0} /\ pos + 1 <= Len(L) + 1
    BY <1>1, <1>4, <1>6
  <2>2. /\ pos' \in pos + 1 .. Len(L) + 1
        /\ pos' <= Len(L) => cbs'[L[pos']] # <<>>
        /\ \A j \in pos + 1 .. Len(L) : cbs'[L[j]] # <<>> => pos' <= j
    BY <2>1, NextChanIs
  <2>3. pos' <= Len(L) => cbi' \in DOMAIN cbs'[L[pos']]
    <3> SUFFICES ASSUME pos' <= Len(L) PROVE 1 \in DOMAIN cbs'[L[pos']]
      BY <2>1
    <3>1. L[pos'] \in DOMAIN cbs'
      BY <2>1, <2>2, <1>1
    <3>2. CbList(cbs'[L[pos']])
      BY <3>1 DEF CbLists
    <3> QED
      BY <3>2, <2>2 DEF CbList
  <2>4. ASSUME NEW e, NEW j \in pos + 1 .. Len(L), L[j] = e, NEW y \in ToSet(cbs'[e])
        PROVE  Pending(e, y)'
    <3>1. PICK k \in DOMAIN cbs'[e] : cbs'[e][k] = y
      BY DEF ToSet
    <3>2. CbList(cbs'[e])
      <4>1. e \in DOMAIN cbs'
        BY <2>1, <2>4, <1>1
      <4> QED
        BY <4>1 DEF CbLists
    <3>3. k \in Nat /\ k >= 1 /\ cbs'[e] # <<>>
      BY <3>1, <3>2 DEF CbList
    <3>4. j \in pos' .. Len(L) /\ k >= cbi'
      BY <2>1, <2>2, <2>4, <3>3, <1>1
    <3> QED
      BY <3>1, <3>4, <2>4 DEF Pending
  <2>5. ASSUME NEW e, NEW y, Pending(e, y), y \in ToSet(cbs'[e]), <<e, y>> # <<c, cb>>
        PROVE  Pending(e, y)'
    <3>1. PICK j \in pos .. Len(bay.list) : bay.list[j] = e /\
            \E k \in DOMAIN cbs[e] : cbs[e][k] = y /\ (j = pos => k >= cbi)
      BY <2>5 DEF Pending
    <3>2. CASE j = pos
      <4>1. PICK k \in DOMAIN cbs[c] : cbs[c][k] = y /\ k >= cbi /\ e = c
        BY <3>1, <3>2, <1>1
      <4>2. k # cbi /\ k > cbi
        BY <4>1, <2>5, <1>1, <1>2
      <4>3. Later(cbs[c], cb, y)
        BY <4>1, <4>2, <1>1 DEF Later
      <4>4. Later(cbs'[c], cb, y)
        BY <4>3, <4>1, <2>5, <1>2 DEF KeepsAfter
      <4>5. PICK i, l \in DOMAIN cbs'[c] : i < l /\ cbs'[c][i] = cb
        BY <4>4 DEF Later
      <4>6. i = here
        BY <4>5, <1>2, <1>3 DEF CbList, NoRepeat
      <4> QED
        BY <4>5, <4>6, <2>0, <1>2
    <3>3. CASE j # pos
      <4>1. j \in pos + 1 .. Len(L) /\ L[j] = e
        BY <3>1, <3>3, <1>1
      <4> QED
        BY <4>1, <2>4, <2>5
    <3> QED
      BY <3>2, <3>3
  <2>6. ASSUME NEW e \in bay'.flag, NEW y \in ToSet(cbs'[e]),
               \A j \in 1 .. pos : bay.list[j] # e
        PROVE  Pending(e, y)'
    <3>1. PICK j \in DOMAIN L : L[j] = e
      BY DEF Listed
    <3>2. j \in pos + 1 .. Len(L)
      BY <3>1, <2>6, <1>1
    <3> QED
      BY <3>1, <3>2, <2>4
  <2> QED
    BY <2>1, <2>2, <2>3, <2>5, <2>6, <1>1
<1> QED
  BY <1>5, <1>6
-----------------------------------------------------------------------------
(* The muxes in the middle of a propagation.                               *)

\* The callback is one of the channel c; of the inputs of a mux, the one selected.
OfChan(c, cb) ==
    \/ \E m \in DOMAIN selected : cb = SelectCb(m) /\ MuxSel[m] = c
    \/ \E m \in DOMAIN selected : \E i \in DOMAIN MuxIn[m] :
            cb = InputCb(m, i) /\ MuxIn[m][i] = c /\ selected[m] = i
    \/ \E i \in DOMAIN SortIn : cb = SortCb(i) /\ SortIn[i] = c

\* The callbacks of every channel: the select channels and the inputs of the sort
\* module always have theirs.
CbsInv ==
    /\ CbLists(cbs) /\ DOMAIN cbs = DOMAIN bay.data
    /\ selected = [m \in DOMAIN selected |-> selected[m]]
    /\ \A m \in DOMAIN selected : selected[m] \in {0} \cup DOMAIN MuxIn[m]
    /\ \A c \in DOMAIN cbs : \A cb \in ToSet(cbs[c]) : OfChan(c, cb)
    /\ \A m \in DOMAIN selected : SelectCb(m) \in ToSet(cbs[MuxSel[m]])
    /\ \A i \in DOMAIN SortIn : SortCb(i) \in ToSet(cbs[SortIn[i]])

\* The walk is at a callback of a dirty channel, or at the end.
WalkInv ==
    /\ bay.flag \subseteq DOMAIN cbs /\ pos \in Nat \ {0}
    /\ state = "propagating" =>
           /\ pos \in 1 .. Len(bay.list) + 1
           /\ pos <= Len(bay.list) => cbi \in DOMAIN cbs[bay.list[pos]]

\* The channels of the muxes M and of the sort module are of C, each output has one
\* writer, no mux reads its own output and nobody reads those of the sort module.
Wired(M, C) ==
    /\ M \subseteq Mux
    /\ \A m \in M : {MuxSel[m], MuxOut[m]} \cup ToSet(MuxIn[m]) \subseteq C
    /\ \A m \in M : MuxOut[m] \notin {MuxSel[m]} \cup ToSet(MuxIn[m])
    /\ \A m \in M : MuxOut[m] \in DirtyWrite \cap AllowDup
    /\ \A m, n \in M : MuxOut[m] = MuxOut[n] => m = n
    /\ ToSet(SortIn) \cup ToSet(SortOut) \subseteq C
    /\ ToSet(SortOut) \subseteq DirtyWrite \cap AllowDup
    /\ \A i, j \in DOMAIN SortOut : SortOut[i] = SortOut[j] => i = j
    /\ \A m \in M : ToSet(SortOut) \cap ({MuxSel[m], MuxOut[m]} \cup ToSet(MuxIn[m])) = {}
    /\ ToSet(SortOut) \cap ToSet(SortIn) = {}

\* What the mux should show for what it selected.
Picked(m) == IF selected[m] = 0 THEN MuxDef[m] ELSE ChanRead(bay, MuxIn[m][selected[m]])

\* It selected what its function says of the select channel now, and of values of V
\* that its inputs had.
Chosen(m, V) ==
    \E ins \in [DOMAIN MuxIn[m] -> V] :
        /\ \A i \in DOMAIN MuxIn[m] :
                MuxIn[m][i] = MuxSel[m] => ins[i] = ChanRead(bay, MuxSel[m])
        /\ selected[m] = Select(m, ChanRead(bay, MuxSel[m]), ins)

\* A mux will select again, or it never did and all is null, or it shows what it
\* selected, or the callback of the input that it selected will run.
Flows(m, V) ==
    \/ Pending(MuxSel[m], SelectCb(m))
    \/ /\ ~Settled(m)
       /\ ChanRead(bay, MuxSel[m]) = Null /\ ChanRead(bay, MuxOut[m]) = Null
    \/ /\ Settled(m) /\ Chosen(m, V)
       /\ \/ ChanRead(bay, MuxOut[m]) = Picked(m)
          \/ /\ selected[m] # 0
             /\ Pending(MuxIn[m][selected[m]], InputCb(m, selected[m]))

\* A mux that selects writes its output, so those that the output selects do too.
Chained ==
    \A m, n \in DOMAIN selected : MuxSel[n] = MuxOut[m] /\ Settled(m) =>
        Settled(n) \/ Pending(MuxSel[n], SelectCb(n))

\* The mux has selected, or it will.
Live(m) == Settled(m) \/ Pending(MuxSel[m], SelectCb(m))

\* No mux leaves that state.
StaysLive == \A n \in DOMAIN selected : Live(n) => Live(n)'

\* The sort module has seen its inputs, or it will.
SortReads ==
    /\ values = [i \in DOMAIN SortIn |-> values[i]]
    /\ \A i \in DOMAIN SortIn : \/ values[i] = Plain(ChanRead(bay, SortIn[i]))
                                \/ Pending(SortIn[i], SortCb(i))

\* In the loop over its outputs the sort module has seen the input that called it.
Sorting ==
    out # 0 => /\ Walking /\ out \in DOMAIN SortOut
               /\ \E i \in DOMAIN SortIn : /\ CurCb = SortCb(i)
                                           /\ values[i] = Plain(ChanRead(bay, SortIn[i]))

\* Some mux or the sort module reads the channel.
HasReader(x) ==
    \/ \E m \in DOMAIN selected : x = MuxSel[m] \/ x \in ToSet(MuxIn[m])
    \/ x \in ToSet(SortIn)

\* If the channel is read, the walk has not come to it.
Ahead(x) == HasReader(x) => \A j \in 1 .. pos : bay.list[j] # x

\* What each graph has to show of the order of its dirty list: a callback writes only
\* channels ahead of the walk.
AheadInv ==
    Walking /\ CurCb[1] \in {"select", "input"} => Ahead(MuxOut[CurCb[2]])

\* ... and of its values and its select functions.
Sane(V) ==
    \A m \in DOMAIN selected :
        /\ \A i \in DOMAIN MuxIn[m] : ChanRead(bay, MuxIn[m][i]) \in V
        /\ Selection(m) \in {0} \cup DOMAIN MuxIn[m]

Sound(V) ==
    /\ bay.ok /\ CbsInv /\ WalkInv
    /\ Wired(DOMAIN selected, DOMAIN bay.data)
    /\ \A m \in DOMAIN selected : Flows(m, V)
    /\ Chained /\ SortReads /\ Sorting

\* A step that leaves it so.
FlowsOn(V) == Sound(V)' /\ StaysLive

\* Nothing happens to the bay.
LEMMA SoundSame == ASSUME NEW V, Sound(V), UNCHANGED vars PROVE Sound(V)'
<1>1. UNCHANGED <<bay, cbs, selected, values, out, state, pos, cbi>>
  BY DEF vars, graphVars
<1>2. CbsInv' /\ WalkInv' /\ bay'.ok /\ Wired(DOMAIN selected, DOMAIN bay.data)'
  <2>1. \A c, y : OfChan(c, y)' <=> OfChan(c, y)
    BY <1>1 DEF OfChan
  <2>2. CbsInv'
    BY <1>1, <2>1 DEF Sound, CbsInv
  <2>3. WalkInv' /\ bay'.ok
    BY <1>1 DEF Sound, WalkInv
  <2>4. Wired(DOMAIN selected, DOMAIN bay.data)'
    BY <1>1 DEF Sound
  <2> QED
    BY <2>2, <2>3, <2>4
<1>3. \A c, y : Pending(c, y)' <=> Pending(c, y)
  BY <1>1 DEF Pending
<1>4. \A m : (Settled(m)' <=> Settled(m)) /\ (Chosen(m, V)' <=> Chosen(m, V)) /\ Picked(m)' = Picked(m)
  BY <1>1 DEF Settled, Enabled, Chosen, Picked
<1>5. ASSUME NEW m \in DOMAIN selected PROVE Flows(m, V)'
  <2>1. Flows(m, V)
    BY DEF Sound
  <2> QED
    BY <1>1, <1>3, <1>4, <2>1 DEF Flows
<1>6. Chained'
  BY <1>1, <1>3, <1>4 DEF Sound, Chained
<1>7. SortReads' /\ Sorting'
  BY <1>1, <1>3 DEF Sound, SortReads, Sorting, Walking, CurCb, CurChan
<1> QED
  BY <1>1, <1>2, <1>5, <1>6, <1>7 DEF Sound

\* A write of a mux or of the sort module: the channel is queued if it was not.
LEMMA SetOutput ==
  ASSUME NEW b, BayInv(b), b.ok, NEW x \in DOMAIN b.data, x \notin Stack,
         x \in DirtyWrite \cap AllowDup, NEW v
  PROVE  LET r == ChanSet(b, x, v)
         IN  /\ BayInv(r) /\ r.ok /\ r.last = b.last
             /\ r.flag = b.flag \cup {x} /\ DOMAIN r.data = DOMAIN b.data
             /\ r.data[x] = <<v>> /\ ChanRead(r, x) = v
             /\ \A e \in DOMAIN b.data : e # x =>
                    r.data[e] = b.data[e] /\ ChanRead(r, e) = ChanRead(b, e)
             /\ r.list = IF x \in b.flag THEN b.list ELSE Append(b.list, x)
             /\ Len(b.list) \in Nat /\ Len(b.list) <= Len(r.list)
             /\ \A i \in 1 .. Len(b.list) : r.list[i] = b.list[i]
<1> DEFINE n == [b EXCEPT !.data[x] = <<v>>]
           r == SetDirty(n, x)
<1>1. ChanSet(b, x, v) = r
  BY DEF ChanSet, DirtyRefused, IsDup
<1>2. BayInv(r)
  BY SetDirtyInv
<1>3. /\ n.data = [b.data EXCEPT ![x] = <<v>>] /\ n.last = b.last
      /\ n.flag = b.flag /\ n.list = b.list /\ n.ok
      /\ n \in [data : {n.data}, last : {n.last}, flag : {n.flag}, list : {n.list}, ok : {n.ok}]
  BY DEF BayInv, IsBay
<1> HIDE DEF n
<1>4. /\ r.data = n.data /\ r.last = b.last /\ r.ok
      /\ r.flag = b.flag \cup {x}
      /\ r.list = IF x \in b.flag THEN b.list ELSE Append(b.list, x)
  BY <1>3 DEF SetDirty
<1> HIDE DEF r
<1>5. /\ DOMAIN r.data = DOMAIN b.data /\ r.data[x] = <<v>>
      /\ \A e \in DOMAIN b.data : e # x => r.data[e] = b.data[e]
  BY <1>3, <1>4 DEF BayInv, IsBay
<1>6. /\ ChanRead(r, x) = v
      /\ \A e \in DOMAIN b.data : e # x => ChanRead(r, e) = ChanRead(b, e)
  BY <1>5 DEF ChanRead, Last
<1>7. /\ Len(b.list) \in Nat /\ Len(b.list) <= Len(r.list)
      /\ \A i \in 1 .. Len(b.list) : r.list[i] = b.list[i]
  <2>1. b.list \in Seq(b.flag) /\ b.list \in Seq(b.flag \cup {x})
    BY DEF BayInv, Listed
  <2> QED
    BY <2>1, <1>4
<1> QED
  BY <1>1, <1>2, <1>4, <1>5, <1>6, <1>7

\* The callbacks cs of the channels became t when the mux m left the input old for new.
Reselected(cs, t, m, old, new) ==
    /\ CbLists(t) /\ DOMAIN t = DOMAIN cs
    /\ \A e \in DOMAIN cs : \A y :
            y \in ToSet(t[e]) <=>
                \/ /\ y \in ToSet(cs[e])
                   /\ ~(old # 0 /\ e = MuxIn[m][old] /\ y = InputCb(m, old))
                \/ new # 0 /\ e = MuxIn[m][new] /\ y = InputCb(m, new)
    /\ \A e \in DOMAIN cs : \A a : a[1] = "select" => KeepsAfter(cs[e], t[e], a)
    /\ \A e \in DOMAIN cs : (old # 0 => e # MuxIn[m][old]) /\ (new # 0 => e # MuxIn[m][new])
            => t[e] = cs[e]

\* What cb_select() does to the callbacks.
LEMMA SelectCbs ==
  ASSUME NEW cs, CbLists(cs), NEW m, NEW old \in Int, NEW new \in Int,
         old # 0 => MuxIn[m][old] \in DOMAIN cs, new # 0 => MuxIn[m][new] \in DOMAIN cs
  PROVE  LET left == IF old = 0 THEN cs ELSE Disable(cs, MuxIn[m][old], InputCb(m, old))
             t == IF new = 0 THEN left ELSE Enable(left, MuxIn[m][new], InputCb(m, new))
         IN  Reselected(cs, t, m, old, new)
<1> DEFINE left == IF old = 0 THEN cs ELSE Disable(cs, MuxIn[m][old], InputCb(m, old))
           t == IF new = 0 THEN left ELSE Enable(left, MuxIn[m][new], InputCb(m, new))
<1>0. \A s, a : KeepsAfter(s, s, a)
  BY DEF KeepsAfter
<1>1. /\ CbLists(left) /\ DOMAIN left = DOMAIN cs
      /\ \A e \in DOMAIN cs : \A y : y \in ToSet(left[e]) <=>
             y \in ToSet(cs[e]) /\ ~(old # 0 /\ e = MuxIn[m][old] /\ y = InputCb(m, old))
      /\ \A e \in DOMAIN cs : \A a : a[1] = "select" => KeepsAfter(cs[e], left[e], a)
      /\ \A e \in DOMAIN cs : (old # 0 => e # MuxIn[m][old]) => left[e] = cs[e]
  <2>1. CASE old = 0
    BY <2>1, <1>0
  <2>2. CASE old # 0
    <3> DEFINE c == MuxIn[m][old]
               d == Disable(cs, c, InputCb(m, old))
    <3>1. /\ CbLists(d) /\ DOMAIN d = DOMAIN cs
          /\ \A e \in DOMAIN cs : e # c => d[e] = cs[e]
          /\ ToSet(d[c]) = ToSet(cs[c]) \ {InputCb(m, old)}
          /\ \A a : a # InputCb(m, old) => KeepsAfter(cs[c], d[c], a)
      BY <2>2, DisableIs
    <3> HIDE DEF d
    <3>2. \A a : a[1] = "select" => a # InputCb(m, old)
      BY DEF InputCb
    <3>3. left = d
      BY <2>2 DEF d
    <3> QED
      BY <3>1, <3>2, <3>3, <1>0, <2>2
  <2> QED
    BY <2>1, <2>2
<1> HIDE DEF left
<1>2. CASE new = 0
  BY <1>1, <1>2 DEF left, Reselected
<1>3. CASE new # 0
  <2> DEFINE c == MuxIn[m][new]
             d == Enable(left, c, InputCb(m, new))
  <2>1. /\ CbLists(d) /\ DOMAIN d = DOMAIN left
        /\ \A e \in DOMAIN left : e # c => d[e] = left[e]
        /\ ToSet(d[c]) = ToSet(left[c]) \cup {InputCb(m, new)}
        /\ \A a : KeepsAfter(left[c], d[c], a)
    BY <1>1, <1>3, EnableIs
  <2>2. t = d
    BY <1>3
  <2> HIDE DEF d, t
  <2>3. \A e \in DOMAIN cs : \A a : a[1] = "select" => KeepsAfter(cs[e], d[e], a)
    BY <1>0, <1>1, <2>1, KeepsAfterTwice
  <2>4. \A e \in DOMAIN cs : \A y : y \in ToSet(d[e]) <=>
             y \in ToSet(left[e]) \/ (e = c /\ y = InputCb(m, new))
    <3> TAKE e \in DOMAIN cs
    <3> TAKE y
    <3>1. CASE e = c
      BY <3>1, <2>1
    <3>2. CASE e # c
      <4>1. d[e] = left[e]
        BY <3>2, <2>1, <1>1
      <4> QED
        BY <3>2, <4>1
    <3> QED
      BY <3>1, <3>2
  <2>5. CbLists(t) /\ DOMAIN t = DOMAIN cs
    BY <2>1, <2>2, <1>1
  <2> QED
    BY <2>1, <2>2, <2>3, <2>4, <2>5, <1>1, <1>3 DEF left, t, Reselected
<1> QED
  BY <1>2, <1>3
\* The callbacks of different muxes, and of different kinds, are different.
LEMMA CbsDiffer ==
  ASSUME NEW m, NEW n, NEW i, NEW j
  PROVE  /\ SelectCb(m) # InputCb(n, i) /\ SelectCb(m) # SortCb(i) /\ InputCb(m, i) # SortCb(j)
         /\ SelectCb(m) = SelectCb(n) => m = n
         /\ InputCb(m, i) = InputCb(n, j) => m = n /\ i = j
         /\ SortCb(i) = SortCb(j) => i = j
  BY DEF SelectCb, InputCb, SortCb

\* A callback of the mux m writes its output and the walk goes on.  The callbacks
\* of the other muxes do not change, and m shows what it selects.
LEMMA FlowWrite ==
  ASSUME NEW V, IInv, Sound(V), Sane(V), Walking, NEW m \in DOMAIN selected, NEW v,
         Ahead(MuxOut[m]), bay' = ChanSet(bay, MuxOut[m], v), state' = state, values' = values,
         out = 0, out' = 0,
         \/ CurCb = SelectCb(m) /\ selected'[m] = Selection(m)
         \/ (\E i \in DOMAIN MuxIn[m] : CurCb = InputCb(m, i)) /\ cbs' = cbs /\ selected' = selected,
         selected' = [selected EXCEPT ![m] = selected'[m]],
         selected'[m] \in {0} \cup DOMAIN MuxIn[m],
         v = IF selected'[m] = 0 THEN MuxDef[m] ELSE ChanRead(bay, MuxIn[m][selected'[m]]),
         CbLists(cbs'), DOMAIN cbs' = DOMAIN cbs,
         \A e \in DOMAIN cbs : \A y : (\A i : y # InputCb(m, i)) =>
             (y \in ToSet(cbs'[e]) <=> y \in ToSet(cbs[e])),
         \A e \in DOMAIN cbs : \A i : InputCb(m, i) \in ToSet(cbs'[e]) =>
             i \in DOMAIN MuxIn[m] /\ e = MuxIn[m][i] /\ selected'[m] = i,
         selected'[m] # 0 =>
             InputCb(m, selected'[m]) \in ToSet(cbs'[MuxIn[m][selected'[m]]]),
         KeepsAfter(cbs[CurChan], cbs'[CurChan], CurCb),
         Advance(CurChan, CurCb)
  PROVE  FlowsOn(V)
<1> DEFINE x == MuxOut[m]
<1>d. /\ \A n, i : SelectCb(n) # InputCb(m, i) /\ SortCb(n) # InputCb(m, i) /\ SelectCb(m) # InputCb(n, i)
      /\ \A n, i, j : n # m => InputCb(n, j) # InputCb(m, i) /\ SelectCb(n) # SelectCb(m)
      /\ \A i : SelectCb(m) # SortCb(i)
  BY DEF SelectCb, InputCb, SortCb
<1>e. /\ \A n : n # m => CurCb # SelectCb(n)
      /\ \A n, i : n # m => CurCb # InputCb(n, i)
      /\ \A i : CurCb # SortCb(i)
  <2>1. CASE CurCb = SelectCb(m)
    BY <2>1, <1>d
  <2>2. CASE \E i \in DOMAIN MuxIn[m] : CurCb = InputCb(m, i)
    BY <2>2 DEF SelectCb, InputCb, SortCb
  <2> QED
    BY <2>1, <2>2
<1>0. /\ BayInv(bay) /\ bay.ok /\ CbsInv /\ WalkInv /\ Chained /\ SortReads
      /\ Wired(DOMAIN selected, DOMAIN bay.data)
      /\ \A n \in DOMAIN selected : Flows(n, V)
  BY DEF Sound, IInv
<1>1. /\ x \in DOMAIN bay.data /\ x \notin Stack /\ x \in DirtyWrite \cap AllowDup
      /\ x \notin {MuxSel[m]} \cup ToSet(MuxIn[m]) /\ m \in Mux
  BY <1>0, GraphAssumption DEF Wired
<1>2. /\ BayInv(bay') /\ bay'.ok /\ bay'.flag = bay.flag \cup {x}
      /\ DOMAIN bay'.data = DOMAIN bay.data /\ ChanRead(bay', x) = v
      /\ \A e \in DOMAIN bay.data : e # x => ChanRead(bay', e) = ChanRead(bay, e)
      /\ Len(bay.list) \in Nat /\ Len(bay.list) <= Len(bay'.list)
      /\ \A i \in 1 .. Len(bay.list) : bay'.list[i] = bay.list[i]
  BY <1>0, <1>1, SetOutput
<1>3. /\ pos \in Nat \ {0} /\ pos \in 1 .. Len(bay.list) /\ cbi \in DOMAIN cbs[CurChan]
      /\ CbLists(cbs) /\ bay.flag \subseteq DOMAIN cbs /\ bay'.flag \subseteq DOMAIN cbs'
      /\ DOMAIN cbs = DOMAIN bay.data /\ DOMAIN cbs' = DOMAIN bay'.data
  BY <1>0, <1>1, <1>2 DEF Walking, WalkInv, CbsInv, CurChan
<1>4. /\ pos' \in pos .. Len(bay'.list) + 1
      /\ pos' <= Len(bay'.list) => cbi' \in DOMAIN cbs'[bay'.list[pos']]
      /\ \A e, y : Pending(e, y) /\ y \in ToSet(cbs'[e]) /\ <<e, y>> # <<CurChan, CurCb>>
                => Pending(e, y)'
      /\ \A e \in bay'.flag : \A y \in ToSet(cbs'[e]) :
                (\A j \in 1 .. pos : bay.list[j] # e) => Pending(e, y)'
  <2>1. Listed(bay) /\ Listed(bay')
    BY <1>0, <1>2 DEF BayInv
  <2> QED
    BY <2>1, <1>2, <1>3, AdvanceIs
<1>5. \A y \in ToSet(cbs'[x]) : HasReader(x) => Pending(x, y)'
  <2> SUFFICES ASSUME NEW y \in ToSet(cbs'[x]), HasReader(x) PROVE Pending(x, y)'
    OBVIOUS
  <2>1. x \in bay'.flag /\ \A j \in 1 .. pos : bay.list[j] # x
    BY <1>2 DEF Ahead
  <2>2. PICK e : e = x
    OBVIOUS
  <2>3. Pending(e, y)'
    BY <1>4, <2>1, <2>2
  <2> QED
    BY <2>2, <2>3
<1>6. /\ DOMAIN selected' = DOMAIN selected
      /\ \A n \in DOMAIN selected : n # m => selected'[n] = selected[n]
  BY <1>0 DEF CbsInv
<1>7. CbsInv'
  <2>1. \A n \in DOMAIN selected' : selected'[n] \in {0} \cup DOMAIN MuxIn[n]
    BY <1>0, <1>6 DEF CbsInv
  <2>2. ASSUME NEW e \in DOMAIN cbs, NEW y \in ToSet(cbs'[e]) PROVE OfChan(e, y)'
    <3>1. CASE \E i : y = InputCb(m, i)
      BY <3>1, <1>6 DEF OfChan
    <3>2. CASE \A i : y # InputCb(m, i)
      <4>1. y \in ToSet(cbs[e])
        BY <3>2
      <4>2. OfChan(e, y)
        BY <4>1, <1>0 DEF CbsInv
      <4> QED
        BY <4>2, <3>2, <1>6 DEF OfChan
    <3> QED
      BY <3>1, <3>2
  <2>3. \A n \in DOMAIN selected' : SelectCb(n) \in ToSet(cbs'[MuxSel[n]])
    <3> SUFFICES ASSUME NEW n \in DOMAIN selected PROVE SelectCb(n) \in ToSet(cbs'[MuxSel[n]])
      BY <1>6
    <3>1. SelectCb(n) \in ToSet(cbs[MuxSel[n]]) /\ MuxSel[n] \in DOMAIN cbs
      BY <1>0, <1>3 DEF CbsInv, Wired
    <3>2. \A i : SelectCb(n) # InputCb(m, i)
      BY <1>d
    <3> QED
      BY <3>1, <3>2
  <2>4. \A i \in DOMAIN SortIn : SortCb(i) \in ToSet(cbs'[SortIn[i]])
    <3> SUFFICES ASSUME NEW i \in DOMAIN SortIn PROVE SortCb(i) \in ToSet(cbs'[SortIn[i]])
      OBVIOUS
    <3>1. SortCb(i) \in ToSet(cbs[SortIn[i]]) /\ SortIn[i] \in DOMAIN cbs
      BY <1>0, <1>3 DEF CbsInv, Wired, ToSet
    <3>2. \A j : SortCb(i) # InputCb(m, j)
      BY <1>d
    <3> QED
      BY <3>1, <3>2
  <2>5. selected' = [n \in DOMAIN selected' |-> selected'[n]]
    BY <1>0, <1>6 DEF CbsInv
  <2> QED
    BY <2>1, <2>2, <2>3, <2>4, <2>5, <1>3 DEF CbsInv
<1>8. WalkInv'
  <2>1. pos' \in 1 .. Len(bay'.list) + 1
    BY <1>2, <1>3, <1>4
  <2> QED
    BY <2>1, <1>3, <1>4 DEF WalkInv
<1>9. \A n \in DOMAIN selected : n # m => (Settled(n)' <=> Settled(n))
  <2> SUFFICES ASSUME NEW n \in DOMAIN selected, n # m PROVE Settled(n)' <=> Settled(n)
    OBVIOUS
  <2>1. \A i \in DOMAIN MuxIn[n] : InputCb(n, i) \in ToSet(cbs'[MuxIn[n][i]])
                                   <=> InputCb(n, i) \in ToSet(cbs[MuxIn[n][i]])
    <3> TAKE i \in DOMAIN MuxIn[n]
    <3>1. MuxIn[n][i] \in DOMAIN cbs
      BY <1>0, <1>3 DEF Wired, ToSet
    <3> QED
      BY <3>1, <1>d
  <2> QED
    BY <2>1, <1>6 DEF Settled, Enabled
<1>10. Settled(m)'
  BY DEF Settled, Enabled
<1>11. ASSUME NEW n \in DOMAIN selected PROVE Flows(n, V)'
  <2>0. /\ MuxSel[n] \in DOMAIN cbs /\ MuxOut[n] \in DOMAIN cbs
        /\ SelectCb(n) \in ToSet(cbs'[MuxSel[n]])
        /\ \A i \in DOMAIN MuxIn[n] : MuxIn[n][i] \in DOMAIN cbs
    BY <1>0, <1>3, <1>6, <1>7 DEF Wired, CbsInv, ToSet
  <2>1. ASSUME Pending(MuxSel[n], SelectCb(n)), CurCb # SelectCb(n) PROVE Flows(n, V)'
    <3>1. Pending(MuxSel[n], SelectCb(n))'
      BY <2>0, <2>1, <1>4
    <3> QED
      BY <3>1 DEF Flows
  <2>2. ASSUME x = MuxSel[n] PROVE Flows(n, V)'
    <3>1. Pending(MuxSel[n], SelectCb(n))'
      BY <2>0, <2>2, <1>5 DEF HasReader
    <3> QED
      BY <3>1 DEF Flows
  <2>3. CASE n = m
    <3>1. /\ ChanRead(bay', MuxSel[m]) = ChanRead(bay, MuxSel[m])
          /\ \A i \in DOMAIN MuxIn[m] : ChanRead(bay', MuxIn[m][i]) = ChanRead(bay, MuxIn[m][i])
      BY <2>0, <2>3, <1>1, <1>2, <1>3 DEF ToSet
    <3>2. ChanRead(bay', MuxOut[m]) = Picked(m)'
      BY <3>1, <1>2 DEF Picked
    <3>3. CASE CurCb = SelectCb(m) /\ selected'[m] = Selection(m)
      <4>1. Chosen(m, V)'
        <5> DEFINE ins == [i \in DOMAIN MuxIn[m] |-> ChanRead(bay, MuxIn[m][i])]
        <5>1. ins \in [DOMAIN MuxIn[m] -> V]
          BY DEF Sane
        <5>2. selected'[m] = Select(m, ChanRead(bay', MuxSel[m]), ins)
          BY <3>1, <3>3 DEF Selection
        <5>3. \A i \in DOMAIN MuxIn[m] : MuxIn[m][i] = MuxSel[m] => ins[i] = ChanRead(bay', MuxSel[m])
          BY <3>1
        <5> HIDE DEF ins
        <5> QED
          BY <5>1, <5>2, <5>3 DEF Chosen
      <4> QED
        BY <4>1, <3>2, <1>10, <2>3 DEF Flows
    <3>4. CASE (\E i \in DOMAIN MuxIn[m] : CurCb = InputCb(m, i)) /\ cbs' = cbs /\ selected' = selected
      <4>1. Settled(m)
        BY <3>4, <1>10 DEF Settled, Enabled
      <4>2. CASE Pending(MuxSel[n], SelectCb(n))
        BY <4>2, <3>4, <2>1, <2>3, CbsDiffer
      <4>3. CASE Chosen(m, V)
        <5>1. Chosen(m, V)'
          BY <4>3, <3>1, <3>4 DEF Chosen
        <5> QED
          BY <5>1, <3>2, <1>10, <2>3 DEF Flows
      <4> QED
        BY <4>1, <4>2, <4>3, <1>0, <2>3 DEF Flows
    <3> QED
      BY <3>3, <3>4
  <2>4. CASE n # m /\ x # MuxSel[n]
    <3>0. /\ CurCb # SelectCb(n) /\ \A i : CurCb # InputCb(n, i)
      BY <2>4, <1>e
    <3>1. /\ MuxOut[n] # x /\ selected'[n] = selected[n]
          /\ ChanRead(bay', MuxOut[n]) = ChanRead(bay, MuxOut[n])
          /\ ChanRead(bay', MuxSel[n]) = ChanRead(bay, MuxSel[n])
      <4>1. MuxOut[n] # x
        BY <2>4, <1>0 DEF Wired
      <4> QED
        BY <4>1, <2>0, <2>4, <1>2, <1>3, <1>6
    <3>2. CASE Pending(MuxSel[n], SelectCb(n))
      BY <3>0, <3>2, <2>1
    <3>3. CASE ~Settled(n) /\ ChanRead(bay, MuxSel[n]) = Null /\ ChanRead(bay, MuxOut[n]) = Null
      BY <3>1, <3>3, <2>4, <1>9 DEF Flows
    <3>4. CASE Settled(n) /\ Chosen(n, V)
      <4>1. Settled(n)' /\ Chosen(n, V)'
        BY <3>1, <3>4, <2>4, <1>9 DEF Chosen
      <4>2. CASE selected[n] = 0
        <5>1. ~(selected[n] # 0)
          BY <4>2
        <5>2. CASE ChanRead(bay, MuxOut[n]) = Picked(n)
          <6>1. ChanRead(bay', MuxOut[n]) = Picked(n)'
            BY <5>2, <4>2, <3>1 DEF Picked
          <6> QED
            BY <6>1, <4>1 DEF Flows
        <5> QED
          BY <5>1, <5>2, <3>2, <3>3, <1>0 DEF Flows
      <4>3. CASE selected[n] # 0
        <5> DEFINE i == selected[n]
        <5>1. /\ i \in DOMAIN MuxIn[n] /\ InputCb(n, i) \in ToSet(cbs[MuxIn[n][i]])
              /\ InputCb(n, i) \in ToSet(cbs'[MuxIn[n][i]])
          <6>1. i \in DOMAIN MuxIn[n] /\ InputCb(n, i) \in ToSet(cbs[MuxIn[n][i]])
            BY <4>3, <3>4 DEF Settled, Enabled
          <6> QED
            BY <6>1, <2>0, <2>4, <1>d
        <5>2. ASSUME Pending(MuxIn[n][i], InputCb(n, i))' PROVE Flows(n, V)'
          <6>1. Pending(MuxIn[n][selected[n]], InputCb(n, selected[n]))' /\ selected'[n] # 0
            BY <5>2, <3>1, <4>3
          <6> QED
            BY <6>1, <4>1 DEF Flows
        <5>3. CASE MuxIn[n][i] = x
          <6>1. HasReader(x)
            BY <5>1, <5>3 DEF HasReader, ToSet
          <6>2. PICK e, y : e = x /\ y = InputCb(n, i)
            OBVIOUS
          <6>3. Pending(e, y)'
            BY <6>1, <6>2, <5>1, <5>3, <1>4, <1>2 DEF Ahead
          <6>4. MuxIn[n][selected'[n]] = e /\ InputCb(n, selected'[n]) = y
            BY <6>2, <5>3, <3>1
          <6>5. Pending(MuxIn[n][selected[n]], InputCb(n, selected[n]))'
            BY <6>3, <6>4
          <6> QED
            BY <5>2, <6>5
        <5>4. CASE MuxIn[n][i] # x /\ ChanRead(bay, MuxOut[n]) = Picked(n)
          <6>1. ChanRead(bay', MuxOut[n]) = Picked(n)'
            BY <5>1, <5>4, <4>3, <3>1, <2>0, <1>2, <1>3 DEF Picked
          <6> QED
            BY <6>1, <4>1 DEF Flows
        <5>5. CASE Pending(MuxIn[n][i], InputCb(n, i))
          <6>2. PICK e, y : e = MuxIn[n][i] /\ y = InputCb(n, i)
            OBVIOUS
          <6>3. Pending(e, y)'
            BY <6>2, <5>1, <5>5, <3>0, <1>4
          <6>4. MuxIn[n][selected'[n]] = e /\ InputCb(n, selected'[n]) = y
            BY <6>2, <3>1
          <6>5. Pending(MuxIn[n][selected[n]], InputCb(n, selected[n]))'
            BY <6>3, <6>4
          <6> QED
            BY <5>2, <6>5
        <5> QED
          BY <5>3, <5>4, <5>5, <3>2, <3>3, <4>3, <1>0 DEF Flows
      <4> QED
        BY <4>2, <4>3
    <3> QED
      BY <3>2, <3>3, <3>4, <1>0 DEF Flows
  <2> QED
    BY <2>2, <2>3, <2>4
<1>12. Chained'
  <2> SUFFICES ASSUME NEW a \in DOMAIN selected, NEW b \in DOMAIN selected,
                      MuxSel[b] = MuxOut[a], Settled(a)'
               PROVE  Settled(b)' \/ Pending(MuxSel[b], SelectCb(b))'
    BY <1>6 DEF Chained
  <2>0. SelectCb(b) \in ToSet(cbs'[MuxSel[b]])
    BY <1>6, <1>7 DEF CbsInv
  <2>1. CASE a = m
    <3>1. Pending(MuxSel[b], SelectCb(b))'
      BY <2>0, <2>1, <1>5 DEF HasReader
    <3> QED
      BY <3>1
  <2>2. CASE a # m /\ b # m
    <3>1. Settled(b) \/ Pending(MuxSel[b], SelectCb(b))
      BY <2>2, <1>0, <1>9 DEF Chained
    <3>2. CurCb # SelectCb(b)
      BY <2>2, <1>e
    <3> QED
      BY <3>1, <3>2, <2>0, <2>2, <1>4, <1>9
  <2> QED
    BY <2>1, <2>2, <1>10
<1>13. SortReads'
  <2> SUFFICES ASSUME NEW i \in DOMAIN SortIn
               PROVE  \/ values'[i] = Plain(ChanRead(bay', SortIn[i]))
                      \/ Pending(SortIn[i], SortCb(i))'
    BY <1>0 DEF SortReads
  <2>0. SortCb(i) \in ToSet(cbs'[SortIn[i]]) /\ SortIn[i] \in DOMAIN cbs /\ CurCb # SortCb(i)
    BY <1>0, <1>3, <1>7, <1>e DEF CbsInv, Wired, ToSet
  <2>1. CASE SortIn[i] = x
    BY <2>0, <2>1, <1>5 DEF HasReader, ToSet
  <2>2. CASE SortIn[i] # x
    <3>1. ChanRead(bay', SortIn[i]) = ChanRead(bay, SortIn[i])
      BY <2>0, <2>2, <1>2, <1>3
    <3> QED
      BY <3>1, <2>0, <1>0, <1>4 DEF SortReads
  <2> QED
    BY <2>1, <2>2
<1>14. Wired(DOMAIN selected, DOMAIN bay.data)'
  BY <1>0, <1>2, <1>6 DEF Wired
<1>15. ASSUME NEW n \in DOMAIN selected, Live(n) PROVE Live(n)'
  <2>1. CASE n = m
    BY <2>1, <1>10 DEF Live
  <2>2. CASE n # m /\ Settled(n)
    BY <2>2, <1>9 DEF Live
  <2>3. CASE n # m /\ Pending(MuxSel[n], SelectCb(n))
    <3>1. SelectCb(n) \in ToSet(cbs'[MuxSel[n]]) /\ CurCb # SelectCb(n)
      BY <2>3, <1>6, <1>7, <1>e DEF CbsInv
    <3>2. PICK e, y : e = MuxSel[n] /\ y = SelectCb(n)
      OBVIOUS
    <3> QED
      BY <2>3, <3>1, <3>2, <1>4 DEF Live
  <2> QED
    BY <1>15, <2>1, <2>2, <2>3 DEF Live
<1> QED
  BY <1>2, <1>6, <1>7, <1>8, <1>11, <1>12, <1>13, <1>14, <1>15 DEF Sound, Sorting, StaysLive, FlowsOn

\* One callback of a mux: it is one of the channel the walk is at, it writes the output
\* of the mux, and the callbacks of the channels that the mux does not read stay.
LEMMA RunMuxIs ==
  ASSUME NEW V, IInv, Sound(V), Sane(V), RunMux
  PROVE  /\ state' = state /\ bay'.ok
         /\ \E m \in DOMAIN selected : \E v :
                /\ \/ CurCb = SelectCb(m) /\ CurChan = MuxSel[m]
                   \/ \E i \in DOMAIN MuxIn[m] : CurCb = InputCb(m, i) /\ CurChan = MuxIn[m][i]
                /\ v = MuxDef[m] \/ \E i \in DOMAIN MuxIn[m] : v = ChanRead(bay, MuxIn[m][i])
                /\ bay' = ChanSet(bay, MuxOut[m], v)
                /\ \A e \in DOMAIN cbs : e \notin ToSet(MuxIn[m]) => cbs'[e] = cbs[e]
         /\ CbLists(cbs') /\ DOMAIN cbs' = DOMAIN cbs /\ DOMAIN selected' = DOMAIN selected
         /\ KeepsAfter(cbs[CurChan], cbs'[CurChan], CurCb)
         /\ CurCb[1] \in {"select", "input"}
<1>0. /\ BayInv(bay) /\ bay.ok /\ CbsInv /\ WalkInv
      /\ Wired(DOMAIN selected, DOMAIN bay.data)
  BY DEF Sound, IInv
<1>1. /\ pos \in 1 .. Len(bay.list) /\ cbi \in DOMAIN cbs[CurChan] /\ CurChan \in DOMAIN cbs
      /\ CurCb \in ToSet(cbs[CurChan]) /\ CbLists(cbs)
  <2>1. pos \in DOMAIN bay.list /\ pos \in 1 .. Len(bay.list)
    BY <1>0 DEF RunMux, Walking, WalkInv, BayInv, Listed
  <2>2. CurChan \in bay.flag
    BY <2>1, <1>0 DEF BayInv, Listed, CurChan
  <2> QED
    BY <2>1, <2>2, <1>0 DEF WalkInv, RunMux, Walking, CurChan, CurCb, CbsInv, ToSet
<1>2. OfChan(CurChan, CurCb)
  BY <1>0, <1>1 DEF CbsInv
<1>3. ASSUME NEW m \in DOMAIN selected, NEW v, bay' = ChanSet(bay, MuxOut[m], v)
      PROVE  state' = state /\ bay'.ok
  <2>1. /\ MuxOut[m] \in DOMAIN bay.data /\ MuxOut[m] \notin Stack
        /\ MuxOut[m] \in DirtyWrite \cap AllowDup
    BY <1>0, GraphAssumption DEF Wired
  <2>2. bay'.ok
    BY <2>1, <1>0, <1>3, SetOutput
  <2> QED
    BY <2>2 DEF RunMux, StopOnError
<1>4. CASE CurCb[1] = "select" /\ cb_select(CurCb[2])
  <2>1. PICK m \in DOMAIN selected : CurCb = SelectCb(m) /\ MuxSel[m] = CurChan
    BY <1>2, <1>4 DEF OfChan, InputCb, SortCb
  <2>2. CurCb[2] = m
    BY <2>1 DEF SelectCb
  <2> DEFINE i == Selection(m)
             old == selected[m]
             left == IF old = 0 THEN cbs ELSE Disable(cbs, MuxIn[m][old], InputCb(m, old))
             t == IF i = 0 THEN left ELSE Enable(left, MuxIn[m][i], InputCb(m, i))
             v == IF i = 0 THEN MuxDef[m] ELSE ChanRead(bay, MuxIn[m][i])
  <2>3. /\ i \in {0} \cup DOMAIN MuxIn[m] /\ old \in {0} \cup DOMAIN MuxIn[m]
        /\ m \in Mux /\ MuxIn[m] \in Seq(Chan)
        /\ 0 \notin DOMAIN MuxIn[m] /\ i \in Int /\ old \in Int /\ i # -1
        /\ \A k \in DOMAIN MuxIn[m] : MuxIn[m][k] \in DOMAIN cbs
    <3>1. m \in Mux /\ MuxIn[m] \in Seq(Chan)
      BY <1>0, GraphAssumption DEF Wired
    <3>2. i \in {0} \cup DOMAIN MuxIn[m] /\ old \in {0} \cup DOMAIN MuxIn[m]
      BY <1>0 DEF Sane, CbsInv
    <3>3. \A k \in DOMAIN MuxIn[m] : MuxIn[m][k] \in DOMAIN cbs
      BY <1>0 DEF Wired, CbsInv, ToSet
    <3> QED
      BY <3>1, <3>2, <3>3
  <2>4. /\ selected' = [selected EXCEPT ![m] = i] /\ cbs' = t /\ bay' = ChanSet(bay, MuxOut[m], v)
    BY <1>4, <2>2, <2>3 DEF cb_select
  <2>5. Reselected(cbs, t, m, old, i)
    <3> HIDE DEF i, old, left, t
    <3>1. /\ old # 0 => MuxIn[m][old] \in DOMAIN cbs
          /\ i # 0 => MuxIn[m][i] \in DOMAIN cbs
      BY <2>3
    <3> QED
      BY <3>1, <2>3, <1>1, SelectCbs DEF left, t
  <2> HIDE DEF t
  <2>6. v = MuxDef[m] \/ \E k \in DOMAIN MuxIn[m] : v = ChanRead(bay, MuxIn[m][k])
    BY <2>3
  <2> HIDE DEF v, i, old
  <2>7. \A e \in DOMAIN cbs : e \notin ToSet(MuxIn[m]) => cbs'[e] = cbs[e]
    BY <2>3, <2>4, <2>5 DEF ToSet, Reselected
  <2>8. KeepsAfter(cbs[CurChan], cbs'[CurChan], CurCb)
    BY <1>1, <1>4, <2>4, <2>5 DEF Reselected
  <2>9. DOMAIN selected' = DOMAIN selected
    BY <2>4, <1>0 DEF CbsInv
  <2>10. state' = state /\ bay'.ok
    BY <2>4, <1>3
  <2> QED
    BY <2>1, <2>4, <2>5, <2>6, <2>7, <2>8, <2>9, <2>10, <1>4 DEF Reselected
<1>5. CASE CurCb[1] = "input" /\ cb_input(CurCb[2], CurCb[3])
  <2>0. PICK m \in DOMAIN selected : \E i \in DOMAIN MuxIn[m] :
            CurCb = InputCb(m, i) /\ MuxIn[m][i] = CurChan
    BY <1>2, <1>5 DEF OfChan, SelectCb, SortCb
  <2>1. PICK i \in DOMAIN MuxIn[m] : CurCb = InputCb(m, i) /\ MuxIn[m][i] = CurChan
    BY <2>0
  <2>2. CurCb[2] = m /\ CurCb[3] = i
    BY <2>1 DEF InputCb
  <2>3. /\ bay' = ChanSet(bay, MuxOut[m], ChanRead(bay, MuxIn[m][i]))
        /\ cbs' = cbs /\ selected' = selected
    BY <1>5, <2>2 DEF cb_input
  <2>4. KeepsAfter(cbs[CurChan], cbs'[CurChan], CurCb)
    BY <2>3 DEF KeepsAfter
  <2>5. state' = state /\ bay'.ok
    BY <2>3, <1>3
  <2> QED
    BY <2>1, <2>3, <2>4, <2>5, <1>1, <1>5
<1> QED
  BY <1>4, <1>5 DEF RunMux

\* It leaves the muxes flowing.
LEMMA FlowRunMux ==
  ASSUME NEW V, IInv, Sound(V), Sane(V), AheadInv, RunMux
  PROVE  FlowsOn(V)
<1>0. /\ BayInv(bay) /\ bay.ok /\ CbsInv /\ WalkInv
      /\ Wired(DOMAIN selected, DOMAIN bay.data)
  BY DEF Sound, IInv
<1>1. /\ pos \in 1 .. Len(bay.list) /\ cbi \in DOMAIN cbs[CurChan] /\ CurChan \in DOMAIN cbs
      /\ CurCb \in ToSet(cbs[CurChan]) /\ CbLists(cbs)
  <2>1. pos \in DOMAIN bay.list /\ pos \in 1 .. Len(bay.list)
    BY <1>0 DEF RunMux, Walking, WalkInv, BayInv, Listed
  <2>2. CurChan \in bay.flag
    BY <2>1, <1>0 DEF BayInv, Listed, CurChan
  <2> QED
    BY <2>1, <2>2, <1>0 DEF WalkInv, RunMux, Walking, CurChan, CurCb, CbsInv, ToSet
<1>2. OfChan(CurChan, CurCb)
  BY <1>0, <1>1 DEF CbsInv
<1>3. /\ Walking /\ out = 0 /\ out' = 0 /\ values' = values /\ Advance(CurChan, CurCb)
      /\ bay'.ok /\ state' = state
  BY RunMuxIs DEF RunMux, StopOnError
<1>4. CASE CurCb[1] = "select" /\ cb_select(CurCb[2])
  <2>1. PICK m \in DOMAIN selected : CurCb = SelectCb(m) /\ MuxSel[m] = CurChan
    BY <1>2, <1>4 DEF OfChan, InputCb, SortCb
  <2>2. CurCb[2] = m
    BY <2>1 DEF SelectCb
  <2>3. Ahead(MuxOut[m])
    BY <2>2, <1>3, <1>4 DEF AheadInv
  <2> DEFINE i == Selection(m)
             old == selected[m]
             left == IF old = 0 THEN cbs ELSE Disable(cbs, MuxIn[m][old], InputCb(m, old))
             t == IF i = 0 THEN left ELSE Enable(left, MuxIn[m][i], InputCb(m, i))
             v == IF i = 0 THEN MuxDef[m] ELSE ChanRead(bay, MuxIn[m][i])
  <2>4. i # -1
    <3>1. m \in Mux /\ MuxIn[m] \in Seq(Chan)
      BY <1>0, GraphAssumption DEF Wired
    <3>2. i \in {0} \cup DOMAIN MuxIn[m]
      BY DEF Sane
    <3> QED
      BY <3>1, <3>2
  <2>5. /\ selected' = [selected EXCEPT ![m] = i] /\ cbs' = t /\ bay' = ChanSet(bay, MuxOut[m], v)
    BY <1>4, <2>2, <2>4 DEF cb_select
  <2>6. /\ i \in {0} \cup DOMAIN MuxIn[m] /\ old \in {0} \cup DOMAIN MuxIn[m]
        /\ m \in Mux /\ MuxIn[m] \in Seq(Chan)
        /\ 0 \notin DOMAIN MuxIn[m] /\ i \in Int /\ old \in Int
        /\ \A k \in DOMAIN MuxIn[m] : MuxIn[m][k] \in DOMAIN cbs
    <3>1. m \in Mux /\ MuxIn[m] \in Seq(Chan)
      BY <1>0, GraphAssumption DEF Wired
    <3>2. i \in {0} \cup DOMAIN MuxIn[m] /\ old \in {0} \cup DOMAIN MuxIn[m]
      BY <2>4, <1>0 DEF Sane, CbsInv
    <3>3. \A k \in DOMAIN MuxIn[m] : MuxIn[m][k] \in DOMAIN cbs
      BY <1>0 DEF Wired, CbsInv, ToSet
    <3> QED
      BY <3>1, <3>2, <3>3
  <2>7. Reselected(cbs, t, m, old, i)
    <3> HIDE DEF i, old, left, t
    <3>1. /\ old # 0 => MuxIn[m][old] \in DOMAIN cbs
          /\ i # 0 => MuxIn[m][i] \in DOMAIN cbs
      BY <2>6
    <3> QED
      BY <3>1, <2>6, <1>1, SelectCbs DEF left, t
  <2> HIDE DEF t
  <2>8. selected'[m] = i /\ selected' = [selected EXCEPT ![m] = selected'[m]]
    BY <2>5, <1>0 DEF CbsInv
  <2> HIDE DEF i, old
  <2>9. \A e \in DOMAIN cbs : \A y : (\A k : y # InputCb(m, k)) =>
             (y \in ToSet(cbs'[e]) <=> y \in ToSet(cbs[e]))
    BY <2>5, <2>7 DEF Reselected
  <2>10. ASSUME NEW e \in DOMAIN cbs, NEW k, InputCb(m, k) \in ToSet(cbs'[e])
         PROVE  k \in DOMAIN MuxIn[m] /\ e = MuxIn[m][k] /\ selected'[m] = k
    <3>1. CASE i # 0 /\ e = MuxIn[m][i] /\ InputCb(m, k) = InputCb(m, i)
      <4>1. k = i
        BY <3>1 DEF InputCb
      <4> QED
        BY <3>1, <4>1, <2>6, <2>8
    <3>2. CASE /\ InputCb(m, k) \in ToSet(cbs[e])
               /\ ~(old # 0 /\ e = MuxIn[m][old] /\ InputCb(m, k) = InputCb(m, old))
      <4>1. OfChan(e, InputCb(m, k))
        BY <3>2, <1>0 DEF CbsInv
      <4>2. k \in DOMAIN MuxIn[m] /\ MuxIn[m][k] = e /\ old = k
        BY <4>1 DEF OfChan, InputCb, SelectCb, SortCb, old
      <4> QED
        BY <3>2, <4>2, <2>6
    <3> QED
      BY <3>1, <3>2, <2>5, <2>7, <2>10 DEF Reselected
  <2>11. selected'[m] # 0 => InputCb(m, selected'[m]) \in ToSet(cbs'[MuxIn[m][selected'[m]]])
    BY <2>5, <2>6, <2>7, <2>8 DEF Reselected
  <2>12. KeepsAfter(cbs[CurChan], cbs'[CurChan], CurCb)
    BY <1>1, <1>4, <2>5, <2>7 DEF Reselected
  <2>13. v = IF selected'[m] = 0 THEN MuxDef[m] ELSE ChanRead(bay, MuxIn[m][selected'[m]])
    BY <2>8
  <2>14. selected'[m] = Selection(m) /\ selected'[m] \in {0} \cup DOMAIN MuxIn[m]
    BY <2>8, <2>6 DEF i
  <2> HIDE DEF v
  <2>15. CbLists(cbs') /\ DOMAIN cbs' = DOMAIN cbs
    BY <2>5, <2>7 DEF Reselected
  <2>16. bay' = ChanSet(bay, MuxOut[m], v)
    BY <2>5
  <2> QED
    BY <1>3, <2>1, <2>3, <2>8, <2>9, <2>10, <2>11, <2>12, <2>13, <2>14, <2>15, <2>16, FlowWrite
<1>5. CASE CurCb[1] = "input" /\ cb_input(CurCb[2], CurCb[3])
  <2>0. PICK m \in DOMAIN selected : \E i \in DOMAIN MuxIn[m] :
            CurCb = InputCb(m, i) /\ MuxIn[m][i] = CurChan /\ selected[m] = i
    BY <1>2, <1>5 DEF OfChan, SelectCb, SortCb
  <2>1. PICK i \in DOMAIN MuxIn[m] :
            CurCb = InputCb(m, i) /\ MuxIn[m][i] = CurChan /\ selected[m] = i
    BY <2>0
  <2>2. CurCb[2] = m /\ CurCb[3] = i
    BY <2>1 DEF InputCb
  <2>3. Ahead(MuxOut[m])
    BY <2>2, <1>3, <1>5 DEF AheadInv
  <2>4. /\ bay' = ChanSet(bay, MuxOut[m], ChanRead(bay, MuxIn[m][i]))
        /\ cbs' = cbs /\ selected' = selected
    BY <1>5, <2>2 DEF cb_input
  <2>5. 0 \notin DOMAIN MuxIn[m]
    <3>1. m \in Mux /\ MuxIn[m] \in Seq(Chan)
      BY <1>0, GraphAssumption DEF Wired
    <3> QED
      BY <3>1
  <2>6. /\ selected' = [selected EXCEPT ![m] = selected'[m]] /\ selected'[m] = i
        /\ selected'[m] \in {0} \cup DOMAIN MuxIn[m]
    BY <2>1, <2>4, <1>0 DEF CbsInv
  <2>7. ASSUME NEW e \in DOMAIN cbs, NEW k, InputCb(m, k) \in ToSet(cbs'[e])
        PROVE  k \in DOMAIN MuxIn[m] /\ e = MuxIn[m][k] /\ selected'[m] = k
    <3>1. OfChan(e, InputCb(m, k))
      BY <2>4, <2>7, <1>0 DEF CbsInv
    <3> QED
      BY <3>1, <2>4 DEF OfChan, InputCb, SelectCb, SortCb
  <2>8. KeepsAfter(cbs[CurChan], cbs'[CurChan], CurCb)
    BY <2>4 DEF KeepsAfter
  <2>9. CbLists(cbs') /\ DOMAIN cbs' = DOMAIN cbs
    BY <2>4, <1>1
  <2>10. selected'[m] # 0 => InputCb(m, selected'[m]) \in ToSet(cbs'[MuxIn[m][selected'[m]]])
    BY <2>1, <2>4, <2>6, <1>1
  <2>11. PICK v : v = ChanRead(bay, MuxIn[m][i])
    OBVIOUS
  <2>12. v = IF selected'[m] = 0 THEN MuxDef[m] ELSE ChanRead(bay, MuxIn[m][selected'[m]])
    BY <2>5, <2>6, <2>11
  <2>13. bay' = ChanSet(bay, MuxOut[m], v)
    BY <2>4, <2>11
  <2>14. \A e \in DOMAIN cbs : \A y : (\A k : y # InputCb(m, k)) =>
             (y \in ToSet(cbs'[e]) <=> y \in ToSet(cbs[e]))
    BY <2>4
  <2>15. (\E k \in DOMAIN MuxIn[m] : CurCb = InputCb(m, k)) /\ cbs' = cbs /\ selected' = selected
    BY <2>1, <2>4
  <2> QED
    BY <1>3, <2>3, <2>6, <2>7, <2>8, <2>9, <2>10, <2>12, <2>13, <2>14, <2>15, FlowWrite
<1> QED
  BY <1>4, <1>5 DEF RunMux

\* A step that changes no mux: neither what they read nor what they show, and their
\* callbacks stay pending.
LEMMA FlowKeep ==
  ASSUME NEW V, Sound(V), cbs' = cbs, selected' = selected, DOMAIN bay'.data = DOMAIN bay.data,
         \A m \in DOMAIN selected : \A e \in {MuxSel[m], MuxOut[m]} \cup ToSet(MuxIn[m]) :
             ChanRead(bay', e) = ChanRead(bay, e),
         \A e, y : Pending(e, y) /\ (\A i \in DOMAIN SortIn : y # SortCb(i)) => Pending(e, y)'
  PROVE  /\ CbsInv' /\ Wired(DOMAIN selected, DOMAIN bay.data)'
         /\ (\A m \in DOMAIN selected : Flows(m, V))' /\ Chained'
         /\ StaysLive
<1>0. /\ CbsInv /\ Wired(DOMAIN selected, DOMAIN bay.data) /\ Chained
      /\ \A m \in DOMAIN selected : Flows(m, V)
  BY DEF Sound
<1>1. CbsInv'
  BY <1>0 DEF CbsInv, OfChan
<1>2. Wired(DOMAIN selected, DOMAIN bay.data)'
  BY <1>0 DEF Wired
<1>3. \A m : Settled(m)' <=> Settled(m)
  BY DEF Settled, Enabled
<1>4. \A m : Pending(MuxSel[m], SelectCb(m)) => Pending(MuxSel[m], SelectCb(m))'
  <2> TAKE m
  <2>1. PICK e, y : e = MuxSel[m] /\ y = SelectCb(m)
    OBVIOUS
  <2>2. \A i \in DOMAIN SortIn : y # SortCb(i)
    BY <2>1, CbsDiffer
  <2> QED
    BY <2>1, <2>2
<1>5. ASSUME NEW m \in DOMAIN selected PROVE Flows(m, V)'
  <2>1. /\ ChanRead(bay', MuxSel[m]) = ChanRead(bay, MuxSel[m])
        /\ ChanRead(bay', MuxOut[m]) = ChanRead(bay, MuxOut[m])
        /\ \A i \in DOMAIN MuxIn[m] : ChanRead(bay', MuxIn[m][i]) = ChanRead(bay, MuxIn[m][i])
    BY DEF ToSet
  <2>2. Chosen(m, V) => Chosen(m, V)'
    BY <2>1 DEF Chosen
  <2>3. Picked(m)' = Picked(m)
    BY <2>1, <1>0 DEF Picked, CbsInv
  <2>4. ASSUME Pending(MuxIn[m][selected[m]], InputCb(m, selected[m]))
        PROVE  Pending(MuxIn[m][selected[m]], InputCb(m, selected[m]))'
    <3>1. PICK e, y : e = MuxIn[m][selected[m]] /\ y = InputCb(m, selected[m])
      OBVIOUS
    <3>2. \A i \in DOMAIN SortIn : y # SortCb(i)
      BY <3>1, CbsDiffer
    <3>3. Pending(e, y)'
      BY <3>1, <3>2, <2>4
    <3>4. e = MuxIn[m][selected'[m]] /\ y = InputCb(m, selected'[m])
      BY <3>1
    <3> QED
      BY <3>3, <3>4
  <2> QED
    BY <2>1, <2>2, <2>3, <2>4, <1>0, <1>3, <1>4 DEF Flows
<1>6. Chained'
  BY <1>0, <1>3, <1>4 DEF Chained
<1>7. StaysLive
  BY <1>3, <1>4 DEF Live, StaysLive
<1> QED
  BY <1>1, <1>2, <1>5, <1>6, <1>7

\* The callbacks of the sort module: the walk goes on, or it stays in the loop.
LEMMA SortAdvance ==
  ASSUME NEW V, IInv, Sound(V), Walking, CurCb[1] = "sort", cbs' = cbs, state' = state,
         BayInv(bay'), DOMAIN bay'.data = DOMAIN bay.data, bay.flag \subseteq bay'.flag,
         bay'.flag \subseteq DOMAIN bay.data, Len(bay.list) <= Len(bay'.list),
         \A i \in 1 .. Len(bay.list) : bay'.list[i] = bay.list[i],
         IF out' = 0 THEN Advance(CurChan, CurCb) ELSE UNCHANGED <<pos, cbi>>
  PROVE  /\ WalkInv'
         /\ \A e, y : Pending(e, y) /\ <<e, y>> # <<CurChan, CurCb>> => Pending(e, y)'
         /\ out' # 0 => \A e, y : Pending(e, y) => Pending(e, y)'
         /\ \E i \in DOMAIN SortIn : CurCb = SortCb(i) /\ CurChan = SortIn[i]
         /\ out' # 0 => Walking' /\ CurCb' = CurCb /\ CurChan' = CurChan
<1>0. /\ BayInv(bay) /\ CbsInv /\ WalkInv
  BY DEF Sound, IInv
<1>1. /\ pos \in 1 .. Len(bay.list) /\ Len(bay.list) \in Nat /\ Len(bay'.list) \in Nat
      /\ cbi \in DOMAIN cbs[CurChan] /\ CurChan \in DOMAIN cbs
      /\ CurCb \in ToSet(cbs[CurChan]) /\ CbLists(cbs) /\ bay'.flag \subseteq DOMAIN cbs'
      /\ bay.flag \subseteq DOMAIN cbs
  <2>1. pos \in DOMAIN bay.list /\ pos \in 1 .. Len(bay.list)
    BY <1>0 DEF Walking, WalkInv, BayInv, Listed
  <2>2. CurChan \in bay.flag
    BY <2>1, <1>0 DEF BayInv, Listed, CurChan
  <2>3. Len(bay.list) \in Nat /\ Len(bay'.list) \in Nat
    BY <1>0 DEF BayInv, Listed
  <2> QED
    BY <2>1, <2>2, <2>3, <1>0 DEF WalkInv, Walking, CurChan, CurCb, CbsInv, ToSet
<1>2. \E i \in DOMAIN SortIn : CurCb = SortCb(i) /\ CurChan = SortIn[i]
  <2>1. OfChan(CurChan, CurCb)
    BY <1>0, <1>1 DEF CbsInv
  <2> QED
    BY <2>1 DEF OfChan, SelectCb, InputCb
<1>3. CASE out' = 0
  <2>1. Advance(CurChan, CurCb) /\ KeepsAfter(cbs[CurChan], cbs'[CurChan], CurCb)
    BY <1>3 DEF KeepsAfter
  <2>2. Listed(bay) /\ Listed(bay')
    BY <1>0 DEF BayInv
  <2>3. /\ pos' \in pos .. Len(bay'.list) + 1
        /\ pos' <= Len(bay'.list) => cbi' \in DOMAIN cbs'[bay'.list[pos']]
        /\ \A e, y : Pending(e, y) /\ y \in ToSet(cbs'[e]) /\ <<e, y>> # <<CurChan, CurCb>>
                => Pending(e, y)'
    BY <2>1, <2>2, <1>1, AdvanceIs
  <2>4. \A e, y : Pending(e, y) => y \in ToSet(cbs'[e])
    BY DEF Pending, ToSet
  <2>5. WalkInv'
    BY <2>3, <1>1 DEF WalkInv
  <2> QED
    BY <2>3, <2>4, <2>5, <1>2, <1>3
<1>4. CASE out' # 0
  <2>1. pos' = pos /\ cbi' = cbi
    BY <1>4
  <2>2. WalkInv'
    BY <2>1, <1>0, <1>1 DEF WalkInv, CurChan
  <2>3. ASSUME NEW e, NEW y, Pending(e, y) PROVE Pending(e, y)'
    <3>1. PICK j \in pos .. Len(bay.list) : bay.list[j] = e /\
            \E k \in DOMAIN cbs[e] : cbs[e][k] = y /\ (j = pos => k >= cbi)
      BY <2>3 DEF Pending
    <3>2. j \in pos .. Len(bay'.list) /\ bay'.list[j] = e
      BY <3>1, <1>1
    <3> QED
      BY <3>1, <3>2, <2>1 DEF Pending
  <2>4. Walking' /\ CurCb' = CurCb /\ CurChan' = CurChan
    BY <2>1, <1>1 DEF Walking, CurCb, CurChan
  <2> QED
    BY <2>2, <2>3, <2>4, <1>2
<1> QED
  BY <1>3, <1>4

\* sort_cb_input() takes its input.
LEMMA FlowRunSort ==
  ASSUME NEW V, IInv, Sound(V), RunSort
  PROVE  FlowsOn(V)
<1>0. /\ BayInv(bay) /\ bay.ok /\ CbsInv /\ WalkInv /\ SortReads
      /\ Wired(DOMAIN selected, DOMAIN bay.data)
  BY DEF Sound, IInv
<1>1. /\ Walking /\ out = 0 /\ CurCb[1] = "sort" /\ sort_cb_input(CurCb[3])
      /\ cbs' = cbs /\ selected' = selected /\ state' = state /\ bay' = bay
      /\ IF out' = 0 THEN Advance(CurChan, CurCb) ELSE UNCHANGED <<pos, cbi>>
  BY DEF RunSort, sort_cb_input
<1>2. /\ WalkInv'
      /\ \A e, y : Pending(e, y) /\ <<e, y>> # <<CurChan, CurCb>> => Pending(e, y)'
      /\ out' # 0 => \A e, y : Pending(e, y) => Pending(e, y)'
      /\ \E i \in DOMAIN SortIn : CurCb = SortCb(i) /\ CurChan = SortIn[i]
      /\ out' # 0 => Walking' /\ CurCb' = CurCb /\ CurChan' = CurChan
  <2>1. Len(bay.list) \in Nat
    BY <1>0 DEF BayInv, Listed
  <2> QED
    BY <2>1, <1>0, <1>1, SortAdvance DEF WalkInv, CbsInv
<1>3. PICK i \in DOMAIN SortIn : CurCb = SortCb(i) /\ CurChan = SortIn[i]
  BY <1>2
<1>4. CurCb[3] = i
  BY <1>3 DEF SortCb
<1>5. /\ values' = [k \in DOMAIN SortIn |-> values'[k]]
      /\ values'[i] = Plain(ChanRead(bay, SortIn[i]))
      /\ \A k \in DOMAIN SortIn : k # i => values'[k] = values[k]
      /\ out' \in {0, 1}
  <2> DEFINE new == Plain(ChanRead(bay, SortIn[i]))
  <2>1. CASE new = values[i]
    BY <2>1, <1>0, <1>1, <1>4 DEF sort_cb_input, SortReads
  <2>2. CASE new # values[i]
    <3>1. values' = [values EXCEPT ![i] = new] /\ out' = 1
      BY <2>2, <1>1, <1>4 DEF sort_cb_input, Arr!SortInput
    <3> QED
      BY <3>1, <1>0 DEF SortReads
  <2> QED
    BY <2>1, <2>2
<1>6. SortReads'
  <2> SUFFICES ASSUME NEW k \in DOMAIN SortIn, k # i
               PROVE  \/ values'[k] = Plain(ChanRead(bay', SortIn[k]))
                      \/ Pending(SortIn[k], SortCb(k))'
    BY <1>1, <1>5 DEF SortReads
  <2>1. SortCb(k) # CurCb
    BY <1>3, CbsDiffer
  <2> QED
    BY <2>1, <1>0, <1>1, <1>2, <1>5 DEF SortReads
<1>7. Sorting'
  <2> SUFFICES ASSUME out' # 0 PROVE /\ Walking' /\ out' \in DOMAIN SortOut
               /\ CurCb' = SortCb(i) /\ values'[i] = Plain(ChanRead(bay', SortIn[i]))
    BY DEF Sorting
  <2>1. 1 \in DOMAIN SortOut
    BY GraphAssumption
  <2> QED
    BY <2>1, <1>1, <1>2, <1>3, <1>5
<1>8. \A e, y : Pending(e, y) /\ (\A k \in DOMAIN SortIn : y # SortCb(k)) => Pending(e, y)'
  BY <1>2, <1>3
<1>9. /\ CbsInv' /\ Wired(DOMAIN selected, DOMAIN bay.data)'
      /\ (\A m \in DOMAIN selected : Flows(m, V))' /\ Chained'
      /\ StaysLive
  BY <1>1, <1>8, FlowKeep
<1> QED
  BY <1>0, <1>1, <1>2, <1>6, <1>7, <1>9 DEF Sound, FlowsOn

\* ... and writes an output, that nobody reads.
LEMMA FlowWriteOutput ==
  ASSUME NEW V, IInv, Sound(V), WriteOutput
  PROVE  FlowsOn(V) /\ state' = state
<1>0. /\ BayInv(bay) /\ bay.ok /\ CbsInv /\ WalkInv /\ SortReads /\ Sorting
      /\ Wired(DOMAIN selected, DOMAIN bay.data)
  BY DEF Sound, IInv
<1>1. /\ Walking /\ out \in DOMAIN SortOut /\ out # 0
      /\ cbs' = cbs /\ selected' = selected /\ values' = values
      /\ out' = (IF out < Len(SortOut) THEN out + 1 ELSE 0)
      /\ IF out' = 0 THEN Advance(CurChan, CurCb) ELSE UNCHANGED <<pos, cbi>>
      /\ state' = IF bay'.ok THEN state ELSE "error"
  BY <1>0 DEF WriteOutput, Sorting, StopOnError
<1> DEFINE x == SortOut[out]
<1>2. /\ x \in DOMAIN bay.data /\ x \notin Stack /\ x \in DirtyWrite \cap AllowDup
      /\ x \notin ToSet(SortIn)
      /\ \A m \in DOMAIN selected : x \notin {MuxSel[m], MuxOut[m]} \cup ToSet(MuxIn[m])
  <2>1. x \in ToSet(SortOut) /\ x \notin Stack
    BY <1>1, GraphAssumption DEF ToSet
  <2> QED
    BY <2>1, <1>0 DEF Wired
<1>3. /\ BayInv(bay') /\ bay'.ok /\ DOMAIN bay'.data = DOMAIN bay.data
      /\ bay.flag \subseteq bay'.flag /\ bay'.flag \subseteq DOMAIN bay.data
      /\ \A e \in DOMAIN bay.data : e # x => ChanRead(bay', e) = ChanRead(bay, e)
      /\ Len(bay.list) \in Nat /\ Len(bay.list) <= Len(bay'.list)
      /\ \A i \in 1 .. Len(bay.list) : bay'.list[i] = bay.list[i]
  <2>1. CASE bay' = bay
    <3>1. Len(bay.list) \in Nat
      BY <1>0 DEF BayInv, Listed
    <3> QED
      BY <2>1, <3>1, <1>0 DEF WalkInv, CbsInv
  <2>2. CASE bay' = ChanSet(bay, x, sorted[out])
    <3>1. /\ BayInv(bay') /\ bay'.ok /\ bay'.flag = bay.flag \cup {x}
          /\ DOMAIN bay'.data = DOMAIN bay.data
          /\ \A e \in DOMAIN bay.data : e # x => ChanRead(bay', e) = ChanRead(bay, e)
          /\ Len(bay.list) \in Nat /\ Len(bay.list) <= Len(bay'.list)
          /\ \A i \in 1 .. Len(bay.list) : bay'.list[i] = bay.list[i]
      BY <2>2, <1>0, <1>2, SetOutput
    <3> QED
      BY <3>1, <1>0, <1>2 DEF WalkInv, CbsInv
  <2> QED
    BY <2>1, <2>2 DEF WriteOutput
<1>4. PICK i \in DOMAIN SortIn : CurCb = SortCb(i) /\ values[i] = Plain(ChanRead(bay, SortIn[i]))
  BY <1>0, <1>1 DEF Sorting
<1>5. /\ WalkInv'
      /\ \A e, y : Pending(e, y) /\ <<e, y>> # <<CurChan, CurCb>> => Pending(e, y)'
      /\ out' # 0 => Walking' /\ CurCb' = CurCb /\ CurChan' = CurChan
  <2>1. CurCb[1] = "sort"
    BY <1>4 DEF SortCb
  <2> QED
    BY <2>1, <1>1, <1>3, SortAdvance
<1>6. \A k \in DOMAIN SortIn : ChanRead(bay', SortIn[k]) = ChanRead(bay, SortIn[k])
  <2> TAKE k \in DOMAIN SortIn
  <2>1. SortIn[k] \in ToSet(SortIn)
    BY DEF ToSet
  <2>2. SortIn[k] \in DOMAIN bay.data /\ SortIn[k] # x
    BY <2>1, <1>0, <1>2 DEF Wired
  <2> QED
    BY <2>2, <1>3
<1>7. SortReads'
  <2> SUFFICES ASSUME NEW k \in DOMAIN SortIn, k # i
               PROVE  \/ values'[k] = Plain(ChanRead(bay', SortIn[k]))
                      \/ Pending(SortIn[k], SortCb(k))'
    BY <1>0, <1>1, <1>4, <1>6 DEF SortReads
  <2>1. SortCb(k) # CurCb
    BY <1>4, CbsDiffer
  <2> QED
    BY <2>1, <1>0, <1>1, <1>5, <1>6 DEF SortReads
<1>8. Sorting'
  <2> SUFFICES ASSUME out' # 0 PROVE /\ Walking' /\ out' \in DOMAIN SortOut
               /\ CurCb' = SortCb(i) /\ values'[i] = Plain(ChanRead(bay', SortIn[i]))
    BY DEF Sorting
  <2>1. out' \in DOMAIN SortOut
    BY <1>1, GraphAssumption
  <2> QED
    BY <2>1, <1>1, <1>4, <1>5, <1>6
<1>9. \A e, y : Pending(e, y) /\ (\A k \in DOMAIN SortIn : y # SortCb(k)) => Pending(e, y)'
  BY <1>4, <1>5
<1>10. \A m \in DOMAIN selected : \A e \in {MuxSel[m], MuxOut[m]} \cup ToSet(MuxIn[m]) :
             ChanRead(bay', e) = ChanRead(bay, e)
  <2> TAKE m \in DOMAIN selected
  <2> TAKE e \in {MuxSel[m], MuxOut[m]} \cup ToSet(MuxIn[m])
  <2>1. e \in DOMAIN bay.data /\ e # x
    BY <1>0, <1>2 DEF Wired
  <2> QED
    BY <2>1, <1>3
<1>11. /\ CbsInv' /\ Wired(DOMAIN selected, DOMAIN bay.data)'
      /\ (\A m \in DOMAIN selected : Flows(m, V))' /\ Chained'
      /\ StaysLive
  BY <1>1, <1>3, <1>9, <1>10, FlowKeep
<1> QED
  BY <1>1, <1>3, <1>5, <1>7, <1>8, <1>11 DEF Sound, FlowsOn

\* The end of a propagation: nothing is pending, and the flush changes no value.
LEMMA FlowEmit ==
  ASSUME NEW V, IInv, Sound(V), EmitAndFlush, state' # "error"
  PROVE  FlowsOn(V)
<1>0. /\ BayInv(bay) /\ bay.ok /\ CbsInv /\ WalkInv /\ SortReads /\ Sorting
      /\ Wired(DOMAIN selected, DOMAIN bay.data)
  BY DEF Sound, IInv
<1>1. /\ bay' = Flush(bay) /\ state' = "ready" /\ pos > Len(bay.list) /\ pos' = 1
      /\ cbs' = cbs /\ selected' = selected /\ values' = values /\ out' = out
  BY DEF EmitAndFlush, graphVars
<1>2. /\ bay'.data = bay.data /\ bay'.flag = {} /\ bay'.ok
  <2>1. ToSet(bay.list) = bay.flag
    BY <1>0 DEF ToSet, BayInv, Listed
  <2> QED
    BY <2>1, <1>0, <1>1 DEF Flush, BayInv, IsBay
<1>3. \A e : ChanRead(bay', e) = ChanRead(bay, e)
  BY <1>2 DEF ChanRead
<1>4. \A e, y : ~Pending(e, y)
  <2>1. pos \in Nat /\ Len(bay.list) \in Nat
    BY <1>0 DEF WalkInv, BayInv, Listed, EmitAndFlush
  <2> QED
    BY <2>1, <1>1 DEF Pending
<1>5. out = 0
  <2>1. ~Walking
    <3>1. pos \in Nat /\ Len(bay.list) \in Nat
      BY <1>0 DEF WalkInv, BayInv, Listed, EmitAndFlush
    <3> QED
      BY <3>1, <1>1 DEF Walking
  <2> QED
    BY <2>1, <1>0 DEF Sorting
<1>6. SortReads' /\ Sorting' /\ WalkInv'
  BY <1>0, <1>1, <1>2, <1>3, <1>4, <1>5 DEF SortReads, Sorting, WalkInv
<1>7. /\ CbsInv' /\ Wired(DOMAIN selected, DOMAIN bay.data)'
      /\ (\A m \in DOMAIN selected : Flows(m, V))' /\ Chained'
      /\ StaysLive
  BY <1>1, <1>2, <1>3, <1>4, FlowKeep
<1> QED
  BY <1>2, <1>6, <1>7 DEF Sound, FlowsOn

\* The callback y of the channel e is to run when the walk begins at p.
ToRun(b, cs, p, e, y) ==
    \E j \in p .. Len(b.list) : b.list[j] = e /\
        \E k \in DOMAIN cs[e] : cs[e][k] = y /\ (j = p => k >= 1)

\* The walk begins: the callbacks of all the dirty channels are pending.
LEMMA WalkBegins ==
  ASSUME NEW b, Listed(b), NEW cs, CbLists(cs), b.flag \subseteq DOMAIN cs,
         NEW p, p = NextChan(b.list, cs, 1)
  PROVE  /\ p \in 1 .. Len(b.list) + 1
         /\ p <= Len(b.list) => 1 \in DOMAIN cs[b.list[p]]
         /\ \A e \in b.flag : \A y \in ToSet(cs[e]) : ToRun(b, cs, p, e, y)
<1>1. b.list \in Seq(DOMAIN cs) /\ Len(b.list) \in Nat /\ DOMAIN b.list = 1 .. Len(b.list)
  BY DEF Listed
<1>2. /\ p \in 1 .. Len(b.list) + 1
      /\ p <= Len(b.list) => cs[b.list[p]] # <<>>
      /\ \A j \in 1 .. Len(b.list) : cs[b.list[j]] # <<>> => p <= j
  BY <1>1, NextChanIs
<1>3. p <= Len(b.list) => 1 \in DOMAIN cs[b.list[p]]
  <2> SUFFICES ASSUME p <= Len(b.list) PROVE 1 \in DOMAIN cs[b.list[p]]
    OBVIOUS
  <2>1. CbList(cs[b.list[p]])
    BY <1>1, <1>2 DEF CbLists
  <2> QED
    BY <2>1, <1>2 DEF CbList
<1>4. ASSUME NEW e \in b.flag, NEW y \in ToSet(cs[e])
      PROVE  ToRun(b, cs, p, e, y)
  <2>1. PICK j \in 1 .. Len(b.list) : b.list[j] = e
    BY <1>1 DEF Listed
  <2>2. PICK k \in DOMAIN cs[e] : cs[e][k] = y
    BY DEF ToSet
  <2>3. k \in Nat /\ k >= 1 /\ cs[e] # <<>>
    BY <2>2 DEF CbLists, CbList
  <2>4. j \in p .. Len(b.list)
    BY <2>1, <2>3, <1>1, <1>2
  <2> QED
    BY <2>1, <2>2, <2>3, <2>4 DEF ToRun
<1> QED
  BY <1>2, <1>3, <1>4

\* An event handler wrote some channels, none of them the output of a mux or of the
\* sort module.
LEMMA FlowHandled ==
  ASSUME NEW V, IInv, Sound(V), NEW b, BayInv(b), b.ok, Handled(b),
         DOMAIN b.data = DOMAIN bay.data, b.last = bay.last, b.flag \subseteq DOMAIN bay.data,
         \A m \in DOMAIN selected : MuxOut[m] \notin b.flag
  PROVE  /\ Sound(V)'
         /\ \A e \in b.flag : \A y \in ToSet(cbs[e]) : Pending(e, y)'
         /\ \A n \in DOMAIN selected : Live(n) \/ MuxSel[n] \in b.flag => Live(n)'
         /\ \A e \in DOMAIN bay.data : e \notin b.flag => ChanRead(b, e) = ChanRead(bay, e)
<1>0. /\ BayInv(bay) /\ CbsInv /\ WalkInv /\ SortReads /\ Sorting /\ Chained
      /\ Wired(DOMAIN selected, DOMAIN bay.data)
      /\ \A m \in DOMAIN selected : Flows(m, V)
  BY DEF Sound, IInv
<1>1. /\ state = "ready" /\ bay' = b /\ state' = "propagating"
      /\ pos' = NextChan(b.list, cbs, 1) /\ cbi' = 1
      /\ cbs' = cbs /\ selected' = selected /\ values' = values /\ out' = out
      /\ bay.flag = {}
  BY DEF Handled, graphVars, IInv
<1>2. /\ \A e, y : ~Pending(e, y)
      /\ out = 0
  <2>1. bay.list = <<>>
    BY <1>0, <1>1 DEF BayInv, Listed
  <2>2. \A e, y : ~Pending(e, y)
    BY <2>1, <1>0 DEF Pending, WalkInv
  <2> QED
    BY <2>2, <1>0, <1>1 DEF Sorting, Walking
<1>3. \A e \in DOMAIN bay.data : e \notin b.flag => ChanRead(b, e) = ChanRead(bay, e)
  BY <1>0, <1>1 DEF BayInv, Unchanged
<1>4. /\ pos' \in 1 .. Len(b.list) + 1
      /\ pos' <= Len(b.list) => cbi' \in DOMAIN cbs'[b.list[pos']]
      /\ \A e \in b.flag : \A y \in ToSet(cbs[e]) : Pending(e, y)'
  <2>1. /\ pos' \in 1 .. Len(b.list) + 1
        /\ pos' <= Len(b.list) => 1 \in DOMAIN cbs[b.list[pos']]
        /\ \A e \in b.flag : \A y \in ToSet(cbs[e]) : ToRun(b, cbs, pos', e, y)
    <3>1. Listed(b) /\ CbLists(cbs) /\ b.flag \subseteq DOMAIN cbs
      BY <1>0 DEF BayInv, CbsInv
    <3> QED
      BY <3>1, <1>1, WalkBegins
  <2>2. \A e \in b.flag : \A y \in ToSet(cbs[e]) : Pending(e, y)'
    <3> SUFFICES ASSUME NEW e \in b.flag, NEW y \in ToSet(cbs[e]) PROVE Pending(e, y)'
      OBVIOUS
    <3>1. ToRun(b, cbs, pos', e, y)
      BY <2>1
    <3> QED
      BY <3>1, <1>1 DEF Pending, ToRun
  <2> QED
    BY <2>1, <2>2, <1>1
<1>5. CbsInv' /\ WalkInv' /\ Wired(DOMAIN selected, DOMAIN bay.data)'
  <2>1. CbsInv'
    BY <1>0, <1>1 DEF CbsInv, OfChan
  <2>2. WalkInv'
    BY <1>0, <1>1, <1>4 DEF WalkInv, CbsInv
  <2>3. Wired(DOMAIN selected, DOMAIN bay.data)'
    BY <1>0, <1>1 DEF Wired
  <2> QED
    BY <2>1, <2>2, <2>3
<1>6. \A m : Settled(m)' <=> Settled(m)
  BY <1>1 DEF Settled, Enabled
<1>7. Chained'
  BY <1>0, <1>1, <1>2, <1>6 DEF Chained
<1>8. SortReads' /\ Sorting'
  <2>1. Sorting'
    BY <1>1, <1>2 DEF Sorting
  <2>2. ASSUME NEW i \in DOMAIN SortIn
        PROVE  \/ values'[i] = Plain(ChanRead(bay', SortIn[i]))
               \/ Pending(SortIn[i], SortCb(i))'
    <3>1. SortCb(i) \in ToSet(cbs[SortIn[i]]) /\ SortIn[i] \in DOMAIN bay.data
      BY <1>0 DEF CbsInv, Wired, ToSet
    <3>2. CASE SortIn[i] \in b.flag
      <4>1. PICK e, y : e = SortIn[i] /\ y = SortCb(i)
        OBVIOUS
      <4> QED
        BY <3>1, <3>2, <4>1, <1>4
    <3>3. CASE SortIn[i] \notin b.flag
      BY <3>1, <3>3, <1>0, <1>1, <1>2, <1>3 DEF SortReads
    <3> QED
      BY <3>2, <3>3
  <2> QED
    BY <2>1, <2>2, <1>0, <1>1 DEF SortReads
<1>9. ASSUME NEW m \in DOMAIN selected PROVE Flows(m, V)'
  <2>0. /\ MuxSel[m] \in DOMAIN bay.data /\ MuxOut[m] \in DOMAIN bay.data
        /\ \A i \in DOMAIN MuxIn[m] : MuxIn[m][i] \in DOMAIN bay.data
        /\ SelectCb(m) \in ToSet(cbs[MuxSel[m]])
        /\ ChanRead(bay', MuxOut[m]) = ChanRead(bay, MuxOut[m])
    BY <1>0, <1>1, <1>3 DEF Wired, ToSet, CbsInv
  <2>1. CASE MuxSel[m] \in b.flag
    <3>1. PICK e, y : e = MuxSel[m] /\ y = SelectCb(m)
      OBVIOUS
    <3>2. Pending(MuxSel[m], SelectCb(m))'
      BY <2>0, <2>1, <3>1, <1>4
    <3> QED
      BY <3>2 DEF Flows
  <2>2. CASE MuxSel[m] \notin b.flag
    <3>1. ChanRead(bay', MuxSel[m]) = ChanRead(bay, MuxSel[m])
      BY <2>0, <2>2, <1>1, <1>3
    <3>2. CASE ~Settled(m)
      BY <3>1, <3>2, <2>0, <1>0, <1>2, <1>6 DEF Flows
    <3>3. CASE Settled(m)
      <4>1. Chosen(m, V) /\ ChanRead(bay, MuxOut[m]) = Picked(m)
        BY <3>3, <1>0, <1>2 DEF Flows
      <4>2. Chosen(m, V)' /\ Settled(m)'
        BY <4>1, <3>1, <3>3, <1>1, <1>6 DEF Chosen
      <4>3. CASE selected[m] = 0
        BY <4>1, <4>2, <4>3, <2>0, <1>1 DEF Flows, Picked
      <4>4. CASE selected[m] # 0 /\ MuxIn[m][selected[m]] \notin b.flag
        <5>1. ChanRead(bay', MuxOut[m]) = Picked(m)'
          BY <4>1, <4>4, <2>0, <1>0, <1>1, <1>3 DEF Picked, CbsInv
        <5> QED
          BY <5>1, <4>2 DEF Flows
      <4>5. CASE selected[m] # 0 /\ MuxIn[m][selected[m]] \in b.flag
        <5>1. PICK e, y : e = MuxIn[m][selected[m]] /\ y = InputCb(m, selected[m])
          OBVIOUS
        <5>2. y \in ToSet(cbs[e]) /\ e \in b.flag
          BY <5>1, <4>5, <3>3 DEF Settled, Enabled
        <5>3. Pending(e, y)'
          BY <5>2, <1>4
        <5>4. e = MuxIn[m][selected'[m]] /\ y = InputCb(m, selected'[m]) /\ selected'[m] # 0
          BY <5>1, <4>5, <1>1
        <5>5. Pending(MuxIn[m][selected[m]], InputCb(m, selected[m]))'
          BY <5>3, <5>4
        <5> QED
          BY <5>4, <5>5, <4>2 DEF Flows
      <4> QED
        BY <4>3, <4>4, <4>5
    <3> QED
      BY <3>2, <3>3
  <2> QED
    BY <2>1, <2>2
<1>10. \A m \in DOMAIN selected' : Flows(m, V)'
  BY <1>1, <1>9
<1>11. ASSUME NEW n \in DOMAIN selected, Live(n) \/ MuxSel[n] \in b.flag PROVE Live(n)'
  <2>1. CASE Live(n)
    BY <2>1, <1>2, <1>6 DEF Live
  <2>2. CASE MuxSel[n] \in b.flag
    <3>1. PICK e, y : e = MuxSel[n] /\ y = SelectCb(n)
      OBVIOUS
    <3>2. y \in ToSet(cbs[e])
      BY <3>1, <1>0 DEF CbsInv
    <3> QED
      BY <2>2, <3>1, <3>2, <1>4 DEF Live
  <2> QED
    BY <1>11, <2>1, <2>2
<1> QED
  BY <1>1, <1>3, <1>4, <1>5, <1>7, <1>8, <1>10, <1>11 DEF Sound

\* The start: the models have connected the select callbacks and those of the sort
\* module, and have written nothing that a mux selects by or shows.
LEMMA FlowInit ==
  ASSUME NEW V, NEW b, NEW cb, BayInit(b, cb), BayInv(b), b.ok, CbLists(cb),
         DOMAIN cb = DOMAIN b.data, b.flag \subseteq DOMAIN b.data,
         Wired(DOMAIN selected, DOMAIN b.data),
         \A c \in DOMAIN cb : \A y \in ToSet(cb[c]) :
             \/ \E m \in DOMAIN selected : y = SelectCb(m) /\ MuxSel[m] = c
             \/ \E i \in DOMAIN SortIn : y = SortCb(i) /\ SortIn[i] = c,
         \A m \in DOMAIN selected : /\ SelectCb(m) \in ToSet(cb[MuxSel[m]])
                                    /\ ChanRead(b, MuxSel[m]) = Null
                                    /\ ChanRead(b, MuxOut[m]) = Null,
         \A i \in DOMAIN SortIn : /\ SortCb(i) \in ToSet(cb[SortIn[i]])
                                  /\ ChanRead(b, SortIn[i]) = Null
  PROVE  Sound(V) /\ \A m \in DOMAIN selected : ~Settled(m)
<1>1. /\ bay = b /\ cbs = cb /\ out = 0 /\ state = "propagating"
      /\ pos = NextChan(b.list, cb, 1) /\ cbi = 1
      /\ values = [i \in 1 .. Len(SortIn) |-> 0]
      /\ selected = [m \in DOMAIN selected |-> 1]
  BY DEF BayInit, Arr!SortInit
<1>2. DOMAIN SortIn = 1 .. Len(SortIn)
  BY GraphAssumption
<1>3. \A m \in DOMAIN selected : m \in Mux /\ 1 \in DOMAIN MuxIn[m] /\ 0 \notin DOMAIN MuxIn[m]
  <2> TAKE m \in DOMAIN selected
  <2>1. m \in Mux /\ MuxIn[m] \in Seq(Chan) \ {<<>>}
    BY GraphAssumption DEF Wired
  <2> QED
    BY <2>1
<1>4. CbsInv
  <2>1. \A c \in DOMAIN cbs : \A y \in ToSet(cbs[c]) : OfChan(c, y)
    BY <1>1 DEF OfChan
  <2>2. \A m \in DOMAIN selected : selected[m] \in {0} \cup DOMAIN MuxIn[m]
    BY <1>1, <1>3
  <2> QED
    BY <2>1, <2>2, <1>1 DEF CbsInv
<1>5. WalkInv
  BY <1>1, WalkBegins DEF WalkInv, BayInv
<1>6. ASSUME NEW m \in DOMAIN selected PROVE ~Settled(m)
  <2>1. selected[m] = 1
    BY <1>1
  <2> SUFFICES ASSUME InputCb(m, 1) \in ToSet(cbs[MuxIn[m][1]]) PROVE FALSE
    BY <2>1 DEF Settled, Enabled
  <2>2. MuxIn[m][1] \in DOMAIN cb
    BY <1>3 DEF Wired, ToSet
  <2> QED
    BY <2>2, <1>1 DEF SelectCb, InputCb, SortCb
<1>7. \A m \in DOMAIN selected : Flows(m, V)
  BY <1>1, <1>6 DEF Flows
<1>8. Chained /\ SortReads /\ Sorting
  BY <1>1, <1>2, <1>6 DEF Chained, SortReads, Sorting, Plain
<1> QED
  BY <1>1, <1>4, <1>5, <1>6, <1>7, <1>8 DEF Sound

\* Between events nothing is pending: each mux shows what it selected, the sort
\* module has seen its inputs.
LEMMA SoundReady ==
  ASSUME NEW V, IInv, Sound(V), state = "ready"
  PROVE  /\ MuxFollows /\ out = 0
         /\ \A m \in DOMAIN selected : Settled(m) => Chosen(m, V)
         /\ \A m \in DOMAIN selected : ~Settled(m) =>
                ChanRead(bay, MuxSel[m]) = Null /\ ChanRead(bay, MuxOut[m]) = Null
         /\ \A i \in DOMAIN SortIn : values[i] = Plain(ChanRead(bay, SortIn[i]))
         /\ \A e, y : ~Pending(e, y)
<1>1. bay.list = <<>>
  BY DEF IInv, BayInv, Listed
<1>2. \A e, y : ~Pending(e, y)
  BY <1>1 DEF Pending, WalkInv, Sound
<1> QED
  BY <1>2 DEF Sound, Flows, MuxFollows, Picked, SortReads, Sorting, Walking
-----------------------------------------------------------------------------
(* The operations of a handler.                                            *)

\* r is b after the channel c got the data d, or nothing changed.
Written(b, r, c, d) ==
    /\ b.ok /\ r.ok /\ r.last = b.last /\ DOMAIN r.data = DOMAIN b.data
    /\ b.flag \subseteq r.flag /\ r.flag \subseteq b.flag \cup {c}
    /\ \A e \in DOMAIN b.data : e # c => r.data[e] = b.data[e]
    /\ r.data[c] = b.data[c] \/ r.data[c] = d
    /\ c \notin r.flag => r.data[c] = b.data[c]

\* A channel that is queued.
LEMMA SetDirtyIs ==
  ASSUME NEW b, BayInv(b), b.ok, NEW c \in DOMAIN b.data, NEW d
  PROVE  LET r == SetDirty([b EXCEPT !.data[c] = d], c)
         IN  Written(b, r, c, d) /\ c \in r.flag /\ r.data[c] = d
<1> DEFINE b1 == [b EXCEPT !.data[c] = d]
           r == SetDirty(b1, c)
<1>0. IsBay(b)
  BY DEF BayInv
<1>1. /\ b1.ok = b.ok /\ b1.last = b.last /\ b1.flag = b.flag /\ b1.list = b.list
      /\ b1.data = [b.data EXCEPT ![c] = d]
      /\ b1 \in [data : {b1.data}, last : {b1.last}, flag : {b1.flag}, list : {b1.list}, ok : {b1.ok}]
  BY <1>0 DEF IsBay
<1>2. /\ b1.data[c] = d /\ DOMAIN b1.data = DOMAIN b.data
      /\ \A e \in DOMAIN b.data : e # c => b1.data[e] = b.data[e]
  BY <1>0, <1>1 DEF IsBay
<1> HIDE DEF b1
<1>3. /\ r.ok = b1.ok /\ r.last = b1.last /\ r.data = b1.data /\ r.flag = b1.flag \cup {c}
  BY <1>1 DEF SetDirty
<1> HIDE DEF r
<1>4. Written(b, r, c, d) /\ c \in r.flag /\ r.data[c] = d
  BY <1>1, <1>2, <1>3 DEF Written
<1> QED
  BY <1>4 DEF r, b1

\* chan_set(), chan_push() and chan_pop() when they do not fail.
LEMMA OpWrites ==
  ASSUME NEW b, BayInv(b), NEW c \in DOMAIN b.data, NEW v
  PROVE  /\ ChanSet(b, c, v).ok =>
                /\ Written(b, ChanSet(b, c, v), c, <<v>>)
                /\ v # b.last[c] => c \in ChanSet(b, c, v).flag /\ ChanSet(b, c, v).data[c] = <<v>>
                /\ c \in IgnoreDup \/ (c \in ChanSet(b, c, v).flag /\ ChanSet(b, c, v).data[c] = <<v>>)
         /\ ChanPush(b, c, v).ok =>
                /\ Written(b, ChanPush(b, c, v), c, Append(b.data[c], v))
                /\ c \in IgnoreDup \/ (/\ c \in ChanPush(b, c, v).flag
                                       /\ ChanPush(b, c, v).data[c] = Append(b.data[c], v))
         /\ ChanPop(b, c, v).ok =>
                /\ Written(b, ChanPop(b, c, v), c, Front(b.data[c])) /\ b.data[c] # <<>>
                /\ c \in ChanPop(b, c, v).flag /\ ChanPop(b, c, v).data[c] = Front(b.data[c])
<1>1. Fail(b).ok = FALSE
  BY DEF Fail, BayInv, IsBay
<1>2. b.ok => Written(b, b, c, <<v>>) /\ Written(b, b, c, Append(b.data[c], v))
  BY DEF Written
<1>3. ASSUME ChanSet(b, c, v).ok
      PROVE  /\ Written(b, ChanSet(b, c, v), c, <<v>>)
             /\ v # b.last[c] => c \in ChanSet(b, c, v).flag /\ ChanSet(b, c, v).data[c] = <<v>>
             /\ c \in IgnoreDup \/ (c \in ChanSet(b, c, v).flag /\ ChanSet(b, c, v).data[c] = <<v>>)
  <2>1. \/ ChanSet(b, c, v) = b /\ b.ok /\ c \in IgnoreDup /\ v = b.last[c]
        \/ b.ok /\ ChanSet(b, c, v) = SetDirty([b EXCEPT !.data[c] = <<v>>], c)
    <3>1. b.ok
      BY <1>3 DEF ChanSet
    <3> QED
      BY <1>1, <1>3, <3>1 DEF ChanSet, IsDup
  <2>2. CASE ChanSet(b, c, v) = b /\ b.ok /\ c \in IgnoreDup /\ v = b.last[c]
    BY <2>2, <1>2
  <2>3. CASE b.ok /\ ChanSet(b, c, v) = SetDirty([b EXCEPT !.data[c] = <<v>>], c)
    <3>0. PICK d : d = <<v>>
      OBVIOUS
    <3>1. PICK r : r = SetDirty([b EXCEPT !.data[c] = d], c)
      OBVIOUS
    <3>00. b.ok
      BY <2>3
    <3>2. Written(b, r, c, d) /\ c \in r.flag /\ r.data[c] = d
      BY <3>00, <3>1, SetDirtyIs
    <3> QED
      BY <2>3, <3>0, <3>1, <3>2
  <2> QED
    BY <2>1, <2>2, <2>3
<1>4. ASSUME ChanPush(b, c, v).ok
      PROVE  /\ Written(b, ChanPush(b, c, v), c, Append(b.data[c], v))
             /\ c \in IgnoreDup \/ (/\ c \in ChanPush(b, c, v).flag
                                    /\ ChanPush(b, c, v).data[c] = Append(b.data[c], v))
  <2>0. PICK d : d = Append(b.data[c], v)
    OBVIOUS
  <2>00. [b EXCEPT !.data[c] = Append(@, v)] = [b EXCEPT !.data[c] = d]
    BY <2>0
  <2>1. \/ ChanPush(b, c, v) = b /\ b.ok /\ c \in IgnoreDup
        \/ b.ok /\ ChanPush(b, c, v) = SetDirty([b EXCEPT !.data[c] = d], c)
    <3>1. b.ok
      BY <1>4 DEF ChanPush
    <3> QED
      BY <1>1, <1>4, <3>1, <2>00 DEF ChanPush
  <2>2. CASE ChanPush(b, c, v) = b /\ b.ok /\ c \in IgnoreDup
    BY <2>2, <1>2
  <2>3. CASE b.ok /\ ChanPush(b, c, v) = SetDirty([b EXCEPT !.data[c] = d], c)
    <3>1. PICK r : r = SetDirty([b EXCEPT !.data[c] = d], c)
      OBVIOUS
    <3>2. Written(b, r, c, d) /\ c \in r.flag /\ r.data[c] = d
      BY <2>3, <3>1, SetDirtyIs
    <3> QED
      BY <2>0, <2>3, <3>1, <3>2
  <2> QED
    BY <2>1, <2>2, <2>3
<1>5. ASSUME ChanPop(b, c, v).ok
      PROVE  /\ Written(b, ChanPop(b, c, v), c, Front(b.data[c])) /\ b.data[c] # <<>>
             /\ c \in ChanPop(b, c, v).flag /\ ChanPop(b, c, v).data[c] = Front(b.data[c])
  <2>0. PICK d : d = Front(b.data[c])
    OBVIOUS
  <2>00. [b EXCEPT !.data[c] = Front(@)] = [b EXCEPT !.data[c] = d]
    BY <2>0
  <2>1. b.ok /\ b.data[c] # <<>> /\ ChanPop(b, c, v) = SetDirty([b EXCEPT !.data[c] = d], c)
    <3>1. b.ok
      BY <1>5 DEF ChanPop
    <3> QED
      BY <1>1, <1>5, <3>1, <2>00 DEF ChanPop
  <2>2. PICK r : r = SetDirty([b EXCEPT !.data[c] = d], c)
    OBVIOUS
  <2>3. Written(b, r, c, d) /\ c \in r.flag /\ r.data[c] = d
    BY <2>1, <2>2, SetDirtyIs
  <2> QED
    BY <2>0, <2>1, <2>2, <2>3
<1> QED
  BY <1>3, <1>4, <1>5
-----------------------------------------------------------------------------
(* The sort module keeps its arrays in order.                              *)

\* The first n elements of s are in increasing order.
InOrder(s, n) == \A i, j \in 1 .. n : i < j => s[i] <= s[j]

\* The first n elements of s are those of vs.
Permuted(s, vs, n) ==
    \E f \in Bijection(1 .. n, 1 .. n) : \A i \in 1 .. n : s[i] = vs[f[i]]

\* ... in increasing order.
Arranged(s, vs, n) ==
    /\ s = [i \in 1 .. n |-> s[i]] /\ InOrder(s, n)
    /\ Permuted(s, vs, n)

\* A permutation of 1 .. n.
LEMMA Permutes ==
  ASSUME NEW n \in Nat, NEW f
  PROVE  f \in Bijection(1 .. n, 1 .. n) <=>
            /\ f \in [1 .. n -> 1 .. n]
            /\ \A i, j \in 1 .. n : f[i] = f[j] => i = j
            /\ \A k \in 1 .. n : \E i \in 1 .. n : f[i] = k
  BY DEF Bijection, Injection, Surjection, IsInjective

\* The greatest element of a set of naturals up to n.
LEMMA GreatestNat ==
  ASSUME NEW n \in Nat, NEW S \in SUBSET (0 .. n), S # {}
  PROVE  Max(S) \in S /\ \A x \in S : x <= Max(S)
<1> DEFINE T == {n - x : x \in S}
<1>0. \A x \in S : x \in Nat /\ x <= n /\ n - x \in T /\ n - x \in Nat
  OBVIOUS
<1>1. T \in SUBSET Nat /\ T # {}
  BY <1>0
<1> HIDE DEF T
<1>2. Min(T) \in T /\ \A y \in T : Min(T) <= y
  BY <1>1, LeastNat
<1>3. PICK m \in S : Min(T) = n - m
  BY <1>2 DEF T
<1>4. \A x \in S : m >= x
  <2> TAKE x \in S
  <2>1. n - m <= n - x
    BY <1>0, <1>2, <1>3
  <2> QED
    BY <2>1, <1>0
<1> QED
  BY <1>4 DEF Max

\* Two elements of a permutation change places.
LEMMA SwapPermutes ==
  ASSUME NEW n \in Nat, NEW f \in Bijection(1 .. n, 1 .. n), NEW a \in 1 .. n, NEW b \in 1 .. n
  PROVE  LET g == [i \in 1 .. n |-> IF i = a THEN f[b] ELSE IF i = b THEN f[a] ELSE f[i]]
         IN  g \in Bijection(1 .. n, 1 .. n)
<1> DEFINE g == [i \in 1 .. n |-> IF i = a THEN f[b] ELSE IF i = b THEN f[a] ELSE f[i]]
<1>0. /\ f \in [1 .. n -> 1 .. n]
      /\ \A i, j \in 1 .. n : f[i] = f[j] => i = j
      /\ \A k \in 1 .. n : \E i \in 1 .. n : f[i] = k
  BY Permutes
<1>1. g \in [1 .. n -> 1 .. n]
  BY <1>0
<1>2. \A i, j \in 1 .. n : g[i] = g[j] => i = j
  BY <1>0
<1>3. ASSUME NEW k \in 1 .. n PROVE \E i \in 1 .. n : g[i] = k
  <2>1. PICK j \in 1 .. n : f[j] = k
    BY <1>0
  <2>2. CASE j = a
    <3>1. g[b] = k
      BY <2>1, <2>2
    <3> QED
      BY <3>1
  <2>3. CASE j = b
    <3>1. g[a] = k
      BY <2>1, <2>3
    <3> QED
      BY <3>1
  <2>4. CASE j # a /\ j # b
    <3>1. g[j] = k
      BY <2>1, <2>4
    <3> QED
      BY <3>1
  <2> QED
    BY <2>2, <2>3, <2>4
<1> QED
  BY <1>1, <1>2, <1>3, Permutes

\* The elements of s from a to b move one place to the left, and the first to b.
Left(s, a, b, x, n) ==
    [i \in 1 .. n |-> IF i \in a .. b - 1 THEN s[i + 1] ELSE IF i = b THEN x ELSE s[i]]

\* ... or to the right, and the last to a.
Right(s, a, b, x, n) ==
    [i \in 1 .. n |-> IF i \in a + 1 .. b THEN s[i - 1] ELSE IF i = a THEN x ELSE s[i]]

\* A permutation that is moved so is another.
LEMMA MovePermutes ==
  ASSUME NEW n \in Nat, NEW f \in Bijection(1 .. n, 1 .. n), NEW a \in 1 .. n, NEW b \in a .. n
  PROVE  /\ Left(f, a, b, f[a], n) \in Bijection(1 .. n, 1 .. n)
         /\ Right(f, a, b, f[b], n) \in Bijection(1 .. n, 1 .. n)
<1>0. /\ f \in [1 .. n -> 1 .. n]
      /\ \A i, j \in 1 .. n : f[i] = f[j] => i = j
      /\ \A k \in 1 .. n : \E i \in 1 .. n : f[i] = k
  BY Permutes
<1>1. Left(f, a, b, f[a], n) \in Bijection(1 .. n, 1 .. n)
  <2> DEFINE g == Left(f, a, b, f[a], n)
             at(i) == IF i \in a .. b - 1 THEN i + 1 ELSE IF i = b THEN a ELSE i
             to(i) == IF i \in a + 1 .. b THEN i - 1 ELSE IF i = a THEN b ELSE i
  <2>1. \A i \in 1 .. n : at(i) \in 1 .. n /\ to(i) \in 1 .. n /\ at(to(i)) = i /\ to(at(i)) = i
    OBVIOUS
  <2>2. DOMAIN g = 1 .. n /\ g = [i \in 1 .. n |-> f[at(i)]]
    BY DEF Left
  <2> HIDE DEF g, at, to
  <2>3. g \in [1 .. n -> 1 .. n]
    BY <1>0, <2>1, <2>2
  <2>4. \A i, j \in 1 .. n : g[i] = g[j] => i = j
    <3> SUFFICES ASSUME NEW i \in 1 .. n, NEW j \in 1 .. n, g[i] = g[j] PROVE i = j
      OBVIOUS
    <3>1. at(i) = at(j)
      BY <1>0, <2>1, <2>2
    <3> QED
      BY <3>1, <2>1
  <2>5. \A k \in 1 .. n : \E i \in 1 .. n : g[i] = k
    <3> SUFFICES ASSUME NEW k \in 1 .. n PROVE \E i \in 1 .. n : g[i] = k
      OBVIOUS
    <3>1. PICK j \in 1 .. n : f[j] = k
      BY <1>0
    <3>2. g[to(j)] = k /\ to(j) \in 1 .. n
      BY <2>1, <2>2, <3>1
    <3> QED
      BY <3>2
  <2>6. g \in Bijection(1 .. n, 1 .. n)
    BY <2>3, <2>4, <2>5, Permutes
  <2> QED
    BY <2>6 DEF g
<1>2. Right(f, a, b, f[b], n) \in Bijection(1 .. n, 1 .. n)
  <2> DEFINE g == Right(f, a, b, f[b], n)
             to(i) == IF i \in a .. b - 1 THEN i + 1 ELSE IF i = b THEN a ELSE i
             at(i) == IF i \in a + 1 .. b THEN i - 1 ELSE IF i = a THEN b ELSE i
  <2>1. \A i \in 1 .. n : at(i) \in 1 .. n /\ to(i) \in 1 .. n /\ at(to(i)) = i /\ to(at(i)) = i
    OBVIOUS
  <2>2. DOMAIN g = 1 .. n /\ g = [i \in 1 .. n |-> f[at(i)]]
    BY DEF Right
  <2> HIDE DEF g, at, to
  <2>3. g \in [1 .. n -> 1 .. n]
    BY <1>0, <2>1, <2>2
  <2>4. \A i, j \in 1 .. n : g[i] = g[j] => i = j
    <3> SUFFICES ASSUME NEW i \in 1 .. n, NEW j \in 1 .. n, g[i] = g[j] PROVE i = j
      OBVIOUS
    <3>1. at(i) = at(j)
      BY <1>0, <2>1, <2>2
    <3> QED
      BY <3>1, <2>1
  <2>5. \A k \in 1 .. n : \E i \in 1 .. n : g[i] = k
    <3> SUFFICES ASSUME NEW k \in 1 .. n PROVE \E i \in 1 .. n : g[i] = k
      OBVIOUS
    <3>1. PICK j \in 1 .. n : f[j] = k
      BY <1>0
    <3>2. g[to(j)] = k /\ to(j) \in 1 .. n
      BY <2>1, <2>2, <3>1
    <3> QED
      BY <3>2
  <2>6. g \in Bijection(1 .. n, 1 .. n)
    BY <2>3, <2>4, <2>5, Permutes
  <2> QED
    BY <2>6 DEF g
<1> QED
  BY <1>1, <1>2

\* One element old of arr leaves it for new, and what is between their places moves.
Replaced(arr, r, old, new, n) ==
    \E a \in 1 .. n : \E b \in a .. n :
        \/ arr[a] = old /\ r = Left(arr, a, b, new, n)
        \/ arr[b] = old /\ r = Right(arr, a, b, new, n)

\* sort_replace() moves what is between the old value and the place of the new one.
LEMMA ReplaceIs ==
  ASSUME NEW arr \in Seq(Int), InOrder(arr, Len(arr)), NEW k \in 1 .. Len(arr),
         NEW new \in Int, arr[k] # new
  PROVE  LET n == Len(arr)
             r == Arr!SortReplace(arr, arr[k], new)
         IN  r \in [1 .. n -> Int] /\ InOrder(r, n) /\ Replaced(arr, r, arr[k], new, n)
<1> DEFINE n == Len(arr)
           old == arr[k]
           r == Arr!SortReplace(arr, old, new)
           Moved == Replaced(arr, r, old, new, n)
<1> SUFFICES r \in [1 .. n -> Int] /\ InOrder(r, n) /\ Moved
  BY Zenon
<1>0. old \in Int
  OBVIOUS
<1>00. n \in Nat \ {0} /\ arr \in [1 .. n -> Int] /\ InOrder(arr, n) /\ k \in 1 .. n
  OBVIOUS
<1> USE <1>00
<1> HIDE DEF n
<1>1. CASE old < new
  <2> DEFINE m == n \div 2 + 1
             from == Arr!SearchFrom(arr, old)
             P == {i \in from .. n : arr[i] >= old}
             p == Arr!FirstAtLeast(arr, old, from)
             Q == {i \in p .. n : \A j \in p + 1 .. i : arr[j] <= new}
             q == Arr!LastAtMost(arr, p, new)
  <2>1. m \in Nat /\ from \in Nat \ {0} /\ k >= from
    <3>1. m \in Nat /\ m > 0
      OBVIOUS
    <3>2. ASSUME m \in 1 .. n, arr[m] < old PROVE k >= m
      <4>1. ~(k < m)
        BY <3>2, <1>0 DEF InOrder
      <4> QED
        BY <4>1, <3>1
    <3>3. m \in 1 .. n
      OBVIOUS
    <3>4. from = IF arr[m] < old THEN m ELSE 1
      BY DEF Arr!SearchFrom, n
    <3> QED
      BY <3>1, <3>2, <3>3, <3>4
  <2>r. r = Arr!MoveLeft(arr, p, q, new)
    BY <1>1 DEF Arr!SortReplace
  <2>p. p = Min(P)
    BY DEF Arr!FirstAtLeast, Arr!Min, Min, n
  <2> HIDE DEF from, p
  <2>q. q = Max(Q)
    BY DEF Arr!LastAtMost, Arr!Max, Max, n
  <2> HIDE DEF q, r
  <2>2. k \in P /\ P \in SUBSET Nat
    BY <2>1, <1>0
  <2>3. p \in P /\ \A i \in P : p <= i
    BY <2>2, <2>p, LeastNat
  <2>4. p \in 1 .. n /\ arr[p] = old
    <3>1. p \in 1 .. n /\ arr[p] >= old /\ p <= k /\ p \in Nat
      BY <2>1, <2>2, <2>3
    <3>2. arr[p] <= arr[k]
      <4>1. CASE p = k
        BY <4>1
      <4>2. CASE p < k
        BY <3>1, <4>2 DEF InOrder
      <4> QED
        BY <3>1, <4>1, <4>2
    <3> QED
      BY <3>1, <3>2, <1>0
  <2>5. p \in Q /\ Q \in SUBSET (0 .. n)
    BY <2>4
  <2>6. q \in Q /\ \A i \in Q : i <= q
    BY <2>5, <2>q, GreatestNat
  <2>7. q \in p .. n /\ (\A j \in p + 1 .. q : arr[j] <= new)
    BY <2>6
  <2>8. q < n => arr[q + 1] > new
    <3> SUFFICES ASSUME q < n, ~(arr[q + 1] > new) PROVE FALSE
      OBVIOUS
    <3>0. q \in Nat /\ q + 1 \in 1 .. n /\ q + 1 \in p .. n
      BY <2>4, <2>7
    <3>1. arr[q + 1] <= new
      BY <3>0
    <3>2. \A j \in p + 1 .. q + 1 : arr[j] <= new
      BY <2>4, <2>7, <3>0, <3>1
    <3>3. q + 1 \in Q
      BY <3>0, <3>2
    <3>4. q + 1 <= q
      BY <2>6, <3>3
    <3> QED
      BY <3>0, <3>4
  <2>9. r = Left(arr, p, q, new, n)
    BY <2>r DEF Arr!MoveLeft, Left, n
  <2>10. r \in [1 .. n -> Int]
    BY <2>4, <2>7, <2>9 DEF Left
  <2>11. InOrder(r, n)
    <3> SUFFICES ASSUME NEW i \in 1 .. n, NEW j \in 1 .. n, i < j PROVE r[i] <= r[j]
      BY DEF InOrder
    <3>0. /\ r[i] = IF i \in p .. q - 1 THEN arr[i + 1] ELSE IF i = q THEN new ELSE arr[i]
          /\ r[j] = IF j \in p .. q - 1 THEN arr[j + 1] ELSE IF j = q THEN new ELSE arr[j]
      BY <2>9 DEF Left
    <3>1. \A x, y \in 1 .. n : x <= y => arr[x] <= arr[y]
      BY DEF InOrder
    <3>2. CASE j = q
      <4>1. CASE i \in p .. q - 1
        <5>1. i + 1 \in p + 1 .. q
          BY <2>4, <2>7, <4>1
        <5>2. r[i] = arr[i + 1] /\ r[j] = new
          BY <2>4, <2>7, <3>0, <3>2, <4>1
        <5> QED
          BY <2>7, <5>1, <5>2
      <4>2. CASE i < p
        <5>1. arr[i] <= arr[p]
          BY <2>4, <3>1, <4>2
        <5> QED
          BY <2>4, <2>7, <3>0, <3>2, <4>2, <5>1, <1>1, <1>0
      <4> QED
        BY <2>4, <2>7, <3>2, <4>1, <4>2
    <3>3. CASE i = q
      <4>1. j \in q + 1 .. n /\ q < n /\ r[j] = arr[j] /\ q + 1 \in 1 .. n
        BY <2>4, <2>7, <3>0, <3>3
      <4>2. arr[q + 1] <= arr[j] /\ arr[q + 1] > new
        BY <2>8, <3>1, <4>1
      <4> QED
        BY <3>0, <3>3, <4>1, <4>2
    <3>4. CASE i # q /\ j # q
      <4>1. CASE i \in p .. q - 1 /\ j \in p .. q - 1
        BY <2>4, <2>7, <3>0, <3>1, <4>1
      <4>2. CASE i \in p .. q - 1 /\ j \notin p .. q - 1
        BY <2>4, <2>7, <3>0, <3>1, <3>4, <4>2
      <4>3. CASE i \notin p .. q - 1 /\ j \in p .. q - 1
        BY <2>4, <2>7, <3>0, <3>1, <3>4, <4>3
      <4>4. CASE i \notin p .. q - 1 /\ j \notin p .. q - 1
        BY <3>0, <3>1, <3>4, <4>4
      <4> QED
        BY <4>1, <4>2, <4>3, <4>4
    <3> QED
      BY <3>2, <3>3, <3>4
  <2>12. arr[p] = old /\ r = Left(arr, p, q, new, n)
    BY <2>4, <2>9
  <2>13. Moved
    BY <2>4, <2>7, <2>12, Zenon DEF Replaced
  <2> QED
    BY <2>10, <2>11, <2>13
<1>2. CASE ~(old < new)
  <2>0. new < old
    BY <1>0, <1>2
  <2> DEFINE H == {i \in 1 .. n : arr[i] >= old}
             h == Arr!FirstAtLeast(arr, old, 1)
             L == {i \in 1 .. h : \A j \in i .. h - 1 : arr[j] > new}
             l == Arr!FirstAbove(arr, h, new)
  <2>r. r = Arr!MoveRight(arr, l, h, new)
    BY <1>2 DEF Arr!SortReplace
  <2>h. h = Min(H)
    BY DEF Arr!FirstAtLeast, Arr!Min, Min, n
  <2> HIDE DEF h
  <2>l. l = Min(L)
    BY DEF Arr!FirstAbove, Arr!Min, Min
  <2> HIDE DEF l, r
  <2>1. k \in H /\ H \in SUBSET Nat
    BY <1>0
  <2>2. h \in H /\ \A i \in H : h <= i
    BY <2>1, <2>h, LeastNat
  <2>3. h \in 1 .. n /\ arr[h] = old
    <3>1. h \in 1 .. n /\ arr[h] >= old /\ h <= k
      BY <2>1, <2>2
    <3>2. arr[h] <= arr[k]
      <4>1. CASE h = k
        BY <4>1
      <4>2. CASE h < k
        BY <3>1, <4>2 DEF InOrder
      <4> QED
        BY <3>1, <4>1, <4>2
    <3> QED
      BY <3>1, <3>2, <1>0
  <2>4. h \in L /\ L \in SUBSET Nat
    BY <2>3
  <2>5. l \in L /\ \A i \in L : l <= i
    BY <2>4, <2>l, LeastNat
  <2>6. l \in 1 .. h /\ (\A j \in l .. h - 1 : arr[j] > new)
    BY <2>5
  <2>7. l > 1 => arr[l - 1] <= new
    <3> SUFFICES ASSUME l > 1, ~(arr[l - 1] <= new) PROVE FALSE
      OBVIOUS
    <3>0. l \in Nat /\ l - 1 \in 1 .. h /\ l - 1 \in 1 .. n
      BY <2>3, <2>6
    <3>1. arr[l - 1] > new
      BY <3>0
    <3>2. \A j \in l - 1 .. h - 1 : arr[j] > new
      BY <2>3, <2>6, <3>0, <3>1
    <3>3. l - 1 \in L
      BY <3>0, <3>2
    <3>4. l <= l - 1
      BY <2>5, <3>3
    <3> QED
      BY <3>0, <3>4
  <2>8. r = Right(arr, l, h, new, n)
    BY <2>r DEF Arr!MoveRight, Right, n
  <2>9. r \in [1 .. n -> Int]
    BY <2>3, <2>6, <2>8 DEF Right
  <2>10. InOrder(r, n)
    <3> SUFFICES ASSUME NEW i \in 1 .. n, NEW j \in 1 .. n, i < j PROVE r[i] <= r[j]
      BY DEF InOrder
    <3>0. /\ r[i] = IF i \in l + 1 .. h THEN arr[i - 1] ELSE IF i = l THEN new ELSE arr[i]
          /\ r[j] = IF j \in l + 1 .. h THEN arr[j - 1] ELSE IF j = l THEN new ELSE arr[j]
      BY <2>8 DEF Right
    <3>1. \A x, y \in 1 .. n : x <= y => arr[x] <= arr[y]
      BY DEF InOrder
    <3>2. CASE j = l
      <4>1. i \in 1 .. l - 1 /\ l > 1 /\ r[i] = arr[i] /\ l - 1 \in 1 .. n
        BY <2>3, <2>6, <3>0, <3>2
      <4>2. arr[i] <= arr[l - 1] /\ arr[l - 1] <= new
        BY <2>7, <3>1, <4>1
      <4> QED
        BY <3>0, <3>2, <4>1, <4>2
    <3>3. CASE i = l
      <4>1. CASE j \in l + 1 .. h
        <5>1. j - 1 \in l .. h - 1 /\ j - 1 \in 1 .. n
          BY <2>3, <2>6, <4>1
        <5>2. r[j] = arr[j - 1] /\ r[i] = new
          BY <2>3, <2>6, <3>0, <3>3, <4>1
        <5>3. arr[j - 1] > new
          BY <2>6, <5>1
        <5> QED
          BY <5>1, <5>2, <5>3
      <4>2. CASE j > h
        <5>1. arr[h] <= arr[j]
          BY <2>3, <3>1, <4>2
        <5> QED
          BY <2>3, <2>6, <3>0, <3>3, <4>2, <5>1, <2>0, <1>0
      <4> QED
        BY <2>3, <2>6, <3>3, <4>1, <4>2
    <3>4. CASE i # l /\ j # l
      <4>1. CASE i \in l + 1 .. h /\ j \in l + 1 .. h
        BY <2>3, <2>6, <3>0, <3>1, <4>1
      <4>2. CASE i \in l + 1 .. h /\ j \notin l + 1 .. h
        BY <2>3, <2>6, <3>0, <3>1, <3>4, <4>2
      <4>3. CASE i \notin l + 1 .. h /\ j \in l + 1 .. h
        BY <2>3, <2>6, <3>0, <3>1, <3>4, <4>3
      <4>4. CASE i \notin l + 1 .. h /\ j \notin l + 1 .. h
        BY <3>0, <3>1, <3>4, <4>4
      <4> QED
        BY <4>1, <4>2, <4>3, <4>4
    <3> QED
      BY <3>2, <3>3, <3>4
  <2>11. l \in 1 .. n /\ h \in l .. n
    BY <2>3, <2>6
  <2>12. arr[h] = old /\ r = Right(arr, l, h, new, n)
    BY <2>3, <2>8
  <2>13. Moved
    BY <2>11, <2>12, Zenon DEF Replaced
  <2> QED
    BY <2>9, <2>10, <2>13
<1> QED
  BY <1>1, <1>2

\* The new value takes the place of the old one among those that are arranged.
LEMMA MoveArranges ==
  ASSUME NEW n \in Nat, NEW s \in [1 .. n -> Int], NEW vs \in [1 .. n -> Int], NEW x \in 1 .. n, NEW new,
         NEW f \in Bijection(1 .. n, 1 .. n), \A i \in 1 .. n : s[i] = vs[f[i]],
         NEW a \in 1 .. n, NEW b \in a .. n
  PROVE  LET vt == [vs EXCEPT ![x] = new]
             l  == Left(s, a, b, new, n)
             r  == Right(s, a, b, new, n)
         IN  (f[a] = x => Permuted(l, vt, n)) /\ (f[b] = x => Permuted(r, vt, n))
<1> DEFINE vt == [vs EXCEPT ![x] = new]
           l  == Left(s, a, b, new, n)
           r  == Right(s, a, b, new, n)
<1>0. /\ f \in [1 .. n -> 1 .. n]
      /\ \A i, j \in 1 .. n : f[i] = f[j] => i = j
  BY Permutes
<1>1. ASSUME f[a] = x PROVE Permuted(l, vt, n)
  <2> DEFINE g == Left(f, a, b, f[a], n)
  <2>1. g \in Bijection(1 .. n, 1 .. n)
    BY MovePermutes
  <2>2. ASSUME NEW i \in 1 .. n PROVE l[i] = vt[g[i]]
    <3>1. /\ l[i] = IF i \in a .. b - 1 THEN s[i + 1] ELSE IF i = b THEN new ELSE s[i]
          /\ g[i] = IF i \in a .. b - 1 THEN f[i + 1] ELSE IF i = b THEN f[a] ELSE f[i]
      BY DEF Left
    <3> HIDE DEF l, g
    <3>2. CASE i \in a .. b - 1
      <4>1. i + 1 \in 1 .. n /\ i + 1 # a
        BY <3>2
      <4>2. f[i + 1] # x /\ f[i + 1] \in 1 .. n /\ s[i + 1] = vs[f[i + 1]]
        BY <1>0, <1>1, <4>1
      <4> QED
        BY <3>1, <3>2, <4>2
    <3>3. CASE i = b
      BY <3>1, <3>3, <1>1
    <3>4. CASE i \notin a .. b - 1 /\ i # b
      <4>0. i # a
        BY <3>4
      <4>1. f[i] # x /\ f[i] \in 1 .. n
        BY <1>0, <1>1, <4>0
      <4> QED
        BY <3>1, <3>4, <4>1
    <3> QED
      BY <3>2, <3>3, <3>4
  <2> QED
    BY <2>1, <2>2 DEF Permuted
<1>2. ASSUME f[b] = x PROVE Permuted(r, vt, n)
  <2> DEFINE g == Right(f, a, b, f[b], n)
  <2>1. g \in Bijection(1 .. n, 1 .. n)
    BY MovePermutes
  <2>2. ASSUME NEW i \in 1 .. n PROVE r[i] = vt[g[i]]
    <3>1. /\ r[i] = IF i \in a + 1 .. b THEN s[i - 1] ELSE IF i = a THEN new ELSE s[i]
          /\ g[i] = IF i \in a + 1 .. b THEN f[i - 1] ELSE IF i = a THEN f[b] ELSE f[i]
      BY DEF Right
    <3> HIDE DEF r, g
    <3>2. CASE i \in a + 1 .. b
      <4>1. i - 1 \in 1 .. n /\ i - 1 # b /\ b \in 1 .. n
        BY <3>2
      <4>2. f[i - 1] # x /\ f[i - 1] \in 1 .. n /\ s[i - 1] = vs[f[i - 1]]
        BY <1>0, <1>2, <4>1
      <4> QED
        BY <3>1, <3>2, <4>2
    <3>3. CASE i = a
      BY <3>1, <3>3, <1>2
    <3>4. CASE i \notin a + 1 .. b /\ i # a
      <4>0. i # b /\ b \in 1 .. n
        BY <3>4
      <4>1. f[i] # x /\ f[i] \in 1 .. n
        BY <1>0, <1>2, <4>0
      <4> QED
        BY <3>1, <3>4, <4>1
    <3> QED
      BY <3>2, <3>3, <3>4
  <2> QED
    BY <2>1, <2>2 DEF Permuted
<1> QED
  BY <1>1, <1>2

\* sort_replace() arranges the values after one of them changes.
LEMMA ReplaceArranges ==
  ASSUME NEW n \in Nat, NEW s, NEW vs \in [1 .. n -> Int], Arranged(s, vs, n), NEW x \in 1 .. n,
         NEW new \in Int, new # vs[x]
  PROVE  Arranged(Arr!SortReplace(s, vs[x], new), [vs EXCEPT ![x] = new], n)
<1> DEFINE vt == [vs EXCEPT ![x] = new]
           r  == Arr!SortReplace(s, vs[x], new)
<1>1. PICK f \in Bijection(1 .. n, 1 .. n) : \A i \in 1 .. n : s[i] = vs[f[i]]
  BY DEF Arranged, Permuted
<1>2. /\ f \in [1 .. n -> 1 .. n]
      /\ \A k \in 1 .. n : \E i \in 1 .. n : f[i] = k
  BY Permutes
<1>3. s \in [1 .. n -> Int] /\ InOrder(s, n)
  <2>0. s = [i \in 1 .. n |-> s[i]] /\ InOrder(s, n)
    BY DEF Arranged
  <2>1. \A i \in 1 .. n : s[i] \in Int
    BY <1>1, <1>2
  <2> QED
    BY <2>0, <2>1
<1>4. s \in Seq(Int) /\ Len(s) = n
  BY <1>3
<1>5. PICK k \in 1 .. n : f[k] = x
  BY <1>2
<1>6. s[k] = vs[x]
  BY <1>1, <1>5
<1>7. /\ r \in [1 .. n -> Int] /\ InOrder(r, n)
      /\ Replaced(s, r, s[k], new, n)
  BY <1>3, <1>4, <1>6, ReplaceIs
<1> HIDE DEF r
<1>8. Permuted(r, vt, n)
  <2>1. PICK a \in 1 .. n : \E b \in a .. n :
            \/ s[a] = s[k] /\ r = Left(s, a, b, new, n)
            \/ s[b] = s[k] /\ r = Right(s, a, b, new, n)
    BY <1>7 DEF Replaced
  <2>2. PICK b \in a .. n :
            \/ s[a] = s[k] /\ r = Left(s, a, b, new, n)
            \/ s[b] = s[k] /\ r = Right(s, a, b, new, n)
    BY <2>1
  <2>3. b \in 1 .. n
    OBVIOUS
  <2>4. ASSUME NEW c \in 1 .. n, s[c] = s[k]
        PROVE  \E h \in Bijection(1 .. n, 1 .. n) : h[c] = x /\ \A i \in 1 .. n : s[i] = vs[h[i]]
    <3> DEFINE h == [i \in 1 .. n |-> IF i = c THEN f[k] ELSE IF i = k THEN f[c] ELSE f[i]]
    <3>1. h \in Bijection(1 .. n, 1 .. n)
      BY SwapPermutes
    <3>2. h[c] = x /\ \A i \in 1 .. n : s[i] = vs[h[i]]
      BY <1>1, <1>5, <1>6, <2>4
    <3> QED
      BY <3>1, <3>2
  <2>5. CASE s[a] = s[k] /\ r = Left(s, a, b, new, n)
    <3>1. PICK h \in Bijection(1 .. n, 1 .. n) : h[a] = x /\ \A i \in 1 .. n : s[i] = vs[h[i]]
      BY <2>4, <2>5
    <3> QED
      BY <1>3, <2>5, <3>1, MoveArranges
  <2>6. CASE s[b] = s[k] /\ r = Right(s, a, b, new, n)
    <3>1. PICK h \in Bijection(1 .. n, 1 .. n) : h[b] = x /\ \A i \in 1 .. n : s[i] = vs[h[i]]
      BY <2>3, <2>4, <2>6
    <3> QED
      BY <1>3, <2>6, <3>1, MoveArranges
  <2> QED
    BY <2>2, <2>5, <2>6
<1>9. r = [i \in 1 .. n |-> r[i]]
  BY <1>7
<1>10. Arranged(r, vt, n)
  BY <1>7, <1>8, <1>9 DEF Arranged
<1> QED
  BY <1>10 DEF r

\* The array of zeros is arranged.
LEMMA ZerosArranged ==
  ASSUME NEW n \in Nat
  PROVE  Arranged([i \in 1 .. n |-> 0], [i \in 1 .. n |-> 0], n)
<1> DEFINE f == [i \in 1 .. n |-> i]
<1>1. f \in Bijection(1 .. n, 1 .. n)
  BY Permutes
<1> QED
  BY <1>1 DEF Arranged, InOrder, Permuted

\* qsort() arranges the values, of which only the one of input x is not 0.
LEMMA QsortArranges ==
  ASSUME Len(SortIn) \in Nat, NEW x \in 1 .. Len(SortIn), NEW new \in Int
  PROVE  LET vs == [[i \in 1 .. Len(SortIn) |-> 0] EXCEPT ![x] = new]
         IN  Arranged(Arr!Qsort(vs), vs, Len(SortIn))
<1> DEFINE n == Len(SortIn)
           vs == [[i \in 1 .. n |-> 0] EXCEPT ![x] = new]
           y == IF new > 0 THEN n ELSE 1
           f == [i \in 1 .. n |-> i]
           g == [i \in 1 .. n |-> IF i = x THEN f[y] ELSE IF i = y THEN f[x] ELSE f[i]]
           P == {p \in Bijection(1 .. n, 1 .. n) : \A i, j \in 1 .. n : i < j => vs[p[i]] <= vs[p[j]]}
<1>0. n \in Nat /\ x \in 1 .. n /\ y \in 1 .. n
  OBVIOUS
<1> HIDE DEF n
<1>1. f \in Bijection(1 .. n, 1 .. n)
  BY <1>0, Permutes
<1>2. g \in Bijection(1 .. n, 1 .. n)
  BY <1>0, <1>1, SwapPermutes
<1>3. \A i, j \in 1 .. n : i < j => vs[g[i]] <= vs[g[j]]
  BY <1>0
<1>4. PICK p : p = CHOOSE q \in Bijection(1 .. n, 1 .. n) :
                      \A i, j \in 1 .. n : i < j => vs[q[i]] <= vs[q[j]]
  OBVIOUS
<1> HIDE DEF g, f, y, vs
<1>5. p \in Bijection(1 .. n, 1 .. n) /\ \A i, j \in 1 .. n : i < j => vs[p[i]] <= vs[p[j]]
  BY <1>2, <1>3, <1>4
<1>6. Arr!Qsort(vs) = [i \in 1 .. n |-> vs[p[i]]]
  BY <1>4 DEF Arr!Qsort, n, Arr!Bijection, Bijection, Arr!Injection, Injection, Arr!Surjection, Surjection,
     Arr!IsInjective, IsInjective
<1>7. Arranged([i \in 1 .. n |-> vs[p[i]]], vs, n)
  BY <1>5 DEF Arranged, InOrder, Permuted
<1>8. Arranged(Arr!Qsort(vs), vs, n)
  BY <1>6, <1>7
<1> QED
  BY <1>8 DEF n, vs
=============================================================================

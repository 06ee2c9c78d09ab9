---------------------------- MODULE PlayerProofs ----------------------------
(***************************************************************************)
(* The heap of the player is a heap with the right streams (HeapSafe), the *)
(* player implements Merge (PlayerMerges), and its clock never goes back   *)
(* (NeverBack), for every trace.                                           *)
(*                                                                         *)
(* SiftUp and SiftDown are recursive functions, each of them a loop.       *)
(* LoopDefined shows that such a function has the value that its equation  *)
(* says, by induction on a measure, and SiftUpHeap and SiftDownHeap that   *)
(* the order of the heap is restored at its end.                           *)
(***************************************************************************)
EXTENDS Player, WellFoundedInduction, SequenceTheorems, TLAPS

(* Induction, and the value of a recursive function that is a loop.        *)

\* Every nonempty set of naturals has a least element.
LEMMA LeastNat ==
  ASSUME NEW S \in SUBSET Nat, S # {}
  PROVE  \E m \in S : \A n \in S : m <= n
<1> DEFINE R == OpToRel(<, Nat)
<1>1. IsWellFoundedOn(R, Nat)
  BY NatLessThanWellFounded
<1>2. R = {p \in Nat \X Nat : p[1] < p[2]}
  BY DEF OpToRel
<1> HIDE DEF R
<1>3. \E x \in S : \A y \in S : ~(<<y, x>> \in R)
  BY <1>1, WFMin
<1>4. \A x, y \in S : <<y, x>> \in R <=> y < x
  BY <1>2
<1>5. PICK x \in S : \A y \in S : ~(<<y, x>> \in R)
  BY <1>3
<1>6. \A y \in S : x <= y
  <2> TAKE y \in S
  <2>1. x \in Nat /\ y \in Nat /\ ~(y < x)
    BY <1>4, <1>5
  <2> QED
    BY <2>1
<1> QED
  BY <1>6

\* Induction, for a set of naturals.
LEMMA SetInduction ==
  ASSUME NEW S, \A n \in Nat : (\A m \in Nat : m < n => m \in S) => n \in S
  PROVE  \A n \in Nat : n \in S
<1> SUFFICES ASSUME Nat \ S # {} PROVE FALSE
  OBVIOUS
<1>1. PICK m \in Nat \ S : \A n \in Nat \ S : m <= n
  BY LeastNat
<1>2. \A n \in Nat : n < m => n \in S
  BY <1>1
<1> QED
  BY <1>1, <1>2

\* A loop: it goes on from x to nxt[x] while x is in go, and mu decreases.  Its
\* result is a function of where it starts.
Loop(A, B, mu, go, nxt, base) ==
    /\ mu \in [A -> Nat] /\ go \in SUBSET A /\ nxt \in [A -> A] /\ base \in [A -> B]
    /\ \A x \in go : mu[nxt[x]] < mu[x]

\* The equation of a loop with a measure that decreases has a solution, so the
\* function that CHOOSE picks satisfies it.
LEMMA LoopDefined ==
  ASSUME NEW A, NEW B, NEW mu, NEW go, NEW nxt, NEW base, Loop(A, B, mu, go, nxt, base)
  PROVE  \E f \in [A -> B] : \A x \in A : f[x] = IF x \in go THEN f[nxt[x]] ELSE base[x]
<1> USE DEF Loop
<1> DEFINE Sol(f, n) == \A x \in A : mu[x] <= n => f[x] = IF x \in go THEN f[nxt[x]] ELSE base[x]
<1>1. \A n \in Nat : \E f \in [A -> B] : Sol(f, n)
  <2> DEFINE S == {n \in Nat : \E f \in [A -> B] : Sol(f, n)}
  <2> HIDE DEF Sol
  <2>1. ASSUME NEW n \in Nat, \A m \in Nat : m < n => m \in S PROVE n \in S
    <3>1. PICK f \in [A -> B] : \A x \in A : mu[x] < n => f[x] = IF x \in go THEN f[nxt[x]] ELSE base[x]
      <4>1. CASE n = 0
        BY <4>1
      <4>2. CASE n # 0
        <5>1. n - 1 \in S
          BY <2>1, <4>2
        <5>2. PICK f \in [A -> B] : Sol(f, n - 1)
          BY <5>1
        <5> QED
          BY <5>2 DEF Sol
      <4> QED
        BY <4>1, <4>2
    <3> DEFINE g == [x \in A |-> IF mu[x] < n THEN f[x] ELSE IF x \in go THEN f[nxt[x]] ELSE base[x]]
    <3>2. g \in [A -> B]
      OBVIOUS
    <3>3. ASSUME NEW x \in A, mu[x] <= n PROVE g[x] = IF x \in go THEN g[nxt[x]] ELSE base[x]
      <4>1. CASE x \in go
        <5>1. nxt[x] \in A /\ mu[nxt[x]] < mu[x] /\ mu[x] \in Nat /\ mu[nxt[x]] \in Nat
          BY <4>1
        <5>2. g[nxt[x]] = f[nxt[x]]
          BY <3>3, <5>1
        <5>3. g[x] = f[nxt[x]]
          BY <3>1, <4>1
        <5> QED
          BY <4>1, <5>2, <5>3
      <4>2. CASE x \notin go
        BY <3>1, <4>2
      <4> QED
        BY <4>1, <4>2
    <3>4. Sol(g, n)
      BY <3>3 DEF Sol
    <3> QED
      BY <3>2, <3>4
  <2> HIDE DEF S
  <2>2. \A n \in Nat : n \in S
    BY <2>1, SetInduction
  <2> QED
    BY <2>2 DEF S
<1>2. ASSUME NEW f \in [A -> B], NEW g \in [A -> B], NEW n \in Nat, Sol(f, n), Sol(g, n)
      PROVE  \A x \in A : mu[x] <= n => f[x] = g[x]
  <2> DEFINE S == {k \in Nat : \A x \in A : mu[x] = k /\ k <= n => f[x] = g[x]}
  <2>1. ASSUME NEW k \in Nat, \A m \in Nat : m < k => m \in S PROVE k \in S
    <3> SUFFICES ASSUME NEW x \in A, mu[x] = k, k <= n PROVE f[x] = g[x]
      OBVIOUS
    <3>1. CASE x \in go
      <4>1. nxt[x] \in A /\ mu[nxt[x]] < k /\ mu[nxt[x]] \in Nat /\ mu[nxt[x]] <= n
        BY <3>1
      <4>2. f[nxt[x]] = g[nxt[x]]
        BY <2>1, <4>1
      <4> QED
        BY <1>2, <3>1, <4>2
    <3>2. CASE x \notin go
      BY <1>2, <3>2
    <3> QED
      BY <3>1, <3>2
  <2> HIDE DEF S
  <2>2. \A k \in Nat : k \in S
    BY <2>1, SetInduction
  <2> QED
    BY <2>2 DEF S
<1> DEFINE P(n) == CHOOSE f \in [A -> B] : Sol(f, n)
           F == [x \in A |-> P(mu[x])[x]]
<1> HIDE DEF Sol
<1>3. \A n \in Nat : P(n) \in [A -> B] /\ Sol(P(n), n)
  BY <1>1
<1> HIDE DEF P
<1>4. F \in [A -> B]
  BY <1>3
<1>5. ASSUME NEW x \in A PROVE F[x] = IF x \in go THEN F[nxt[x]] ELSE base[x]
  <2>1. P(mu[x])[x] = IF x \in go THEN P(mu[x])[nxt[x]] ELSE base[x]
    BY <1>3 DEF Sol
  <2>2. CASE x \in go
    <3>1. nxt[x] \in A /\ mu[nxt[x]] < mu[x] /\ mu[nxt[x]] \in Nat /\ mu[x] \in Nat
      BY <2>2
    <3>2. Sol(P(mu[x]), mu[nxt[x]])
      BY <1>3, <3>1 DEF Sol
    <3>3. P(mu[x])[nxt[x]] = P(mu[nxt[x]])[nxt[x]]
      BY <1>2, <1>3, <3>1, <3>2
    <3> QED
      BY <2>1, <2>2, <3>1, <3>3
  <2> QED
    BY <2>1, <2>2
<1> QED
  BY <1>4, <1>5

-----------------------------------------------------------------------------
(* The nodes of a heap and the step up of heap_insert().                   *)

\* The parent of a node.
LEMMA Half ==
  ASSUME NEW n \in Nat, n > 1
  PROVE  /\ n \div 2 \in 1..n - 1
         /\ n = 2 * (n \div 2) \/ n = 2 * (n \div 2) + 1
  OBVIOUS

\* The children of a node.
LEMMA Parent ==
  ASSUME NEW n \in Nat, NEW m \in Nat \ {0}
  PROVE  n \div 2 = m <=> n = 2 * m \/ n = 2 * m + 1
  OBVIOUS

\* Two nodes are exchanged: the others stay.
LEMMA Exchanged ==
  ASSUME NEW g \in Seq(Stream), NEW i \in 1..Len(g), NEW j \in 1..Len(g)
  PROVE  /\ Exchange(g, i, j) \in Seq(Stream) /\ Len(Exchange(g, i, j)) = Len(g)
         /\ Exchange(g, i, j)[i] = g[j] /\ Exchange(g, i, j)[j] = g[i]
         /\ \A k \in 1..Len(g) : k # i /\ k # j => Exchange(g, i, j)[k] = g[k]
<1>1. g \in [1..Len(g) -> Stream] /\ Len(g) \in Nat
  BY LenProperties
<1>2. Exchange(g, i, j) \in [1..Len(g) -> Stream]
  BY <1>1 DEF Exchange
<1>3. Exchange(g, i, j) \in Seq(Stream) /\ Len(Exchange(g, i, j)) = Len(g)
  <2> DEFINE e == Exchange(g, i, j)
  <2> HIDE DEF e
  <2>1. e \in [1..Len(g) -> Stream]
    BY <1>2 DEF e
  <2>2. e \in Seq(Stream)
    BY <1>1, <2>1, SeqDef
  <2>3. Len(e) = Len(g)
    BY <1>1, <2>1, <2>2, LenProperties
  <2> QED
    BY <2>2, <2>3 DEF e
<1> QED
  BY <1>1, <1>3 DEF Exchange

\* A node is a heap and a number within it.
LEMMA NodeParts ==
  ASSUME NEW x \in Node
  PROVE  /\ x[1] \in Seq(Stream) /\ x[2] \in Nat \ {0} /\ x[2] \in 1..Len(x[1]) /\ Len(x[1]) \in Nat
         /\ x = <<x[1], x[2]>>
<1>1. x \in Seq(Stream) \X Nat /\ x[2] \in 1..Len(x[1])
  BY DEF Node
<1>2. x[1] \in Seq(Stream) /\ x[2] \in Nat /\ x = <<x[1], x[2]>>
  BY <1>1
<1> QED
  BY <1>1, <1>2, LenProperties

\* ... and the converse.
LEMMA NodeMade ==
  ASSUME NEW g \in Seq(Stream), NEW n \in 1..Len(g)
  PROVE  <<g, n>> \in Node /\ <<g, n>>[1] = g /\ <<g, n>>[2] = n
<1>1. n \in Nat
  BY LenProperties
<1> QED
  BY <1>1 DEF Node

\* Where the node goes when it goes up.
UpFrom(x) == <<Exchange(x[1], x[2], x[2] \div 2), x[2] \div 2>>

\* A step up goes from a node to a node with a smaller number.
LEMMA UpNode ==
  ASSUME NEW key, NEW x \in Node, GoesUp(x, key)
  PROVE  UpFrom(x) \in Node /\ UpFrom(x)[2] < x[2]
<1>1. x[1] \in Seq(Stream) /\ x[2] \in Nat /\ x[2] > 1 /\ x[2] \in 1..Len(x[1]) /\ Len(x[1]) \in Nat
  BY NodeParts DEF GoesUp
<1>2. x[2] \div 2 \in 1..x[2] - 1
  BY <1>1, Half
<1>3. x[2] \div 2 \in 1..Len(x[1])
  BY <1>1, <1>2
<1>4. /\ Exchange(x[1], x[2], x[2] \div 2) \in Seq(Stream)
      /\ Len(Exchange(x[1], x[2], x[2] \div 2)) = Len(x[1])
  BY <1>1, <1>3, Exchanged
<1>5. UpFrom(x) \in Node /\ UpFrom(x)[2] = x[2] \div 2
  BY <1>3, <1>4, NodeMade DEF UpFrom
<1> QED
  BY <1>1, <1>2, <1>5

\* The climb ends, so its definition defines it.
LEMMA SiftUpStep ==
  ASSUME NEW key, NEW x \in Node
  PROVE  SiftUp(key)[x] = IF GoesUp(x, key) THEN SiftUp(key)[UpFrom(x)] ELSE x[1]
<1> DEFINE go == {y \in Node : GoesUp(y, key)}
           nxt == [y \in Node |-> IF y \in go THEN UpFrom(y) ELSE y]
           mu == [y \in Node |-> y[2]]
           base == [y \in Node |-> y[1]]
           Body(f) == [y \in Node |-> IF GoesUp(y, key) THEN f[UpFrom(y)] ELSE y[1]]
<1>1. go \in SUBSET Node /\ nxt \in [Node -> Node] /\ mu \in [Node -> Nat] /\ base \in [Node -> Seq(Stream)]
  BY NodeParts, UpNode
<1>2. \A y \in go : mu[nxt[y]] < mu[y]
  BY UpNode
<1>3. \A y \in Node : /\ y \in go <=> GoesUp(y, key)
                      /\ y \in go => nxt[y] = UpFrom(y)
                      /\ base[y] = y[1]
  OBVIOUS
<1> HIDE DEF go, nxt, mu, base
<1>4. PICK f \in [Node -> Seq(Stream)] : \A y \in Node : f[y] = IF y \in go THEN f[nxt[y]] ELSE base[y]
  <2>1. Loop(Node, Seq(Stream), mu, go, nxt, base)
    BY <1>1, <1>2 DEF Loop
  <2> QED
    BY <2>1, LoopDefined
<1>5. f = Body(f)
  <2>1. \A y \in Node : f[y] = Body(f)[y]
    BY <1>3, <1>4
  <2>2. Body(f) = [y \in Node |-> Body(f)[y]] /\ f = [y \in Node |-> f[y]]
    BY <1>4
  <2> QED
    BY <2>1, <2>2
<1>6. SiftUp(key) = CHOOSE u : u = Body(u)
  BY Zenon DEF SiftUp, UpFrom
<1> HIDE DEF Body
<1>7. SiftUp(key) = Body(SiftUp(key))
  BY <1>5, <1>6
<1>8. Body(SiftUp(key))[x] = IF GoesUp(x, key) THEN SiftUp(key)[UpFrom(x)] ELSE x[1]
  BY DEF Body
<1> QED
  BY <1>7, <1>8, Zenon

-----------------------------------------------------------------------------
(* heap_insert() keeps the order of the heap.                              *)

\* The streams of a heap, no stream twice, and no node before its parent.
Els(g) == {g[i] : i \in 1..Len(g)}
Inj(g) == \A i, j \in 1..Len(g) : g[i] = g[j] => i = j
Le(g, key, i, j) == key[g[i]] <= key[g[j]]
Heap(g, key) == \A n \in 2..Len(g) : Le(g, key, n \div 2, n)

\* A heap but for node n and its parent.
ButUp(g, n, key) ==
    /\ \A m \in 2..Len(g) : m # n => Le(g, key, m \div 2, m)
    /\ n > 1 => \A m \in 2..Len(g) : m \div 2 = n => Le(g, key, n \div 2, m)

\* An exchange keeps the streams of the heap, each once.
LEMMA ExchangeSame ==
  ASSUME NEW g \in Seq(Stream), NEW i \in 1..Len(g), NEW j \in 1..Len(g), Inj(g)
  PROVE  Inj(Exchange(g, i, j)) /\ Els(Exchange(g, i, j)) = Els(g)
<1> DEFINE e == Exchange(g, i, j)
           To(k) == IF k = i THEN j ELSE IF k = j THEN i ELSE k
<1>1. Len(e) = Len(g) /\ \A k \in 1..Len(g) : To(k) \in 1..Len(g) /\ e[k] = g[To(k)] /\ g[k] = e[To(k)]
  <2>1. /\ Len(e) = Len(g) /\ e[i] = g[j] /\ e[j] = g[i]
        /\ \A k \in 1..Len(g) : k # i /\ k # j => e[k] = g[k]
    BY Exchanged
  <2> HIDE DEF e
  <2> QED
    BY <2>1
<1> HIDE DEF e
<1>2. Inj(e)
  <2> SUFFICES ASSUME NEW a \in 1..Len(g), NEW b \in 1..Len(g), e[a] = e[b] PROVE a = b
    BY <1>1 DEF Inj
  <2>1. To(a) = To(b)
    <3> HIDE DEF To
    <3> QED
      BY <1>1 DEF Inj
  <2> QED
    BY <2>1
<1> HIDE DEF To
<1>3. Els(e) = Els(g)
  <2>1. ASSUME NEW v \in Els(e) PROVE v \in Els(g)
    BY <1>1 DEF Els
  <2>2. ASSUME NEW v \in Els(g) PROVE v \in Els(e)
    BY <1>1 DEF Els
  <2> QED
    BY <2>1, <2>2
<1> QED
  BY <1>2, <1>3 DEF e

\* The node that goes up is not before its old parent, now its child.
LEMMA UpKeeps ==
  ASSUME NEW key \in [Stream -> Int], NEW g \in Seq(Stream), NEW n \in 2..Len(g),
         ButUp(g, n, key), key[g[n]] < key[g[n \div 2]]
  PROVE  ButUp(Exchange(g, n, n \div 2), n \div 2, key)
<1> DEFINE p == n \div 2
           e == Exchange(g, n, p)
           K(k) == key[g[k]]
           L(k) == key[e[k]]
<1>1. Len(g) \in Nat /\ n \in Nat /\ n > 1
  BY LenProperties
<1>2. p \in 1..n - 1 /\ p \in 1..Len(g) /\ n \in 1..Len(g)
  BY <1>1, Half
<1>3. /\ Len(e) = Len(g) /\ L(n) = K(p) /\ L(p) = K(n)
      /\ \A k \in 1..Len(g) : k # n /\ k # p => L(k) = K(k)
  BY <1>2, Exchanged
<1>4. \A k \in 1..Len(g) : K(k) \in Int
  BY ElementOfSeq
<1>5. /\ \A m \in 2..Len(g) : m # n => K(m \div 2) <= K(m)
      /\ \A m \in 2..Len(g) : m \div 2 = n => K(p) <= K(m)
      /\ K(n) < K(p)
  BY <1>1 DEF ButUp, Le
<1>6. \A m \in 2..Len(g) : m \div 2 \in 1..m - 1 /\ m \div 2 \in 1..Len(g) /\ m \in 1..Len(g)
  BY <1>1, Half
<1> HIDE DEF p, e, K, L
<1>7. ASSUME NEW m \in 2..Len(g), m # p PROVE L(m \div 2) <= L(m)
  <2>1. CASE m = n
    <3>1. m \div 2 = p
      BY <2>1 DEF p
    <3> QED
      BY <1>2, <1>3, <1>4, <1>5, <2>1, <3>1
  <2>2. CASE m # n /\ m \div 2 = n
    BY <1>2, <1>3, <1>5, <1>6, <1>7, <2>2
  <2>3. CASE m # n /\ m \div 2 = p
    <3>1. L(m \div 2) = K(n) /\ L(m) = K(m) /\ K(p) <= K(m)
      BY <1>3, <1>5, <1>6, <1>7, <2>3
    <3>2. K(n) \in Int /\ K(p) \in Int /\ K(m) \in Int /\ K(n) < K(p)
      BY <1>2, <1>4, <1>5, <1>6
    <3>3. K(n) <= K(m)
      BY <3>1, <3>2
    <3> QED
      BY <3>1, <3>3
  <2>4. CASE m # n /\ m \div 2 # n /\ m \div 2 # p
    BY <1>3, <1>5, <1>6, <1>7, <2>4
  <2> QED
    BY <2>1, <2>2, <2>3, <2>4
<1>8. ASSUME p > 1, NEW m \in 2..Len(g), m \div 2 = p PROVE L(p \div 2) <= L(m)
  <2>1. p \in 2..Len(g) /\ p # n /\ p \div 2 \in 1..p - 1 /\ p \div 2 \in 1..Len(g)
    BY <1>1, <1>2, <1>6, <1>8
  <2>2. L(p \div 2) = K(p \div 2) /\ K(p \div 2) <= K(p)
    BY <1>2, <1>3, <1>5, <2>1
  <2>3. CASE m = n
    BY <1>3, <2>2, <2>3
  <2>4. CASE m # n
    <3>1. L(m) = K(m) /\ K(p) <= K(m)
      BY <1>3, <1>5, <1>6, <1>8, <2>4
    <3>2. K(p \div 2) \in Int /\ K(p) \in Int /\ K(m) \in Int
      BY <1>2, <1>4, <1>6, <2>1
    <3>3. K(p \div 2) <= K(m)
      BY <2>2, <3>1, <3>2
    <3> QED
      BY <2>2, <3>1, <3>3
  <2> QED
    BY <2>3, <2>4
<1>9. ButUp(e, p, key)
  BY <1>3, <1>7, <1>8 DEF ButUp, Le, L
<1> QED
  BY <1>9 DEF e, p

\* The same streams, in the order of a heap.
Sifted(r, g, key) ==
    r \in Seq(Stream) /\ Len(r) = Len(g) /\ Inj(r) /\ Els(r) = Els(g) /\ Heap(r, key)

\* heap_insert(): the climb restores the order of the heap.
LEMMA SiftUpHeap ==
  ASSUME NEW key \in [Stream -> Int]
  PROVE  \A x \in Node : Inj(x[1]) /\ ButUp(x[1], x[2], key) => Sifted(SiftUp(key)[x], x[1], key)
<1> DEFINE S == {k \in Nat : \A x \in Node : x[2] = k /\ Inj(x[1]) /\ ButUp(x[1], x[2], key)
                                => Sifted(SiftUp(key)[x], x[1], key)}
<1>1. ASSUME NEW k \in Nat, \A m \in Nat : m < k => m \in S PROVE k \in S
  <2> SUFFICES ASSUME NEW x \in Node, x[2] = k, Inj(x[1]), ButUp(x[1], x[2], key)
               PROVE  Sifted(SiftUp(key)[x], x[1], key)
    OBVIOUS
  <2> DEFINE g == x[1]
             n == x[2]
             y == UpFrom(x)
  <2>1. g \in Seq(Stream) /\ n \in Nat \ {0} /\ n \in 1..Len(g) /\ Len(g) \in Nat
    BY NodeParts
  <2>2. CASE GoesUp(x, key)
    <3>1. n > 1 /\ n \in 2..Len(g) /\ key[g[n]] < key[g[n \div 2]]
      BY <2>1, <2>2 DEF GoesUp, Larger
    <3>2. n \div 2 \in 1..Len(g)
      BY <2>1, <3>1, Half
    <3>3. y \in Node /\ y[1] = Exchange(g, n, n \div 2) /\ y[2] = n \div 2 /\ y[2] < n /\ y[2] \in Nat
      BY <2>2, UpNode, NodeParts DEF UpFrom
    <3>4. ButUp(y[1], y[2], key)
      BY <2>1, <3>1, <3>3, UpKeeps
    <3>5. Inj(y[1]) /\ Els(y[1]) = Els(g) /\ Len(y[1]) = Len(g)
      BY <2>1, <3>2, <3>3, ExchangeSame, Exchanged
    <3>6. SiftUp(key)[x] = SiftUp(key)[y]
      BY <2>2, SiftUpStep
    <3> HIDE DEF y
    <3>7. y[2] \in S
      BY <1>1, <3>3
    <3>8. Sifted(SiftUp(key)[y], y[1], key)
      BY <3>3, <3>4, <3>5, <3>7
    <3> QED
      BY <3>5, <3>6, <3>8 DEF Sifted
  <2>3. CASE ~GoesUp(x, key)
    <3>1. SiftUp(key)[x] = g
      BY <2>3, SiftUpStep
    <3>2. \A i \in 1..Len(g) : key[g[i]] \in Int
      BY <2>1, ElementOfSeq
    <3>3. n > 1 => Le(g, key, n \div 2, n)
      <4> SUFFICES ASSUME n > 1 PROVE key[g[n \div 2]] <= key[g[n]]
        BY DEF Le
      <4>1. n \div 2 \in 1..Len(g) /\ ~(key[g[n]] < key[g[n \div 2]])
        BY <2>1, <2>3, Half DEF GoesUp, Larger
      <4> QED
        BY <2>1, <3>2, <4>1
    <3>4. Heap(g, key)
      BY <3>3 DEF Heap, ButUp
    <3> QED
      BY <2>1, <3>1, <3>4 DEF Sifted
  <2> QED
    BY <2>2, <2>3
<1> HIDE DEF S
<1>2. \A k \in Nat : k \in S
  BY <1>1, SetInduction
<1> QED
  BY <1>2, NodeParts DEF S

-----------------------------------------------------------------------------
(* The step down of heap_max_heapify().                                    *)

\* A heap but for node n and its children.
ButDown(g, n, key) ==
    /\ \A m \in 2..Len(g) : m \div 2 # n => Le(g, key, m \div 2, m)
    /\ n > 1 => \A m \in 2..Len(g) : m \div 2 = n => Le(g, key, n \div 2, m)

\* The largest of the three is not after any child.
LEMMA LargestIs ==
  ASSUME NEW key \in [Stream -> Int], NEW g \in Seq(Stream), NEW n \in 1..Len(g)
  PROVE  /\ Largest(g, n, key) \in 1..Len(g)
         /\ Largest(g, n, key) # n =>
               /\ Largest(g, n, key) > n /\ Largest(g, n, key) \div 2 = n
               /\ key[g[Largest(g, n, key)]] < key[g[n]]
         /\ \A k \in 2..Len(g) : k \div 2 = n => Le(g, key, Largest(g, n, key), k)
<1> DEFINE K(k) == key[g[k]]
           l == IF 2 * n <= Len(g) /\ K(2 * n) < K(n) THEN 2 * n ELSE n
           m == IF 2 * n + 1 <= Len(g) /\ K(2 * n + 1) < K(l) THEN 2 * n + 1 ELSE l
<1>1. Largest(g, n, key) = m
  BY DEF Largest, Larger
<1>2. \A k \in 1..Len(g) : K(k) \in Int
  BY ElementOfSeq
<1>3. Len(g) \in Nat /\ n \in Nat /\ n >= 1 /\ n <= Len(g)
  BY LenProperties
<1> HIDE DEF K
<1>4. l \in 1..Len(g) /\ (l # n => l = 2 * n /\ K(l) < K(n)) /\ (2 * n <= Len(g) => K(l) <= K(2 * n))
      /\ K(l) <= K(n)
  <2>1. CASE 2 * n <= Len(g)
    <3>1. 2 * n \in 1..Len(g) /\ K(2 * n) \in Int /\ K(n) \in Int
      BY <1>2, <1>3, <2>1
    <3> QED
      BY <1>3, <3>1
  <2>2. CASE ~(2 * n <= Len(g))
    <3>1. K(n) \in Int
      BY <1>2, <1>3
    <3> QED
      BY <1>3, <2>2, <3>1
  <2> QED
    BY <2>1, <2>2
<1> HIDE DEF l
<1>5. /\ m \in 1..Len(g) /\ (m # n => (m = 2 * n \/ m = 2 * n + 1) /\ K(m) < K(n))
      /\ (2 * n <= Len(g) => K(m) <= K(2 * n))
      /\ (2 * n + 1 <= Len(g) => K(m) <= K(2 * n + 1))
  <2>1. K(l) \in Int /\ K(n) \in Int /\ l \in Nat
    BY <1>2, <1>3, <1>4
  <2>2. CASE 2 * n + 1 <= Len(g)
    <3>1. 2 * n + 1 \in 1..Len(g) /\ K(2 * n + 1) \in Int /\ 2 * n <= Len(g) /\ K(2 * n) \in Int
      BY <1>2, <1>3, <2>2
    <3>2. CASE K(2 * n + 1) < K(l)
      BY <1>3, <1>4, <2>1, <2>2, <3>1, <3>2
    <3>3. CASE ~(K(2 * n + 1) < K(l))
      BY <1>3, <1>4, <2>1, <2>2, <3>1, <3>3
    <3> QED
      BY <3>2, <3>3
  <2>3. CASE ~(2 * n + 1 <= Len(g))
    BY <1>3, <1>4, <2>3
  <2> QED
    BY <2>2, <2>3
<1> HIDE DEF m
<1>6. m # n => m > n /\ m \div 2 = n
  BY <1>3, <1>5
<1>7. ASSUME NEW k \in 2..Len(g), k \div 2 = n PROVE K(m) <= K(k)
  <2>1. k = 2 * n \/ k = 2 * n + 1
    BY <1>3, <1>7, Parent
  <2>2. k <= Len(g)
    BY <1>3
  <2> QED
    BY <1>5, <2>1, <2>2
<1> QED
  BY <1>1, <1>5, <1>6, <1>7 DEF K, Le

\* Where the node goes when it sinks.
DownFrom(x, key) == <<Exchange(x[1], x[2], Largest(x[1], x[2], key)), Largest(x[1], x[2], key)>>
Sinks(x, key) == Largest(x[1], x[2], key) # x[2]

\* A step down goes from a node to a node with a larger number.
LEMMA DownNode ==
  ASSUME NEW key \in [Stream -> Int], NEW x \in Node, Sinks(x, key)
  PROVE  /\ DownFrom(x, key) \in Node /\ DownFrom(x, key)[2] > x[2]
         /\ DownFrom(x, key)[1] = Exchange(x[1], x[2], Largest(x[1], x[2], key))
         /\ DownFrom(x, key)[2] = Largest(x[1], x[2], key)
         /\ Len(DownFrom(x, key)[1]) = Len(x[1])
<1> DEFINE m == Largest(x[1], x[2], key)
           e == Exchange(x[1], x[2], m)
<1>1. x[1] \in Seq(Stream) /\ x[2] \in 1..Len(x[1])
  BY NodeParts
<1>2. m \in 1..Len(x[1]) /\ m > x[2]
  BY <1>1, LargestIs DEF Sinks
<1>3. e \in Seq(Stream) /\ Len(e) = Len(x[1])
  BY <1>1, <1>2, Exchanged
<1> HIDE DEF e, m
<1>4. <<e, m>> \in Node /\ <<e, m>>[1] = e /\ <<e, m>>[2] = m
  BY <1>2, <1>3, NodeMade
<1>5. DownFrom(x, key) = <<e, m>>
  BY DEF DownFrom, e, m
<1> QED
  BY <1>2, <1>3, <1>4, <1>5 DEF e, m

\* The node sinks no deeper than the heap, so the definition defines it.
LEMMA SiftDownStep ==
  ASSUME NEW key \in [Stream -> Int], NEW x \in Node
  PROVE  SiftDown(key)[x] = IF Sinks(x, key) THEN SiftDown(key)[DownFrom(x, key)] ELSE x[1]
<1> DEFINE go == {y \in Node : Sinks(y, key)}
           nxt == [y \in Node |-> IF y \in go THEN DownFrom(y, key) ELSE y]
           mu == [y \in Node |-> Len(y[1]) - y[2]]
           base == [y \in Node |-> y[1]]
           Body(f) == [y \in Node |-> IF Sinks(y, key) THEN f[DownFrom(y, key)] ELSE y[1]]
<1>1. go \in SUBSET Node /\ nxt \in [Node -> Node] /\ base \in [Node -> Seq(Stream)]
  BY NodeParts, DownNode
<1>2. mu \in [Node -> Nat]
  <2>1. \A y \in Node : Len(y[1]) - y[2] \in Nat
    <3> TAKE y \in Node
    <3>1. y[2] \in 1..Len(y[1]) /\ Len(y[1]) \in Nat
      BY NodeParts
    <3> QED
      BY <3>1
  <2> QED
    BY <2>1
<1>3. \A y \in go : mu[nxt[y]] < mu[y]
  <2> TAKE y \in go
  <2>1. /\ y \in Node /\ nxt[y] = DownFrom(y, key) /\ nxt[y] \in Node
        /\ nxt[y][2] > y[2] /\ Len(nxt[y][1]) = Len(y[1])
    BY DownNode
  <2>2. y[2] \in Nat /\ nxt[y][2] \in Nat /\ Len(y[1]) \in Nat
    BY <2>1, NodeParts
  <2>3. mu[nxt[y]] = Len(nxt[y][1]) - nxt[y][2] /\ mu[y] = Len(y[1]) - y[2]
    BY <2>1
  <2> QED
    BY <2>1, <2>2, <2>3
<1>4. \A y \in Node : /\ y \in go <=> Sinks(y, key)
                      /\ y \in go => nxt[y] = DownFrom(y, key)
                      /\ base[y] = y[1]
  OBVIOUS
<1> HIDE DEF go, nxt, mu, base
<1>5. PICK f \in [Node -> Seq(Stream)] : \A y \in Node : f[y] = IF y \in go THEN f[nxt[y]] ELSE base[y]
  <2>1. Loop(Node, Seq(Stream), mu, go, nxt, base)
    BY <1>1, <1>2, <1>3 DEF Loop
  <2> QED
    BY <2>1, LoopDefined
<1>6. f = Body(f)
  <2>1. \A y \in Node : f[y] = Body(f)[y]
    BY <1>4, <1>5
  <2>2. Body(f) = [y \in Node |-> Body(f)[y]] /\ f = [y \in Node |-> f[y]]
    BY <1>5
  <2> QED
    BY <2>1, <2>2
<1>7. SiftDown(key) = CHOOSE u : u = Body(u)
  BY Zenon DEF SiftDown, Sinks, DownFrom
<1> HIDE DEF Body
<1>8. SiftDown(key) = Body(SiftDown(key))
  BY <1>6, <1>7
<1>9. Body(SiftDown(key))[x] = IF Sinks(x, key) THEN SiftDown(key)[DownFrom(x, key)] ELSE x[1]
  BY DEF Body
<1> QED
  BY <1>8, <1>9, Zenon

\* The child that takes the place of the node is not after its sibling, nor
\* before the parent.
LEMMA DownKeeps ==
  ASSUME NEW key \in [Stream -> Int], NEW g \in Seq(Stream), NEW n \in 1..Len(g),
         ButDown(g, n, key), Largest(g, n, key) # n
  PROVE  ButDown(Exchange(g, n, Largest(g, n, key)), Largest(g, n, key), key)
<1> DEFINE m == Largest(g, n, key)
           e == Exchange(g, n, m)
           K(k) == key[g[k]]
           L(k) == key[e[k]]
<1>1. Len(g) \in Nat /\ n \in Nat /\ n >= 1
  BY LenProperties
<1>2. /\ m \in 1..Len(g) /\ m > n /\ m \div 2 = n /\ K(m) < K(n)
      /\ \A k \in 2..Len(g) : k \div 2 = n => K(m) <= K(k)
  BY LargestIs DEF Le
<1>3. /\ Len(e) = Len(g) /\ L(n) = K(m) /\ L(m) = K(n)
      /\ \A k \in 1..Len(g) : k # n /\ k # m => L(k) = K(k)
  <2> HIDE DEF m
  <2> QED
    BY <1>2, Exchanged
<1>4. \A k \in 1..Len(g) : K(k) \in Int
  BY ElementOfSeq
<1>5. /\ \A k \in 2..Len(g) : k \div 2 # n => K(k \div 2) <= K(k)
      /\ n > 1 => \A k \in 2..Len(g) : k \div 2 = n => K(n \div 2) <= K(k)
  BY DEF ButDown, Le
<1>6. \A k \in 2..Len(g) : k \div 2 \in 1..k - 1 /\ k \div 2 \in 1..Len(g) /\ k \in 1..Len(g) /\ k \in Nat
  BY <1>1, Half
<1> HIDE DEF m, e, K, L
<1>7. m \in 2..Len(g) /\ m \in Nat
  BY <1>1, <1>2
<1>8. ASSUME NEW k \in 2..Len(g), k \div 2 # m PROVE L(k \div 2) <= L(k)
  <2>1. CASE k = m
    <3>1. L(k \div 2) = K(m) /\ L(k) = K(n) /\ K(m) \in Int /\ K(n) \in Int
      BY <1>2, <1>3, <1>4, <2>1
    <3> QED
      BY <1>2, <3>1
  <2>2. CASE k # m /\ k \div 2 = n
    <3>1. k # n /\ k \in 1..Len(g)
      BY <1>1, <1>6, <2>2
    <3>2. L(k \div 2) = K(m) /\ L(k) = K(k)
      BY <1>3, <2>2, <3>1
    <3> QED
      BY <1>2, <2>2, <3>2
  <2>3. CASE k = n
    <3>1. k \div 2 # n /\ n > 1 /\ k \div 2 \in 1..Len(g)
      BY <1>1, <1>6, <2>3
    <3>2. L(k \div 2) = K(n \div 2) /\ L(k) = K(m)
      BY <1>3, <1>8, <2>3, <3>1
    <3>3. K(n \div 2) <= K(m)
      BY <1>2, <1>5, <1>7, <3>1
    <3> QED
      BY <3>2, <3>3
  <2>4. CASE k # m /\ k # n /\ k \div 2 # n
    <3>1. L(k \div 2) = K(k \div 2) /\ L(k) = K(k)
      BY <1>3, <1>6, <1>8, <2>4
    <3>2. K(k \div 2) <= K(k)
      BY <1>5, <2>4
    <3> QED
      BY <3>1, <3>2
  <2> QED
    BY <2>1, <2>2, <2>3, <2>4
<1>9. ASSUME NEW k \in 2..Len(g), k \div 2 = m PROVE L(m \div 2) <= L(k)
  <2>1. k # m /\ k # n /\ k \in 1..Len(g) /\ k \div 2 # n
    BY <1>1, <1>2, <1>6, <1>7, <1>9
  <2>2. L(m \div 2) = K(m) /\ L(k) = K(k) /\ K(m) <= K(k)
    BY <1>2, <1>3, <1>5, <1>9, <2>1
  <2> QED
    BY <2>2
<1>10. ButDown(e, m, key)
  BY <1>3, <1>8, <1>9 DEF ButDown, Le, L
<1> QED
  BY <1>10 DEF e, m

-----------------------------------------------------------------------------
(* heap_insert() and heap_pop_max() as player.c uses them.                 *)

\* heap_max_heapify(): the descent restores the order of the heap.
LEMMA SiftDownHeap ==
  ASSUME NEW key \in [Stream -> Int]
  PROVE  \A x \in Node : Inj(x[1]) /\ ButDown(x[1], x[2], key) => Sifted(SiftDown(key)[x], x[1], key)
<1> DEFINE S == {k \in Nat : \A x \in Node : Len(x[1]) - x[2] = k /\ Inj(x[1]) /\ ButDown(x[1], x[2], key)
                                => Sifted(SiftDown(key)[x], x[1], key)}
<1>1. ASSUME NEW k \in Nat, \A m \in Nat : m < k => m \in S PROVE k \in S
  <2> SUFFICES ASSUME NEW x \in Node, Len(x[1]) - x[2] = k, Inj(x[1]), ButDown(x[1], x[2], key)
               PROVE  Sifted(SiftDown(key)[x], x[1], key)
    OBVIOUS
  <2> DEFINE g == x[1]
             n == x[2]
             y == DownFrom(x, key)
             m == Largest(g, n, key)
  <2>1. g \in Seq(Stream) /\ n \in Nat \ {0} /\ n \in 1..Len(g) /\ Len(g) \in Nat
    BY NodeParts
  <2>2. CASE Sinks(x, key)
    <3>1. m # n /\ m \in 1..Len(g)
      BY <2>1, <2>2, LargestIs DEF Sinks
    <3>2. y \in Node /\ y[2] > n /\ y[1] = Exchange(g, n, m) /\ y[2] = m /\ Len(y[1]) = Len(g)
      BY <2>2, DownNode
    <3>3. ButDown(y[1], y[2], key)
      BY <2>1, <3>1, <3>2, DownKeeps
    <3>4. Inj(y[1]) /\ Els(y[1]) = Els(g)
      BY <2>1, <3>1, <3>2, ExchangeSame
    <3>5. SiftDown(key)[x] = SiftDown(key)[y]
      BY <2>2, SiftDownStep
    <3>6. Len(y[1]) - y[2] \in Nat /\ Len(y[1]) - y[2] < k
      <4>1. y[2] \in 1..Len(y[1]) /\ Len(y[1]) \in Nat
        BY <3>2, NodeParts
      <4> QED
        BY <2>1, <3>2, <4>1
    <3> HIDE DEF y, m
    <3>7. Len(y[1]) - y[2] \in S
      BY <1>1, <3>6
    <3>8. Sifted(SiftDown(key)[y], y[1], key)
      BY <3>2, <3>3, <3>4, <3>7
    <3> QED
      BY <3>2, <3>4, <3>5, <3>8 DEF Sifted
  <2>3. CASE ~Sinks(x, key)
    <3>1. SiftDown(key)[x] = g
      BY <2>3, SiftDownStep
    <3>2. \A j \in 2..Len(g) : j \div 2 = n => Le(g, key, n, j)
      BY <2>1, <2>3, LargestIs DEF Sinks
    <3>3. Heap(g, key)
      BY <3>2 DEF Heap, ButDown
    <3> QED
      BY <2>1, <3>1, <3>3 DEF Sifted
  <2> QED
    BY <2>2, <2>3
<1> HIDE DEF S
<1>2. \A k \in Nat : k \in S
  BY <1>1, SetInduction
<1>3. \A x \in Node : Len(x[1]) - x[2] \in Nat
  <2> TAKE x \in Node
  <2>1. x[2] \in 1..Len(x[1]) /\ Len(x[1]) \in Nat
    BY NodeParts
  <2> QED
    BY <2>1
<1> QED
  BY <1>2, <1>3 DEF S

\* heap_insert() adds the stream and keeps the order.
LEMMA InsertHeap ==
  ASSUME NEW key \in [Stream -> Int], NEW h \in Seq(Stream), NEW s \in Stream,
         Inj(h), s \notin Els(h), Heap(h, key)
  PROVE  /\ HeapInsert(h, s, key) \in Seq(Stream) /\ Inj(HeapInsert(h, s, key))
         /\ Els(HeapInsert(h, s, key)) = Els(h) \union {s} /\ Heap(HeapInsert(h, s, key), key)
         /\ HeapInsert(h, s, key) # <<>>
<1> DEFINE g == Append(h, s)
           n == Len(h) + 1
<1>1. /\ g \in Seq(Stream) /\ Len(g) = n /\ n \in Nat \ {0} /\ Len(h) \in Nat
      /\ g[n] = s /\ \A i \in 1..Len(h) : g[i] = h[i]
  BY AppendProperties, LenProperties
<1> HIDE DEF g
<1>2. Inj(g)
  <2> SUFFICES ASSUME NEW i \in 1..n, NEW j \in 1..n, g[i] = g[j] PROVE i = j
    BY <1>1 DEF Inj
  <2>1. CASE i \in 1..Len(h) /\ j \in 1..Len(h)
    BY <1>1, <2>1 DEF Inj
  <2>2. CASE i = n /\ j = n
    BY <2>2
  <2>3. CASE i = n /\ j \in 1..Len(h)
    BY <1>1, <2>3 DEF Els
  <2>4. CASE j = n /\ i \in 1..Len(h)
    BY <1>1, <2>4 DEF Els
  <2> QED
    BY <1>1, <2>1, <2>2, <2>3, <2>4
<1>3. Els(g) = Els(h) \union {s}
  <2>1. ASSUME NEW v \in Els(g) PROVE v \in Els(h) \union {s}
    <3>1. PICK i \in 1..n : v = g[i]
      BY <1>1 DEF Els
    <3>2. i = n \/ i \in 1..Len(h)
      BY <1>1
    <3> QED
      BY <1>1, <3>1, <3>2 DEF Els
  <2>2. ASSUME NEW v \in Els(h) \union {s} PROVE v \in Els(g)
    <3>1. n \in 1..n /\ \A i \in 1..Len(h) : i \in 1..n
      BY <1>1
    <3> QED
      BY <1>1, <3>1 DEF Els
  <2> QED
    BY <2>1, <2>2
<1>4. ButUp(g, n, key)
  <2>1. ASSUME NEW m \in 2..n, m # n PROVE Le(g, key, m \div 2, m)
    <3>1. m \in 2..Len(h) /\ m \in 1..Len(h) /\ m \div 2 \in 1..Len(h)
      BY <1>1, <2>1, Half
    <3> QED
      BY <1>1, <3>1 DEF Heap, Le
  <2>2. \A m \in 2..n : m \div 2 # n
    <3> TAKE m \in 2..n
    <3>1. m \div 2 \in 1..m - 1
      BY <1>1, Half
    <3> QED
      BY <1>1, <3>1
  <2> QED
    BY <1>1, <2>1, <2>2 DEF ButUp
<1>5. <<g, n>> \in Node /\ <<g, n>>[1] = g /\ <<g, n>>[2] = n
  <2>1. n \in 1..Len(g)
    BY <1>1
  <2> QED
    BY <1>1, <2>1, NodeMade
<1>6. Sifted(SiftUp(key)[<<g, n>>], g, key)
  <2> DEFINE x == <<g, n>>
  <2> HIDE DEF x
  <2>1. x \in Node /\ x[1] = g /\ x[2] = n
    BY <1>5 DEF x
  <2>2. Sifted(SiftUp(key)[x], g, key)
    BY <1>2, <1>4, <2>1, SiftUpHeap
  <2> QED
    BY <2>2 DEF x
<1>7. HeapInsert(h, s, key) = SiftUp(key)[<<g, n>>]
  BY DEF HeapInsert, g
<1>8. Len(HeapInsert(h, s, key)) # 0
  BY <1>1, <1>6, <1>7 DEF Sifted
<1> QED
  BY <1>3, <1>6, <1>7, <1>8, EmptySeq DEF Sifted

\* heap_pop_max() takes the root away and keeps the order.
LEMMA PopHeap ==
  ASSUME NEW key \in [Stream -> Int], NEW h \in Seq(Stream), h # <<>>, Inj(h), Heap(h, key)
  PROVE  /\ HeapPop(h, key) \in Seq(Stream) /\ Inj(HeapPop(h, key))
         /\ Els(HeapPop(h, key)) = Els(h) \ {h[1]} /\ Heap(HeapPop(h, key), key)
<1>1. Len(h) \in Nat \ {0}
  BY EmptySeq
<1>2. CASE Len(h) = 1
  <2>1. HeapPop(h, key) = <<>>
    BY <1>2 DEF HeapPop
  <2>2. Els(h) = {h[1]} /\ Els(<<>>) = {}
    BY <1>2 DEF Els
  <2>3. <<>> \in Seq(Stream) /\ Inj(<<>>) /\ Heap(<<>>, key)
    BY DEF Inj, Heap
  <2>4. Els(<<>>) = Els(h) \ {h[1]}
    BY <2>2
  <2> QED
    BY <2>1, <2>3, <2>4, Zenon
<1>3. CASE Len(h) # 1
  <2> DEFINE n == Len(h) - 1
             f == Front(h)
             g == [f EXCEPT ![1] = Last(h)]
  <2>1. n \in Nat \ {0} /\ Len(h) = n + 1 /\ 1 \in 1..n
    <3> DEFINE k == Len(h)
    <3>1. k \in Nat /\ k # 0 /\ k # 1
      BY <1>1, <1>3
    <3> HIDE DEF k
    <3>2. k - 1 \in Nat \ {0} /\ k = (k - 1) + 1 /\ 1 \in 1..(k - 1)
      BY <3>1
    <3> QED
      BY <3>2 DEF k
  <2>2. f \in Seq(Stream) /\ Len(f) = n /\ \A i \in 1..n : f[i] = h[i]
    <3>1. \A i \in 1..n : h[i] \in Stream
      BY <2>1, ElementOfSeq
    <3>2. SubSeq(h, 1, n) \in Seq(Stream) /\ Len(SubSeq(h, 1, n)) = n /\ \A i \in 1..n : SubSeq(h, 1, n)[i] = h[i]
      <4>1. 1 \in 1..Len(h) + 1 /\ n \in 0..Len(h)
        BY <2>1
      <4> QED
        BY <2>1, <3>1, <4>1, SubSeqProperties
    <3> QED
      BY <3>2 DEF Front
  <2>3. Last(h) = h[n + 1] /\ h[n + 1] \in Stream
    BY <2>1, ElementOfSeq DEF Last
  <2> HIDE DEF f, n
  <2>4. g \in Seq(Stream) /\ Len(g) = n /\ g[1] = h[n + 1] /\ \A i \in 2..n : g[i] = h[i]
    <3>1. f \in [1..n -> Stream]
      BY <2>2, LenProperties
    <3>2. g \in [1..n -> Stream] /\ g[1] = h[n + 1] /\ \A i \in 2..n : g[i] = h[i]
      BY <2>1, <2>2, <2>3, <3>1
    <3> HIDE DEF g
    <3>3. g \in Seq(Stream)
      BY <2>1, <3>2, SeqDef
    <3> QED
      BY <2>1, <3>2, <3>3, LenProperties
  <2> HIDE DEF g
  <2>5. Inj(g)
    <3> DEFINE To(i) == IF i = 1 THEN n + 1 ELSE i
    <3>1. \A i \in 1..n : g[i] = h[To(i)] /\ To(i) \in 1..Len(h)
      BY <2>1, <2>4
    <3> SUFFICES ASSUME NEW i \in 1..n, NEW j \in 1..n, g[i] = g[j] PROVE i = j
      BY <2>4 DEF Inj
    <3>2. To(i) = To(j)
      <4> HIDE DEF To
      <4> QED
        BY <3>1 DEF Inj
    <3> QED
      BY <2>1, <3>2
  <2>6. Els(g) = Els(h) \ {h[1]}
    <3>1. ASSUME NEW v \in Els(g) PROVE v \in Els(h) \ {h[1]}
      <4>1. PICK i \in 1..n : v = g[i]
        BY <2>4 DEF Els
      <4>2. PICK j \in 2..n + 1 : v = h[j]
        <5>1. CASE i = 1
          BY <2>1, <2>4, <4>1, <5>1
        <5>2. CASE i # 1
          BY <2>1, <2>4, <4>1, <5>2
        <5> QED
          BY <5>1, <5>2
      <4>3. j \in 1..Len(h) /\ 1 \in 1..Len(h) /\ j # 1
        BY <2>1
      <4> QED
        BY <4>2, <4>3 DEF Els, Inj
    <3>2. ASSUME NEW v \in Els(h) \ {h[1]} PROVE v \in Els(g)
      <4>1. PICK j \in 1..n + 1 : v = h[j]
        BY <2>1 DEF Els
      <4>2. j # 1
        BY <3>2, <4>1
      <4>3. CASE j = n + 1
        BY <2>1, <2>4, <4>1, <4>3 DEF Els
      <4>4. CASE j # n + 1
        <5>1. j \in 2..n /\ j \in 1..n
          BY <2>1, <4>2, <4>4
        <5> QED
          BY <2>4, <4>1, <5>1 DEF Els
      <4> QED
        BY <4>3, <4>4
    <3> QED
      BY <3>1, <3>2
  <2>7. ButDown(g, 1, key)
    <3>1. ASSUME NEW m \in 2..n, m \div 2 # 1 PROVE Le(g, key, m \div 2, m)
      <4>1. m \in Nat /\ m > 1
        BY <2>1
      <4>2. m \div 2 \in 1..m - 1
        BY <4>1, Half
      <4>3. m \div 2 \in 2..n /\ m \in 2..Len(h)
        BY <2>1, <3>1, <4>2
      <4> QED
        BY <2>4, <4>3 DEF Heap, Le
    <3> QED
      BY <2>4, <3>1 DEF ButDown
  <2>8. <<g, 1>> \in Node /\ <<g, 1>>[1] = g /\ <<g, 1>>[2] = 1
    BY <2>1, <2>4, NodeMade
  <2>9. Sifted(SiftDown(key)[<<g, 1>>], g, key)
    <3> DEFINE x == <<g, 1>>
    <3> HIDE DEF x
    <3>1. x \in Node /\ x[1] = g /\ x[2] = 1
      BY <2>8 DEF x
    <3>2. Sifted(SiftDown(key)[x], g, key)
      BY <2>5, <2>7, <3>1, SiftDownHeap
    <3> QED
      BY <3>2 DEF x
  <2>10. HeapPop(h, key) = SiftDown(key)[<<g, 1>>]
    BY <1>3 DEF HeapPop, g, f
  <2> QED
    BY <2>6, <2>9, <2>10 DEF Sifted
<1> QED
  BY <1>2, <1>3

\* The root is the first: no other node is before it.
LEMMA RootFirst ==
  ASSUME NEW key \in [Stream -> Int], NEW h \in Seq(Stream), Heap(h, key)
  PROVE  \A s \in Els(h) : key[h[1]] <= key[s]
<1> DEFINE S == {k \in Nat : k \in 1..Len(h) => key[h[1]] <= key[h[k]]}
<1>1. \A i \in 1..Len(h) : key[h[i]] \in Int
  BY ElementOfSeq
<1>2. ASSUME NEW k \in Nat, \A m \in Nat : m < k => m \in S PROVE k \in S
  <2> SUFFICES ASSUME k \in 1..Len(h) PROVE key[h[1]] <= key[h[k]]
    OBVIOUS
  <2>1. CASE k = 1
    BY <1>1, <2>1
  <2>2. CASE k # 1
    <3>1. k > 1 /\ k \in 2..Len(h) /\ Len(h) \in Nat
      BY <2>2, LenProperties
    <3>2. k \div 2 \in 1..k - 1 /\ k \div 2 \in 1..Len(h) /\ k \div 2 \in Nat /\ k \div 2 < k /\ 1 \in 1..Len(h)
      BY <3>1, Half
    <3>3. key[h[1]] <= key[h[k \div 2]]
      BY <1>2, <3>2
    <3>4. key[h[k \div 2]] <= key[h[k]]
      BY <3>1 DEF Heap, Le
    <3>5. key[h[1]] \in Int /\ key[h[k \div 2]] \in Int /\ key[h[k]] \in Int
      BY <1>1, <3>2
    <3> QED
      BY <3>3, <3>4, <3>5
  <2> QED
    BY <2>1, <2>2
<1> HIDE DEF S
<1>3. \A k \in Nat : k \in S
  BY <1>2, SetInduction
<1>4. \A k \in 1..Len(h) : k \in Nat
  BY LenProperties
<1> QED
  BY <1>3, <1>4 DEF S, Els

-----------------------------------------------------------------------------
(* A stream is stepped (stream_step) and put back in the heap (step_stream). *)

State == [active : BOOLEAN, loaded : BOOLEAN, offset : Nat, lastclock : Int]

TraceType ==
    /\ trace.clocks \in [Stream -> Seq(Int)]
    /\ trace.unsorted \in BOOLEAN

\* The clock of the event before number n of a stream.
ClockBefore(s, n) == IF n = 0 THEN 0 ELSE trace.clocks[s][n]

\* Event number n + 1 of a stream is complete and not before the last one.
ValidAt(s, n) ==
    /\ s \in trace.torn => n + 1 # Size(s)
    /\ trace.unsorted \/ trace.clocks[s][n + 1] >= ClockBefore(s, n)

\* What a stream holds, in the three states it goes through.
Good(st, s) ==
    /\ st \in State
    /\ st.loaded =>
          /\ st.active /\ st.offset < Size(s)
          /\ st.lastclock = trace.clocks[s][st.offset + 1] /\ ValidAt(s, st.offset)
    /\ st.active /\ ~st.loaded => st.offset = 0 /\ st.lastclock = 0 /\ Size(s) > 0
    /\ ~st.active => ~st.loaded /\ st.offset = Size(s)

\* A heap with exactly the streams that have an event loaded, but for one.
Holds(h, str, c) ==
    /\ h \in Seq(Stream) /\ Inj(h)
    /\ Els(h) = {s \in Stream : str[s].loaded} \ {c}
    /\ Heap(h, Key(str))

AllGood(str) == str = [s \in Stream |-> str[s]] /\ \A s \in Stream : Good(str[s], s)

\* The clocks of the streams are integers, and their sizes naturals.
LEMMA KeyType == ASSUME NEW str, AllGood(str) PROVE Key(str) \in [Stream -> Int]
  BY DEF AllGood, Good, State, Key

\* A stream has a number of events.
LEMMA SizeType == ASSUME TraceType, NEW s \in Stream PROVE Size(s) \in Nat
  BY LenProperties DEF TraceType, Size

\* The order of a heap is the one of the clocks of its own streams.
LEMMA HeapKeys ==
  ASSUME NEW h \in Seq(Stream), NEW k1, NEW k2, Heap(h, k1), \A s \in Els(h) : k1[s] = k2[s]
  PROVE  Heap(h, k2)
<1> SUFFICES ASSUME NEW n \in 2..Len(h) PROVE Le(h, k2, n \div 2, n)
  BY DEF Heap
<1>1. n \in 1..Len(h) /\ n \div 2 \in 1..Len(h)
  BY Half, LenProperties
<1>2. h[n] \in Els(h) /\ h[n \div 2] \in Els(h)
  BY <1>1 DEF Els
<1> QED
  BY <1>2 DEF Heap, Le

\* stream_step() rejects an event of an active stream exactly when it is not valid.
LEMMA NextAt ==
  ASSUME TraceType, NEW s \in Stream, Good(stream[s], s), stream[s].active, ~AtEnd(s)
  PROVE  /\ Passed(stream[s]) \in Nat /\ Passed(stream[s]) < Size(s)
         /\ EventClock(s) \in Int /\ EventClock(s) = trace.clocks[s][Passed(stream[s]) + 1]
         /\ ~trace.unsorted /\ ~Rejected(s) => EventClock(s) >= stream[s].lastclock
         /\ Rejected(s) <=> ~ValidAt(s, Passed(stream[s]))
<1> DEFINE st == stream[s]
           p == Passed(stream[s])
<1>1. st \in State /\ Size(s) \in Nat /\ trace.clocks[s] \in Seq(Int) /\ Size(s) = Len(trace.clocks[s])
  BY SizeType DEF Good, TraceType, Size
<1>2. /\ st.offset \in Nat /\ st.loaded \in BOOLEAN /\ st.lastclock \in Int
  BY <1>1 DEF State
<1>3. p = IF st.loaded THEN st.offset + 1 ELSE st.offset
  BY <1>2 DEF Passed
<1>4. p \in Nat /\ p < Size(s)
  <2>1. CASE st.loaded
    <3>1. st.offset < Size(s) /\ p = st.offset + 1 /\ p # Size(s)
      BY <1>3, <2>1 DEF Good, AtEnd
    <3> QED
      BY <1>1, <1>2, <3>1
  <2>2. CASE ~st.loaded
    BY <1>1, <1>3, <2>2 DEF Good
  <2> QED
    BY <2>1, <2>2
<1>5. EventClock(s) = trace.clocks[s][p + 1]
  BY DEF EventClock
<1>6. \A i \in 1..Size(s) : trace.clocks[s][i] \in Int
  BY <1>1, ElementOfSeq
<1>7. EventClock(s) \in Int
  BY <1>1, <1>4, <1>5, <1>6
<1>8. st.lastclock = ClockBefore(s, p)
  <2>1. CASE st.loaded
    <3>1. p # 0 /\ p = st.offset + 1
      BY <1>2, <1>3, <2>1
    <3> QED
      BY <2>1, <3>1 DEF Good, ClockBefore
  <2>2. CASE ~st.loaded
    BY <1>3, <2>2 DEF Good, ClockBefore
  <2> QED
    BY <2>1, <2>2
<1>9. Rejected(s) <=> \/ s \in trace.torn /\ p + 1 = Size(s)
                      \/ ~trace.unsorted /\ EventClock(s) < st.lastclock
  BY DEF Rejected
<1>10. EventClock(s) >= st.lastclock <=> ~(EventClock(s) < st.lastclock)
  BY <1>2, <1>7
<1> DEFINE e == EventClock(s)
           l == st.lastclock
<1>11. ValidAt(s, p) <=> /\ s \in trace.torn => p + 1 # Size(s)
                         /\ trace.unsorted \/ e >= l
  <2>1. ValidAt(s, p) <=> /\ s \in trace.torn => p + 1 # Size(s)
                          /\ trace.unsorted \/ trace.clocks[s][p + 1] >= ClockBefore(s, p)
    BY Zenon DEF ValidAt
  <2> HIDE DEF p
  <2> QED
    BY <1>5, <1>8, <2>1
<1>12. Rejected(s) <=> ~ValidAt(s, p)
  <2> HIDE DEF p, e, l
  <2>1. trace.unsorted \in BOOLEAN
    BY DEF TraceType
  <2>2. Rejected(s) <=> (s \in trace.torn /\ p + 1 = Size(s)) \/ (~trace.unsorted /\ ~(e >= l))
    BY <1>9, <1>10 DEF e, l
  <2> QED
    BY <1>11, <2>1, <2>2, Zenon
<1> QED
  BY <1>4, <1>5, <1>7, <1>9, <1>10, <1>12

\* stream_step() leaves a stream with its next event, or ended, in order.
LEMMA SteppedGood ==
  ASSUME TraceType, AllGood(stream), NEW s \in Stream, ~Rejected(s)
  PROVE  /\ AllGood(SteppedStreams(s))
         /\ \A r \in Stream : r # s => SteppedStreams(s)[r] = stream[r]
         /\ SteppedStreams(s)[s].active => SteppedStreams(s)[s].loaded
         /\ SteppedStreams(s)[s].loaded <=> stream[s].active /\ ~AtEnd(s)
         /\ SteppedStreams(s)[s].offset = Passed(stream[s])
         /\ SteppedStreams(s)[s].loaded /\ ~trace.unsorted =>
               SteppedStreams(s)[s].lastclock >= stream[s].lastclock
<1> DEFINE str == SteppedStreams(s)
           st == stream[s]
<1>1. st \in State /\ Good(st, s) /\ Size(s) \in Nat
  BY SizeType DEF AllGood, Good
<1>2. st.offset \in Nat /\ st.loaded \in BOOLEAN /\ st.lastclock \in Int /\ st.active \in BOOLEAN
  BY <1>1 DEF State
<1>3. CASE ~st.active
  <2>1. str = stream /\ ~st.loaded
    BY <1>1, <1>3 DEF SteppedStreams, Good
  <2>2. Passed(st) = st.offset
    BY <1>2, <2>1 DEF Passed
  <2> QED
    BY <1>3, <2>1, <2>2
<1>4. CASE st.active
  <2> DEFINE n == StreamStep(s)
  <2>1. str = [stream EXCEPT ![s] = n]
    BY <1>4 DEF SteppedStreams
  <2>2. str[s] = n /\ (\A r \in Stream : r # s => str[r] = stream[r]) /\ str = [r \in Stream |-> str[r]]
    BY <2>1 DEF AllGood
  <2>3. CASE AtEnd(s)
    <3>1. /\ n.active = FALSE /\ n.loaded = FALSE /\ n.offset = Passed(st) /\ n.lastclock = st.lastclock
          /\ n = [active |-> FALSE, loaded |-> FALSE, offset |-> Passed(st), lastclock |-> st.lastclock]
      BY <2>3 DEF StreamStep
    <3>2. Passed(st) = Size(s)
      BY <2>3 DEF AtEnd
    <3>3. n \in State
      BY <1>1, <1>2, <3>1, <3>2 DEF State
    <3> HIDE DEF n, str
    <3>4. Good(n, s)
      BY <3>1, <3>2, <3>3 DEF Good
    <3>5. AllGood(str)
      BY <2>2, <3>4 DEF AllGood
    <3> QED
      BY <2>2, <2>3, <3>1, <3>5 DEF str
  <2>4. CASE ~AtEnd(s)
    <3>1. /\ n.active = TRUE /\ n.loaded = TRUE /\ n.offset = Passed(st) /\ n.lastclock = EventClock(s)
          /\ n = [active |-> TRUE, loaded |-> TRUE, offset |-> Passed(st), lastclock |-> EventClock(s)]
      BY <2>4 DEF StreamStep
    <3>2. /\ Passed(st) \in Nat /\ Passed(st) < Size(s)
          /\ EventClock(s) \in Int /\ EventClock(s) = trace.clocks[s][Passed(st) + 1]
          /\ ValidAt(s, Passed(st))
          /\ ~trace.unsorted => EventClock(s) >= st.lastclock
      BY <1>1, <1>4, <2>4, NextAt
    <3>3. n \in State
      BY <3>1, <3>2 DEF State
    <3> HIDE DEF n, str
    <3>4. Good(n, s)
      BY <3>1, <3>2, <3>3 DEF Good
    <3>5. AllGood(str)
      BY <2>2, <3>4 DEF AllGood
    <3> QED
      BY <1>4, <2>2, <2>4, <3>1, <3>2, <3>5 DEF str
  <2> QED
    BY <2>3, <2>4
<1> QED
  BY <1>2, <1>3, <1>4

\* A stream out of the heap is stepped and comes back if it has an event.
LEMMA SteppedHolds ==
  ASSUME TraceType, AllGood(stream), NEW s \in Stream, ~Rejected(s), Holds(heap, stream, s)
  PROVE  /\ Holds(SteppedHeap(s), SteppedStreams(s), 0)
         /\ stream[s].active /\ ~AtEnd(s) => SteppedHeap(s) # <<>>
<1> DEFINE str == SteppedStreams(s)
<1>1. /\ AllGood(str) /\ \A r \in Stream : r # s => str[r] = stream[r]
      /\ str[s].loaded <=> stream[s].active /\ ~AtEnd(s)
  BY SteppedGood
<1>2. Key(str) \in [Stream -> Int]
  BY <1>1, KeyType
<1>3. heap \in Seq(Stream) /\ Inj(heap) /\ s \notin Els(heap) /\ Els(heap) = {r \in Stream : stream[r].loaded} \ {s}
  BY DEF Holds
<1>4. Heap(heap, Key(str))
  <2>1. \A r \in Els(heap) : Key(stream)[r] = Key(str)[r]
    <3> HIDE DEF str
    <3> QED
      BY <1>1, <1>3 DEF Key
  <2>2. Heap(heap, Key(stream))
    BY DEF Holds
  <2> QED
    BY <1>3, <2>1, <2>2, HeapKeys
<1>5. 0 \notin Stream
  BY PlayerAssumption DEF Stream
<1>6. CASE stream[s].active /\ ~AtEnd(s)
  <2> DEFINE h == HeapInsert(heap, s, Key(str))
  <2>1. SteppedHeap(s) = h
    BY <1>6 DEF SteppedHeap
  <2>2. h \in Seq(Stream) /\ Inj(h) /\ Els(h) = Els(heap) \union {s} /\ Heap(h, Key(str)) /\ h # <<>>
    BY <1>2, <1>3, <1>4, InsertHeap
  <2> HIDE DEF h, str
  <2>3. Els(h) = {r \in Stream : str[r].loaded} \ {0}
    BY <1>1, <1>3, <1>5, <1>6, <2>2
  <2>4. Holds(h, str, 0)
    BY <2>2, <2>3 DEF Holds
  <2> QED
    BY <2>1, <2>2, <2>4 DEF str
<1>7. CASE ~(stream[s].active /\ ~AtEnd(s))
  <2>1. SteppedHeap(s) = heap
    BY <1>7 DEF SteppedHeap
  <2> HIDE DEF str
  <2>2. Els(heap) = {r \in Stream : str[r].loaded} \ {0}
    BY <1>1, <1>3, <1>5, <1>7
  <2>3. Holds(heap, str, 0)
    BY <1>3, <1>4, <2>2 DEF Holds
  <2> QED
    BY <1>7, <2>1, <2>3 DEF str
<1> QED
  BY <1>6, <1>7

-----------------------------------------------------------------------------
(* The inductive invariant of the player.                                  *)

\* player_init(): the streams before toLoad have been loaded.
Loading ==
    /\ cur = 0 /\ clock.first = TRUE /\ clock.lastclock = 0
    /\ toLoad \in 1..NumStreams + 1
    /\ \A s \in Stream : IF s < toLoad THEN stream[s].active => stream[s].loaded
                                       ELSE ~stream[s].loaded

\* player_step(): the event of cur was the last one delivered, and in a sorted
\* trace no event that is loaded is before it.
Playing ==
    /\ \A s \in Stream : stream[s].active => stream[s].loaded
    /\ IF cur = 0 THEN clock.first = TRUE
       ELSE /\ stream[cur].loaded
            /\ clock.lastclock = stream[cur].lastclock
            /\ ~trace.unsorted =>
                  \A s \in Stream : stream[s].loaded => stream[s].lastclock >= clock.lastclock

\* The inductive invariant of the player.
PlayerInv ==
    /\ TraceType
    /\ status \in {"load", "run"} =>
          cur \in Stream \union {0} /\ AllGood(stream) /\ Holds(heap, stream, cur)
    /\ status = "load" => Loading
    /\ status = "run" => Playing

\* NULL is not a stream.
LEMMA NoStreamZero == 0 \notin Stream
  BY PlayerAssumption DEF Stream

\* player_step() before the heap is popped: the stream of the last event is
\* back in the heap with its next event, unless it has none.
LEMMA PlayedState ==
  ASSUME PlayerInv, status = "run", ~PlayFails
  PROVE  /\ AllGood(PlayedStreams)
         /\ Holds(PlayedHeap, PlayedStreams, 0)
         /\ \A s \in Stream : PlayedStreams[s].active => PlayedStreams[s].loaded
         /\ ~trace.unsorted /\ cur # 0 =>
               \A s \in Stream : PlayedStreams[s].loaded => PlayedStreams[s].lastclock >= clock.lastclock
<1>1. /\ TraceType /\ cur \in Stream \union {0} /\ AllGood(stream) /\ Holds(heap, stream, cur)
      /\ Playing
  BY DEF PlayerInv
<1>2. CASE cur = 0
  <2>1. PlayedHeap = heap /\ PlayedStreams = stream
    BY <1>2 DEF PlayedHeap, PlayedStreams
  <2> QED
    BY <1>1, <1>2, <2>1 DEF Playing
<1>3. CASE cur # 0
  <2>1. PlayedHeap = SteppedHeap(cur) /\ PlayedStreams = SteppedStreams(cur) /\ ~Rejected(cur) /\ cur \in Stream
    BY <1>1, <1>3 DEF PlayedHeap, PlayedStreams, PlayFails
  <2> DEFINE str == PlayedStreams
  <2>2. /\ AllGood(str)
        /\ \A r \in Stream : r # cur => str[r] = stream[r]
        /\ str[cur].active => str[cur].loaded
        /\ str[cur].loaded /\ ~trace.unsorted => str[cur].lastclock >= stream[cur].lastclock
    BY <1>1, <2>1, SteppedGood
  <2>3. Holds(PlayedHeap, str, 0)
    BY <1>1, <2>1, SteppedHolds
  <2> HIDE DEF str
  <2>4. \A s \in Stream : str[s].active => str[s].loaded
    BY <1>1, <2>2 DEF Playing
  <2>5. ASSUME ~trace.unsorted, NEW s \in Stream, str[s].loaded PROVE str[s].lastclock >= clock.lastclock
    <3>1. CASE s = cur
      BY <1>1, <1>3, <2>2, <2>5, <3>1 DEF Playing
    <3>2. CASE s # cur
      BY <1>1, <1>3, <2>2, <2>5, <3>2 DEF Playing
    <3> QED
      BY <3>1, <3>2
  <2> QED
    BY <2>2, <2>3, <2>4, <2>5 DEF str
<1> QED
  BY <1>2, <1>3

\* The event that player_step() delivers is the earliest of those loaded, and in
\* a sorted trace is not before the last one: update_clocks() never fails.
LEMMA PlayedFirst ==
  ASSUME PlayerInv, status = "run", ~PlayFails, PlayedHeap # <<>>
  PROVE  /\ PlayedHeap[1] \in Stream /\ PlayedStreams[PlayedHeap[1]].loaded
         /\ \A r \in Stream : PlayedStreams[r].loaded =>
               PlayedStreams[PlayedHeap[1]].lastclock <= PlayedStreams[r].lastclock
         /\ ~Backwards(PlayedStreams[PlayedHeap[1]].lastclock)
         /\ Holds(HeapPop(PlayedHeap, Key(PlayedStreams)), PlayedStreams, PlayedHeap[1])
<1> DEFINE h == PlayedHeap
           str == PlayedStreams
           s == h[1]
           key == Key(str)
<1>1. /\ AllGood(str) /\ Holds(h, str, 0)
      /\ ~trace.unsorted /\ cur # 0 =>
               \A r \in Stream : str[r].loaded => str[r].lastclock >= clock.lastclock
  BY PlayedState
<1> HIDE DEF str, h
<1>2. key \in [Stream -> Int] /\ h \in Seq(Stream) /\ Inj(h) /\ Heap(h, key) /\ h # <<>>
  BY <1>1, KeyType DEF Holds, h
<1>3. Els(h) = {r \in Stream : str[r].loaded}
  BY <1>1, NoStreamZero DEF Holds
<1>4. s \in Els(h)
  <2>1. Len(h) \in Nat /\ Len(h) # 0
    BY <1>2, EmptySeq, LenProperties
  <2>2. 1 \in 1..Len(h)
    BY <2>1
  <2> QED
    BY <2>2 DEF Els
<1>5. s \in Stream /\ str[s].loaded
  BY <1>3, <1>4
<1>6. \A r \in Stream : key[r] = str[r].lastclock
  BY DEF Key
<1>7. \A r \in Stream : str[r].loaded => str[s].lastclock <= str[r].lastclock
  <2>1. \A r \in Els(h) : key[s] <= key[r]
    BY <1>2, RootFirst
  <2> QED
    BY <1>3, <1>5, <1>6, <2>1
<1>8. ~Backwards(str[s].lastclock)
  <2>1. cur = 0 => clock.first = TRUE
    BY DEF PlayerInv, Playing
  <2>2. CASE cur = 0
    BY <2>1, <2>2 DEF Backwards
  <2>3. CASE cur # 0
    <3>1. clock.lastclock \in Int
      <4>1. cur \in Stream /\ clock.lastclock = stream[cur].lastclock /\ stream[cur] \in State
        BY <2>3 DEF PlayerInv, Playing, AllGood, Good
      <4> QED
        BY <4>1 DEF State
    <3>2. str[s].lastclock \in Int
      BY <1>2, <1>5, <1>6
    <3>3. CASE trace.unsorted
      BY <3>3 DEF Backwards
    <3>4. CASE ~trace.unsorted
      <4>1. str[s].lastclock >= clock.lastclock
        BY <1>1, <1>5, <2>3, <3>4
      <4> QED
        BY <3>1, <3>2, <4>1 DEF Backwards
    <3> QED
      BY <3>3, <3>4
  <2> QED
    BY <2>2, <2>3
<1>9. Holds(HeapPop(h, key), str, s)
  <2> DEFINE g == HeapPop(h, key)
  <2>1. g \in Seq(Stream) /\ Inj(g) /\ Els(g) = Els(h) \ {s} /\ Heap(g, key)
    BY <1>2, PopHeap
  <2> HIDE DEF g
  <2>2. Els(g) = {r \in Stream : str[r].loaded} \ {s}
    BY <1>3, <2>1
  <2>3. Holds(g, str, s)
    BY <2>1, <2>2 DEF Holds
  <2> QED
    BY <2>3 DEF g
<1> QED
  BY <1>5, <1>7, <1>8, <1>9 DEF h, str

\* player_init() begins with no stream loaded.
LEMMA PlayerInvInit == Init => PlayerInv
<1> SUFFICES ASSUME Init PROVE PlayerInv
  OBVIOUS
<1>1. TraceType
  <2>1. trace \in Traces
    BY DEF Init
  <2> QED
    BY <2>1, PlayerAssumption DEF Traces, TraceType
<1>2. /\ stream = [s \in Stream |-> [active |-> Size(s) > 0, loaded |-> FALSE,
                                   offset |-> 0, lastclock |-> 0]]
      /\ heap = <<>> /\ toLoad = 1 /\ cur = 0 /\ status = "load"
      /\ clock = [first |-> TRUE, firstclock |-> 0, lastclock |-> 0]
  BY DEF Init
<1>3. ASSUME NEW s \in Stream PROVE Good(stream[s], s) /\ ~stream[s].loaded
  <2>1. Size(s) \in Nat
    BY <1>1, SizeType
  <2>2. stream[s] = [active |-> Size(s) > 0, loaded |-> FALSE, offset |-> 0, lastclock |-> 0]
    BY <1>2
  <2>3. stream[s] \in State
    BY <2>1, <2>2 DEF State
  <2>4. /\ stream[s].active = (Size(s) > 0) /\ ~stream[s].loaded
        /\ stream[s].offset = 0 /\ stream[s].lastclock = 0
    BY <2>2
  <2>5. ~stream[s].active => stream[s].offset = Size(s)
    <3>1. ~(Size(s) > 0) => Size(s) = 0
      BY <2>1
    <3> QED
      BY <2>4, <3>1, Zenon
  <2> QED
    BY <2>3, <2>4, <2>5 DEF Good
<1>4. AllGood(stream)
  BY <1>2, <1>3 DEF AllGood
<1>5. Holds(heap, stream, cur)
  <2>1. Els(<<>>) = {} /\ <<>> \in Seq(Stream) /\ Inj(<<>>) /\ Heap(<<>>, Key(stream))
    BY DEF Els, Inj, Heap
  <2>2. {s \in Stream : stream[s].loaded} \ {cur} = {}
    BY <1>3
  <2> QED
    BY <1>2, <2>1, <2>2 DEF Holds
<1>6. Loading
  <2>1. 1 \in 1..NumStreams + 1
    BY PlayerAssumption
  <2>2. \A s \in Stream : ~(s < 1)
    BY PlayerAssumption DEF Stream
  <2> QED
    BY <1>2, <1>3, <2>1, <2>2 DEF Loading
<1> QED
  BY <1>1, <1>2, <1>4, <1>5, <1>6 DEF PlayerInv

\* player_init(): the stream that is loaded next is not in the heap.
LEMMA LoadKeeps == ASSUME PlayerInv, LoadStream PROVE PlayerInv'
<1>1. /\ status = "load" /\ toLoad \in Stream /\ ~Rejected(toLoad)
      /\ stream' = SteppedStreams(toLoad) /\ heap' = SteppedHeap(toLoad) /\ toLoad' = toLoad + 1
      /\ trace' = trace /\ cur' = cur /\ clock' = clock /\ status' = status
  BY DEF LoadStream
<1>2. TraceType /\ AllGood(stream) /\ Holds(heap, stream, cur) /\ Loading /\ cur = 0
  BY <1>1 DEF PlayerInv, Loading
<1>3. ~stream[toLoad].loaded /\ toLoad \in Int /\ NumStreams \in Nat /\ toLoad \in 1..NumStreams
  <2>1. ~(toLoad < toLoad)
    BY <1>1 DEF Stream
  <2> QED
    BY <1>1, <1>2, <2>1, PlayerAssumption DEF Loading, Stream
<1>4. Holds(heap, stream, toLoad)
  <2>1. {s \in Stream : stream[s].loaded} \ {cur} = {s \in Stream : stream[s].loaded} \ {toLoad}
    BY <1>2, <1>3, NoStreamZero
  <2> QED
    BY <1>2, <2>1 DEF Holds
<1>5. /\ AllGood(SteppedStreams(toLoad))
      /\ \A r \in Stream : r # toLoad => SteppedStreams(toLoad)[r] = stream[r]
      /\ SteppedStreams(toLoad)[toLoad].active => SteppedStreams(toLoad)[toLoad].loaded
  BY <1>1, <1>2, SteppedGood
<1>6. Holds(SteppedHeap(toLoad), SteppedStreams(toLoad), 0)
  BY <1>1, <1>2, <1>4, SteppedHolds
<1>7. TraceType' /\ AllGood(stream)'
  <2>1. TraceType' /\ \A s \in Stream : \A st : Good(st, s) = Good(st, s)'
    BY <1>1, <1>2 DEF TraceType, Good, ValidAt, ClockBefore, Size
  <2> QED
    BY <1>1, <1>5, <2>1 DEF AllGood
<1>8. Holds(heap, stream, cur)'
  BY <1>1, <1>2, <1>6 DEF Holds, Key
<1>9. Loading'
  <2>1. toLoad + 1 \in 1..NumStreams + 1
    BY <1>3
  <2>2. ASSUME NEW s \in Stream
        PROVE  IF s < toLoad' THEN stream'[s].active => stream'[s].loaded ELSE ~stream'[s].loaded
    <3>1. s \in Int
      BY DEF Stream
    <3>2. CASE s = toLoad
      <4>1. s < toLoad'
        BY <1>1, <1>3, <3>2
      <4> QED
        BY <1>1, <1>5, <3>2, <4>1
    <3>3. CASE s # toLoad
      <4>1. s < toLoad' <=> s < toLoad
        BY <1>1, <1>3, <3>1, <3>3
      <4>2. stream'[s] = stream[s]
        BY <1>1, <1>5, <3>3
      <4> QED
        BY <1>2, <4>1, <4>2 DEF Loading
    <3> QED
      BY <3>2, <3>3
  <2> QED
    BY <1>1, <1>2, <2>1, <2>2 DEF Loading
<1> QED
  BY <1>1, <1>2, <1>7, <1>8, <1>9 DEF PlayerInv

\* player_step(): the stream that leaves the heap is the one being played.
LEMMA PlayKeeps == ASSUME PlayerInv, Play PROVE PlayerInv'
<1> DEFINE s == PlayedHeap[1]
           str == PlayedStreams
           g == HeapPop(PlayedHeap, Key(PlayedStreams))
<1>1. /\ status = "run" /\ ~PlayFails /\ PlayedHeap # <<>>
      /\ stream' = str /\ heap' = g /\ trace' = trace
  BY DEF Play
<1>2. /\ s \in Stream /\ str[s].loaded
      /\ \A r \in Stream : str[r].loaded => str[s].lastclock <= str[r].lastclock
      /\ ~Backwards(str[s].lastclock)
      /\ Holds(g, str, s)
  BY <1>1, PlayedFirst
<1>3. cur' = s /\ clock' = UpdateClocks(str[s].lastclock) /\ status' = status
  BY <1>2 DEF Play
<1>4. AllGood(str) /\ \A r \in Stream : str[r].active => str[r].loaded
  BY <1>1, PlayedState
<1> HIDE DEF s, str, g
<1>5. TraceType' /\ AllGood(stream)'
  <2>1. TraceType
    BY DEF PlayerInv
  <2>2. TraceType' /\ \A r \in Stream : \A st : Good(st, r) = Good(st, r)'
    BY <1>1, <2>1 DEF TraceType, Good, ValidAt, ClockBefore, Size
  <2> QED
    BY <1>1, <1>4, <2>2 DEF AllGood
<1>6. Holds(heap, stream, cur)'
  BY <1>1, <1>2, <1>3 DEF Holds, Key
<1>7. Playing'
  <2>1. clock'.lastclock = str[s].lastclock /\ s # 0
    BY <1>2, <1>3, NoStreamZero DEF UpdateClocks
  <2>2. \A r \in Stream : str[r].loaded => str[s].lastclock \in Int /\ str[r].lastclock \in Int
    BY <1>2, <1>4 DEF AllGood, Good, State
  <2>3. \A r \in Stream : str[r].loaded => str[r].lastclock >= str[s].lastclock
    BY <1>2, <2>2
  <2> QED
    BY <1>1, <1>2, <1>3, <1>4, <2>1, <2>3 DEF Playing
<1> QED
  BY <1>1, <1>2, <1>3, <1>5, <1>6, <1>7 DEF PlayerInv

\* A tool that has stopped keeps nothing but its trace.
LEMMA StopKeeps == ASSUME PlayerInv, NEW how \in {"failed", "partial"}, Stop(how) PROVE PlayerInv'
  BY DEF PlayerInv, Stop, TraceType

\* When player_init() ends, every stream with events has one loaded.
LEMMA StartKeeps == ASSUME PlayerInv, StartPlay PROVE PlayerInv'
<1>1. /\ status = "load" /\ toLoad = NumStreams + 1
      /\ status' \in {"run", "failed"}
      /\ UNCHANGED <<trace, stream, heap, toLoad, cur, clock>>
  BY DEF StartPlay, Stop
<1>2. TraceType /\ AllGood(stream) /\ Holds(heap, stream, cur) /\ Loading /\ cur = 0
  BY <1>1 DEF PlayerInv, Loading
<1>3. TraceType' /\ AllGood(stream)' /\ Holds(heap, stream, cur)'
  BY <1>1, <1>2 DEF TraceType, AllGood, Good, ValidAt, ClockBefore, Size, Holds, Key
<1>4. Playing
  <2>1. \A s \in Stream : s < toLoad
    BY <1>1, PlayerAssumption DEF Stream
  <2> QED
    BY <1>2, <2>1 DEF Loading, Playing
<1>5. Playing'
  BY <1>1, <1>4 DEF Playing
<1> QED
  BY <1>1, <1>2, <1>3, <1>5 DEF PlayerInv

\* Every step keeps the invariant.
LEMMA PlayerInvNext == ASSUME PlayerInv, [Next]_vars PROVE PlayerInv'
<1>1. CASE LoadStream
  BY <1>1, LoadKeeps
<1>2. CASE LoadFails
  BY <1>2, StopKeeps DEF LoadFails
<1>3. CASE StartPlay
  BY <1>3, StartKeeps
<1>4. CASE Play
  BY <1>4, PlayKeeps
<1>5. CASE PlayEnds
  BY <1>5 DEF PlayEnds, PlayerInv, TraceType
<1>6. CASE PlayRejects
  BY <1>6, StopKeeps DEF PlayRejects
<1>7. CASE Interrupt
  BY <1>7, StopKeeps DEF Interrupt
<1>8. CASE UNCHANGED vars
  BY <1>8 DEF vars, PlayerInv, TraceType, AllGood, Good, ValidAt, ClockBefore, Size, Holds, Key, Loading, Playing
<1> QED
  BY <1>1, <1>2, <1>3, <1>4, <1>5, <1>6, <1>7, <1>8 DEF Next, Progress

\* The invariant holds in every state of the player.
THEOREM PlayerInvHolds == Spec => []PlayerInv
<1>1. Init => PlayerInv
  BY PlayerInvInit
<1>2. PlayerInv /\ [Next]_vars => PlayerInv'
  BY PlayerInvNext
<1> QED
  BY <1>1, <1>2, PTL DEF Spec

\* HeapHolds: while the player loads and plays, the heap has every stream with an
\* event but the one being played, once, each node not before its parent.
THEOREM HeapSafe == Spec => []HeapHolds
<1>1. PlayerInv => HeapHolds
  <2> SUFFICES ASSUME PlayerInv, status \in {"load", "run"}
               PROVE  /\ IsInjective(heap)
                      /\ ToSet(heap) = {s \in Stream : stream[s].loaded} \ {cur}
                      /\ \A n \in 2..Len(heap) :
                             stream[heap[n \div 2]].lastclock <= stream[heap[n]].lastclock
    BY DEF HeapHolds
  <2>1. heap \in Seq(Stream) /\ Inj(heap) /\ Heap(heap, Key(stream))
        /\ Els(heap) = {s \in Stream : stream[s].loaded} \ {cur}
    BY DEF PlayerInv, Holds
  <2>2. DOMAIN heap = 1..Len(heap) /\ Len(heap) \in Nat
    BY <2>1, LenProperties
  <2>3. IsInjective(heap)
    BY <2>1, <2>2 DEF Inj, IsInjective
  <2>4. ToSet(heap) = Els(heap)
    BY <2>2 DEF Els, ToSet
  <2>5. ASSUME NEW n \in 2..Len(heap)
        PROVE  stream[heap[n \div 2]].lastclock <= stream[heap[n]].lastclock
    <3>1. n \div 2 \in 1..Len(heap) /\ n \in 1..Len(heap)
      BY <2>2, Half
    <3>2. heap[n \div 2] \in Stream /\ heap[n] \in Stream
      BY <2>1, <3>1, ElementOfSeq
    <3> QED
      BY <2>1, <3>2 DEF Heap, Le, Key
  <2> QED
    BY <2>1, <2>3, <2>4, <2>5
<1> QED
  BY <1>1, PlayerInvHolds, PTL

-----------------------------------------------------------------------------
(* The player implements Merge, step by step.                              *)

\* The definitions of Merge for a stream with n events delivered.
LEMMA MergeParts ==
  ASSUME NEW s \in Stream
  PROVE  /\ M!HasNext(s) <=> Delivered[s] < Size(s)
         /\ M!Valid(s) <=> ValidAt(s, Delivered[s])
         /\ M!NextClock(s) = trace.clocks[s][Delivered[s] + 1]
  BY DEF M!HasNext, M!Valid, M!NextClock, M!Before, M!Size, Size, ValidAt, ClockBefore

\* Where the next event of each stream is, when player_step() has not stepped
\* the stream of the last one yet.
LEMMA DeliveredIs ==
  ASSUME NEW s \in Stream, AllGood(stream)
  PROVE  Delivered[s] = (IF cur = s THEN Passed(stream[s]) ELSE stream[s].offset) /\ Delivered[s] \in Nat
<1>1. stream[s].offset \in Nat /\ stream[s].loaded \in BOOLEAN
  BY DEF AllGood, Good, State
<1>2. Delivered[s] = stream[s].offset + (IF cur = s /\ stream[s].loaded THEN 1 ELSE 0)
  BY DEF Delivered
<1> QED
  BY <1>1, <1>2 DEF Passed

\* player_init() has delivered nothing when it begins.
LEMMA InitImplements == Init => M!Init
<1> SUFFICES ASSUME Init PROVE M!Init
  OBVIOUS
<1>1. \A s \in Stream : Delivered[s] = 0
  BY DEF Init, Delivered
<1>2. Delivered = [s \in Stream |-> 0]
  BY <1>1 DEF Delivered
<1> QED
  BY <1>2 DEF Init, M!Init

\* Once the stream of the last event has been stepped, the event loaded in each
\* stream is the one that comes next.
LEMMA PlayedIs ==
  ASSUME PlayerInv, status = "run", ~PlayFails, NEW r \in Stream
  PROVE  /\ PlayedStreams[r].offset = Delivered[r]
         /\ PlayedStreams[r].loaded <=> M!HasNext(r)
         /\ M!HasNext(r) => M!Valid(r) /\ PlayedStreams[r].lastclock = M!NextClock(r)
<1> DEFINE st == PlayedStreams[r]
<1>1. Good(st, r) /\ (st.active => st.loaded) /\ TraceType /\ AllGood(stream)
  BY PlayedState DEF AllGood, PlayerInv
<1>2. st.offset = Delivered[r]
  <2>1. CASE cur = 0
    <3>1. st = stream[r] /\ cur # r
      BY <2>1, NoStreamZero DEF PlayedStreams
    <3> QED
      BY <1>1, <3>1, DeliveredIs
  <2>2. CASE cur # 0
    <3>1. cur \in Stream /\ ~Rejected(cur) /\ st = SteppedStreams(cur)[r]
      BY <2>2 DEF PlayedStreams, PlayFails, PlayerInv
    <3>2. CASE r = cur
      <4>1. st.offset = Passed(stream[r])
        BY <1>1, <3>1, <3>2, SteppedGood
      <4> QED
        BY <1>1, <3>2, <4>1, DeliveredIs
    <3>3. CASE r # cur
      <4>1. st = stream[r]
        BY <1>1, <3>1, <3>3, SteppedGood
      <4> QED
        BY <1>1, <3>3, <4>1, DeliveredIs
    <3> QED
      BY <3>2, <3>3
  <2> QED
    BY <2>1, <2>2
<1>3. Size(r) \in Nat /\ Delivered[r] \in Nat
  BY <1>1, SizeType, DeliveredIs
<1> HIDE DEF st
<1>4. CASE st.loaded
  <2>1. M!HasNext(r) /\ M!Valid(r) /\ st.lastclock = M!NextClock(r)
    BY <1>1, <1>2, <1>4, MergeParts DEF Good
  <2> QED
    BY <1>2, <1>4, <2>1 DEF st
<1>5. CASE ~st.loaded
  <2>1. Delivered[r] = Size(r)
    BY <1>1, <1>2, <1>5 DEF Good
  <2>2. ~M!HasNext(r)
    BY <1>3, <2>1, MergeParts
  <2> QED
    BY <1>2, <1>5, <2>2 DEF st
<1> QED
  BY <1>4, <1>5

\* What the steps of the player are in Merge.  Loading a stream delivers nothing.
LEMMA LoadImplements == ASSUME PlayerInv, LoadStream PROVE UNCHANGED M!mergeVars
<1>1. /\ status = "load" /\ toLoad \in Stream /\ ~Rejected(toLoad) /\ stream' = SteppedStreams(toLoad)
      /\ trace' = trace /\ cur' = cur /\ clock' = clock /\ status' = status
  BY DEF LoadStream
<1>2. TraceType /\ AllGood(stream) /\ Loading /\ cur = 0
  BY <1>1 DEF PlayerInv, Loading
<1>3. ~stream[toLoad].loaded
  <2>1. ~(toLoad < toLoad)
    BY <1>1 DEF Stream
  <2> QED
    BY <1>1, <1>2, <2>1 DEF Loading
<1>4. ASSUME NEW r \in Stream PROVE stream'[r].offset = stream[r].offset
  <2>1. CASE r = toLoad
    <3>1. stream'[r].offset = Passed(stream[r])
      BY <1>1, <1>2, <2>1, SteppedGood
    <3>2. stream[r].offset \in Nat
      BY <1>2 DEF AllGood, Good, State
    <3> QED
      BY <1>3, <2>1, <3>1, <3>2 DEF Passed
  <2>2. CASE r # toLoad
    BY <1>1, <1>2, <2>2, SteppedGood
  <2> QED
    BY <2>1, <2>2
<1>5. \A r \in Stream : cur # r
  BY <1>2, NoStreamZero
<1>6. Delivered' = Delivered
  BY <1>1, <1>4, <1>5 DEF Delivered
<1> QED
  BY <1>1, <1>6 DEF M!mergeVars

\* The tool fails when the first event of a stream is not valid.
LEMMA LoadFailsImplements == ASSUME PlayerInv, LoadFails PROVE M!Fail
<1>1. /\ status = "load" /\ toLoad \in Stream /\ Rejected(toLoad) /\ status' = "failed"
      /\ UNCHANGED <<trace, stream, cur, clock>>
  BY DEF LoadFails, Stop
<1>2. TraceType /\ AllGood(stream) /\ Loading /\ cur = 0
  BY <1>1 DEF PlayerInv, Loading
<1>3. ~stream[toLoad].loaded
  <2>1. ~(toLoad < toLoad)
    BY <1>1 DEF Stream
  <2> QED
    BY <1>1, <1>2, <2>1 DEF Loading
<1>4. Good(stream[toLoad], toLoad) /\ stream[toLoad].active /\ ~AtEnd(toLoad)
  BY <1>1, <1>2 DEF AllGood, Rejected
<1>5. Passed(stream[toLoad]) = stream[toLoad].offset
  <2>1. stream[toLoad].offset \in Nat
    BY <1>4 DEF Good, State
  <2> QED
    BY <1>3, <2>1 DEF Passed
<1>6. Delivered[toLoad] = Passed(stream[toLoad])
  BY <1>1, <1>2, <1>5, DeliveredIs
<1>7. M!HasNext(toLoad) /\ ~M!Valid(toLoad)
  BY <1>1, <1>2, <1>4, <1>6, NextAt, MergeParts
<1>8. Delivered' = Delivered
  BY <1>1 DEF Delivered
<1> QED
  BY <1>1, <1>7, <1>8 DEF M!Fail, M!AllValid

\* Playing starts with a valid event in every stream, and the gate open.
LEMMA StartImplements == ASSUME PlayerInv, StartPlay PROVE M!Start \/ M!Fail
<1>1. /\ status = "load" /\ toLoad = NumStreams + 1
      /\ status' = (IF trace.unsorted \/ GateOpen(trace) THEN "run" ELSE "failed")
      /\ UNCHANGED <<trace, stream, cur, clock>>
  BY DEF StartPlay, Stop
<1>2. TraceType /\ AllGood(stream) /\ Loading /\ cur = 0
  BY <1>1 DEF PlayerInv, Loading
<1>3. ASSUME NEW r \in Stream, M!HasNext(r) PROVE M!Valid(r)
  <2>1. r < toLoad /\ r # cur
    BY <1>1, <1>2, PlayerAssumption DEF Stream
  <2>2. Good(stream[r], r) /\ (stream[r].active => stream[r].loaded) /\ Size(r) \in Nat
    BY <1>2, <2>1, SizeType DEF AllGood, Loading
  <2>3. Delivered[r] = stream[r].offset /\ Delivered[r] \in Nat
    BY <1>2, <2>1, DeliveredIs
  <2>4. stream[r].loaded
    <3>1. Delivered[r] # Size(r)
      BY <1>3, <2>2, <2>3, MergeParts
    <3> QED
      BY <2>2, <2>3, <3>1 DEF Good
  <2> QED
    BY <2>2, <2>3, <2>4, MergeParts DEF Good
<1>4. Delivered' = Delivered
  BY <1>1 DEF Delivered
<1>5. CASE trace.unsorted \/ GateOpen(trace)
  BY <1>1, <1>3, <1>4, <1>5 DEF M!Start, M!AllValid
<1>6. CASE ~(trace.unsorted \/ GateOpen(trace))
  BY <1>1, <1>4, <1>6 DEF M!Fail
<1> QED
  BY <1>5, <1>6

\* player_step() delivers the earliest of the next events, all of them valid.
LEMMA PlayImplements == ASSUME PlayerInv, Play PROVE \E s \in Stream : M!Deliver(s)
<1> DEFINE s == PlayedHeap[1]
           str == PlayedStreams
<1>1. /\ status = "run" /\ ~PlayFails /\ PlayedHeap # <<>> /\ stream' = str /\ trace' = trace
  BY DEF Play
<1>2. /\ s \in Stream /\ str[s].loaded
      /\ \A r \in Stream : str[r].loaded => str[s].lastclock <= str[r].lastclock
      /\ ~Backwards(str[s].lastclock)
  BY <1>1, PlayedFirst
<1>3. cur' = s /\ clock' = UpdateClocks(str[s].lastclock) /\ status' = status
  BY <1>2 DEF Play
<1>4. /\ \A r \in Stream : str[r].offset = Delivered[r]
      /\ \A r \in Stream : str[r].loaded <=> M!HasNext(r)
      /\ \A r \in Stream : M!HasNext(r) => M!Valid(r) /\ str[r].lastclock = M!NextClock(r)
  BY <1>1, PlayedIs
<1>5. \A r \in Stream : Delivered[r] \in Nat
  BY <1>1, DeliveredIs DEF PlayerInv
<1> HIDE DEF s, str
<1>6. M!HasNext(s) /\ M!AllValid /\ \A r \in Stream : M!HasNext(r) => M!NextClock(s) <= M!NextClock(r)
  BY <1>2, <1>4 DEF M!AllValid
<1>7. Delivered' = [Delivered EXCEPT ![s] = @ + 1]
  <2>1. \A r \in Stream : Delivered'[r] = str[r].offset + (IF s = r /\ str[r].loaded THEN 1 ELSE 0)
    BY <1>1, <1>3 DEF Delivered
  <2>2. \A r \in Stream : Delivered'[r] = IF r = s THEN Delivered[r] + 1 ELSE Delivered[r]
    BY <1>2, <1>4, <1>5, <2>1
  <2>3. Delivered' = [r \in Stream |-> Delivered'[r]] /\ Delivered = [r \in Stream |-> Delivered[r]]
    BY DEF Delivered
  <2> HIDE DEF Delivered
  <2> QED
    BY <2>2, <2>3
<1>8. clock'.lastclock = M!NextClock(s)
  BY <1>2, <1>3, <1>4 DEF UpdateClocks
<1>9. M!Deliver(s)
  BY <1>1, <1>3, <1>6, <1>7, <1>8 DEF M!Deliver
<1> QED
  BY <1>2, <1>9

\* player_step() ends when no stream has more events.
LEMMA EndImplements == ASSUME PlayerInv, PlayEnds PROVE M!Finish
<1> DEFINE str == PlayedStreams
<1>1. /\ status = "run" /\ ~PlayFails /\ PlayedHeap = <<>> /\ stream' = str
      /\ trace' = trace /\ cur' = cur /\ clock' = clock /\ status' = "ok"
  BY DEF PlayEnds
<1>2. \A r \in Stream : str[r].offset = Delivered[r] /\ (str[r].loaded <=> M!HasNext(r))
  BY <1>1, PlayedIs
<1>3. \A r \in Stream : ~str[r].loaded
  <2>1. Els(PlayedHeap) = {r \in Stream : str[r].loaded} \ {0}
    BY <1>1, PlayedState DEF Holds
  <2>2. Els(PlayedHeap) = {}
    BY <1>1 DEF Els
  <2> HIDE DEF str
  <2> QED
    BY <2>1, <2>2, NoStreamZero
<1>4. \A r \in Stream : Delivered[r] \in Nat
  BY <1>1, DeliveredIs DEF PlayerInv
<1> HIDE DEF str
<1>5. Delivered' = Delivered
  <2>1. \A r \in Stream : Delivered'[r] = str[r].offset + (IF cur = r /\ str[r].loaded THEN 1 ELSE 0)
    BY <1>1 DEF Delivered
  <2>2. \A r \in Stream : Delivered'[r] = Delivered[r]
    BY <1>2, <1>3, <1>4, <2>1
  <2>3. Delivered' = [r \in Stream |-> Delivered'[r]] /\ Delivered = [r \in Stream |-> Delivered[r]]
    BY DEF Delivered
  <2> HIDE DEF Delivered
  <2> QED
    BY <2>2, <2>3
<1> QED
  BY <1>1, <1>2, <1>3, <1>5 DEF M!Finish

\* The tool fails when the event after the last one is not valid.
LEMMA RejectImplements == ASSUME PlayerInv, PlayRejects PROVE M!Fail
<1>1. /\ status = "run" /\ cur # 0 /\ Rejected(cur) /\ status' = "failed"
      /\ UNCHANGED <<trace, stream, cur, clock>>
  BY DEF PlayRejects, PlayFails, Stop
<1>2. TraceType /\ AllGood(stream) /\ cur \in Stream
  BY <1>1 DEF PlayerInv
<1>3. Good(stream[cur], cur) /\ stream[cur].active /\ ~AtEnd(cur)
  BY <1>1, <1>2 DEF AllGood, Rejected
<1>4. Delivered[cur] = Passed(stream[cur])
  BY <1>2, DeliveredIs
<1>5. M!HasNext(cur) /\ ~M!Valid(cur)
  BY <1>1, <1>2, <1>3, <1>4, NextAt, MergeParts
<1>6. Delivered' = Delivered
  BY <1>1 DEF Delivered
<1> QED
  BY <1>1, <1>2, <1>5, <1>6 DEF M!Fail, M!AllValid

\* Every step of the player is a step of Merge, or stutters.
LEMMA StepImplements == ASSUME PlayerInv, [Next]_vars PROVE [M!Next]_(M!mergeVars)
<1>1. CASE LoadStream
  BY <1>1, LoadImplements
<1>2. CASE LoadFails
  BY <1>2, LoadFailsImplements DEF M!Next, M!Progress
<1>3. CASE StartPlay
  BY <1>3, StartImplements DEF M!Next, M!Progress
<1>4. CASE Play
  BY <1>4, PlayImplements DEF M!Next, M!Progress
<1>5. CASE PlayEnds
  BY <1>5, EndImplements DEF M!Next, M!Progress
<1>6. CASE PlayRejects
  BY <1>6, RejectImplements DEF M!Next, M!Progress
<1>7. CASE Interrupt
  <2>1. M!Interrupt
    BY <1>7 DEF Interrupt, Stop, M!Interrupt, Delivered
  <2> QED
    BY <2>1 DEF M!Next
<1>8. CASE UNCHANGED vars
  BY <1>8 DEF vars, M!mergeVars, Delivered
<1> QED
  BY <1>1, <1>2, <1>3, <1>4, <1>5, <1>6, <1>7, <1>8 DEF Next, Progress

\* The player implements Merge but for its fairness: player_step() delivers each
\* event of every stream once, in the order of the stream and the earliest first,
\* and the tool fails only when the next event of a stream is not valid.
THEOREM PlayerMerges == Spec => M!Init /\ [][M!Next]_(M!mergeVars)
<1>1. Init => M!Init
  BY InitImplements
<1>2. PlayerInv /\ [Next]_vars => [M!Next]_(M!mergeVars)
  BY StepImplements
<1> QED
  BY <1>1, <1>2, PlayerInvHolds, PTL DEF Spec

-----------------------------------------------------------------------------
(* The emulated time.                                                      *)

\* What the steps of Merge keep: positions are within the streams.
MergeType ==
    /\ TraceType
    /\ Delivered \in [Stream -> Nat]
    /\ clock.lastclock \in Int

\* A valid event that comes next in a sorted trace is not before the last
\* delivered: the reason for stream_step() to check the order of each stream.
NotBefore ==
    ~trace.unsorted =>
        \A s \in Stream : M!HasNext(s) /\ M!Valid(s) => M!NextClock(s) >= clock.lastclock

MergeInv == MergeType /\ NotBefore

\* Delivering the earliest event, all of those that come next being valid,
\* leaves no valid event before the new time (player_step, update_clocks).
LEMMA DeliverKeeps ==
  ASSUME MergeInv, NEW s \in Stream, M!Deliver(s)
  PROVE  MergeInv' /\ (~trace.unsorted => clock'.lastclock >= clock.lastclock)
<1>1. /\ trace.clocks \in [Stream -> Seq(Int)] /\ Delivered \in [Stream -> Nat] /\ TraceType
      /\ NotBefore /\ clock.lastclock \in Int
  BY DEF MergeInv, MergeType, TraceType
<1>2. /\ M!AllValid /\ M!HasNext(s) /\ trace' = trace
      /\ \A r \in Stream : M!HasNext(r) => M!NextClock(s) <= M!NextClock(r)
      /\ Delivered' = [Delivered EXCEPT ![s] = @ + 1] /\ clock'.lastclock = M!NextClock(s)
  BY DEF M!Deliver
<1>3. \A r \in Stream : M!HasNext(r) => M!NextClock(r) \in Int
  <2> SUFFICES ASSUME NEW r \in Stream, M!HasNext(r) PROVE M!NextClock(r) \in Int
    OBVIOUS
  <2>1. trace.clocks[r] \in Seq(Int) /\ Delivered[r] \in Nat /\ Delivered[r] < Len(trace.clocks[r])
    BY <1>1 DEF M!HasNext, M!Size
  <2>2. Delivered[r] + 1 \in 1..Len(trace.clocks[r])
    BY <2>1, LenProperties
  <2> QED
    BY <2>1, <2>2, ElementOfSeq DEF M!NextClock
<1>4. MergeType'
  <2>1. Delivered' \in [Stream -> Nat]
    <3> HIDE DEF Delivered
    <3> QED
      BY <1>1, <1>2
  <2> QED
    BY <1>1, <1>2, <1>3, <2>1 DEF MergeType, TraceType
<1>5. ~trace.unsorted => clock'.lastclock >= clock.lastclock
  BY <1>1, <1>2 DEF NotBefore, M!AllValid
<1>6. NotBefore'
  <2> SUFFICES ASSUME ~trace.unsorted, NEW r \in Stream, M!HasNext(r)', M!Valid(r)'
               PROVE  M!NextClock(r)' >= clock'.lastclock
    BY <1>2 DEF NotBefore
  <2> HIDE DEF Delivered
  <2>1. CASE r = s
    <3>1. Delivered'[s] = Delivered[s] + 1 /\ Delivered[s] \in Nat
      BY <1>1, <1>2
    <3>2. M!Before(s)' = M!NextClock(s)
      BY <1>2, <3>1 DEF M!Before, M!NextClock
    <3>3. M!NextClock(s)' >= M!Before(s)'
      BY <1>2, <2>1 DEF M!Valid
    <3> QED
      BY <1>2, <2>1, <3>2, <3>3
  <2>2. CASE r # s
    <3>1. Delivered'[r] = Delivered[r]
      BY <1>1, <1>2, <2>2
    <3>2. M!HasNext(r) /\ M!NextClock(r)' = M!NextClock(r)
      BY <1>2, <3>1 DEF M!HasNext, M!NextClock, M!Size
    <3> QED
      BY <1>2, <1>3, <3>2
  <2> QED
    BY <2>1, <2>2
<1> QED
  BY <1>4, <1>5, <1>6 DEF MergeInv

\* The other steps of Merge deliver nothing.
LEMMA OthersKeep ==
  ASSUME MergeInv, trace' = trace, Delivered' = Delivered, clock'.lastclock = clock.lastclock
  PROVE  MergeInv'
<1> HIDE DEF Delivered
<1> QED
  BY DEF MergeInv, MergeType, TraceType, NotBefore, M!HasNext, M!Valid, M!NextClock, M!Before, M!Size

\* Every step of Merge keeps the order, and the time does not go back.
LEMMA MergeStep ==
  ASSUME MergeInv, [M!Next]_(M!mergeVars)
  PROVE  MergeInv' /\ (~trace.unsorted => clock'.lastclock >= clock.lastclock)
<1>1. CASE \E s \in Stream : M!Deliver(s)
  BY <1>1, DeliverKeeps
<1>2. CASE trace' = trace /\ Delivered' = Delivered /\ clock'.lastclock = clock.lastclock
  <2>1. clock.lastclock \in Int
    BY DEF MergeInv, MergeType
  <2> QED
    BY <1>2, <2>1, OthersKeep
<1> QED
  BY <1>1, <1>2 DEF M!Next, M!Progress, M!Start, M!Finish, M!Fail, M!Interrupt, M!mergeVars

\* The time starts at zero, and the first valid events are not before.
LEMMA MergeInvInit == Init => MergeInv
<1> SUFFICES ASSUME Init PROVE MergeInv
  OBVIOUS
<1>1. TraceType
  BY PlayerInvInit DEF PlayerInv
<1>2. M!Init /\ clock.lastclock = 0 /\ Delivered = [s \in Stream |-> 0]
  BY InitImplements DEF M!Init
<1> HIDE DEF Delivered
<1>3. MergeType
  BY <1>1, <1>2 DEF MergeType
<1>4. ASSUME ~trace.unsorted, NEW s \in Stream, M!Valid(s) PROVE M!NextClock(s) >= 0
  BY <1>2, <1>4 DEF M!Valid, M!Before
<1> QED
  BY <1>2, <1>3, <1>4 DEF MergeInv, NotBefore

\* Whatever the streams, their number and their clocks, the clock of a trace
\* played in order never goes back, so prv_advance() never stops the emulator.
THEOREM NeverBack == Spec => M!TimeForward
<1>1. Init => MergeInv
  BY MergeInvInit
<1>2. MergeInv /\ [M!Next]_(M!mergeVars) => MergeInv'
  BY MergeStep
<1>3. MergeInv /\ [M!Next]_(M!mergeVars) => [~trace.unsorted => clock.lastclock' >= clock.lastclock]_(clock.lastclock)
  BY MergeStep
<1>4. Spec => Init /\ [][M!Next]_(M!mergeVars)
  BY PlayerMerges, PTL DEF Spec
<1> QED
  BY <1>1, <1>2, <1>3, <1>4, PTL DEF M!TimeForward
=============================================================================

---------------------------- MODULE MCBreakdown -----------------------------
(***************************************************************************)
(* The three breakdown graphs with two threads and two CPUs, and the       *)
(* algorithm that keeps the rows in order checked on its own.              *)
(***************************************************************************)
EXTENDS Breakdown

\* Nanos6 takes no subsystem twice in a row, so that a task inside another needs
\* a subsystem between the two.
MCMaxHeld == [m \in Model |-> IF m = "nanos6" THEN 3 ELSE 2]

Increasing(q) == \A i \in 1..Len(q) - 1 : q[i] <= q[i + 1]

\* sort_replace() for five inputs of four values: in every sorted array, each
\* element is replaced by any value, the others stay and the order is kept.
ASSUME SortReplaceSorts ==
    \A q \in {p \in [1..5 -> 0..3] : Increasing(p)}, i \in 1..5, new \in 0..3 :
        q[i] # new =>
            LET r == Arr!SortReplace(q, q[i], new)
            IN  /\ Increasing(r)
                /\ \A v \in 0..3 : Occurrences(r, v) =
                       Occurrences([q EXCEPT ![i] = new], v)
=============================================================================

-------------------------------- MODULE Sort --------------------------------
(***************************************************************************)
(* The sort module of the emulator (src/src/emu/sort.c): n inputs, and n   *)
(* outputs that always hold the values of the inputs in increasing order.  *)
(* It is only built for the breakdown views, one input per physical CPU.   *)
(***************************************************************************)
EXTENDS Integers, Sequences, FiniteSets, FiniteSetsExt, SequencesExt

CONSTANT N   \* sort->n, the number of inputs

VARIABLES
    values,  \* sort->values, the last value seen in each input
    sorted,  \* sort->sorted
    copied   \* sort->copied, set by the first change

SortInit ==
    /\ values = [i \in 1 .. N |-> 0]
    /\ sorted = [i \in 1 .. N |-> 0]
    /\ copied = FALSE

\* Where the search for old starts to increase it: in the middle when old cannot
\* be before.
SearchFrom(arr, old) ==
    LET m == Len(arr) \div 2 + 1 IN IF arr[m] < old THEN m ELSE 1

\* The first element from there on that is not below old.
FirstAtLeast(arr, old, from) == Min({i \in from .. Len(arr) : arr[i] >= old})

\* Where new goes when it increases the element p, or decreases the element h.
LastAtMost(arr, p, new) ==
    Max({i \in p .. Len(arr) : \A k \in p + 1 .. i : arr[k] <= new})
FirstAbove(arr, h, new) ==
    Min({i \in 1 .. h : \A k \in i .. h - 1 : arr[k] > new})

\* The elements after p move left up to q, where new enters.
MoveLeft(arr, p, q, new) ==
    [i \in 1 .. Len(arr) |-> IF i \in p .. q - 1 THEN arr[i + 1]
                             ELSE IF i = q THEN new ELSE arr[i]]

\* The elements before h move right from l, where new enters.
MoveRight(arr, l, h, new) ==
    [i \in 1 .. Len(arr) |-> IF i \in l + 1 .. h THEN arr[i - 1]
                             ELSE IF i = l THEN new ELSE arr[i]]

\* sort_replace(): old leaves the sorted array and new enters it.
SortReplace(arr, old, new) ==
    IF old < new
    THEN LET p == FirstAtLeast(arr, old, SearchFrom(arr, old))
         IN  MoveLeft(arr, p, LastAtMost(arr, p, new), new)
    ELSE LET h == FirstAtLeast(arr, old, 1)
         IN  MoveRight(arr, FirstAbove(arr, h, new), h, new)

\* qsort() with cmp_int64(): the elements of arr in increasing order.
Qsort(arr) ==
    LET order == CHOOSE p \in Bijection(1 .. N, 1 .. N) :
                    \A i, j \in 1 .. N : i < j => arr[p[i]] <= arr[p[j]]
    IN  [i \in 1 .. N |-> arr[order[i]]]

\* Mistake: the value of the input is not kept.
SortInputForgets(i, new) ==
    /\ sorted' = IF copied THEN SortReplace(sorted, values[i], new)
                           ELSE Qsort([values EXCEPT ![i] = new])
    /\ copied' = TRUE
    /\ UNCHANGED values

\* What sort_cb_input() does to the arrays when input i changes to new: the
\* first time it sorts a copy of the values, later it replaces the old one.
SortInput(i, new) ==
    /\ values' = [values EXCEPT ![i] = new]
    /\ sorted' = IF copied THEN SortReplace(sorted, values[i], new)
                           ELSE Qsort(values')
    /\ copied' = TRUE
=============================================================================

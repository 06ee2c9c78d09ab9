------------------------------ MODULE OvniSort ------------------------------
(***************************************************************************)
(* ovnisort (src/src/emu/ovnisort.c): the events between OU[ and OU] of a  *)
(* stream are moved back to their place, in the file, with the help of a   *)
(* ring of pointers to the last events read.                               *)
(*                                                                         *)
(* A pointer is an offset in the stream, and events have sizes, so a       *)
(* pointer that is kept while the events before it move points to the      *)
(* middle of an event.  The write to the file is seen at once in the       *)
(* memory that maps it, as Linux does.                                     *)
(***************************************************************************)
EXTENDS Integers, Sequences, FiniteSets, FiniteSetsExt, SequencesExt

CONSTANTS
    Traces,     \* the traces, sequences of streams, that may be sorted
    Torn,       \* the streams, of those, whose file has part of an event at its end
    LookBack    \* the values of -n, max_look_back

\* The events, each with an id of its own in the stream.
Event == [mark : {"[", "]", "none"}, clock : Nat, size : Nat \ {0}, id : Nat]

ASSUME OvniSortAssumption ==
    /\ LookBack \subseteq Nat \ {0} /\ Torn \subseteq Seq(Event)
    /\ \A tr \in Traces : /\ tr \in Seq(Seq(Event))
                         /\ \A s \in DOMAIN tr : \A i \in DOMAIN tr[s] : tr[s][i].id = i

VARIABLES
    mode,       \* operation_mode: "sort" or "check"
    size,       \* ring->size
    trace,      \* the streams as they are on disk
    orig,       \* history: the streams at the start
    cur,        \* the stream being processed
    pos,        \* the event that stream_step() has returned
    st,         \* st of stream_winsort(): "S", "U" or "X"
    bad0,       \* sortplan->bad0
    ring,       \* the ring: head, tail and the pointers
    last,       \* last_clock of stream_check()
    unsorted,   \* ret of process_trace() in check mode
    status

walkVars == <<pos, st, bad0, ring, last>>
vars == <<mode, size, trace, orig, cur, walkVars, unsorted, status>>

Stream == trace[cur]
Ev == Stream[pos]

\* Where event i of the stream s begins.
Offset(s, i) ==
    LET off[k \in 0..Len(s)] == IF k = 0 THEN 0 ELSE off[k - 1] + s[k].size
    IN  off[i - 1]
Here == Offset(Stream, pos)

\* The event at an offset, if one begins there.
At(s, o) == {i \in DOMAIN s : Offset(s, i) = o}

\* The clock that is read through a pointer; in the middle of an event it has
\* no meaning.
ClockAt(s, o) == IF At(s, o) = {} THEN 0 ELSE s[CHOOSE i \in At(s, o) : TRUE].clock

-----------------------------------------------------------------------------
(* The ring.                                                               *)

EmptyRing(n) == [head |-> 0, tail |-> 0, ev |-> [i \in 0..n - 1 |-> 0]]
RingReset(r) == [r EXCEPT !.head = 0, !.tail = 0]

\* ring_add(): a full ring forgets the oldest event and has size - 1 of them.
RingAdd(r, o) ==
    LET tail == IF r.tail + 1 >= size THEN 0 ELSE r.tail + 1
        head == IF r.head = tail THEN tail + 1 ELSE r.head
    IN  [ev |-> [r.ev EXCEPT ![r.tail] = o], tail |-> tail,
         head |-> IF head >= size THEN 0 ELSE head]

\* The places from i to the tail.
Count(r, i) == (r.tail - i) % size
\* The place of the k-th last event, from 0.
Nth(r, k) == (r.tail - 1 - k) % size

\* Mistake: an event is looked for in the whole array, around the head.
FindDestinationAround(s, r, clock) ==
    LET hits == {k \in 0..size - 1 : ClockAt(s, r.ev[Nth(r, k)]) < clock}
    IN  IF hits # {} THEN Nth(r, Min(hits)) ELSE -1

\* find_destination(): the last event before clock.  Without one, the first
\* event if the ring is not full, and otherwise none, -1.
FindDestination(s, r, clock) ==
    LET n == Count(r, r.head)
        hits == {k \in 0..n - 1 : ClockAt(s, r.ev[Nth(r, k)]) < clock}
    IN  IF hits # {} THEN Nth(r, Min(hits))
        ELSE IF n < size - 1 THEN r.head ELSE -1

\* Its two calls to die().
BadRing(s, r, clock) ==
    LET n == Count(r, r.head)
    IN  /\ \A k \in 0..n - 1 : ClockAt(s, r.ev[Nth(r, k)]) >= clock
        /\ n < size - 1 /\ (r.head # 0 \/ r.tail >= size - 1)

-----------------------------------------------------------------------------
(* The sort plan.                                                          *)

\* find_min_clock() over the region.
MinClock(s, from, next) == Min({s[i].clock : i \in {j \in DOMAIN s :
                                     Offset(s, j) \in from..next - 1}})

\* qsort() of the events a to b - 1 may leave those with equal clocks in any
\* order.
SortedParts(s, a, b) ==
    LET events == {s[i] : i \in a..b - 1}
        Firsts(S) == {e \in S : \A f \in S : e.clock <= f.clock}
        sorted[n \in 0..b - a] ==
            IF n = 0 THEN {<<>>}
            ELSE UNION {{Append(p, e) : e \in Firsts(events \ ToSet(p))} : p \in sorted[n - 1]}
    IN  sorted[b - a]
Placed(s, a, p) ==
    [i \in DOMAIN s |-> IF i \in a..a + Len(p) - 1 THEN p[i - a + 1] ELSE s[i]]

\* Mistake: the ring keeps the pointers it had before the events moved.
RebuildRingNot(r, i0, s, a) == r

\* rebuild_ring(): the places from i0 point to event a of s and those after it.
RebuildRing(r, i0, s, a) ==
    [r EXCEPT !.ev = [i \in 0..size - 1 |->
        IF (i - i0) % size < Count(r, i0) THEN Offset(s, a + ((i - i0) % size))
                                          ELSE @[i]]]

\* ring_check(): from place i0 the clocks do not go back.
RingChecked(r, i0, s) ==
    \A k \in 1..Count(r, i0) - 1 :
        ClockAt(s, r.ev[(i0 + k - 1) % size]) <= ClockAt(s, r.ev[(i0 + k) % size])

\* Mistake: the destination is for the first event of the region.
RegionClockFirst == ClockAt(Stream, bad0)

\* The clock to look for: the region may not be in order either.
RegionClock == MinClock(Stream, bad0, Here)

\* execute_sort_plan() when there is a destination: die(), or the stream and the
\* ring after it.
ExecuteSortPlan(i0) ==
    \E a \in 1..pos :
        /\ a = (IF At(Stream, ring.ev[i0]) = {} THEN pos
                ELSE CHOOSE i \in At(Stream, ring.ev[i0]) : TRUE)
        /\ \E p \in SortedParts(Stream, a, pos) :
              LET s == Placed(Stream, a, p)
                  r == RebuildRing(ring, i0, s, a)
              IN  IF /\ a < pos /\ Count(ring, i0) = pos - a
                     /\ RingChecked(r, i0, s)
                  THEN /\ trace' = [trace EXCEPT ![cur] = s]
                       /\ ring' = RingAdd(r, Here)
                       /\ UNCHANGED status
                  ELSE /\ status' = "died"
                       /\ UNCHANGED <<trace, ring>>

-----------------------------------------------------------------------------
(* The walk over the streams.                                              *)

Init ==
    /\ mode \in {"sort", "check"}
    /\ size \in LookBack
    /\ trace \in Traces
    /\ orig = trace
    /\ cur = 1 /\ pos = 1 /\ st = "S" /\ bad0 = 0 /\ last = 0
    /\ ring = EmptyRing(size)
    /\ unsorted = FALSE
    /\ status = "run"

InStream == status = "run" /\ cur <= Len(trace) /\ pos <= Len(Stream)

\* The state of stream_winsort() after the event e.
NextSt(q, e) ==
    IF q = "S" THEN IF e.mark = "[" THEN "U" ELSE "S"
    ELSE IF e.mark = "]" THEN "S" ELSE "X"

EndsRegion == st = "X" /\ Ev.mark = "]"

\* An event that does not end a region with events.
WinsortEvent ==
    /\ mode = "sort" /\ InStream /\ ~EndsRegion
    /\ st' = NextSt(st, Ev)
    /\ bad0' = IF st = "U" /\ Ev.mark # "]" THEN Here ELSE bad0
    /\ ring' = RingAdd(ring, Here)
    /\ pos' = pos + 1
    /\ UNCHANGED <<mode, size, trace, orig, cur, last, unsorted, status>>

\* The end of a region: the events before it are sorted, and then it is added.
WinsortRegion ==
    /\ mode = "sort" /\ InStream /\ EndsRegion
    /\ LET i0 == FindDestination(Stream, ring, RegionClock)
       IN  IF BadRing(Stream, ring, RegionClock)
           THEN status' = "died" /\ UNCHANGED <<trace, ring>>
           ELSE IF i0 = -1
           THEN status' = "failed" /\ UNCHANGED <<trace, ring>>
           ELSE ExecuteSortPlan(i0)
    /\ st' = NextSt(st, Ev)
    /\ bad0' = 0
    /\ pos' = pos + 1
    /\ UNCHANGED <<mode, size, orig, cur, last, unsorted>>

\* stream_check() goes on after a jump back.
StreamCheck ==
    /\ mode = "check" /\ InStream
    /\ unsorted' = (unsorted \/ (pos > 1 /\ Ev.clock < last))
    /\ last' = Ev.clock
    /\ pos' = pos + 1
    /\ UNCHANGED <<mode, size, trace, orig, cur, st, bad0, ring, status>>

\* stream_step() fails in a stream without events, which is not active, and
\* at an event that does not fit in what is left of the file.
Broken(s) == s = <<>> \/ s \in Torn

\* The end of a stream.  When stream_step() fails, to sort, the tool stops, and to
\* check, it goes on and fails at the end.
NextStream ==
    /\ status = "run" /\ cur <= Len(trace) /\ pos > Len(Stream)
    /\ IF mode = "sort" /\ Broken(orig[cur])
       THEN status' = "failed" /\ UNCHANGED <<cur, walkVars, unsorted>>
       ELSE /\ cur' = cur + 1 /\ pos' = 1 /\ st' = "S" /\ bad0' = 0 /\ last' = 0
            /\ ring' = RingReset(ring)
            /\ unsorted' = (unsorted \/ Broken(orig[cur]))
            /\ UNCHANGED status
    /\ UNCHANGED <<mode, size, trace, orig>>

Done ==
    /\ status = "run" /\ cur > Len(trace)
    /\ status' = IF unsorted THEN "failed" ELSE "ok"
    /\ UNCHANGED <<mode, size, trace, orig, cur, walkVars, unsorted>>

Next == WinsortEvent \/ WinsortRegion \/ StreamCheck \/ NextStream \/ Done

Spec == Init /\ [][Next]_vars

-----------------------------------------------------------------------------
(* Properties.                                                             *)

\* The ring has the last size - 1 events read from the stream, or all of them
\* if there are less, in the order they have in the file now, although regions
\* move events of any size before the ones that it points to (rebuild_ring).
RingExact ==
    mode = "sort" /\ status = "run" =>
        LET n == Count(ring, ring.head)
        IN  /\ n = Min({pos - 1, size - 1})
            /\ \A k \in 0..n - 1 :
                   ring.ev[Nth(ring, k)] = Offset(Stream, pos - 1 - k)

Ordered(s) == \A i \in 1..Len(s) - 1 : s[i].clock <= s[i + 1].clock
\* The state of stream_winsort() after each event of s.
States(s) ==
    LET after[i \in 0..Len(s)] == IF i = 0 THEN "S" ELSE NextSt(after[i - 1], s[i])
    IN  after
\* A stream as the documentation asks for: in order out of the regions, which
\* end and have events of before their end.
WellFormed(s) ==
    LET q == States(s) IN
    /\ Len(s) > 0 /\ q[Len(s)] # "X"
    /\ \A i, j \in DOMAIN s :
           i < j /\ q[j] # "X" => s[i].clock <= s[j].clock

\* A trace sorted without errors has the events of before, each stream its own,
\* and a stream that was well formed is in order; a trace checked without errors
\* is in order, and it has not changed.
SortedOnSuccess ==
    /\ status = "ok" =>
           \A s \in DOMAIN trace : mode = "check" \/ WellFormed(orig[s]) => Ordered(trace[s])
    /\ \A s \in DOMAIN trace : ToSet(trace[s]) = ToSet(orig[s]) /\ Len(trace[s]) = Len(orig[s])
    /\ mode = "check" => trace = orig

\* The conditions that ovnisort checks with die() hold for every stream, well
\* formed or not: find_destination() finds the ring as it expects, rebuild_ring()
\* ends where the region ends and ring_check() finds the ring in order.  And
\* ovnisort gives up on a region only when the events it has to jump over are as
\* many as it may look back, counted in the stream as it was, and rejects in
\* check mode only traces that are not in order, when it could read every stream.
GivesUpFar ==
    /\ status # "died"
    /\ status = "failed" /\ (\A s \in DOMAIN orig : ~Broken(orig[s])) =>
         IF mode = "check" THEN \E s \in DOMAIN orig : ~Ordered(orig[s])
         ELSE LET s == orig[cur]
                  q == States(s)
                  b == Max({i \in 1..pos - 2 : i = 1 \/ q[i - 1] # "X"})
                  low == Min({s[i].clock : i \in b..pos - 2})
              IN  Cardinality({i \in 1..pos - 2 : s[i].clock >= low}) >= size - 1
=============================================================================

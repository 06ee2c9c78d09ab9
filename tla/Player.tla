------------------------------- MODULE Player -------------------------------
(***************************************************************************)
(* The player (src/src/emu/player.c): it merges the streams of a trace     *)
(* into one sequence of events ordered by the corrected clock, with the    *)
(* heap of heap.h and the streams of stream.c.  The heap is linked by      *)
(* pointers in the code; the node that heap_get() finds for number n is    *)
(* element n of the sequence here, whose children are 2n and 2n+1.         *)
(*                                                                         *)
(* Every event takes one unit of the file.  The models of the emulator     *)
(* accept every event: what they reject is in their own modules.           *)
(***************************************************************************)
EXTENDS Integers, Sequences, SequencesExt

CONSTANTS
    NumStreams,     \* trace->nstreams
    Clocks,         \* the sequences of clocks that a stream may have
    Torn,           \* the sets of streams that may end with an incomplete event
    MaxGate         \* maxgate of check_clock_gate()

ASSUME PlayerAssumption ==
    NumStreams \in Nat /\ MaxGate \in Nat /\ \A q \in Clocks : q \in Seq(Int)

\* Streams are visited in the order of their relpath (trace_load).
Stream == 1..NumStreams

\* The traces on disk, as Merge describes them.
Traces == [clocks : [Stream -> Clocks], torn : Torn, unsorted : BOOLEAN]

VARIABLES
    trace,      \* the trace that is played, and trace.unsorted the player flag
    stream,     \* the state of each stream: active, offset, cur_ev and lastclock
    heap,       \* player->heap
    toLoad,     \* the stream that player_init() loads next
    cur,        \* player->stream, 0 for NULL
    clock,      \* player->first_event, firstclock and lastclock
    status      \* how far the tool is

vars == <<trace, stream, heap, toLoad, cur, clock, status>>

Size(s) == Len(trace.clocks[s])

-----------------------------------------------------------------------------
(* heap.h.  key holds the lastclock of each stream.                        *)

Exchange(h, i, j) == [h EXCEPT ![i] = h[j], ![j] = h[i]]

\* stream_cmp() > 0: the opposite order, to have the minimum at the root.
Larger(key, a, b) == key[a] < key[b]

\* Mistake: the new node is compared with its parent only once.
HeapInsertOneLevel(h, s, key) ==
    LET n == Len(h) + 1
        g == Append(h, s)
    IN  IF n > 1 /\ Larger(key, g[n], g[n \div 2])
        THEN Exchange(g, n, n \div 2) ELSE g

\* A node of a heap: the heap and the number of the node.
Node == {x \in Seq(Stream) \X Nat : x[2] \in 1..Len(x[1])}

\* heap_insert(): the new node goes up while it is larger than its parent.
GoesUp(x, key) == x[2] > 1 /\ Larger(key, x[1][x[2]], x[1][x[2] \div 2])

SiftUp(key) ==
    LET up[x \in Node] ==
            IF GoesUp(x, key)
            THEN up[<<Exchange(x[1], x[2], x[2] \div 2), x[2] \div 2>>]
            ELSE x[1]
    IN  up

HeapInsert(h, s, key) == SiftUp(key)[<<Append(h, s), Len(h) + 1>>]

\* heap_max_heapify(): the largest of a node, its left and its right child, the
\* earlier one on a tie.
Largest(h, n, key) ==
    LET l == IF 2 * n <= Len(h) /\ Larger(key, h[2 * n], h[n])
             THEN 2 * n ELSE n
    IN  IF 2 * n + 1 <= Len(h) /\ Larger(key, h[2 * n + 1], h[l])
        THEN 2 * n + 1 ELSE l

\* ... which takes its place until the node is the largest of the three.
SiftDown(key) ==
    LET down[x \in Node] ==
            LET m == Largest(x[1], x[2], key)
            IN  IF m # x[2] THEN down[<<Exchange(x[1], x[2], m), m>>] ELSE x[1]
    IN  down

\* heap_pop_max(): the last node takes the place of the root and sinks.
HeapPop(h, key) ==
    IF Len(h) = 1 THEN <<>>
    ELSE SiftDown(key)[<<[Front(h) EXCEPT ![1] = Last(h)], 1>>]

-----------------------------------------------------------------------------
(* stream.c.                                                               *)

\* The offset once the current event, if any, has been passed.
Passed(st) == st.offset + (IF st.loaded THEN 1 ELSE 0)

AtEnd(s) == stream[s].loaded /\ Passed(stream[s]) = Size(s)

EventClock(s) == trace.clocks[s][Passed(stream[s]) + 1]

\* Mistake: an event with the clock of the last one is taken as unsorted.
RejectedEqual(s) ==
    /\ stream[s].active /\ ~AtEnd(s)
    /\ \/ s \in trace.torn /\ Passed(stream[s]) + 1 = Size(s)
       \/ ~trace.unsorted /\ EventClock(s) <= stream[s].lastclock

\* The next event is incomplete, or is before the last one.
Rejected(s) ==
    /\ stream[s].active /\ ~AtEnd(s)
    /\ \/ s \in trace.torn /\ Passed(stream[s]) + 1 = Size(s)
       \/ ~trace.unsorted /\ EventClock(s) < stream[s].lastclock

\* What a step that is not rejected leaves in an active stream.
StreamStep(s) ==
    [active    |-> ~AtEnd(s),
     loaded    |-> ~AtEnd(s),
     offset    |-> Passed(stream[s]),
     lastclock |-> IF AtEnd(s) THEN stream[s].lastclock ELSE EventClock(s)]

-----------------------------------------------------------------------------
(* player.c.                                                               *)

Key(str) == [s \in Stream |-> str[s].lastclock]

\* step_stream(): an inactive stream is left alone, and one that has no more
\* events does not come back to the heap.
SteppedStreams(s) ==
    IF stream[s].active THEN [stream EXCEPT ![s] = StreamStep(s)] ELSE stream

SteppedHeap(s) ==
    IF stream[s].active /\ ~AtEnd(s)
    THEN HeapInsert(heap, s, Key(SteppedStreams(s))) ELSE heap

Stop(how) ==
    /\ status' = how
    /\ UNCHANGED <<trace, stream, heap, toLoad, cur, clock>>

Init ==
    /\ trace \in Traces
    /\ stream = [s \in Stream |-> [active |-> Size(s) > 0, loaded |-> FALSE,
                                   offset |-> 0, lastclock |-> 0]]
    /\ heap = <<>>
    /\ toLoad = 1
    /\ cur = 0
    /\ clock = [first |-> TRUE, firstclock |-> 0, lastclock |-> 0]
    /\ status = "load"

\* player_init() loads the first event of the next stream.
LoadStream ==
    /\ status = "load" /\ toLoad \in Stream /\ ~Rejected(toLoad)
    /\ stream' = SteppedStreams(toLoad)
    /\ heap' = SteppedHeap(toLoad)
    /\ toLoad' = toLoad + 1
    /\ UNCHANGED <<trace, cur, clock, status>>

LoadFails ==
    /\ status = "load" /\ toLoad \in Stream /\ Rejected(toLoad)
    /\ Stop("failed")

\* check_clock_gate() compares the first clock of every stream with the one of
\* the first stream that has events.
GateOpen(tr) ==
    LET some == {s \in Stream : tr.clocks[s] # <<>>}
    IN  \A s \in some : \E f \in some :
            /\ \A r \in some : f <= r
            /\ tr.clocks[f][1] - tr.clocks[s][1] \in -MaxGate..MaxGate

StartPlay ==
    /\ status = "load" /\ toLoad = NumStreams + 1
    /\ Stop(IF trace.unsorted \/ GateOpen(trace) THEN "run" ELSE "failed")

\* player_step() puts the stream of the last event back in the heap.
PlayedHeap == IF cur = 0 THEN heap ELSE SteppedHeap(cur)
PlayedStreams == IF cur = 0 THEN stream ELSE SteppedStreams(cur)
PlayFails == cur # 0 /\ Rejected(cur)

\* update_clocks() with the clock c of the event.
UpdateClocks(c) ==
    [first      |-> FALSE,
     firstclock |-> IF clock.first THEN c ELSE clock.firstclock,
     lastclock  |-> c]

Backwards(c) == ~clock.first /\ c < clock.lastclock /\ ~trace.unsorted

\* player_step() finds an event.
Play ==
    /\ status = "run" /\ ~PlayFails /\ PlayedHeap # <<>>
    /\ LET s == PlayedHeap[1]
           c == PlayedStreams[s].lastclock
       IN  /\ stream' = PlayedStreams
           /\ heap' = HeapPop(PlayedHeap, Key(PlayedStreams))
           /\ IF Backwards(c)
              THEN status' = "failed" /\ UNCHANGED <<cur, clock>>
              ELSE cur' = s /\ clock' = UpdateClocks(c) /\ UNCHANGED status
    /\ UNCHANGED <<trace, toLoad>>

PlayEnds ==
    /\ status = "run" /\ ~PlayFails /\ PlayedHeap = <<>>
    /\ stream' = PlayedStreams
    /\ status' = "ok"
    /\ UNCHANGED <<trace, heap, toLoad, cur, clock>>

PlayRejects == status = "run" /\ PlayFails /\ Stop("failed")

\* stop_emulation(): the emulator stops between two events.
Interrupt == status = "run" /\ ~trace.unsorted /\ Stop("partial")

Progress == LoadStream \/ LoadFails \/ StartPlay \/ Play \/ PlayEnds \/ PlayRejects

Next == Progress \/ Interrupt

Spec == Init /\ [][Next]_vars /\ WF_vars(Progress)

-----------------------------------------------------------------------------
(* Properties.                                                             *)

\* No stream is lost or twice in the heap: while events are played it holds
\* exactly the streams with an event loaded, but the one being played, and no
\* node is after its parent, although lastclock, their order, changes in streams
\* that step_stream() takes out and puts back.
HeapHolds ==
    status \in {"load", "run"} =>
        /\ IsInjective(heap)
        /\ ToSet(heap) = {s \in Stream : stream[s].loaded} \ {cur}
        /\ \A n \in 2..Len(heap) :
               stream[heap[n \div 2]].lastclock <= stream[heap[n]].lastclock

\* An event of the stream is delivered when the player has it in cur or has
\* passed it.
Delivered == [s \in Stream |-> stream[s].offset
                 + (IF cur = s /\ stream[s].loaded THEN 1 ELSE 0)]

M == INSTANCE Merge WITH done <- Delivered, now <- clock.lastclock,
                         Gate <- GateOpen

\* The player implements Merge: every event of the trace is delivered once, in
\* the order of its stream and the earliest first, until the end, and the tool
\* fails exactly when the next event of a stream is not valid (player_step).
Merges == M!Spec
=============================================================================

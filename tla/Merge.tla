------------------------------- MODULE Merge --------------------------------
(***************************************************************************)
(* What the player promises to the tools that read a trace: the events of  *)
(* all the streams, one by one, each stream in its own order and always    *)
(* the earliest of the events that come next.  It stops with an error when *)
(* the next event of a stream is not valid, and only then.                 *)
(*                                                                         *)
(* A trace is a record: clocks[s] are the corrected clocks of the events   *)
(* of stream s, torn the streams whose last event is incomplete, and       *)
(* unsorted is TRUE for the tools that take streams out of order           *)
(* (ovnidump and ovnitop) and FALSE for the emulator.                      *)
(***************************************************************************)
EXTENDS Integers, Sequences

CONSTANTS
    Stream,     \* the streams of the trace
    Traces,     \* the traces that may be played
    Gate(_)     \* whether the first clocks of a trace are close enough

VARIABLES
    trace,      \* the trace being played
    done,       \* how many events of each stream have been delivered
    now,        \* the clock of the last event delivered
    status      \* how far the tool is

mergeVars == <<trace, done, now, status>>

Size(s) == Len(trace.clocks[s])
HasNext(s) == done[s] < Size(s)
NextClock(s) == trace.clocks[s][done[s] + 1]

\* The clock of the event before the next one.  A stream begins at zero.
Before(s) == IF done[s] = 0 THEN 0 ELSE trace.clocks[s][done[s]]

Valid(s) ==
    /\ s \in trace.torn => done[s] + 1 # Size(s)
    /\ trace.unsorted \/ NextClock(s) >= Before(s)

AllValid == \A s \in Stream : HasNext(s) => Valid(s)

Init ==
    /\ trace \in Traces
    /\ done = [s \in Stream |-> 0]
    /\ now = 0
    /\ status = "load"

Start ==
    /\ status = "load"
    /\ AllValid
    /\ trace.unsorted \/ Gate(trace)
    /\ status' = "run"
    /\ UNCHANGED <<trace, done, now>>

Deliver(s) ==
    /\ status = "run"
    /\ AllValid
    /\ HasNext(s)
    /\ \A r \in Stream : HasNext(r) => NextClock(s) <= NextClock(r)
    /\ done' = [done EXCEPT ![s] = @ + 1]
    /\ now' = NextClock(s)
    /\ UNCHANGED <<trace, status>>

Finish ==
    /\ status = "run"
    /\ \A s \in Stream : ~HasNext(s)
    /\ status' = "ok"
    /\ UNCHANGED <<trace, done, now>>

Fail ==
    /\ \/ status = "load" /\ ~trace.unsorted /\ ~Gate(trace)
       \/ status \in {"load", "run"} /\ ~AllValid
    /\ status' = "failed"
    /\ UNCHANGED <<trace, done, now>>

\* The user may stop the emulator between two events.
Interrupt ==
    /\ status = "run" /\ ~trace.unsorted
    /\ status' = "partial"
    /\ UNCHANGED <<trace, done, now>>

Progress == Start \/ (\E s \in Stream : Deliver(s)) \/ Finish \/ Fail

Next == Progress \/ Interrupt

Spec == Init /\ [][Next]_mergeVars /\ WF_mergeVars(Progress)

\* The time of the emulator never goes back: prv_advance() would stop it.
TimeForward == [][~trace.unsorted => now' >= now]_now
=============================================================================

------------------------------ MODULE RtProofs ------------------------------
(***************************************************************************)
(* The runtime library, for any number of threads, any sizes of the        *)
(* events and of the buffer, and any stream: no event is written past the  *)
(* end of the buffer (BufferFits), and the races of ovni_proc_init(),      *)
(* ovni_proc_fini() and ovni_thread_init() neither initialize the process  *)
(* twice (OneInitOneFini) nor take the directory of a thread away          *)
(* (DirKept); no flush loses an event of the program (NothingLost); where  *)
(* fwrite() writes all that it is given, a stream that is moved arrives    *)
(* complete and what is on disk stays there (FreedComplete, StreamKept,    *)
(* AttrsKept); and where the largest event leaves room for a header, a     *)
(* stream is ordered (StreamOrdered).                                      *)
(***************************************************************************)
EXTENDS Rt, SequenceTheorems, FiniteSetTheorems, TLAPS

\* The buffer.  A call that has an event to add has it at the top of the
\* stack, and every event that waits is smaller than the buffer.
BufTypes ==
    /\ pc \in [Thread -> Pc]
    /\ evlen \in [Thread -> Nat]
    /\ now \in [Thread -> 0..MaxClock]
    /\ todo \in [Thread -> Seq(Event)]
    /\ held \in [Thread -> [ev : Seq(Event), t0 : 0..MaxClock]]

BufInv ==
    /\ BufTypes
    /\ \A t \in Thread : pc[t] = "add" => todo[t] # <<>>
    /\ BufferFits

\* What the process shares.  A thread is ready from the end of
\* ovni_thread_init() to the end of ovni_thread_free(), and its directory
\* exists from mkdir() on.
ReadyPc == {"add", "write", "store_attr", "store_free", "move", "copy", "remove"}

ProcInv ==
    /\ pc \in [Thread -> Pc]
    /\ ready \in [Thread -> BOOLEAN]
    /\ finished \in [Thread -> BOOLEAN]
    /\ thDir \in [Thread -> BOOLEAN]
    /\ procDir \in BOOLEAN
    /\ OneInitOneFini
    /\ \A t \in Thread : pc[t] \in ReadyPc => ready[t]
    /\ \A t \in Thread : thDir[t] => procDir
    /\ \A t \in Thread : ready[t] \/ pc[t] \in {"open", "store_init"} => thDir[t]

-----------------------------------------------------------------------------

\* The clock that ovni_clock_now() returns is a clock, and so are the events
\* made with it.
LEMMA ClockType ==
  ASSUME NEW t \in Thread, now \in [Thread -> 0..MaxClock], NEW c \in ClockNow(t)
  PROVE  c \in 0..MaxClock
  BY RtAssumption DEF ClockNow

\* An event that fits in the buffer is an event.
LEMMA EventType ==
  ASSUME NEW k \in Kind, NEW c \in 0..MaxClock, NEW s \in 1..MaxEvBuf - 1
  PROVE  Ev(k, c, s) \in Event
  BY DEF Ev, Event

\* The two events of a flush, before whatever was to be added.
LEMMA PairFirst ==
  ASSUME NEW S, NEW a \in Seq(S), NEW b \in Seq(S), Len(a) = 2
  PROVE  a \o b \in Seq(S) /\ a \o b # <<>>
<1>1. a \o b \in Seq(S) /\ Len(a \o b) = Len(a) + Len(b)
  BY ConcatProperties
<1>2. Len(b) \in Nat
  BY LenProperties
<1> QED
  BY <1>1, <1>2, EmptySeq

\* An emit that is accepted, jumbo or not, keeps the invariant of the buffer.
LEMMA EmitBuf ==
  ASSUME BufInv, NEW t \in Thread, NEW s \in 1..MaxEvBuf - 1, NEW c \in ClockNow(t),
         Emit(t, s, c)
  PROVE  BufInv'
<1>1. c \in 0..MaxClock
  BY ClockType DEF BufInv, BufTypes
<1>2. Ev("user", c, s) \in Event
  BY <1>1, EventType DEF Kind
<1>3. <<Ev("user", c, s)>> \in Seq(Event) /\ <<Ev("user", c, s)>> # <<>>
  BY <1>2
<1>4. BufTypes'
  BY <1>1, <1>3 DEF BufInv, BufTypes, Emit, Goto, Pc
<1>5. \A u \in Thread : pc'[u] = "add" => todo'[u] # <<>>
  BY <1>3 DEF BufInv, BufTypes, Emit, Goto
<1> QED
  BY <1>4, <1>5 DEF BufInv, BufferFits, Emit

\* add_event() with room leaves the buffer within its limit.
LEMMA AddFitsBuf ==
  ASSUME BufInv, NEW t \in Thread, AddFits(t)
  PROVE  BufInv'
<1> DEFINE e == Head(todo[t])
<1>1. todo[t] \in Seq(Event) /\ todo[t] # <<>>
  BY DEF BufInv, BufTypes, AddFits, At
<1>2. e \in Event /\ Tail(todo[t]) \in Seq(Event)
  BY <1>1
<1>3. e.size \in Nat /\ evlen[t] + e.size \in Nat
  BY <1>2, RtAssumption DEF Event, BufInv, BufTypes
<1> HIDE DEF e
<1>4. evlen' = [evlen EXCEPT ![t] = @ + e.size] /\ evlen[t] + e.size < MaxEvBuf
  BY DEF AddFits, Fits, e
<1>5. BufTypes'
  BY <1>2, <1>3, <1>4 DEF BufInv, BufTypes, AddFits, Goto, Pc
<1>6. \A u \in Thread : pc'[u] = "add" => todo'[u] # <<>>
  BY DEF BufInv, BufTypes, AddFits, Goto
<1>7. BufferFits'
  BY <1>4 DEF BufInv, BufTypes, BufferFits
<1> QED
  BY <1>5, <1>6, <1>7 DEF BufInv

\* add_event() without room leaves it to a flush.
LEMMA AddFlushBuf ==
  ASSUME BufInv, NEW t \in Thread, AddFlush(t)
  PROVE  BufInv'
<1>1. todo[t] \in Seq(Event) /\ todo[t] # <<>>
  BY DEF BufInv, BufTypes, AddFlush, At
<1>2. <<Head(todo[t])>> \in Seq(Event) /\ Tail(todo[t]) \in Seq(Event)
  BY <1>1
<1>3. PICK c \in ClockNow(t) : BeginFlush(t, <<Head(todo[t])>>, c)
  BY DEF AddFlush
<1>4. c \in 0..MaxClock
  BY ClockType DEF BufInv, BufTypes
<1>5. BufTypes'
  BY <1>2, <1>3, <1>4 DEF BufInv, BufTypes, AddFlush, BeginFlush, Goto, Pc
<1>6. \A u \in Thread : pc'[u] = "add" => todo'[u] # <<>>
  BY <1>3 DEF BufInv, BufTypes, AddFlush, BeginFlush, Goto
<1> QED
  BY <1>5, <1>6 DEF BufInv, BufferFits, AddFlush

\* ovni_flush() leaves its two events to be added.
LEMMA FlushBuf ==
  ASSUME BufInv, NEW t \in Thread, Flush(t)
  PROVE  BufInv'
<1>1. PICK c \in ClockNow(t) : BeginFlush(t, <<>>, c)
  BY DEF Flush
<1>2. c \in 0..MaxClock
  BY ClockType DEF BufInv, BufTypes
<1>3. BufTypes'
  BY <1>1, <1>2 DEF BufInv, BufTypes, Flush, BeginFlush, Goto, Pc
<1>4. \A u \in Thread : pc'[u] = "add" => todo'[u] # <<>>
  BY <1>1 DEF BufInv, BufTypes, Flush, BeginFlush, Goto
<1> QED
  BY <1>3, <1>4 DEF BufInv, BufferFits, Flush

\* After a flush the buffer holds at most the event that did not fit, and the
\* events of the flush are still to be added.
LEMMA EndFlushBuf ==
  ASSUME BufInv, NEW t \in Thread, EndFlush(t)
  PROVE  BufInv'
<1>1. PICK c \in ClockNow(t) : /\ now' = [now EXCEPT ![t] = c]
                               /\ todo' = [todo EXCEPT ![t] = FlushEvents(t, c) \o @]
  BY DEF EndFlush
<1>2. c \in 0..MaxClock /\ held[t].t0 \in 0..MaxClock /\ held[t].ev \in Seq(Event)
  BY ClockType DEF BufInv, BufTypes
<1>3. HeaderSize \in 1..MaxEvBuf - 1 /\ MaxEvBuf \in Nat
  BY RtAssumption
<1>4. /\ Ev("flush[", held[t].t0, HeaderSize) \in Event
      /\ Ev("flush]", c, HeaderSize) \in Event
  BY <1>2, <1>3, EventType DEF Kind
<1>5. FlushEvents(t, c) \in Seq(Event) /\ Len(FlushEvents(t, c)) = 2
  BY <1>4 DEF FlushEvents
<1>6. /\ FlushEvents(t, c) \o todo[t] \in Seq(Event)
      /\ FlushEvents(t, c) \o todo[t] # <<>>
  BY <1>5, PairFirst DEF BufInv, BufTypes
<1> DEFINE n == IF held[t].ev = <<>> THEN 0 ELSE held[t].ev[1].size
<1>7. n \in 0..MaxEvBuf - 1
  <2>1. CASE held[t].ev = <<>>
    BY <2>1, <1>3
  <2>2. CASE held[t].ev # <<>>
    <3>1. held[t].ev[1] \in Event
      BY <2>2, <1>2
    <3> QED
      BY <2>2, <3>1, <1>3 DEF Event
  <2> QED
    BY <2>1, <2>2
<1> HIDE DEF n
<1>8. evlen' = [evlen EXCEPT ![t] = n]
  BY DEF EndFlush, n
<1>9. NoFlush \in [ev : Seq(Event), t0 : 0..MaxClock]
  BY RtAssumption DEF NoFlush
<1>10. BufTypes'
  <2>1. todo' \in [Thread -> Seq(Event)]
    BY <1>1, <1>6 DEF BufInv, BufTypes
  <2>2. evlen' \in [Thread -> Nat] /\ now' \in [Thread -> 0..MaxClock]
    BY <1>1, <1>2, <1>3, <1>7, <1>8 DEF BufInv, BufTypes
  <2> QED
    BY <2>1, <2>2, <1>9 DEF BufInv, BufTypes, EndFlush, Goto, Pc
<1>11. \A u \in Thread : pc'[u] = "add" => todo'[u] # <<>>
  BY <1>1, <1>6 DEF BufInv, BufTypes, EndFlush, Goto
<1>12. BufferFits'
  BY <1>3, <1>7, <1>8 DEF BufInv, BufTypes, BufferFits
<1> QED
  BY <1>10, <1>11, <1>12 DEF BufInv

\* The rest of the steps leave the buffer alone and add no event.
LEMMA OtherBuf ==
  ASSUME BufInv, NEW t \in Thread, NEW p \in Pc \ {"add"},
         pc' = pc \/ pc' = [pc EXCEPT ![t] = p],
         UNCHANGED <<evlen, held, todo, now>>
  PROVE  BufInv'
  BY DEF BufInv, BufTypes, BufferFits

\* Every step keeps the invariant of the buffer.
LEMMA BufNext == BufInv /\ [Next]_vars => BufInv'
<1> SUFFICES ASSUME BufInv, [Next]_vars PROVE BufInv'
  OBVIOUS
<1>1. CASE UNCHANGED vars
  BY <1>1 DEF BufInv, BufTypes, BufferFits, vars, bufVars
<1>2. CASE Crash
  BY <1>2 DEF BufInv, BufTypes, BufferFits, Crash, bufVars
<1>3. ASSUME NEW t \in Thread, Step(t) PROVE BufInv'
  <2>1. CASE AddFits(t)
    BY <2>1, AddFitsBuf
  <2>2. CASE AddFlush(t)
    BY <2>2, AddFlushBuf
  <2>3. CASE EndFlush(t)
    BY <2>3, EndFlushBuf
  <2>4. CASE CreateProcDir(t)
    BY <2>4, OtherBuf DEF CreateProcDir, Goto, Pc, bufVars
  <2>5. CASE CleanProcDir(t)
    BY <2>5, OtherBuf DEF CleanProcDir, Goto, Pc, bufVars
  <2>6. CASE MakeParent(t)
    BY <2>6, OtherBuf DEF MakeParent, Goto, Pc, InitPc, bufVars
  <2>7. CASE MakeThreadDir(t)
    BY <2>7, OtherBuf DEF MakeThreadDir, Goto, Pc, InitPc, bufVars
  <2>8. CASE OpenStream(t)
    BY <2>8, OtherBuf DEF OpenStream, Goto, Pc, InitPc, bufVars
  <2>9. CASE ThreadReady(t)
    BY <2>9, OtherBuf DEF ThreadReady, Goto, Pc, bufVars
  <2>10. CASE WriteSome(t)
    BY <2>10, OtherBuf DEF WriteSome, WriteEvbuf, Pc
  <2>11. CASE AttrStored(t)
    BY <2>11, OtherBuf DEF AttrStored, Goto, Pc, bufVars
  <2>12. CASE FreeStored(t)
    <3>1. pc' = [pc EXCEPT ![t] = "move"] \/ pc' = [pc EXCEPT ![t] = "idle"]
      BY <2>12 DEF FreeStored, Finish, Goto
    <3>2. UNCHANGED <<evlen, held, todo, now>>
      BY <2>12 DEF FreeStored
    <3> QED
      BY <3>1, <3>2, OtherBuf DEF Pc
  <2>13. CASE \E f \in FileName : MoveOpen(t, f) \/ OpenFails(t, f)
    BY <2>13, OtherBuf DEF MoveOpen, OpenFails, Goto, Pc, bufVars
  <2>14. CASE MoveCopy(t)
    BY <2>14, OtherBuf DEF MoveCopy, Goto, Pc, bufVars
  <2>15. CASE MoveRemove(t) \/ RemoveFails(t)
    BY <2>15, OtherBuf DEF MoveRemove, RemoveFails, Goto, Pc, bufVars
  <2>16. CASE ThreadDone(t)
    BY <2>16, OtherBuf DEF ThreadDone, Finish, Goto, Pc, bufVars
  <2> QED
    BY <1>3, <2>1, <2>2, <2>3, <2>4, <2>5, <2>6, <2>7, <2>8, <2>9, <2>10,
       <2>11, <2>12, <2>13, <2>14, <2>15, <2>16 DEF Step
<1>4. ASSUME NEW t \in Thread, Call(t) PROVE BufInv'
  <2>1. CASE EvEmit(t)
    <3>1. PICK s \in EvSizes, c \in ClockNow(t) : Emit(t, s, c)
      BY <2>1 DEF EvEmit
    <3>2. s \in 1..MaxEvBuf - 1
      BY RtAssumption
    <3> QED
      BY <3>1, <3>2, EmitBuf
  <2>2. CASE JumboEmit(t)
    <3>1. PICK s \in JumboSizes, c \in ClockNow(t) : s < MaxEvBuf /\ Emit(t, s, c)
      BY <2>2 DEF JumboEmit
    <3>2. s \in 1..MaxEvBuf - 1
      BY <3>1, RtAssumption
    <3> QED
      BY <3>1, <3>2, EmitBuf
  <2>3. CASE Flush(t)
    BY <2>3, FlushBuf
  <2>4. CASE ProcInit(t)
    BY <2>4, OtherBuf DEF ProcInit, Goto, Pc, bufVars
  <2>5. CASE ProcFini(t)
    <3>1. pc' = [pc EXCEPT ![t] = "rmproc"] \/ pc' = [pc EXCEPT ![t] = "idle"]
      BY <2>5 DEF ProcFini, Goto
    <3>2. UNCHANGED <<evlen, held, todo, now>>
      BY <2>5 DEF ProcFini, bufVars
    <3> QED
      BY <3>1, <3>2, OtherBuf DEF Pc
  <2>6. CASE ThreadInit(t)
    BY <2>6, OtherBuf DEF ThreadInit, Goto, Pc, InitPc, bufVars
  <2>7. CASE ThreadFree(t)
    BY <2>7, OtherBuf DEF ThreadFree, Truncate, Goto, Pc, StorePc, bufVars
  <2>8. CASE AttrFlush(t)
    BY <2>8, OtherBuf DEF AttrFlush, Truncate, Goto, Pc, StorePc, bufVars
  <2>9. CASE (\E k \in Key : AttrSet(t, k)) \/ (\E k \in Late : SetLate(t, k))
    BY <2>9, OtherBuf DEF AttrSet, SetLate, Pc, bufVars
  <2> QED
    BY <1>4, <2>1, <2>2, <2>3, <2>4, <2>5, <2>6, <2>7, <2>8, <2>9 DEF Call
<1> QED
  BY <1>1, <1>2, <1>3, <1>4 DEF Next

\* It holds at the start.
LEMMA BufInit == Init => BufInv
<1> SUFFICES ASSUME Init PROVE BufInv
  OBVIOUS
<1>1. <<>> \in Seq(Event) /\ 0 \in 0..MaxClock /\ MaxEvBuf > 0
  BY RtAssumption
<1> QED
  BY <1>1 DEF Init, BufInv, BufTypes, BufferFits, NoFlush, Pc

\* No event is ever written past the end of the buffer: the comparisons of
\* ovni_ev_add() and ovni_ev_add_jumbo() are enough for every size of the
\* events, however the flushes nest.
THEOREM BufferSafe == Spec => []BufferFits
<1>1. BufInv => BufferFits
  BY DEF BufInv
<1> QED
  BY <1>1, BufInit, BufNext, PTL DEF Spec

-----------------------------------------------------------------------------

\* The invariant of the process holds at the start.
LEMMA ProcInit0 == Init => ProcInv
<1> SUFFICES ASSUME Init PROVE ProcInv
  OBVIOUS
<1>1. /\ pc \in [Thread -> {"idle"}]
      /\ ready \in [Thread -> {FALSE}]
      /\ finished \in [Thread -> {FALSE}]
      /\ thDir \in [Thread -> {FALSE}]
      /\ procDir = FALSE
  BY DEF Init
<1>2. "idle" \in Pc /\ "idle" \notin InitPc
  BY DEF Pc, InitPc
<1>3. OneInitOneFini
  BY <1>1, <1>2 DEF OneInitOneFini
<1> QED
  BY <1>1, <1>2, <1>3 DEF ProcInv, ReadyPc

\* The steps that touch the state of the process or the directories.
LEMMA ProcSteps ==
  ASSUME ProcInv, NEW t \in Thread,
         \/ ProcInit(t) \/ CreateProcDir(t) \/ ProcFini(t) \/ CleanProcDir(t)
  PROVE  ProcInv'
<1>1. CASE ProcInit(t)
  BY <1>1 DEF ProcInv, OneInitOneFini, ProcInit, At, Goto, ReadyPc, Pc, InitPc
<1>2. CASE CreateProcDir(t)
  BY <1>2 DEF ProcInv, OneInitOneFini, CreateProcDir, At, Goto, ReadyPc, Pc, InitPc
<1>3. CASE ProcFini(t)
  BY <1>3 DEF ProcInv, OneInitOneFini, ProcFini, At, Goto, ReadyPc, Pc, InitPc
<1>4. CASE CleanProcDir(t)
  <2>1. procDir' \in BOOLEAN /\ \A u \in Thread : thDir'[u] => procDir'
    BY <1>4 DEF ProcInv, CleanProcDir, Empty
  <2> QED
    BY <1>4, <2>1 DEF ProcInv, OneInitOneFini, CleanProcDir, At, Goto, ReadyPc, Pc, InitPc
<1> QED
  BY <1>1, <1>2, <1>3, <1>4

\* The steps of ovni_thread_init() keep the directory of the thread.
LEMMA ThreadInitSteps ==
  ASSUME ProcInv, NEW t \in Thread,
         ThreadInit(t) \/ MakeParent(t) \/ MakeThreadDir(t) \/ OpenStream(t) \/ ThreadReady(t)
  PROVE  ProcInv'
<1>1. CASE ThreadInit(t)
  BY <1>1 DEF ProcInv, OneInitOneFini, ThreadInit, At, Goto, ReadyPc, Pc, InitPc
<1>2. CASE MakeParent(t)
  BY <1>2 DEF ProcInv, OneInitOneFini, MakeParent, At, Goto, ReadyPc, Pc, InitPc
<1>3. CASE MakeThreadDir(t)
  BY <1>3 DEF ProcInv, OneInitOneFini, MakeThreadDir, At, Goto, ReadyPc, Pc, InitPc
<1>4. CASE OpenStream(t)
  BY <1>4 DEF ProcInv, OneInitOneFini, OpenStream, At, Goto, ReadyPc, Pc, InitPc
<1>5. CASE ThreadReady(t)
  BY <1>5 DEF ProcInv, OneInitOneFini, ThreadReady, At, Goto, ReadyPc, Pc, InitPc
<1> QED
  BY <1>1, <1>2, <1>3, <1>4, <1>5

\* The end of a thread: it stops being ready when its directory may go.
LEMMA FinishSteps ==
  ASSUME ProcInv, NEW t \in Thread, pc[t] \in ReadyPc,
         finished' = [finished EXCEPT ![t] = TRUE],
         ready' = [ready EXCEPT ![t] = FALSE],
         pc' = [pc EXCEPT ![t] = "idle"],
         NEW b \in BOOLEAN,
         thDir' = thDir \/ thDir' = [thDir EXCEPT ![t] = b /\ thDir[t]],
         UNCHANGED <<st, procDir>>
  PROVE  ProcInv'
<1>1. ready[t]
  BY DEF ProcInv
<1>2. st \in {"ready", "gone"}
  BY <1>1 DEF ProcInv, OneInitOneFini
<1>3. thDir' \in [Thread -> BOOLEAN] /\ \A u \in Thread : thDir'[u] => thDir[u]
  BY DEF ProcInv
<1>4. \A u \in Thread : u # t => thDir'[u] = thDir[u]
  BY DEF ProcInv
<1> QED
  BY <1>1, <1>2, <1>3, <1>4 DEF ProcInv, OneInitOneFini, ReadyPc, Pc, InitPc

\* The rest of the steps of a ready thread touch nothing that is shared.
LEMMA ReadySteps ==
  ASSUME ProcInv, NEW t \in Thread, ready[t], NEW p \in ReadyPc \union {"idle"},
         pc' = pc \/ pc' = [pc EXCEPT ![t] = p],
         UNCHANGED <<st, ready, finished, procDir, thDir>>
  PROVE  ProcInv'
<1>1. p \in Pc \ {"mkproc", "rmproc", "mkparent", "mkdir", "open", "store_init"}
  BY DEF Pc, ReadyPc, StorePc
<1>2. CASE pc' = pc
  BY <1>2 DEF ProcInv, OneInitOneFini
<1>3. CASE pc' = [pc EXCEPT ![t] = p]
  <2>1. pc' \in [Thread -> Pc] /\ pc'[t] = p /\ \A u \in Thread : u # t => pc'[u] = pc[u]
    BY <1>1, <1>3 DEF ProcInv
  <2>2. OneInitOneFini'
    BY <1>1, <2>1 DEF ProcInv, OneInitOneFini, InitPc
  <2> QED
    BY <1>1, <2>1, <2>2 DEF ProcInv
<1> QED
  BY <1>2, <1>3

\* Every step keeps the invariant of the process.
LEMMA ProcNext == ProcInv /\ [Next]_vars => ProcInv'
<1> SUFFICES ASSUME ProcInv, [Next]_vars PROVE ProcInv'
  OBVIOUS
<1>1. CASE UNCHANGED vars
  BY <1>1 DEF ProcInv, OneInitOneFini, vars
<1>2. CASE Crash
  BY <1>2 DEF ProcInv, OneInitOneFini, Crash
<1>3. ASSUME NEW t \in Thread, Step(t) PROVE ProcInv'
  <2>1. CASE CreateProcDir(t) \/ CleanProcDir(t)
    BY <2>1, ProcSteps
  <2>2. CASE MakeParent(t) \/ MakeThreadDir(t) \/ OpenStream(t) \/ ThreadReady(t)
    BY <2>2, ThreadInitSteps
  <2>3. CASE AddFits(t)
    <3>1. ready[t]
      BY <2>3 DEF ProcInv, AddFits, At, ReadyPc
    <3>2. pc' = [pc EXCEPT ![t] = "add"] \/ pc' = [pc EXCEPT ![t] = "idle"]
      BY <2>3 DEF AddFits, Goto
    <3>3. UNCHANGED <<st, ready, finished, procDir, thDir>>
      BY <2>3 DEF AddFits
    <3> QED
      BY <3>1, <3>2, <3>3, ReadySteps DEF ReadyPc
  <2>4. CASE AddFlush(t)
    <3>1. ready[t]
      BY <2>4 DEF ProcInv, AddFlush, At, ReadyPc
    <3> QED
      BY <2>4, <3>1, ReadySteps DEF AddFlush, BeginFlush, Goto, ReadyPc
  <2>5. CASE WriteSome(t)
    <3>1. ready[t]
      BY <2>5 DEF ProcInv, WriteSome, WriteEvbuf, At, ReadyPc
    <3> QED
      BY <2>5, <3>1, ReadySteps DEF WriteSome, WriteEvbuf, ReadyPc
  <2>6. CASE EndFlush(t)
    <3>1. ready[t]
      BY <2>6 DEF ProcInv, EndFlush, At, ReadyPc
    <3> QED
      BY <2>6, <3>1, ReadySteps DEF EndFlush, Goto, ReadyPc
  <2>7. CASE AttrStored(t)
    <3>1. ready[t]
      BY <2>7 DEF ProcInv, AttrStored, At, ReadyPc
    <3> QED
      BY <2>7, <3>1, ReadySteps DEF AttrStored, Goto, ReadyPc
  <2>8. CASE FreeStored(t)
    <3>1. pc[t] \in ReadyPc /\ ready[t]
      BY <2>8 DEF ProcInv, FreeStored, At, ReadyPc
    <3>2. CASE MoveToFinal
      BY <2>8, <3>1, <3>2, ReadySteps DEF FreeStored, Goto, ReadyPc
    <3>3. CASE ~MoveToFinal
      BY <2>8, <3>1, <3>3, FinishSteps DEF FreeStored, Finish, Goto
    <3> QED
      BY <3>2, <3>3
  <2>9. CASE \E f \in FileName : MoveOpen(t, f) \/ OpenFails(t, f)
    <3>1. ready[t]
      BY <2>9 DEF ProcInv, MoveOpen, OpenFails, At, ReadyPc
    <3> QED
      BY <2>9, <3>1, ReadySteps DEF MoveOpen, OpenFails, Goto, ReadyPc
  <2>10. CASE MoveCopy(t) \/ MoveRemove(t) \/ RemoveFails(t)
    <3>1. ready[t]
      BY <2>10 DEF ProcInv, MoveCopy, MoveRemove, RemoveFails, At, ReadyPc
    <3> QED
      BY <2>10, <3>1, ReadySteps DEF MoveCopy, MoveRemove, RemoveFails, Goto, ReadyPc
  <2>11. CASE ThreadDone(t)
    <3> DEFINE b == \E f \in FileName : disk[t]["work"][f].is # "none"
    <3>1. pc[t] \in ReadyPc /\ ready[t]
      BY <2>11 DEF ProcInv, ThreadDone, At, ReadyPc
    <3>2. thDir[t] = TRUE
      BY <3>1 DEF ProcInv
    <3>3. b \in BOOLEAN /\ thDir' = [thDir EXCEPT ![t] = b]
      BY <2>11 DEF ThreadDone
    <3> HIDE DEF b
    <3>4. thDir' = [thDir EXCEPT ![t] = b /\ thDir[t]]
      BY <3>2, <3>3
    <3> QED
      BY <2>11, <3>1, <3>3, <3>4, FinishSteps DEF ThreadDone, Finish, Goto
  <2> QED
    BY <1>3, <2>1, <2>2, <2>3, <2>4, <2>5, <2>6, <2>7, <2>8, <2>9, <2>10, <2>11 DEF Step
<1>4. ASSUME NEW t \in Thread, Call(t) PROVE ProcInv'
  <2>1. CASE ProcInit(t) \/ ProcFini(t)
    BY <2>1, ProcSteps
  <2>2. CASE ThreadInit(t)
    BY <2>2, ThreadInitSteps
  <2>3. CASE EvEmit(t) \/ JumboEmit(t)
    BY <2>3, ReadySteps DEF EvEmit, JumboEmit, Emit, Goto, ReadyPc
  <2>4. CASE Flush(t)
    BY <2>4, ReadySteps DEF Flush, BeginFlush, Goto, ReadyPc
  <2>5. CASE AttrFlush(t)
    BY <2>5, ReadySteps DEF AttrFlush, Truncate, Goto, ReadyPc
  <2>6. CASE ThreadFree(t)
    BY <2>6, ReadySteps DEF ThreadFree, Truncate, Goto, ReadyPc
  <2>7. CASE (\E k \in Key : AttrSet(t, k)) \/ (\E k \in Late : SetLate(t, k))
    BY <2>7, ReadySteps DEF AttrSet, SetLate, ReadyPc
  <2> QED
    BY <1>4, <2>1, <2>2, <2>3, <2>4, <2>5, <2>6, <2>7 DEF Call
<1> QED
  BY <1>1, <1>2, <1>3, <1>4 DEF Next

\* The compare and exchange of ovni_proc_init() and ovni_proc_fini() let one
\* thread through, and no thread starts its stream before the process is
\* ready, for any number of threads.
THEOREM InitRace == Spec => []OneInitOneFini
<1>1. ProcInv => OneInitOneFini
  BY DEF ProcInv
<1> QED
  BY <1>1, ProcInit0, ProcNext, PTL DEF Spec

\* ovni_proc_fini() never takes the directory of a ready thread away.
THEOREM DirSafe == Spec => []DirKept
<1>1. ProcInv => DirKept
  BY DEF ProcInv, DirKept
<1> QED
  BY <1>1, ProcInit0, ProcNext, PTL DEF Spec

-----------------------------------------------------------------------------
(* The user events of a stream.                                            *)

\* No event of s was emitted by the program.
NoUser(s) == \A i \in 1..Len(s) : s[i].kind # "user"

\* How many of the first i places are in a set, from one place to the next.
LEMMA CountStep ==
  ASSUME NEW S, NEW i \in Nat
  PROVE  /\ IsFiniteSet({j \in 1..i : j \in S})
         /\ Cardinality({j \in 1..i : j \in S}) \in Nat
         /\ Cardinality({j \in 1..(i + 1) : j \in S})
              = Cardinality({j \in 1..i : j \in S}) + (IF i + 1 \in S THEN 1 ELSE 0)
<1> DEFINE C == {j \in 1..i : j \in S}
           D == {j \in 1..(i + 1) : j \in S}
<1>1. IsFiniteSet(C)
  <2>1. IsFiniteSet(1..i)
    BY FS_Interval
  <2>2. C \in SUBSET (1..i)
    OBVIOUS
  <2> QED
    BY <2>1, <2>2, FS_Subset
<1>2. Cardinality(C) \in Nat
  BY <1>1, FS_CardinalityType
<1>3. ASSUME i + 1 \in S PROVE Cardinality(D) = Cardinality(C) + 1
  <2>1. D = C \union {i + 1} /\ i + 1 \notin C
    BY <1>3
  <2> HIDE DEF C, D
  <2> QED
    BY <1>1, <2>1, FS_AddElement
<1>4. ASSUME i + 1 \notin S PROVE Cardinality(D) = Cardinality(C)
  <2>1. D = C
    BY <1>4
  <2> QED
    BY <2>1
<1> HIDE DEF C, D
<1>5. Cardinality(D) = Cardinality(C) + (IF i + 1 \in S THEN 1 ELSE 0)
  BY <1>2, <1>3, <1>4
<1> QED
  BY <1>1, <1>2, <1>5 DEF C, D

\* The place of the next event.
LEMMA UserPlaceStep ==
  ASSUME NEW s \in Seq(Event), NEW i \in Nat
  PROVE  /\ UserPlace(s, i) \in Nat
         /\ UserPlace(s, i + 1) = UserPlace(s, i) + (IF s[i + 1].kind = "user" THEN 1 ELSE 0)
         /\ UserPlace(s, 0) = 0
<1> DEFINE S == {j \in 1..(i + 1) : s[j].kind = "user"}
<1>1. UserPlace(s, i) = Cardinality({j \in 1..i : j \in S})
  <2>1. {j \in 1..i : s[j].kind = "user"} = {j \in 1..i : j \in S}
    OBVIOUS
  <2> QED
    BY <2>1 DEF UserPlace
<1>2. UserPlace(s, i + 1) = Cardinality({j \in 1..(i + 1) : j \in S})
  <2>1. {j \in 1..(i + 1) : s[j].kind = "user"} = {j \in 1..(i + 1) : j \in S}
    OBVIOUS
  <2> QED
    BY <2>1 DEF UserPlace
<1>3. UserPlace(s, 0) = Cardinality({j \in 1..0 : j \in S})
  <2>1. {j \in 1..0 : s[j].kind = "user"} = {j \in 1..0 : j \in S}
    OBVIOUS
  <2> QED
    BY <2>1 DEF UserPlace
<1>4. i + 1 \in S <=> s[i + 1].kind = "user"
  OBVIOUS
<1> HIDE DEF S
<1>5. Cardinality({j \in 1..i : j \in S}) \in Nat
  BY CountStep
<1>6. Cardinality({j \in 1..(i + 1) : j \in S})
        = Cardinality({j \in 1..i : j \in S}) + (IF i + 1 \in S THEN 1 ELSE 0)
  BY CountStep
<1>7. Cardinality({j \in 1..0 : j \in S}) = 0
  <2>1. {j \in 1..0 : j \in S} = {}
    OBVIOUS
  <2> QED
    BY <2>1, FS_EmptySet
<1> QED
  BY <1>1, <1>2, <1>3, <1>4, <1>5, <1>6, <1>7

\* The place of an event depends on the events up to it.
LEMMA UserPlacePrefix ==
  ASSUME NEW s \in Seq(Event), NEW f \in Seq(Event), NEW i \in 0..Len(s)
  PROVE  UserPlace(s \o f, i) = UserPlace(s, i)
<1>1. \A j \in 1..i : (s \o f)[j] = s[j]
  BY ConcatProperties, LenProperties
<1>2. {j \in 1..i : (s \o f)[j].kind = "user"} = {j \in 1..i : s[j].kind = "user"}
  BY <1>1
<1> QED
  BY <1>2 DEF UserPlace

\* Events that the program did not emit make no difference at the end.
LEMMA UserSuffix ==
  ASSUME NEW s \in Seq(Event), NEW f \in Seq(Event), NEW u, NoUser(f)
  PROVE  UserEvents(s \o f, u) <=> UserEvents(s, u)
<1> DEFINE r == s \o f
<1>1. /\ r \in Seq(Event) /\ Len(r) = Len(s) + Len(f) /\ Len(s) \in Nat /\ Len(f) \in Nat
      /\ \A i \in 1..Len(s) : r[i] = s[i]
      /\ \A i \in 1..Len(r) : i > Len(s) => r[i] = f[i - Len(s)]
  BY ConcatProperties, LenProperties
<1>2. \A i \in 1..Len(r) : i > Len(s) => r[i].kind # "user"
  BY <1>1 DEF NoUser
<1>3. \A i \in 0..Len(s) : UserPlace(r, i) = UserPlace(s, i)
  BY UserPlacePrefix
<1>4. UserPlace(r, Len(r)) = UserPlace(s, Len(s))
  <2>1. {j \in 1..Len(r) : r[j].kind = "user"} = {j \in 1..Len(s) : r[j].kind = "user"}
    BY <1>1, <1>2
  <2>2. UserPlace(r, Len(r)) = UserPlace(r, Len(s))
    BY <2>1 DEF UserPlace
  <2> QED
    BY <2>2, <1>1, <1>3
<1> HIDE DEF r
<1>5. ASSUME UserEvents(r, u) PROVE UserEvents(s, u)
  <2> SUFFICES ASSUME NEW i \in 1..Len(s), s[i].kind = "user" PROVE u[UserPlace(s, i)] = s[i]
    BY <1>4, <1>5 DEF UserEvents
  <2>1. i \in 1..Len(r) /\ r[i] = s[i] /\ UserPlace(r, i) = UserPlace(s, i)
    BY <1>1, <1>3
  <2> QED
    BY <1>5, <2>1 DEF UserEvents
<1>6. ASSUME UserEvents(s, u) PROVE UserEvents(r, u)
  <2> SUFFICES ASSUME NEW i \in 1..Len(r), r[i].kind = "user" PROVE u[UserPlace(r, i)] = r[i]
    BY <1>4, <1>6 DEF UserEvents
  <2>1. i \in 1..Len(s) /\ r[i] = s[i] /\ UserPlace(r, i) = UserPlace(s, i)
    BY <1>1, <1>2, <1>3
  <2> QED
    BY <1>6, <2>1 DEF UserEvents
<1> QED
  BY <1>5, <1>6 DEF r

\* An event that is emitted goes last in both.
LEMMA UserAppend ==
  ASSUME NEW s \in Seq(Event), NEW u \in Seq(Event), NEW e \in Event, e.kind = "user",
         UserEvents(s, u)
  PROVE  UserEvents(s \o <<e>>, Append(u, e))
<1> DEFINE r == s \o <<e>>
           v == Append(u, e)
<1>1. /\ r \in Seq(Event) /\ Len(r) = Len(s) + 1 /\ Len(s) \in Nat
      /\ \A i \in 1..Len(s) : r[i] = s[i]
      /\ r[Len(s) + 1] = e
  BY ConcatProperties, LenProperties
<1>2. /\ Len(v) = Len(u) + 1 /\ Len(u) \in Nat
      /\ \A i \in 1..Len(u) : v[i] = u[i]
      /\ v[Len(u) + 1] = e
  BY AppendProperties, LenProperties
<1>3. \A i \in 0..Len(s) : UserPlace(r, i) = UserPlace(s, i)
  <2>1. <<e>> \in Seq(Event)
    OBVIOUS
  <2> QED
    BY <2>1, UserPlacePrefix
<1>4. Len(u) = UserPlace(s, Len(s))
  BY DEF UserEvents
<1> HIDE DEF r, v
<1>5. UserPlace(r, Len(r)) = Len(u) + 1
  <2>1. UserPlace(r, Len(s)) = Len(u)
    BY <1>1, <1>3, <1>4
  <2>2. UserPlace(r, Len(s) + 1) = UserPlace(r, Len(s)) + 1
    BY <1>1, UserPlaceStep
  <2> QED
    BY <1>1, <2>1, <2>2
<1>6. ASSUME NEW i \in 1..Len(r), r[i].kind = "user" PROVE v[UserPlace(r, i)] = r[i]
  <2>1. CASE i = Len(s) + 1
    BY <1>1, <1>2, <1>5, <2>1
  <2>2. CASE i \in 1..Len(s)
    <3>1. r[i] = s[i] /\ UserPlace(r, i) = UserPlace(s, i) /\ u[UserPlace(s, i)] = s[i]
      BY <1>1, <1>3, <1>6, <2>2 DEF UserEvents
    <3>2. UserPlace(s, i) \in 1..Len(u)
      <4>1. i \in Nat /\ i # 0 /\ i - 1 \in Nat
        BY <2>2
      <4>2. UserPlace(s, i) = UserPlace(s, i - 1) + 1 /\ UserPlace(s, i - 1) \in Nat
        <5>1. /\ UserPlace(s, (i - 1) + 1) = UserPlace(s, i - 1) + (IF s[(i - 1) + 1].kind = "user" THEN 1 ELSE 0)
              /\ UserPlace(s, i - 1) \in Nat
          BY <4>1, UserPlaceStep
        <5>2. (i - 1) + 1 = i
          BY <4>1
        <5> QED
          BY <1>6, <3>1, <5>1, <5>2
      <4>3. UserPlace(s, i) <= UserPlace(s, Len(s))
        <5> DEFINE A == {j \in 1..i : s[j].kind = "user"}
                   B == {j \in 1..Len(s) : s[j].kind = "user"}
        <5>1. IsFiniteSet(1..Len(s))
          BY <1>1, FS_Interval
        <5>2. B \in SUBSET (1..Len(s)) /\ A \in SUBSET B
          BY <2>2
        <5>3. IsFiniteSet(B)
          BY <5>1, <5>2, FS_Subset
        <5>4. Cardinality(A) <= Cardinality(B)
          BY <5>2, <5>3, FS_Subset
        <5> QED
          BY <5>4 DEF UserPlace
      <4> QED
        BY <4>2, <4>3, <1>4, <1>2
    <3> QED
      BY <3>1, <3>2, <1>2
  <2> QED
    BY <1>1, <2>1, <2>2
<1>7. Len(v) = UserPlace(r, Len(r))
  BY <1>2, <1>5
<1> QED
  BY <1>6, <1>7 DEF UserEvents, r, v

-----------------------------------------------------------------------------
(* The types of the other variables.                                       *)

\* The types that the invariants above leave out.
RestTypes ==
    /\ alive \in BOOLEAN
    /\ st \in {"uninit", "init", "ready", "gone"}
    /\ evbuf \in [Thread -> Seq(Event)]
    /\ wrote \in [Thread -> Nat]
    /\ meta \in [Thread -> [fin : BOOLEAN, keys : SUBSET AllKeys]]
    /\ late \in [Thread -> SUBSET Late]
    /\ left \in [Thread -> SUBSET FileName]
    /\ moving \in [Thread -> FileName \union {"none"}]
    /\ moveErr \in [Thread -> BOOLEAN]
    /\ disk \in [Thread -> [Dir -> [FileName -> File]]]
    /\ \A t \in Thread : pc[t] \in {"copy", "remove"} => moving[t] \in FileName

\* One file of one thread is replaced: every other file stays.
LEMMA PutFile ==
  ASSUME NEW T, NEW D, NEW F, NEW X, NEW dk \in [T -> [D -> [F -> X]]],
         NEW t \in T, NEW d \in D, NEW f \in F, NEW x \in X
  PROVE  [dk EXCEPT ![t][d][f] = x] \in [T -> [D -> [F -> X]]]
  OBVIOUS

\* The files that the steps write are files.
LEMMA FileTypes ==
  /\ NoFile \in File /\ Truncated \in File /\ [NoFile EXCEPT !.is = "whole"] \in File
  /\ \A g \in File, how \in {"whole", "short"} : Copied(g, how) \in File
  /\ \A g \in File, s \in Seq(Event) : [g EXCEPT !.ev = s] \in File
<1>1. NoFile \in File
  <2>1. <<>> \in Seq(Event)
    OBVIOUS
  <2> QED
    BY <2>1 DEF NoFile, File
<1>2. \A g \in File : [g EXCEPT !.is = "part"] \in File /\ [g EXCEPT !.is = "whole"] \in File
  BY DEF File
<1>3. Truncated \in File /\ [NoFile EXCEPT !.is = "whole"] \in File
  BY <1>1, <1>2 DEF Truncated
<1>4. \A g \in File, how \in {"whole", "short"} : Copied(g, how) \in File
  BY <1>2 DEF Copied
<1>5. \A g \in File, s \in Seq(Event) : [g EXCEPT !.ev = s] \in File
  BY DEF File
<1> QED
  BY <1>1, <1>3, <1>4, <1>5

\* What thread_metadata_store() writes is a file.
LEMMA MetaFileType ==
  ASSUME RestTypes, NEW t \in Thread
  PROVE  MetaFile(t) \in File
<1>1. meta[t] \in [fin : BOOLEAN, keys : SUBSET AllKeys]
  BY DEF RestTypes
<1>2. <<>> \in Seq(Event)
  OBVIOUS
<1> QED
  BY <1>1, <1>2 DEF MetaFile, File

\* The actions that a variable of a thread may change in.
LEMMA BufferSteps ==
  ASSUME NEW t \in Thread, Step(t) \/ Call(t)
  PROVE  UNCHANGED <<evbuf, wrote>> \/ AddFits(t) \/ WriteSome(t) \/ EndFlush(t) \/ FreeStored(t)
<1>1. CASE Step(t)
  BY <1>1 DEF Step, bufVars, CreateProcDir, CleanProcDir, MakeParent, MakeThreadDir, OpenStream,
              ThreadReady, AddFlush, AttrStored, MoveOpen, OpenFails, MoveCopy, MoveRemove,
              RemoveFails, ThreadDone
<1>2. CASE Call(t)
  BY <1>2 DEF Call, bufVars, ProcInit, ProcFini, ThreadInit, ThreadFree, EvEmit, JumboEmit, Emit,
              Flush, AttrFlush, AttrSet, SetLate
<1> QED
  BY <1>1, <1>2

\* The steps that change the metadata in memory.
LEMMA MetaSteps ==
  ASSUME NEW t \in Thread, Step(t) \/ Call(t)
  PROVE  UNCHANGED meta \/ ThreadReady(t) \/ ThreadFree(t) \/ \E k \in Key : AttrSet(t, k)
<1>1. CASE Step(t)
  BY <1>1 DEF Step, metaVars, CreateProcDir, CleanProcDir, MakeParent, MakeThreadDir, OpenStream,
              AddFits, AddFlush, WriteSome, WriteEvbuf, EndFlush, AttrStored, FreeStored,
              MoveOpen, OpenFails, MoveCopy, MoveRemove, RemoveFails, ThreadDone
<1>2. CASE Call(t)
  BY <1>2 DEF Call, metaVars, ProcInit, ProcFini, ThreadInit, EvEmit, JumboEmit, Emit,
              Flush, AttrFlush, SetLate
<1> QED
  BY <1>1, <1>2

\* Only the calls that set it change what is set late.
LEMMA LateSteps ==
  ASSUME NEW t \in Thread, Step(t) \/ Call(t)
  PROVE  UNCHANGED late \/ \E k \in Late : SetLate(t, k)
<1>1. CASE Step(t)
  BY <1>1 DEF Step, metaVars, CreateProcDir, CleanProcDir, MakeParent, MakeThreadDir, OpenStream,
              ThreadReady, AddFits, AddFlush, WriteSome, WriteEvbuf, EndFlush, AttrStored, FreeStored,
              MoveOpen, OpenFails, MoveCopy, MoveRemove, RemoveFails, ThreadDone
<1>2. CASE Call(t)
  BY <1>2 DEF Call, metaVars, ProcInit, ProcFini, ThreadInit, ThreadFree, EvEmit, JumboEmit, Emit,
              Flush, AttrFlush, AttrSet
<1> QED
  BY <1>1, <1>2

\* The steps that move the files.
LEMMA MoveSteps ==
  ASSUME NEW t \in Thread, Step(t) \/ Call(t)
  PROVE  \/ UNCHANGED <<left, moving, moveErr>>
         \/ FreeStored(t) \/ MoveRemove(t) \/ RemoveFails(t)
         \/ \E f \in FileName : MoveOpen(t, f) \/ OpenFails(t, f)
<1>1. CASE Step(t)
  BY <1>1 DEF Step, moveVars, CreateProcDir, CleanProcDir, MakeParent, MakeThreadDir, OpenStream,
              ThreadReady, AddFits, AddFlush, WriteSome, WriteEvbuf, EndFlush, AttrStored, MoveCopy,
              ThreadDone
<1>2. CASE Call(t)
  BY <1>2 DEF Call, moveVars, ProcInit, ProcFini, ThreadInit, ThreadFree, EvEmit, JumboEmit, Emit,
              Flush, AttrFlush, AttrSet, SetLate
<1> QED
  BY <1>1, <1>2

\* The steps that write to disk.
LEMMA DiskSteps ==
  ASSUME NEW t \in Thread, Step(t) \/ Call(t)
  PROVE  \/ UNCHANGED disk
         \/ OpenStream(t) \/ ThreadReady(t) \/ AttrStored(t) \/ FreeStored(t)
         \/ ThreadFree(t) \/ AttrFlush(t) \/ WriteSome(t)
         \/ MoveCopy(t) \/ MoveRemove(t) \/ \E f \in FileName : MoveOpen(t, f)
<1>1. CASE Step(t)
  BY <1>1 DEF Step, CreateProcDir, CleanProcDir, MakeParent, MakeThreadDir, AddFits, AddFlush,
              EndFlush, OpenFails, RemoveFails, ThreadDone
<1>2. CASE Call(t)
  BY <1>2 DEF Call, ProcInit, ProcFini, ThreadInit, EvEmit, JumboEmit, Emit, Flush, AttrSet, SetLate
<1> QED
  BY <1>1, <1>2

\* The steps that change the state of the process.
LEMMA ProcessSteps ==
  ASSUME NEW t \in Thread, Step(t) \/ Call(t)
  PROVE  /\ alive' = alive
         /\ UNCHANGED st \/ ProcInit(t) \/ CreateProcDir(t) \/ ProcFini(t)
<1>1. CASE Step(t)
  BY <1>1 DEF Step, CreateProcDir, CleanProcDir, MakeParent, MakeThreadDir, OpenStream,
              ThreadReady, AddFits, AddFlush, WriteSome, WriteEvbuf, EndFlush, AttrStored, FreeStored,
              MoveOpen, OpenFails, MoveCopy, MoveRemove, RemoveFails, ThreadDone
<1>2. CASE Call(t)
  BY <1>2 DEF Call, ProcInit, ProcFini, ThreadInit, ThreadFree, EvEmit, JumboEmit, Emit,
              Flush, AttrFlush, AttrSet, SetLate
<1> QED
  BY <1>1, <1>2

\* The types of each group of variables, after the steps that change it.
LEMMA BufferTypes ==
  ASSUME RestTypes, BufInv, NEW t \in Thread, Step(t) \/ Call(t)
  PROVE  evbuf' \in [Thread -> Seq(Event)] /\ wrote' \in [Thread -> Nat]
<1>1. /\ evbuf \in [Thread -> Seq(Event)] /\ wrote \in [Thread -> Nat]
      /\ todo[t] \in Seq(Event) /\ held[t].ev \in Seq(Event)
  BY DEF RestTypes, BufInv, BufTypes
<1>2. CASE AddFits(t)
  <2>1. Head(todo[t]) \in Event
    BY <1>1, <1>2 DEF BufInv, AddFits, At
  <2> QED
    BY <1>1, <1>2, <2>1, AppendProperties DEF AddFits
<1>3. CASE WriteSome(t)
  BY <1>1, <1>3 DEF WriteSome, WriteEvbuf
<1>4. CASE EndFlush(t)
  BY <1>1, <1>4 DEF EndFlush
<1>5. CASE FreeStored(t)
  BY <1>1, <1>5 DEF FreeStored
<1> QED
  BY <1>1, <1>2, <1>3, <1>4, <1>5, BufferSteps

\* The metadata in memory keeps its type.
LEMMA MetaTypes ==
  ASSUME RestTypes, NEW t \in Thread, Step(t) \/ Call(t)
  PROVE  /\ meta' \in [Thread -> [fin : BOOLEAN, keys : SUBSET AllKeys]]
         /\ late' \in [Thread -> SUBSET Late]
<1> DEFINE M == [fin : BOOLEAN, keys : SUBSET AllKeys]
<1>1. meta \in [Thread -> M] /\ late \in [Thread -> SUBSET Late]
  BY DEF RestTypes
<1>2. ASSUME NEW k \in AllKeys, meta' = [meta EXCEPT ![t].keys = @ \union {k}]
      PROVE  meta' \in [Thread -> M]
  <2>1. meta[t] \in M
    BY <1>1
  <2>2. [meta[t] EXCEPT !.keys = @ \union {k}] \in M
    BY <2>1
  <2> HIDE DEF M
  <2> QED
    BY <1>1, <1>2, <2>2
<1>3. ASSUME ThreadReady(t) PROVE meta' \in [Thread -> M]
  BY <1>2, <1>3 DEF ThreadReady, AllKeys
<1>4. ASSUME ThreadFree(t) PROVE meta' \in [Thread -> M]
  <2>1. meta[t] \in M /\ late[t] \subseteq AllKeys
    BY <1>1 DEF AllKeys
  <2>2. [fin |-> TRUE, keys |-> meta[t].keys \union late[t]] \in M
    BY <2>1
  <2> HIDE DEF M
  <2> QED
    BY <1>1, <1>4, <2>2 DEF ThreadFree
<1>5. ASSUME NEW k \in Key, AttrSet(t, k) PROVE meta' \in [Thread -> M]
  BY <1>2, <1>5 DEF AttrSet, AllKeys
<1>6. meta' \in [Thread -> M]
  BY <1>1, <1>3, <1>4, <1>5, MetaSteps
<1>7. late' \in [Thread -> SUBSET Late]
  <2>1. CASE \E k \in Late : SetLate(t, k)
    BY <1>1, <2>1 DEF SetLate
  <2> QED
    BY <1>1, <2>1, LateSteps
<1> QED
  BY <1>6, <1>7

\* The state of move_thread_to_final() keeps its type.
LEMMA MoveTypes ==
  ASSUME RestTypes, NEW t \in Thread, Step(t) \/ Call(t)
  PROVE  /\ left' \in [Thread -> SUBSET FileName]
         /\ moving' \in [Thread -> FileName \union {"none"}]
         /\ moveErr' \in [Thread -> BOOLEAN]
<1>1. /\ left \in [Thread -> SUBSET FileName]
      /\ moving \in [Thread -> FileName \union {"none"}]
      /\ moveErr \in [Thread -> BOOLEAN]
  BY DEF RestTypes
<1>2. CASE FreeStored(t)
  <2>1. left' = left \/ left' = [left EXCEPT ![t] = FileName]
    BY <1>2 DEF FreeStored
  <2> QED
    BY <1>1, <1>2, <2>1 DEF FreeStored
<1>3. CASE MoveRemove(t) \/ RemoveFails(t)
  BY <1>1, <1>3 DEF MoveRemove, RemoveFails
<1>4. ASSUME NEW f \in FileName, MoveOpen(t, f)
      PROVE  /\ left' \in [Thread -> SUBSET FileName]
             /\ moving' \in [Thread -> FileName \union {"none"}]
             /\ moveErr' \in [Thread -> BOOLEAN]
  BY <1>1, <1>4 DEF MoveOpen
<1>5. ASSUME NEW f \in FileName, OpenFails(t, f)
      PROVE  /\ left' \in [Thread -> SUBSET FileName]
             /\ moving' \in [Thread -> FileName \union {"none"}]
             /\ moveErr' \in [Thread -> BOOLEAN]
  BY <1>1, <1>5 DEF OpenFails
<1> QED
  BY <1>1, <1>2, <1>3, <1>4, <1>5, MoveSteps

\* A file that is being moved is one of the files.
LEMMA CopySteps ==
  ASSUME BufInv, NEW t \in Thread, Step(t) \/ Call(t), pc'[t] \in {"copy", "remove"}
  PROVE  MoveCopy(t) \/ \E f \in FileName : MoveOpen(t, f)
<1>1. pc \in [Thread -> Pc]
  BY DEF BufInv, BufTypes
<1>2. CASE Step(t)
  BY <1>1, <1>2 DEF Step, At, Goto, Finish, BeginFlush, CreateProcDir, CleanProcDir, MakeParent,
              MakeThreadDir, OpenStream, ThreadReady, AddFits, AddFlush, WriteSome, WriteEvbuf,
              EndFlush, AttrStored, FreeStored, OpenFails, MoveRemove, RemoveFails, ThreadDone
<1>3. CASE Call(t)
  BY <1>1, <1>3 DEF Call, At, Goto, Truncate, BeginFlush, ProcInit, ProcFini, ThreadInit, ThreadFree,
              EvEmit, JumboEmit, Emit, Flush, AttrFlush, AttrSet, SetLate
<1> QED
  BY <1>2, <1>3

\* The thread that takes a step is the only one that moves.
LEMMA PcSteps ==
  ASSUME BufInv, NEW t \in Thread, Step(t) \/ Call(t), NEW u \in Thread, u # t
  PROVE  pc'[u] = pc[u]
<1>1. pc \in [Thread -> Pc]
  BY DEF BufInv, BufTypes
<1>2. CASE Step(t)
  BY <1>1, <1>2 DEF Step, At, Goto, Finish, BeginFlush, CreateProcDir, CleanProcDir, MakeParent,
              MakeThreadDir, OpenStream, ThreadReady, AddFits, AddFlush, WriteSome, WriteEvbuf,
              EndFlush, AttrStored, FreeStored, OpenFails, MoveRemove, RemoveFails, ThreadDone,
              MoveOpen, MoveCopy
<1>3. CASE Call(t)
  BY <1>1, <1>3 DEF Call, At, Goto, Truncate, BeginFlush, ProcInit, ProcFini, ThreadInit, ThreadFree,
              EvEmit, JumboEmit, Emit, Flush, AttrFlush, AttrSet, SetLate
<1> QED
  BY <1>2, <1>3

\* The files of another thread are not moved.
LEMMA MovingOthers ==
  ASSUME RestTypes, NEW t \in Thread, Step(t) \/ Call(t), NEW u \in Thread, u # t
  PROVE  left'[u] = left[u] /\ moving'[u] = moving[u] /\ moveErr'[u] = moveErr[u]
<1>1. /\ left \in [Thread -> SUBSET FileName]
      /\ moving \in [Thread -> FileName \union {"none"}]
      /\ moveErr \in [Thread -> BOOLEAN]
  BY DEF RestTypes
<1> QED
  BY <1>1, MoveSteps DEF FreeStored, MoveRemove, RemoveFails, MoveOpen, OpenFails

\* A thread that copies or removes has a file to do it to.
LEMMA MovingTypes ==
  ASSUME RestTypes, BufInv, NEW t \in Thread, Step(t) \/ Call(t),
         NEW u \in Thread, pc'[u] \in {"copy", "remove"}
  PROVE  moving'[u] \in FileName
<1>1. CASE u # t
  BY <1>1, PcSteps, MovingOthers DEF RestTypes
<1>2. CASE u = t
  <2>1. CASE MoveCopy(t)
    BY <1>2, <2>1 DEF MoveCopy, At, moveVars, RestTypes
  <2>2. ASSUME NEW f \in FileName, MoveOpen(t, f) PROVE moving'[t] \in FileName
    BY <2>2 DEF MoveOpen, RestTypes
  <2> QED
    BY <1>2, <2>1, <2>2, CopySteps
<1> QED
  BY <1>1, <1>2

-----------------------------------------------------------------------------
(* The files on disk.                                                      *)

Disks == [Thread -> [Dir -> [FileName -> File]]]

\* The names of the files and of the directories differ.
LEMMA Names ==
  /\ "work" \in Dir /\ "final" \in Dir /\ Dir = {"work", "final"}
  /\ "obs" \in FileName /\ "json" \in FileName /\ FileName = {"obs", "json"}
  BY DEF Dir, FileName

\* Of all the files, x is now the file f of the thread t in d.
Put(t, d, f, x) ==
    /\ disk' \in Disks
    /\ disk'[t][d][f] = x
    /\ \A u \in Thread, e \in Dir, g \in FileName :
          u # t \/ e # d \/ g # f => disk'[u][e][g] = disk[u][e][g]

\* One file of one thread changes, and no other.
LEMMA PutRead ==
  ASSUME NEW T, NEW D, NEW F, NEW X, NEW dk \in [T -> [D -> [F -> X]]], NEW dn,
         NEW t \in T, NEW d \in D, NEW f \in F, NEW x \in X,
         dn = [dk EXCEPT ![t][d][f] = x]
  PROVE  /\ dn \in [T -> [D -> [F -> X]]]
         /\ dn[t][d][f] = x
         /\ \A u \in T, e \in D, g \in F : u # t \/ e # d \/ g # f => dn[u][e][g] = dk[u][e][g]
  BY PutFile

\* A write to one file leaves the others.
LEMMA PutOne ==
  ASSUME RestTypes, NEW t \in Thread, NEW d \in Dir, NEW f \in FileName, NEW x \in File,
         disk' = [disk EXCEPT ![t][d][f] = x]
  PROVE  Put(t, d, f, x)
<1>1. disk \in [Thread -> [Dir -> [FileName -> File]]]
  BY DEF RestTypes
<1> QED
  BY <1>1, PutRead DEF Put, Disks

\* The files that each action writes.
LEMMA PutMeta ==
  ASSUME RestTypes, NEW t \in Thread, ThreadReady(t) \/ AttrStored(t) \/ FreeStored(t)
  PROVE  Put(t, "work", "json", MetaFile(t))
<1>1. disk' = [disk EXCEPT ![t]["work"]["json"] = MetaFile(t)]
  BY DEF ThreadReady, AttrStored, FreeStored, StoreMetadata
<1> QED
  BY <1>1, Names, MetaFileType, PutOne

\* fopen() for writing leaves an empty file.
LEMMA PutTruncated ==
  ASSUME RestTypes, NEW t \in Thread, ThreadFree(t) \/ AttrFlush(t)
  PROVE  Put(t, "work", "json", Truncated)
<1>1. disk' = [disk EXCEPT ![t]["work"]["json"] = Truncated]
  BY DEF ThreadFree, AttrFlush, Truncate
<1> QED
  BY <1>1, Names, FileTypes, PutOne

\* write() appends to the stream.
LEMMA PutEvents ==
  ASSUME RestTypes, NEW t \in Thread, NEW n \in 1..(Len(evbuf[t]) - wrote[t]), WriteEvbuf(t, n)
  PROVE  Put(t, "work", "obs",
             [disk[t]["work"]["obs"] EXCEPT !.ev = @ \o SubSeq(evbuf[t], wrote[t] + 1, wrote[t] + n)])
<1>1. disk \in [Thread -> [Dir -> [FileName -> File]]]
  BY DEF RestTypes
<1> DEFINE more == SubSeq(evbuf[t], wrote[t] + 1, wrote[t] + n)
           file == disk[t]["work"]["obs"]
           new == [file EXCEPT !.ev = @ \o more]
<1>2. evbuf[t] \in Seq(Event) /\ wrote[t] \in Nat /\ file \in File
  BY <1>1, Names DEF RestTypes
<1>3. more \in Seq(Event)
  BY <1>2, SubSeqProperties, LenProperties
<1>4. file.ev \o more \in Seq(Event)
  BY <1>2, <1>3, ConcatProperties DEF File
<1>5. new \in File
  BY <1>2, <1>4, FileTypes
<1>6. disk' = [disk EXCEPT ![t]["work"]["obs"] = new]
  BY <1>1, Names DEF WriteEvbuf
<1> HIDE DEF new
<1>7. Put(t, "work", "obs", new)
  BY <1>5, <1>6, Names, PutOne
<1> QED
  BY <1>7 DEF new

\* fopen() of the new file.
LEMMA PutOpened ==
  ASSUME RestTypes, NEW t \in Thread, NEW f \in FileName, MoveOpen(t, f)
  PROVE  Put(t, "final", f, Truncated)
<1>1. disk' = [disk EXCEPT ![t]["final"][f] = Truncated]
  BY DEF MoveOpen
<1> QED
  BY <1>1, Names, FileTypes, PutOne

\* What is copied goes to the final directory.
LEMMA PutCopied ==
  ASSUME RestTypes, NEW t \in Thread, MoveCopy(t)
  PROVE  /\ moving[t] \in FileName
         /\ \E how \in CopyOutcomes :
               Put(t, "final", moving[t], Copied(disk[t]["work"][moving[t]], how))
<1>1. PICK how \in CopyOutcomes :
         disk' = [disk EXCEPT ![t]["final"][moving[t]] = Copied(disk[t]["work"][moving[t]], how)]
  BY DEF MoveCopy
<1>2. moving[t] \in FileName
  BY DEF MoveCopy, At, RestTypes
<1>3. disk[t]["work"][moving[t]] \in File
  BY <1>2, Names DEF RestTypes
<1>4. Copied(disk[t]["work"][moving[t]], how) \in File
  BY <1>3, FileTypes, RtAssumption
<1> QED
  BY <1>1, <1>2, <1>4, Names, PutOne

\* remove() of the old file.
LEMMA PutRemoved ==
  ASSUME RestTypes, NEW t \in Thread, MoveRemove(t)
  PROVE  moving[t] \in FileName /\ Put(t, "work", moving[t], NoFile)
<1>1. disk' = [disk EXCEPT ![t]["work"][moving[t]] = NoFile]
  BY DEF MoveRemove
<1>2. moving[t] \in FileName
  BY DEF MoveRemove, At, RestTypes
<1> QED
  BY <1>1, <1>2, Names, FileTypes, PutOne

\* ovni_thread_init() starts the stream and the metadata.
LEMMA PutStream ==
  ASSUME RestTypes, NEW t \in Thread, OpenStream(t)
  PROVE  /\ disk' \in Disks
         /\ disk'[t]["work"]["obs"] = [NoFile EXCEPT !.is = "whole"]
         /\ disk'[t]["work"]["json"] = Truncated
         /\ \A u \in Thread, e \in Dir, g \in FileName :
               u # t \/ e # "work" => disk'[u][e][g] = disk[u][e][g]
<1> DEFINE a == [NoFile EXCEPT !.is = "whole"]
           new == [obs |-> a, json |-> Truncated]
<1>1. disk' = [disk EXCEPT ![t]["work"] = new]
  BY DEF OpenStream
<1>2. a \in File /\ Truncated \in File
  BY FileTypes
<1> HIDE DEF a
<1>3. new \in [FileName -> File] /\ new["obs"] = a /\ new["json"] = Truncated
  BY <1>2, Names
<1> HIDE DEF new
<1>4. disk \in [Thread -> [Dir -> [FileName -> File]]]
  BY DEF RestTypes
<1>5. disk' \in Disks
  BY <1>1, <1>3, <1>4 DEF Disks
<1>6. disk'[t]["work"] = new
  BY <1>1, <1>4, Names
<1>7. \A u \in Thread, e \in Dir : u # t \/ e # "work" => disk'[u][e] = disk[u][e]
  BY <1>1, <1>4
<1> QED
  BY <1>3, <1>5, <1>6, <1>7 DEF a

\* The files keep their type.
LEMMA DiskTypes ==
  ASSUME RestTypes, NEW t \in Thread, Step(t) \/ Call(t)
  PROVE  disk' \in Disks
<1>1. disk \in Disks
  BY DEF RestTypes, Disks
<1>2. CASE WriteSome(t)
  BY <1>2, PutEvents DEF WriteSome, Put
<1>3. CASE MoveCopy(t)
  BY <1>3, PutCopied DEF Put
<1>4. CASE MoveRemove(t)
  BY <1>4, PutRemoved DEF Put
<1>5. CASE OpenStream(t)
  BY <1>5, PutStream
<1>6. CASE ThreadReady(t) \/ AttrStored(t) \/ FreeStored(t)
  BY <1>6, PutMeta DEF Put
<1>7. CASE ThreadFree(t) \/ AttrFlush(t)
  BY <1>7, PutTruncated DEF Put
<1>8. CASE \E f \in FileName : MoveOpen(t, f)
  BY <1>8, PutOpened DEF Put
<1> QED
  BY <1>1, <1>2, <1>3, <1>4, <1>5, <1>6, <1>7, <1>8, DiskSteps

\* No thread touches the files of another one.
LEMMA DiskOthers ==
  ASSUME RestTypes, NEW t \in Thread, Step(t) \/ Call(t), NEW u \in Thread, u # t,
         NEW e \in Dir, NEW g \in FileName
  PROVE  disk'[u][e][g] = disk[u][e][g]
<1>1. CASE UNCHANGED disk
  BY <1>1
<1>2. CASE WriteSome(t)
  <2>1. PICK n \in 1..(Len(evbuf[t]) - wrote[t]) : WriteEvbuf(t, n)
    BY <1>2 DEF WriteSome
  <2> DEFINE x == [disk[t]["work"]["obs"] EXCEPT !.ev = @ \o SubSeq(evbuf[t], wrote[t] + 1, wrote[t] + n)]
  <2>2. Put(t, "work", "obs", x)
    BY <2>1, PutEvents
  <2> HIDE DEF x
  <2> QED
    BY <2>2 DEF Put
<1>3. CASE MoveCopy(t)
  BY <1>3, PutCopied DEF Put
<1>4. CASE MoveRemove(t)
  BY <1>4, PutRemoved DEF Put
<1>5. CASE OpenStream(t)
  BY <1>5, PutStream
<1>6. CASE ThreadReady(t) \/ AttrStored(t) \/ FreeStored(t)
  BY <1>6, PutMeta DEF Put
<1>7. CASE ThreadFree(t) \/ AttrFlush(t)
  BY <1>7, PutTruncated DEF Put
<1>8. CASE \E f \in FileName : MoveOpen(t, f)
  BY <1>8, PutOpened DEF Put
<1> QED
  BY <1>1, <1>2, <1>3, <1>4, <1>5, <1>6, <1>7, <1>8, DiskSteps

\* Every step keeps the types.
LEMMA RestNext == RestTypes /\ BufInv /\ [Next]_vars => RestTypes'
<1> SUFFICES ASSUME RestTypes, BufInv, [Next]_vars PROVE RestTypes'
  OBVIOUS
<1>1. CASE UNCHANGED vars
  BY <1>1 DEF RestTypes, vars, bufVars, metaVars, moveVars
<1>2. CASE Crash
  BY <1>2 DEF RestTypes, Crash, bufVars, metaVars, moveVars
<1>3. ASSUME NEW t \in Thread, Step(t) \/ Call(t) PROVE RestTypes'
  <2>1. alive' \in BOOLEAN
    BY <1>3, ProcessSteps DEF RestTypes
  <2>2. st' \in {"uninit", "init", "ready", "gone"}
    BY <1>3, ProcessSteps DEF RestTypes, ProcInit, CreateProcDir, ProcFini
  <2>3. \A u \in Thread : pc'[u] \in {"copy", "remove"} => moving'[u] \in FileName
    BY <1>3, MovingTypes
  <2> QED
    BY <1>3, <2>1, <2>2, <2>3, BufferTypes, MetaTypes, MoveTypes, DiskTypes DEF RestTypes, Disks
<1> QED
  BY <1>1, <1>2, <1>3 DEF Next

\* The types hold at the start.
LEMMA RestInit == Init => RestTypes
<1> SUFFICES ASSUME Init PROVE RestTypes
  OBVIOUS
<1>1. <<>> \in Seq(Event) /\ NoFile \in File
  BY FileTypes
<1>2. disk \in [Thread -> [Dir -> [FileName -> File]]]
  BY <1>1 DEF Init
<1>3. \A t \in Thread : pc[t] = "idle"
  BY DEF Init
<1>4. /\ evbuf \in [Thread -> Seq(Event)]
      /\ wrote \in [Thread -> Nat]
  BY <1>1 DEF Init
<1>5. meta \in [Thread -> [fin : BOOLEAN, keys : SUBSET AllKeys]]
  BY DEF Init
<1>6. late \in [Thread -> SUBSET Late] /\ left \in [Thread -> SUBSET FileName]
  BY DEF Init
<1>7. moving \in [Thread -> FileName \union {"none"}] /\ moveErr \in [Thread -> BOOLEAN]
  BY DEF Init
<1> QED
  BY <1>2, <1>3, <1>4, <1>5, <1>6, <1>7 DEF Init, RestTypes

\* Every thread keeps its types, whatever the sizes, the number of threads and
\* the length of the streams (Rt!TypeOK).
THEOREM TypesKept == Spec => []TypeOK
<1>1. RestTypes /\ BufInv /\ ProcInv => TypeOK
  BY DEF RestTypes, BufInv, BufTypes, ProcInv, TypeOK
<1> QED
  BY <1>1, RestInit, RestNext, BufInit, BufNext, ProcInit0, ProcNext, PTL DEF Spec

-----------------------------------------------------------------------------
(* What is known of each thread.                                           *)

\* A thread before its stream is complete, and one whose stream takes events.
MovePc == {"move", "copy", "remove"}
Fresh(t) == ~ready[t] /\ ~finished[t]
Live(t) == ready[t] /\ pc[t] \notin MovePc

Phase(t) ==
    /\ ready[t] => ~finished[t]
    /\ pc[t] \in InitPc => Fresh(t)
    /\ pc[t] \in ReadyPc => ready[t]

\* Where the events of a thread are, in each step of a flush.
Stage(t) ==
    /\ pc[t] # "write" => wrote[t] = 0 /\ held[t].ev = <<>>
    /\ pc[t] = "write" => NoUser(todo[t])
    /\ pc[t] = "add" => NoUser(Tail(todo[t]))
    /\ pc[t] \notin {"add", "write"} => todo[t] = <<>>
    /\ wrote[t] <= Len(evbuf[t])
    /\ ~Live(t) => evbuf[t] = <<>>
    /\ Fresh(t) => emitted[t] = <<>>

\* After ovni_flush() no event of the program is left in memory.
Drained(t) ==
    Live(t) /\ synced[t] =>
        /\ pc[t] # "write" => NoUser(evbuf[t]) /\ NoUser(todo[t])
        /\ NoUser(held[t].ev)

Lossless(t) == Live(t) => UserEvents(Stream(t), emitted[t])

\* What a file that is complete holds.
Good(t, f, x) ==
    /\ x.is = "whole"
    /\ f = "json" => x = MetaFile(t)
    /\ f = "obs" /\ synced[t] => UserEvents(x.ev, emitted[t])

Files(t) ==
    /\ Fresh(t) /\ pc[t] # "store_init" =>
          \A d \in Dir, f \in FileName : disk[t][d][f] = NoFile
    /\ pc[t] = "store_init" =>
          /\ disk[t]["work"]["obs"] = [NoFile EXCEPT !.is = "whole"]
          /\ disk[t]["work"]["json"] = Truncated
    /\ Live(t) => disk[t]["work"]["obs"].is = "whole"
    /\ Fresh(t) \/ Live(t) => \A f \in FileName : disk[t]["final"][f] = NoFile
    /\ pc[t] \in {"store_attr", "store_free"} => disk[t]["work"]["json"] = Truncated

\* Where the complete file is while the files are moved, and after it.
Moved(t) ==
    /\ pc[t] \in MovePc =>
          /\ MoveToFinal
          /\ \A f \in FileName :
                /\ f \in left[t] \/ (pc[t] # "move" /\ moving[t] = f) => Good(t, f, disk[t]["work"][f])
                /\ f \in left[t] \/ (pc[t] = "copy" /\ moving[t] = f) => disk[t]["final"][f].is # "whole"
                /\ pc[t] = "remove" /\ moving[t] = f => disk[t]["final"][f] = disk[t]["work"][f]
                /\ f \notin left[t] /\ (pc[t] = "move" \/ moving[t] # f) =>
                      moveErr[t] \/ Good(t, f, disk[t]["final"][f])
                /\ pc[t] # "move" /\ moving[t] = f => f \notin left[t]
    /\ finished[t] => \A f \in FileName : moveErr[t] \/ Good(t, f, disk[t][FinalDir][f])

HistTypes == emitted \in [Thread -> Seq(Event)] /\ synced \in [Thread -> BOOLEAN]

Types == RestTypes /\ BufInv /\ ProcInv /\ HistTypes

ThreadInv(t) == Phase(t) /\ Stage(t) /\ Drained(t) /\ Lossless(t) /\ Files(t)

\* Only the calls of the program add to the history.
LEMMA HistSteps ==
  ASSUME NEW t \in Thread, Step(t) \/ Call(t)
  PROVE  UNCHANGED <<emitted, synced>> \/ EvEmit(t) \/ JumboEmit(t) \/ Flush(t)
<1>1. CASE Step(t)
  BY <1>1 DEF Step, history, CreateProcDir, CleanProcDir, MakeParent, MakeThreadDir, OpenStream,
              ThreadReady, AddFits, AddFlush, WriteSome, WriteEvbuf, EndFlush, AttrStored, FreeStored,
              MoveOpen, OpenFails, MoveCopy, MoveRemove, RemoveFails, ThreadDone
<1>2. CASE Call(t)
  BY <1>2 DEF Call, history, ProcInit, ProcFini, ThreadInit, ThreadFree, AttrFlush, AttrSet, SetLate
<1> QED
  BY <1>1, <1>2

\* The steps that change what waits for a flush.
LEMMA WaitSteps ==
  ASSUME NEW t \in Thread, Step(t) \/ Call(t)
  PROVE  \/ UNCHANGED <<held, todo>>
         \/ AddFits(t) \/ AddFlush(t) \/ EndFlush(t) \/ EvEmit(t) \/ JumboEmit(t) \/ Flush(t)
<1>1. CASE Step(t)
  BY <1>1 DEF Step, bufVars, CreateProcDir, CleanProcDir, MakeParent, MakeThreadDir, OpenStream,
              ThreadReady, WriteSome, WriteEvbuf, AttrStored, FreeStored,
              MoveOpen, OpenFails, MoveCopy, MoveRemove, RemoveFails, ThreadDone
<1>2. CASE Call(t)
  BY <1>2 DEF Call, bufVars, ProcInit, ProcFini, ThreadInit, ThreadFree, AttrFlush, AttrSet, SetLate
<1> QED
  BY <1>1, <1>2

\* The steps where a thread gets ready or ends.
LEMMA ReadyVarSteps ==
  ASSUME NEW t \in Thread, Step(t) \/ Call(t)
  PROVE  UNCHANGED <<ready, finished>> \/ ThreadReady(t) \/ FreeStored(t) \/ ThreadDone(t)
<1>1. CASE Step(t)
  BY <1>1 DEF Step, CreateProcDir, CleanProcDir, MakeParent, MakeThreadDir, OpenStream,
              AddFits, AddFlush, WriteSome, WriteEvbuf, EndFlush, AttrStored,
              MoveOpen, OpenFails, MoveCopy, MoveRemove, RemoveFails
<1>2. CASE Call(t)
  BY <1>2 DEF Call, ProcInit, ProcFini, ThreadInit, ThreadFree, AttrFlush, AttrSet, SetLate,
              EvEmit, JumboEmit, Emit, Flush
<1> QED
  BY <1>1, <1>2

\* A step of a thread changes nothing that belongs to another one.
LEMMA OthersKept ==
  ASSUME Types, NEW t \in Thread, Step(t) \/ Call(t), NEW u \in Thread, u # t
  PROVE  /\ pc'[u] = pc[u] /\ ready'[u] = ready[u] /\ finished'[u] = finished[u]
         /\ evbuf'[u] = evbuf[u] /\ wrote'[u] = wrote[u] /\ held'[u] = held[u] /\ todo'[u] = todo[u]
         /\ meta'[u] = meta[u] /\ left'[u] = left[u] /\ moving'[u] = moving[u] /\ moveErr'[u] = moveErr[u]
         /\ emitted'[u] = emitted[u] /\ synced'[u] = synced[u]
         /\ disk'[u] = disk[u]
<1>1. pc'[u] = pc[u]
  BY PcSteps DEF Types
<1>2. ready'[u] = ready[u] /\ finished'[u] = finished[u]
  BY ReadyVarSteps DEF Types, ProcInv, ThreadReady, FreeStored, ThreadDone, Finish
<1>3. evbuf'[u] = evbuf[u] /\ wrote'[u] = wrote[u]
  BY BufferSteps DEF Types, RestTypes, AddFits, WriteSome, WriteEvbuf, EndFlush, FreeStored
<1>4. held'[u] = held[u] /\ todo'[u] = todo[u]
  <2>1. held \in [Thread -> [ev : Seq(Event), t0 : 0..MaxClock]] /\ todo \in [Thread -> Seq(Event)]
    BY DEF Types, BufInv, BufTypes
  <2> QED
    BY <2>1, WaitSteps DEF AddFits, AddFlush, BeginFlush, EndFlush, EvEmit, JumboEmit, Emit, Flush
<1>5. meta'[u] = meta[u]
  BY MetaSteps DEF Types, RestTypes, ThreadReady, ThreadFree, AttrSet
<1>6. left'[u] = left[u] /\ moving'[u] = moving[u] /\ moveErr'[u] = moveErr[u]
  BY MovingOthers DEF Types
<1>7. emitted'[u] = emitted[u] /\ synced'[u] = synced[u]
  BY HistSteps DEF Types, HistTypes, EvEmit, JumboEmit, Emit, Flush
<1>8. disk'[u] = disk[u]
  <2>1. disk[u] \in [Dir -> [FileName -> File]] /\ disk'[u] \in [Dir -> [FileName -> File]]
    BY DiskTypes DEF Types, RestTypes, Disks
  <2>2. \A e \in Dir, g \in FileName : disk'[u][e][g] = disk[u][e][g]
    BY DiskOthers DEF Types
  <2> QED
    BY <2>1, <2>2
<1> QED
  BY <1>1, <1>2, <1>3, <1>4, <1>5, <1>6, <1>7, <1>8

\* What is known of a thread depends on its own state only.
LEMMA ThreadInvKept ==
  ASSUME NEW u \in Thread, ThreadInv(u),
         pc'[u] = pc[u], ready'[u] = ready[u], finished'[u] = finished[u],
         evbuf'[u] = evbuf[u], wrote'[u] = wrote[u], held'[u] = held[u], todo'[u] = todo[u],
         meta'[u] = meta[u], left'[u] = left[u], moving'[u] = moving[u], moveErr'[u] = moveErr[u],
         emitted'[u] = emitted[u], synced'[u] = synced[u], disk'[u] = disk[u]
  PROVE  ThreadInv(u)' /\ (Moved(u) => Moved(u)')
<1>1. Fresh(u)' = Fresh(u) /\ Live(u)' = Live(u)
  BY DEF Fresh, Live
<1>2. Stream(u)' = Stream(u)
  BY DEF Stream, Written
<1>3. MetaFile(u)' = MetaFile(u)
  BY DEF MetaFile
<1>4. Phase(u)'
  BY <1>1 DEF ThreadInv, Phase
<1>5. Stage(u)'
  BY <1>1 DEF ThreadInv, Stage
<1>6. Drained(u)' /\ Lossless(u)'
  BY <1>1, <1>2 DEF ThreadInv, Drained, Lossless
<1>7. Files(u)'
  BY <1>1 DEF ThreadInv, Files
<1>8. Moved(u) => Moved(u)'
  BY <1>3 DEF Moved, Good
<1> QED
  BY <1>4, <1>5, <1>6, <1>7, <1>8 DEF ThreadInv

\* Where a thread is in the library agrees with its flags.
LEMMA PhaseNext ==
  ASSUME Types, NEW t \in Thread, Phase(t), Step(t) \/ Call(t)
  PROVE  Phase(t)'
<1>1. /\ pc \in [Thread -> Pc] /\ ready \in [Thread -> BOOLEAN] /\ finished \in [Thread -> BOOLEAN]
  BY DEF Types, ProcInv
<1>2. CASE Step(t)
  BY <1>1, <1>2 DEF Step, Phase, Fresh, InitPc, ReadyPc, At, Goto, Finish, BeginFlush, CreateProcDir,
              CleanProcDir, MakeParent, MakeThreadDir, OpenStream, ThreadReady, AddFits, AddFlush,
              WriteSome, WriteEvbuf, EndFlush, AttrStored, FreeStored, OpenFails, MoveRemove,
              RemoveFails, ThreadDone, MoveOpen, MoveCopy
<1>3. CASE Call(t)
  BY <1>1, <1>3 DEF Call, Phase, Fresh, InitPc, ReadyPc, At, Goto, Truncate, BeginFlush, ProcInit,
              ProcFini, ThreadInit, ThreadFree, EvEmit, JumboEmit, Emit, Flush, AttrFlush, AttrSet, SetLate
<1> QED
  BY <1>2, <1>3

-----------------------------------------------------------------------------
(* The parts of a stream.                                                  *)

\* The first event that waits goes to the end of the buffer.
LEMMA HeadMoves ==
  ASSUME NEW E, NEW a \in Seq(E), NEW q \in Seq(E), q # <<>>
  PROVE  Append(a, Head(q)) \o Tail(q) = a \o q
<1>1. Head(q) \in E /\ Tail(q) \in Seq(E) /\ Len(q) \in Nat \ {0} /\ Head(q) = q[1]
  BY HeadTailProperties, EmptySeq
<1>2. SubSeq(q, 1, Len(q)) = <<q[1]>> \o SubSeq(q, 1 + 1, Len(q))
  BY <1>1, SubSeqRecursiveFirst
<1>3. q = <<Head(q)>> \o Tail(q)
  BY <1>1, <1>2, SubSeqFull, TailIsSubSeq
<1>4. Append(a, Head(q)) = a \o <<Head(q)>> /\ <<Head(q)>> \in Seq(E)
  BY <1>1, AppendIsConcat
<1>5. (a \o <<Head(q)>>) \o Tail(q) = a \o (<<Head(q)>> \o Tail(q))
  BY <1>1, <1>4, ConcatAssociative
<1> QED
  BY <1>3, <1>4, <1>5

\* The events in the order of the stream, by where they are.
Ob(t) == disk[t]["work"]["obs"].ev

\* The parts of a stream are sequences of events.
LEMMA SeqTypes ==
  ASSUME Types, NEW t \in Thread
  PROVE  /\ Ob(t) \in Seq(Event) /\ evbuf[t] \in Seq(Event) /\ held[t].ev \in Seq(Event)
         /\ todo[t] \in Seq(Event) /\ emitted[t] \in Seq(Event) /\ wrote[t] \in Nat
         /\ held[t].t0 \in 0..MaxClock
         /\ pc[t] \in Pc /\ ready[t] \in BOOLEAN /\ finished[t] \in BOOLEAN /\ synced[t] \in BOOLEAN
<1>1. disk[t]["work"]["obs"] \in File
  BY Names DEF Types, RestTypes
<1>2. Ob(t) \in Seq(Event)
  BY <1>1 DEF Ob, File
<1> QED
  BY <1>2 DEF Types, RestTypes, BufInv, BufTypes, HistTypes, ProcInv

\* write() moves the first events of the buffer to the end of the file.
LEMMA WriteMoves ==
  ASSUME NEW E, NEW a \in Seq(E), NEW b \in Seq(E), NEW w \in Nat, NEW n \in Nat, w + n <= Len(b)
  PROVE  (a \o SubSeq(b, w + 1, w + n)) \o SubSeq(b, (w + n) + 1, Len(b)) = a \o SubSeq(b, w + 1, Len(b))
<1>1. /\ w + 1 \in 1..(Len(b) + 1) /\ w + n \in (w + 1) - 1..Len(b) /\ Len(b) \in (w + n)..Len(b)
      /\ Len(b) \in Nat
  BY LenProperties
<1>2. SubSeq(b, w + 1, w + n) \o SubSeq(b, (w + n) + 1, Len(b)) = SubSeq(b, w + 1, Len(b))
  BY <1>1, ConcatAdjacentSubSeq
<1>3. \A i \in 1..Len(b) : b[i] \in E
  BY ElementOfSeq
<1>4. SubSeq(b, w + 1, w + n) \in Seq(E)
  <2>1. \A i \in (w + 1)..(w + n) : b[i] \in E
    BY <1>1, <1>3
  <2> QED
    BY <2>1, SubSeqProperties
<1>5. SubSeq(b, (w + n) + 1, Len(b)) \in Seq(E)
  <2>1. \A i \in ((w + n) + 1)..Len(b) : b[i] \in E
    BY <1>1, <1>3
  <2> QED
    BY <1>1, <2>1, SubSeqProperties
<1> DEFINE p == SubSeq(b, w + 1, w + n)
           q == SubSeq(b, (w + n) + 1, Len(b))
<1>6. p \o q = SubSeq(b, w + 1, Len(b))
  BY <1>2
<1>7. p \in Seq(E) /\ q \in Seq(E)
  BY <1>4, <1>5
<1> HIDE DEF p, q
<1>8. (a \o p) \o q = a \o SubSeq(b, w + 1, Len(b))
  <2>1. (a \o p) \o q = a \o (p \o q)
    BY <1>7, ConcatAssociative
  <2> QED
    BY <1>6, <2>1, Zenon
<1> QED
  BY <1>8, Zenon DEF p, q

\* Outside write_evbuf() the stream is the file, the buffer and what waits.
LEMMA QuietThread ==
  ASSUME Types, NEW t \in Thread, Stage(t), pc[t] # "write"
  PROVE  Stream(t) = (Ob(t) \o evbuf[t]) \o todo[t]
<1>1. wrote[t] + 1 = 1 /\ held[t].ev = <<>>
  BY DEF Stage
<1>2. evbuf[t] \in Seq(Event) /\ Ob(t) \in Seq(Event)
  BY SeqTypes
<1>3. SubSeq(evbuf[t], 1, Len(evbuf[t])) = evbuf[t]
  BY <1>2, SubSeqFull
<1>4. Written(t) = Ob(t) \o evbuf[t]
  BY <1>1, <1>3 DEF Written, Ob
<1>5. (Ob(t) \o evbuf[t]) \o <<>> = Ob(t) \o evbuf[t]
  BY <1>2, ConcatProperties, ConcatEmptySeq
<1> QED
  BY <1>1, <1>4, <1>5 DEF Stream

\* When all of the buffer is written only the file counts.
LEMMA AllWritten ==
  ASSUME Types, NEW t \in Thread, wrote[t] = Len(evbuf[t])
  PROVE  Stream(t) = (Ob(t) \o held[t].ev) \o todo[t]
<1>1. SubSeq(evbuf[t], wrote[t] + 1, Len(evbuf[t])) = <<>>
  <2>1. Len(evbuf[t]) \in Nat
    BY SeqTypes, LenProperties
  <2> QED
    BY <2>1, SubSeqEmpty
<1>2. Ob(t) \o <<>> = Ob(t)
  BY SeqTypes, ConcatEmptySeq
<1> QED
  BY <1>1, <1>2 DEF Stream, Written, Ob

\* Events of flushes put together are events of flushes.
LEMMA NoUserParts ==
  ASSUME NEW s \in Seq(Event), NEW r \in Seq(Event), NoUser(s), NoUser(r)
  PROVE  NoUser(s \o r)
<1>1. Len(s) \in Nat /\ Len(r) \in Nat
  BY LenProperties
<1> SUFFICES ASSUME NEW i \in 1..(Len(s) + Len(r)) PROVE (s \o r)[i].kind # "user"
  BY ConcatProperties DEF NoUser
<1>2. CASE i <= Len(s)
  BY <1>1, <1>2, ConcatProperties DEF NoUser
<1>3. CASE i > Len(s)
  <2>1. i - Len(s) \in 1..Len(r)
    BY <1>1, <1>3
  <2> QED
    BY <1>1, <1>3, <2>1, ConcatProperties DEF NoUser
<1> QED
  BY <1>1, <1>2, <1>3

\* The rest of a queue without events of the program has none.
LEMMA NoUserTail ==
  ASSUME NEW s \in Seq(Event), s # <<>>, NoUser(s)
  PROVE  NoUser(Tail(s)) /\ Head(s).kind # "user"
<1>1. Len(s) \in Nat \ {0} /\ Len(Tail(s)) = Len(s) - 1 /\ \A i \in 1..Len(Tail(s)) : Tail(s)[i] = s[i + 1]
  BY HeadTailProperties, EmptySeq
<1>2. Head(s) = s[1]
  OBVIOUS
<1> QED
  BY <1>1, <1>2 DEF NoUser

\* A queue with one event of the library has none of the program.
LEMMA NoUserOne ==
  ASSUME NEW e \in Event
  PROVE  NoUser(<<>>) /\ (e.kind # "user" => NoUser(<<e>>))
  BY DEF NoUser

-----------------------------------------------------------------------------
(* The steps that add events.                                              *)

\* Putting streams together is associative.
LEMMA EvAssoc == \A a, b, c \in Seq(Event) : (a \o b) \o c = a \o (b \o c)
<1> TAKE a, b, c \in Seq(Event)
<1> QED
  BY ConcatAssociative

\* A queue is its first event and the rest.
LEMMA HeadFirst ==
  ASSUME NEW E, NEW q \in Seq(E), q # <<>>
  PROVE  <<Head(q)>> \o Tail(q) = q
<1>1. Len(q) \in Nat \ {0} /\ Head(q) = q[1]
  BY EmptySeq
<1>2. SubSeq(q, 1, Len(q)) = <<q[1]>> \o SubSeq(q, 1 + 1, Len(q))
  BY <1>1, SubSeqRecursiveFirst
<1> QED
  BY <1>1, <1>2, SubSeqFull, TailIsSubSeq

\* The first event of a queue goes to the end of the buffer.
LEMMA HeadMovesAfter ==
  \A a, b, q \in Seq(Event) : q # <<>> => (a \o Append(b, Head(q))) \o Tail(q) = (a \o b) \o q
<1> SUFFICES ASSUME NEW a \in Seq(Event), NEW b \in Seq(Event), NEW q \in Seq(Event), q # <<>>
             PROVE  (a \o Append(b, Head(q))) \o Tail(q) = (a \o b) \o q
  OBVIOUS
<1> DEFINE c == Append(b, Head(q))
           r == Tail(q)
<1>1. c \in Seq(Event) /\ r \in Seq(Event)
  BY HeadTailProperties, AppendProperties
<1>2. c \o r = b \o q
  BY HeadMoves
<1> HIDE DEF c, r
<1>3. (a \o c) \o r = a \o (c \o r)
  BY <1>1, EvAssoc, Zenon
<1>4. (a \o b) \o q = a \o (b \o q)
  BY EvAssoc, Zenon
<1>5. (a \o c) \o r = (a \o b) \o q
  BY <1>2, <1>3, <1>4, Zenon
<1> QED
  BY <1>5, Zenon DEF c, r

Events(t) == Stage(t) /\ Drained(t) /\ Lossless(t)

\* A call of the program adds its event to the end of the stream.
LEMMA EmitEvents ==
  ASSUME Types, Types', NEW t \in Thread, Phase(t), Events(t),
         NEW s \in 1..MaxEvBuf - 1, NEW c \in ClockNow(t), Emit(t, s, c)
  PROVE  /\ Events(t)'
         /\ Stream(t) \in Seq(Event) /\ Stream(t)' = Stream(t) \o <<Ev("user", c, s)>>
<1> DEFINE e == Ev("user", c, s)
<1>1. e \in Event /\ e.kind = "user"
  <2>1. c \in 0..MaxClock
    BY ClockType DEF Types, BufInv, BufTypes
  <2> QED
    BY <2>1, EventType DEF Kind, Ev
<1>2. /\ pc[t] = "idle" /\ ready[t] /\ pc'[t] = "add" /\ ready'[t] /\ finished'[t] = finished[t]
      /\ todo'[t] = <<e>> /\ emitted'[t] = Append(emitted[t], e) /\ synced'[t] = FALSE
      /\ evbuf'[t] = evbuf[t] /\ wrote'[t] = wrote[t] /\ held'[t] = held[t] /\ disk' = disk
  BY DEF Emit, At, Goto, Types, BufInv, BufTypes, HistTypes
<1> HIDE DEF e
<1>3. todo[t] = <<>> /\ Live(t) /\ Live(t)' /\ ~Fresh(t)'
  BY <1>2 DEF Events, Stage, Live, Fresh, MovePc
<1>4. Stage(t)'
  <2>1. NoUser(Tail(<<e>>))
    BY <1>1 DEF NoUser
  <2> QED
    BY <1>2, <1>3, <2>1 DEF Events, Stage
<1>5. Drained(t)'
  BY <1>2 DEF Drained
<1>6. UserEvents(Stream(t), emitted[t])
  BY <1>3 DEF Events, Lossless
<1>7. Stream(t) \in Seq(Event) /\ Stream(t)' = Stream(t) \o <<e>>
  <2> DEFINE a == Ob(t) \o evbuf[t]
  <2>1. a \in Seq(Event)
    BY SeqTypes, ConcatProperties
  <2>2. Stream(t) = a \o todo[t]
    BY <1>2, QuietThread DEF Events
  <2>3. a \o <<>> = a
    BY <2>1, ConcatEmptySeq
  <2>4. wrote'[t] = wrote[t] /\ held'[t].ev = <<>> /\ wrote[t] = 0
    BY <1>2 DEF Events, Stage
  <2>5. Written(t)' = Written(t)
    BY <1>2 DEF Written
  <2>6. Stream(t) = (Written(t) \o <<>>) \o <<>>
    BY <1>3, <2>4, <1>2 DEF Stream
  <2>7. Stream(t)' = (Written(t) \o <<>>) \o <<e>>
    BY <1>2, <2>4, <2>5 DEF Stream
  <2>8. Written(t) = a
    <3>1. SubSeq(evbuf[t], 1, Len(evbuf[t])) = evbuf[t] /\ wrote[t] + 1 = 1
      BY <2>4, SeqTypes, SubSeqFull
    <3> QED
      BY <3>1 DEF Written, Ob
  <2> HIDE DEF a
  <2> QED
    BY <1>3, <2>1, <2>2, <2>3, <2>7, <2>8
<1>8. UserEvents(Stream(t) \o <<e>>, Append(emitted[t], e))
  BY <1>1, <1>6, <1>7, SeqTypes, UserAppend
<1>9. Lossless(t)'
  BY <1>2, <1>7, <1>8 DEF Lossless
<1> QED
  BY <1>4, <1>5, <1>7, <1>9 DEF Events, e

\* The event that fits goes to the buffer, at the same place of the stream.
LEMMA AddFitsEvents ==
  ASSUME Types, Types', NEW t \in Thread, Phase(t), Events(t), AddFits(t)
  PROVE  Events(t)' /\ Stream(t)' = Stream(t)
<1> DEFINE h == Head(todo[t])
           r == Tail(todo[t])
<1>1. /\ pc[t] = "add" /\ todo[t] # <<>> /\ ready[t]
      /\ pc'[t] = (IF r = <<>> THEN "idle" ELSE "add")
      /\ ready' = ready /\ finished' = finished /\ emitted' = emitted /\ synced' = synced
      /\ todo'[t] = r /\ evbuf'[t] = Append(evbuf[t], h)
      /\ wrote' = wrote /\ held' = held /\ disk' = disk
  BY DEF AddFits, At, Goto, Types, BufInv, BufTypes, RestTypes, Phase, ReadyPc, history
<1>2. h \in Event /\ r \in Seq(Event) /\ todo[t] \in Seq(Event) /\ evbuf[t] \in Seq(Event)
  BY <1>1, SeqTypes, HeadTailProperties
<1>3. NoUser(r)
  BY <1>1 DEF Events, Stage
<1>4. /\ Append(evbuf[t], h) \o r = evbuf[t] \o todo[t]
      /\ Append(evbuf[t], h) = evbuf[t] \o <<h>> /\ <<h>> \in Seq(Event)
  <2>1. Append(evbuf[t], h) \o r = evbuf[t] \o todo[t]
    BY <1>1, <1>2, HeadMoves
  <2>2. Append(evbuf[t], h) = evbuf[t] \o <<h>>
    BY <1>2, AppendIsConcat
  <2>3. <<h>> \in Seq(Event)
    BY <1>2
  <2> QED
    BY <2>1, <2>2, <2>3
<1>5. wrote[t] = 0 /\ held[t].ev = <<>> /\ Live(t) /\ Live(t)' /\ ~Fresh(t)'
  BY <1>1 DEF Events, Stage, Live, Fresh, MovePc
<1>6. NoUser(todo[t]) => NoUser(<<h>>)
  BY <1>1, <1>2, NoUserTail, NoUserOne
<1>7. r # <<>> => NoUser(Tail(r))
  BY <1>2, <1>3, NoUserTail
<1>8. Len(Append(evbuf[t], h)) \in Nat
  BY <1>2, AppendProperties, LenProperties
<1> HIDE DEF h, r
<1>9. Stage(t)'
  BY <1>1, <1>3, <1>5, <1>7, <1>8 DEF Stage
<1>10. Drained(t)'
  <2> SUFFICES ASSUME synced[t] PROVE NoUser(evbuf'[t]) /\ NoUser(r) /\ NoUser(held[t].ev)
    BY <1>1 DEF Drained
  <2>1. NoUser(evbuf[t]) /\ NoUser(todo[t]) /\ NoUser(held[t].ev)
    BY <1>1, <1>5 DEF Events, Drained
  <2> QED
    BY <1>1, <1>2, <1>3, <1>4, <1>6, <2>1, NoUserParts
<1>11. Stream(t)' = Stream(t)
  <2>1. Stream(t) = (Ob(t) \o evbuf[t]) \o todo[t]
    BY <1>1, QuietThread DEF Events
  <2>2. Stream(t)' = (Ob(t)' \o evbuf'[t]) \o todo'[t]
    <3>1. wrote'[t] + 1 = 1 /\ held'[t].ev = <<>>
      BY <1>1, <1>5
    <3>2. evbuf'[t] \in Seq(Event) /\ Ob(t)' \in Seq(Event)
      BY <1>1, <1>2, SeqTypes, AppendProperties DEF Ob
    <3>3. SubSeq(evbuf'[t], 1, Len(evbuf'[t])) = evbuf'[t]
      BY <3>2, SubSeqFull
    <3>4. Written(t)' = Ob(t)' \o evbuf'[t]
      BY <3>1, <3>3 DEF Written, Ob
    <3>5. (Ob(t)' \o evbuf'[t]) \o <<>> = Ob(t)' \o evbuf'[t]
      BY <3>2, ConcatProperties, ConcatEmptySeq
    <3> QED
      BY <3>1, <3>4, <3>5 DEF Stream
  <2>3. Ob(t)' = Ob(t)
    BY <1>1 DEF Ob
  <2>4. Ob(t) \in Seq(Event) /\ evbuf[t] \in Seq(Event) /\ todo[t] \in Seq(Event) /\ todo[t] # <<>>
    BY <1>1, SeqTypes
  <2>5. (Ob(t) \o Append(evbuf[t], h)) \o r = (Ob(t) \o evbuf[t]) \o todo[t]
    BY <2>4, HeadMovesAfter, Zenon DEF h, r
  <2> QED
    BY <1>1, <2>1, <2>2, <2>3, <2>5
<1>12. Lossless(t)'
  BY <1>1, <1>5, <1>11 DEF Events, Lossless
<1> QED
  BY <1>9, <1>10, <1>11, <1>12 DEF Events

\* The event that does not fit waits, at the same place of the stream.
LEMMA AddFlushEvents ==
  ASSUME Types, Types', NEW t \in Thread, Phase(t), Events(t), AddFlush(t)
  PROVE  Events(t)' /\ Stream(t)' = Stream(t)
<1> DEFINE h == Head(todo[t])
           r == Tail(todo[t])
<1>1. /\ pc[t] = "add" /\ todo[t] # <<>> /\ ready[t] /\ pc'[t] = "write"
      /\ ready' = ready /\ finished' = finished /\ emitted' = emitted /\ synced' = synced
      /\ todo'[t] = r /\ held'[t].ev = <<h>>
      /\ evbuf' = evbuf /\ wrote' = wrote /\ disk' = disk
  BY DEF AddFlush, BeginFlush, At, Goto, Types, BufInv, BufTypes, RestTypes, Phase, ReadyPc, history
<1>2. h \in Event /\ r \in Seq(Event) /\ todo[t] \in Seq(Event) /\ <<h>> \in Seq(Event)
  BY <1>1, SeqTypes, HeadTailProperties
<1>3. NoUser(r)
  BY <1>1 DEF Events, Stage
<1>4. wrote[t] = 0 /\ held[t].ev = <<>> /\ Live(t) /\ Live(t)' /\ ~Fresh(t)'
  BY <1>1 DEF Events, Stage, Live, Fresh, MovePc
<1>5. NoUser(todo[t]) => NoUser(<<h>>)
  BY <1>1, <1>2, NoUserTail, NoUserOne
<1>6. Stage(t)'
  BY <1>1, <1>3, <1>4 DEF Events, Stage
<1>7. Drained(t)'
  BY <1>1, <1>4, <1>5 DEF Events, Drained
<1>8. Stream(t)' = Stream(t)
  <2>1. Written(t)' = Written(t)
    BY <1>1 DEF Written
  <2>2. Stream(t)' = (Written(t) \o <<h>>) \o r
    BY <1>1, <2>1 DEF Stream
  <2>3. Written(t) \in Seq(Event) /\ Written(t) \o <<>> = Written(t)
    <3>1. Written(t) = Ob(t) \o evbuf[t]
      <4>1. SubSeq(evbuf[t], 1, Len(evbuf[t])) = evbuf[t] /\ wrote[t] + 1 = 1
        BY <1>4, SeqTypes, SubSeqFull
      <4> QED
        BY <4>1 DEF Written, Ob
    <3>2. Written(t) \in Seq(Event)
      BY <3>1, SeqTypes, ConcatProperties
    <3> QED
      BY <3>2, ConcatEmptySeq
  <2>4. Stream(t) = Written(t) \o todo[t]
    BY <1>4, <2>3 DEF Stream
  <2>5. (Written(t) \o <<h>>) \o r = Written(t) \o (<<h>> \o r)
    BY <1>2, <2>3, EvAssoc, Zenon
  <2>6. <<h>> \o r = todo[t]
    BY <1>1, <1>2, HeadFirst DEF h, r
  <2> QED
    BY <2>2, <2>4, <2>5, <2>6, Zenon
<1>9. Lossless(t)'
  BY <1>1, <1>4, <1>8 DEF Events, Lossless
<1> QED
  BY <1>6, <1>7, <1>8, <1>9 DEF Events

\* ovni_flush() leaves the stream as it is.
LEMMA FlushEventsKept ==
  ASSUME Types, Types', NEW t \in Thread, Phase(t), Events(t), Flush(t)
  PROVE  Events(t)' /\ Stream(t)' = Stream(t)
<1>1. /\ pc[t] = "idle" /\ ready[t] /\ pc'[t] = "write"
      /\ ready' = ready /\ finished' = finished /\ emitted' = emitted
      /\ todo' = todo /\ held'[t].ev = <<>>
      /\ evbuf' = evbuf /\ wrote' = wrote /\ disk' = disk
  BY DEF Flush, BeginFlush, At, Goto, Types, BufInv, BufTypes, RestTypes
<1>2. /\ wrote[t] = 0 /\ held[t].ev = <<>> /\ todo[t] = <<>>
      /\ Live(t) /\ Live(t)' /\ ~Fresh(t)' /\ NoUser(<<>>)
  BY <1>1 DEF Events, Stage, Live, Fresh, MovePc, NoUser
<1>3. Stage(t)'
  BY <1>1, <1>2 DEF Events, Stage
<1>4. Drained(t)'
  BY <1>1, <1>2 DEF Drained
<1>5. Stream(t)' = Stream(t)
  BY <1>1, <1>2 DEF Stream, Written
<1>6. Lossless(t)'
  BY <1>1, <1>2, <1>5 DEF Events, Lossless
<1> QED
  BY <1>3, <1>4, <1>5, <1>6 DEF Events

\* A partial write() leaves the stream as it is.
LEMMA WriteEvents ==
  ASSUME Types, Types', NEW t \in Thread, Phase(t), Events(t), WriteSome(t)
  PROVE  Events(t)' /\ Stream(t)' = Stream(t)
<1>1. PICK n \in 1..(Len(evbuf[t]) - wrote[t]) : WriteEvbuf(t, n)
  BY DEF WriteSome
<1> DEFINE w == wrote[t]
           b == evbuf[t]
           a == Ob(t)
<1>2. a \in Seq(Event) /\ b \in Seq(Event) /\ w \in Nat /\ w <= Len(b) /\ Len(b) \in Nat
  BY SeqTypes, LenProperties DEF Events, Stage
<1>3. n \in Nat /\ w + n <= Len(b)
  BY <1>2
<1>4. /\ pc[t] = "write" /\ pc' = pc /\ ready' = ready /\ finished' = finished
      /\ emitted' = emitted /\ synced' = synced /\ todo' = todo /\ held' = held
      /\ evbuf' = evbuf /\ wrote'[t] = w + n
  BY <1>1 DEF WriteEvbuf, At, Types, RestTypes, history
<1>5. Ob(t)' = a \o SubSeq(b, w + 1, w + n)
  <2> DEFINE x == [disk[t]["work"]["obs"] EXCEPT !.ev = @ \o SubSeq(evbuf[t], wrote[t] + 1, wrote[t] + n)]
  <2>1. Put(t, "work", "obs", x)
    BY <1>1, PutEvents DEF Types
  <2>2. x.ev = a \o SubSeq(b, w + 1, w + n)
    <3>1. disk[t]["work"]["obs"] \in File
      BY Names DEF Types, RestTypes
    <3> QED
      BY <3>1 DEF File, Ob
  <2>3. disk'[t]["work"]["obs"] = x
    BY <2>1 DEF Put
  <2> HIDE DEF x, a, b, w
  <2> QED
    BY <2>2, <2>3 DEF Ob
<1>6. Fresh(t)' = Fresh(t) /\ Live(t)' = Live(t)
  BY <1>4 DEF Fresh, Live
<1>7. Stage(t)'
  BY <1>2, <1>3, <1>4, <1>6 DEF Events, Stage
<1>8. Drained(t)'
  BY <1>4, <1>6 DEF Events, Drained
<1>9. Written(t)' = Written(t)
  <2>1. Written(t) = a \o SubSeq(b, w + 1, Len(b))
    BY DEF Written, Ob
  <2>2. Written(t)' = Ob(t)' \o SubSeq(b, (w + n) + 1, Len(b))
    BY <1>4 DEF Written, Ob
  <2> HIDE DEF a, b, w
  <2>3. (a \o SubSeq(b, w + 1, w + n)) \o SubSeq(b, (w + n) + 1, Len(b)) = a \o SubSeq(b, w + 1, Len(b))
    BY <1>2, <1>3, WriteMoves
  <2> QED
    BY <1>5, <2>1, <2>2, <2>3, Zenon
<1>10. Stream(t)' = Stream(t)
  BY <1>4, <1>9 DEF Stream
<1>11. Lossless(t)'
  BY <1>4, <1>6, <1>10 DEF Events, Lossless
<1> QED
  BY <1>7, <1>8, <1>10, <1>11 DEF Events

\* The end of a flush adds its two events after the event that waited.
LEMMA EndFlushEvents ==
  ASSUME Types, Types', NEW t \in Thread, Phase(t), Events(t), EndFlush(t)
  PROVE  /\ Events(t)'
         /\ Stream(t) = (Ob(t) \o held[t].ev) \o todo[t]
         /\ \E c \in ClockNow(t) :
               /\ now' = [now EXCEPT ![t] = c]
               /\ todo'[t] = FlushEvents(t, c) \o todo[t]
               /\ Stream(t)' = (Ob(t) \o held[t].ev) \o (FlushEvents(t, c) \o todo[t])
<1>1. PICK c \in ClockNow(t) : /\ now' = [now EXCEPT ![t] = c]
                               /\ todo' = [todo EXCEPT ![t] = FlushEvents(t, c) \o @]
  BY DEF EndFlush
<1> DEFINE f == FlushEvents(t, c)
           a == Ob(t)
           hv == held[t].ev
           q == todo[t]
<1>2. f \in Seq(Event) /\ NoUser(f) /\ f # <<>> /\ NoUser(Tail(f)) /\ f = <<f[1], f[2]>>
  <2>1. c \in 0..MaxClock /\ held[t].t0 \in 0..MaxClock
    BY ClockType DEF Types, BufInv, BufTypes
  <2>2. HeaderSize \in 1..MaxEvBuf - 1
    BY RtAssumption
  <2>3. /\ Ev("flush[", held[t].t0, HeaderSize) \in Event
        /\ Ev("flush]", c, HeaderSize) \in Event
    BY <2>1, <2>2, EventType DEF Kind
  <2>4. /\ Ev("flush[", held[t].t0, HeaderSize).kind # "user"
        /\ Ev("flush]", c, HeaderSize).kind # "user"
    BY DEF Ev
  <2> QED
    BY <2>3, <2>4 DEF FlushEvents, NoUser
<1>3. /\ pc[t] = "write" /\ pc'[t] = "add" /\ ready[t] /\ wrote[t] = Len(evbuf[t])
      /\ ready' = ready /\ finished' = finished /\ emitted' = emitted /\ synced' = synced
      /\ todo'[t] = f \o q /\ evbuf'[t] = hv /\ wrote'[t] = 0 /\ held'[t].ev = <<>>
      /\ disk' = disk
  <2>1. /\ pc[t] = "write" /\ pc'[t] = "add" /\ wrote[t] = Len(evbuf[t])
        /\ ready' = ready /\ finished' = finished /\ emitted' = emitted /\ synced' = synced /\ disk' = disk
    BY DEF EndFlush, At, Goto, Types, BufInv, BufTypes, history
  <2>2. ready[t]
    BY <2>1 DEF Phase, ReadyPc
  <2>3. todo'[t] = f \o q
    BY <1>1 DEF Types, BufInv, BufTypes
  <2>4. evbuf'[t] = hv /\ wrote'[t] = 0
    BY DEF EndFlush, Types, RestTypes
  <2>5. held'[t].ev = <<>>
    BY DEF EndFlush, NoFlush, Types, BufInv, BufTypes
  <2> QED
    BY <2>1, <2>2, <2>3, <2>4, <2>5
<1>4. a \in Seq(Event) /\ hv \in Seq(Event) /\ q \in Seq(Event)
  BY SeqTypes
<1>5. NoUser(q) /\ Live(t) /\ Live(t)' /\ ~Fresh(t)'
  BY <1>3 DEF Events, Stage, Live, Fresh, MovePc
<1>6. NoUser(f \o q) /\ f \o q \in Seq(Event) /\ f \o q # <<>>
  <2>1. Len(f) = 2 /\ Len(q) \in Nat /\ Len(f \o q) = Len(f) + Len(q) /\ f \o q \in Seq(Event)
    BY <1>2, <1>4, ConcatProperties, LenProperties
  <2> HIDE DEF f, q
  <2>2. NoUser(f \o q)
    BY <1>2, <1>4, <1>5, NoUserParts
  <2>3. f \o q # <<>>
    BY <2>1
  <2> QED
    BY <2>1, <2>2, <2>3
<1> HIDE DEF f
<1>7. NoUser(Tail(f \o q))
  BY <1>6, NoUserTail
<1>8. Stage(t)'
  <2>1. Len(hv) \in Nat
    BY <1>4, LenProperties
  <2> QED
    BY <1>3, <1>5, <1>7, <2>1 DEF Stage
<1>9. Drained(t)'
  BY <1>3, <1>5, <1>6, NoUserOne DEF Events, Drained, NoUser
<1>10. Stream(t) = (a \o hv) \o q
  BY <1>3, AllWritten
<1>11. Stream(t)' = (a \o hv) \o (f \o q)
  <2>1. wrote'[t] + 1 = 1 /\ SubSeq(hv, 1, Len(hv)) = hv
    BY <1>3, <1>4, SubSeqFull
  <2>2. Written(t)' = a \o hv
    BY <1>3, <2>1 DEF Written, Ob
  <2>3. (a \o hv) \o <<>> = a \o hv
    BY <1>4, ConcatProperties, ConcatEmptySeq
  <2> QED
    BY <1>3, <2>2, <2>3 DEF Stream
<1>12. UserEvents(Stream(t), emitted[t])
  BY <1>5 DEF Events, Lossless
<1>13. a \o hv \in Seq(Event)
  BY <1>4, ConcatProperties
<1> DEFINE s == a \o hv
           g == f \o q
<1> HIDE DEF a, hv, q
<1>14. UserEvents(s \o g, emitted[t])
  <2>1. s \in Seq(Event) /\ q \in Seq(Event) /\ g \in Seq(Event) /\ NoUser(q) /\ NoUser(g)
    BY <1>4, <1>5, <1>6, <1>13
  <2>2. UserEvents(s \o q, emitted[t])
    BY <1>10, <1>12
  <2> HIDE DEF s, g
  <2>3. UserEvents(s, emitted[t])
    BY <2>1, <2>2, UserSuffix
  <2> QED
    BY <2>1, <2>3, UserSuffix
<1>15. Lossless(t)'
  BY <1>3, <1>11, <1>14 DEF Lossless
<1>16. Events(t)'
  BY <1>8, <1>9, <1>15 DEF Events
<1> QED
  BY <1>1, <1>3, <1>10, <1>11, <1>16 DEF a, hv, q, f

\* The stream of a thread starts empty, as the events that it emitted.
LEMMA ReadyEvents ==
  ASSUME Types, Types', NEW t \in Thread, Phase(t), Events(t), Files(t), ThreadReady(t)
  PROVE  Events(t)' /\ Stream(t)' = <<>>
<1>1. /\ pc[t] = "store_init" /\ pc'[t] = "idle" /\ ready'[t]
      /\ emitted' = emitted /\ synced' = synced /\ todo' = todo /\ held' = held
      /\ evbuf' = evbuf /\ wrote' = wrote
  BY DEF ThreadReady, At, Goto, Types, BufInv, BufTypes, ProcInv, bufVars, history
<1>2. /\ Fresh(t) /\ ~Live(t) /\ ~Fresh(t)' /\ wrote[t] = 0 /\ held[t].ev = <<>>
      /\ evbuf[t] = <<>> /\ todo[t] = <<>> /\ emitted[t] = <<>>
  BY <1>1 DEF Phase, Fresh, Live, Events, Stage, InitPc
<1>3. NoUser(<<>>)
  BY DEF NoUser
<1>4. Stage(t)'
  BY <1>1, <1>2 DEF Events, Stage
<1>5. Drained(t)'
  BY <1>1, <1>2, <1>3 DEF Drained
<1>6. Ob(t)' = <<>>
  <2>1. disk'[t]["work"]["obs"] = disk[t]["work"]["obs"]
    BY PutMeta, Names DEF Put, Types
  <2>2. disk[t]["work"]["obs"] = [NoFile EXCEPT !.is = "whole"]
    BY <1>1 DEF Files
  <2> QED
    BY <2>1, <2>2 DEF Ob, NoFile
<1>7. Stream(t)' = <<>>
  <2>1. <<>> \o <<>> = <<>>
    BY ConcatEmptySeq, EmptySeq
  <2>2. SubSeq(<<>>, 0 + 1, Len(<<>>)) = <<>>
    OBVIOUS
  <2>3. Written(t)' = <<>>
    BY <1>1, <1>2, <1>6, <2>1, <2>2 DEF Written, Ob
  <2> QED
    BY <1>1, <1>2, <2>1, <2>3 DEF Stream
<1>8. UserEvents(<<>>, <<>>)
  <2>1. UserPlace(<<>>, 0) = 0
    <3>1. {j \in 1..0 : <<>>[j].kind = "user"} = {}
      OBVIOUS
    <3> QED
      BY <3>1, FS_EmptySet DEF UserPlace
  <2> QED
    BY <2>1 DEF UserEvents
<1>9. Lossless(t)'
  BY <1>1, <1>2, <1>7, <1>8 DEF Lossless
<1> QED
  BY <1>4, <1>5, <1>7, <1>9 DEF Events

\* The rest leaves the events where they are.
LEMMA OtherEvents ==
  ASSUME NEW t \in Thread, Events(t),
         evbuf'[t] = evbuf[t] \/ (evbuf'[t] = <<>> /\ ~Live(t)'),
         wrote'[t] = wrote[t], held'[t] = held[t], todo'[t] = todo[t],
         emitted'[t] = emitted[t], synced'[t] = synced[t],
         pc[t] \notin {"add", "write"}, pc'[t] \notin {"add", "write"},
         Fresh(t)' => Fresh(t),
         Live(t)' => Live(t) /\ Ob(t)' = Ob(t),
         ~Live(t)' => ~Live(t) \/ evbuf'[t] = <<>>
  PROVE  Events(t)' /\ (Live(t)' => Live(t) /\ Stream(t)' = Stream(t))
<1>1. wrote[t] = 0
  BY DEF Events, Stage
<1>2. Len(<<>>) = 0
  OBVIOUS
<1>3. Stage(t)'
  BY <1>1, <1>2 DEF Events, Stage
<1>4. Drained(t)'
  BY DEF Events, Drained
<1>5. Live(t)' => Stream(t)' = Stream(t)
  BY DEF Stream, Written, Ob
<1>6. Lossless(t)'
  BY <1>5 DEF Events, Lossless
<1> QED
  BY <1>3, <1>4, <1>5, <1>6 DEF Events

\* The calls that do not write events leave the stream as it is.
LEMMA IdleEvents ==
  ASSUME Types, NEW t \in Thread, Phase(t), Events(t),
         \/ CreateProcDir(t) \/ CleanProcDir(t) \/ MakeParent(t) \/ MakeThreadDir(t) \/ ProcInit(t)
         \/ ProcFini(t) \/ ThreadInit(t) \/ (\E k \in Key : AttrSet(t, k)) \/ (\E k \in Late : SetLate(t, k))
  PROVE  Events(t)' /\ (Live(t)' => Live(t) /\ Stream(t)' = Stream(t))
<1>1. /\ UNCHANGED <<ready, finished, evbuf, wrote, held, todo, emitted, synced, disk>>
      /\ pc[t] \notin {"add", "write"} \union MovePc /\ pc'[t] \notin {"add", "write"} \union MovePc
  BY DEF CreateProcDir, CleanProcDir, MakeParent, MakeThreadDir, ProcInit, ProcFini, ThreadInit, AttrSet,
         SetLate, At, Goto, bufVars, history, MovePc, Types, BufInv, BufTypes
<1>2. Fresh(t)' = Fresh(t) /\ Live(t)' = Live(t) /\ Ob(t)' = Ob(t)
  BY <1>1 DEF Fresh, Live, Ob
<1> QED
  BY <1>1, <1>2, OtherEvents

\* Storing the attributes leaves the stream as it is.
LEMMA StoreEvents ==
  ASSUME Types, NEW t \in Thread, Phase(t), Events(t), AttrStored(t) \/ ThreadFree(t) \/ AttrFlush(t)
  PROVE  Events(t)' /\ (Live(t)' => Live(t) /\ Stream(t)' = Stream(t))
<1>1. /\ UNCHANGED <<ready, finished, evbuf, wrote, held, todo, emitted, synced>>
      /\ pc[t] \notin {"add", "write"} \union MovePc /\ pc'[t] \notin {"add", "write"} \union MovePc
  BY DEF AttrStored, ThreadFree, AttrFlush, Truncate, At, Goto, bufVars, history, MovePc, Types, BufInv, BufTypes
<1>2. disk'[t]["work"]["obs"] = disk[t]["work"]["obs"]
  BY PutMeta, PutTruncated, Names DEF Put, Types
<1>3. Fresh(t)' = Fresh(t) /\ Live(t)' = Live(t) /\ Ob(t)' = Ob(t)
  BY <1>1, <1>2 DEF Fresh, Live, Ob
<1> QED
  BY <1>1, <1>3, OtherEvents

\* Opening the stream leaves no events behind.
LEMMA OpenEvents ==
  ASSUME Types, NEW t \in Thread, Phase(t), Events(t), OpenStream(t)
  PROVE  Events(t)' /\ (Live(t)' => Live(t) /\ Stream(t)' = Stream(t))
<1>1. /\ UNCHANGED <<ready, finished, evbuf, wrote, held, todo, emitted, synced>>
      /\ pc[t] = "open" /\ pc'[t] = "store_init"
  BY DEF OpenStream, At, Goto, bufVars, history, Types, BufInv, BufTypes
<1>2. ~Live(t) /\ ~Live(t)' /\ Fresh(t)' = Fresh(t)
  BY <1>1 DEF Phase, Fresh, Live, InitPc
<1> QED
  BY <1>1, <1>2, OtherEvents

\* ovni_thread_free() drops the buffer and ends the stream.
LEMMA FreeEvents ==
  ASSUME Types, NEW t \in Thread, Phase(t), Events(t), FreeStored(t)
  PROVE  Events(t)' /\ (Live(t)' => Live(t) /\ Stream(t)' = Stream(t))
<1>1. /\ UNCHANGED <<wrote, held, todo, emitted, synced>> /\ evbuf'[t] = <<>>
      /\ pc[t] = "store_free"
  BY DEF FreeStored, At, history, Types, RestTypes
<1>2. \/ pc'[t] = "move" /\ UNCHANGED <<ready, finished>>
      \/ pc'[t] = "idle" /\ ~ready'[t] /\ finished'[t]
  BY DEF FreeStored, Finish, Goto, Types, BufInv, BufTypes, ProcInv
<1>3. ~Live(t)' /\ ~Fresh(t)'
  BY <1>1, <1>2 DEF Phase, Fresh, Live, MovePc, ReadyPc
<1> QED
  BY <1>1, <1>2, <1>3, OtherEvents

\* Moving the files leaves the events of the thread as they are.
LEMMA MoveEvents ==
  ASSUME Types, NEW t \in Thread, Phase(t), Events(t),
         \/ \E f \in FileName : MoveOpen(t, f) \/ OpenFails(t, f)
         \/ MoveCopy(t) \/ MoveRemove(t) \/ RemoveFails(t) \/ ThreadDone(t)
  PROVE  Events(t)' /\ (Live(t)' => Live(t) /\ Stream(t)' = Stream(t))
<1>1. /\ UNCHANGED <<evbuf, wrote, held, todo, emitted, synced>> /\ pc[t] \in MovePc
  BY DEF MoveOpen, OpenFails, MoveCopy, MoveRemove, RemoveFails, ThreadDone, At, bufVars, history, MovePc
<1>2. \/ pc'[t] \in MovePc /\ UNCHANGED <<ready, finished>>
      \/ pc'[t] = "idle" /\ ~ready'[t] /\ finished'[t]
  BY DEF MoveOpen, OpenFails, MoveCopy, MoveRemove, RemoveFails, ThreadDone, At, Finish, Goto, Types, BufInv,
         BufTypes, ProcInv, MovePc
<1>3. ~Live(t) /\ ~Live(t)' /\ ~Fresh(t)'
  BY <1>1, <1>2 DEF Phase, Fresh, Live, MovePc, ReadyPc
<1>4. pc[t] \notin {"add", "write"} /\ pc'[t] \notin {"add", "write"}
  BY <1>1, <1>2 DEF MovePc
<1> QED
  BY <1>1, <1>3, <1>4, OtherEvents

\* Every step of a thread keeps its events.
LEMMA EventsNext ==
  ASSUME Types, Types', NEW t \in Thread, Phase(t), Events(t), Files(t), Step(t) \/ Call(t)
  PROVE  Events(t)'
<1>1. CASE EvEmit(t)
  <2>1. PICK s \in EvSizes, c \in ClockNow(t) : Emit(t, s, c)
    BY <1>1 DEF EvEmit
  <2>2. s \in 1..MaxEvBuf - 1
    BY RtAssumption
  <2> QED
    BY <2>1, <2>2, EmitEvents
<1>2. CASE JumboEmit(t)
  <2>1. PICK s \in JumboSizes, c \in ClockNow(t) : s < MaxEvBuf /\ Emit(t, s, c)
    BY <1>2 DEF JumboEmit
  <2>2. s \in 1..MaxEvBuf - 1
    BY <2>1, RtAssumption
  <2> QED
    BY <2>1, <2>2, EmitEvents
<1>3. CASE Step(t)
  BY <1>3, AddFitsEvents, AddFlushEvents, WriteEvents, EndFlushEvents, ReadyEvents, IdleEvents, StoreEvents,
     OpenEvents, FreeEvents, MoveEvents DEF Step
<1>4. CASE Call(t)
  BY <1>1, <1>2, <1>4, FlushEventsKept, IdleEvents, StoreEvents DEF Call
<1> QED
  BY <1>3, <1>4

-----------------------------------------------------------------------------
(* The files of each thread, and the first result.                         *)

\* The steps that leave the files of the thread as they are.
LEMMA SameFiles ==
  ASSUME NEW t \in Thread, Files(t), disk' = disk, Fresh(t)' = Fresh(t), Live(t)' = Live(t),
         pc[t] # "store_init", pc'[t] \notin {"store_init", "store_attr", "store_free"}
  PROVE  Files(t)'
  BY DEF Files

\* A step that writes no file.
LEMMA QuietFiles ==
  ASSUME Types, NEW t \in Thread, Phase(t), Files(t),
         \/ CreateProcDir(t) \/ CleanProcDir(t) \/ MakeParent(t) \/ MakeThreadDir(t) \/ ProcInit(t)
         \/ ProcFini(t) \/ ThreadInit(t) \/ (\E k \in Key : AttrSet(t, k)) \/ (\E k \in Late : SetLate(t, k))
         \/ AddFits(t) \/ AddFlush(t) \/ EndFlush(t) \/ EvEmit(t) \/ JumboEmit(t) \/ Flush(t)
  PROVE  Files(t)'
<1>1. /\ UNCHANGED <<ready, finished, disk>>
      /\ pc[t] # "store_init" /\ pc'[t] \notin {"store_init", "store_attr", "store_free"}
      /\ pc[t] \notin MovePc /\ pc'[t] \notin MovePc
  BY DEF CreateProcDir, CleanProcDir, MakeParent, MakeThreadDir, ProcInit, ProcFini, ThreadInit, AttrSet,
         SetLate, AddFits, AddFlush, BeginFlush, EndFlush, EvEmit, JumboEmit, Emit, Flush,
         At, Goto, MovePc, Types, BufInv, BufTypes
<1>2. Fresh(t)' = Fresh(t) /\ Live(t)' = Live(t)
  BY <1>1 DEF Fresh, Live
<1> QED
  BY <1>1, <1>2, SameFiles

\* create_trace_stream() leaves the files as they have to be.
LEMMA OpenFiles ==
  ASSUME Types, NEW t \in Thread, Phase(t), Files(t), OpenStream(t)
  PROVE  Files(t)'
<1>1. /\ UNCHANGED <<ready, finished>> /\ pc[t] = "open" /\ pc'[t] = "store_init"
  BY DEF OpenStream, At, Goto, Types, BufInv, BufTypes
<1>2. Fresh(t) /\ ~Live(t)'
  BY <1>1 DEF Phase, Fresh, Live, InitPc
<1>3. /\ disk'[t]["work"]["obs"] = [NoFile EXCEPT !.is = "whole"]
      /\ disk'[t]["work"]["json"] = Truncated
      /\ \A g \in FileName : disk'[t]["final"][g] = disk[t]["final"][g]
  BY PutStream, Names DEF Types
<1> QED
  BY <1>1, <1>2, <1>3, Names DEF Files

\* So do the calls that store the metadata.
LEMMA StoreFiles ==
  ASSUME Types, NEW t \in Thread, Phase(t), Files(t), ThreadReady(t) \/ AttrStored(t)
  PROVE  Files(t)'
<1>1. pc[t] \in {"store_init", "store_attr"} /\ pc'[t] = "idle" /\ ready'[t]
  BY DEF ThreadReady, AttrStored, At, Goto, Types, BufInv, BufTypes, ProcInv, Phase, ReadyPc
<1>2. ~Fresh(t)' /\ (Fresh(t) \/ Live(t)) /\ (pc[t] = "store_attr" => Live(t))
  BY <1>1 DEF Phase, Fresh, Live, InitPc, ReadyPc, MovePc
<1>3. \A d \in Dir, f \in FileName : d # "work" \/ f # "json" => disk'[t][d][f] = disk[t][d][f]
  BY PutMeta DEF Types, Put
<1>4. [NoFile EXCEPT !.is = "whole"].is = "whole"
  BY DEF NoFile
<1> QED
  BY <1>1, <1>2, <1>3, <1>4, Names DEF Files

\* So do the calls that truncate it first.
LEMMA TruncateFiles ==
  ASSUME Types, NEW t \in Thread, Phase(t), Files(t), ThreadFree(t) \/ AttrFlush(t)
  PROVE  Files(t)'
<1>1. /\ UNCHANGED <<ready, finished>> /\ ready[t] /\ pc[t] = "idle"
      /\ pc'[t] \in {"store_attr", "store_free"}
  BY DEF ThreadFree, AttrFlush, Truncate, At, Goto, Types, BufInv, BufTypes
<1>2. ~Fresh(t)' /\ Live(t)
  BY <1>1 DEF Fresh, Live, MovePc
<1>3. /\ disk'[t]["work"]["json"] = Truncated
      /\ \A d \in Dir, f \in FileName : d # "work" \/ f # "json" => disk'[t][d][f] = disk[t][d][f]
  BY PutTruncated DEF Types, Put
<1> QED
  BY <1>1, <1>2, <1>3, Names DEF Files

\* So does write_evbuffer().
LEMMA WriteFiles ==
  ASSUME Types, NEW t \in Thread, Phase(t), Files(t), WriteSome(t)
  PROVE  Files(t)'
<1>1. PICK n \in 1..(Len(evbuf[t]) - wrote[t]) : WriteEvbuf(t, n)
  BY DEF WriteSome
<1>2. UNCHANGED <<pc, ready, finished>> /\ pc[t] = "write" /\ ready[t]
  BY <1>1 DEF WriteEvbuf, At, Phase, ReadyPc
<1>3. ~Fresh(t)' /\ Live(t)
  BY <1>2 DEF Fresh, Live, MovePc
<1> DEFINE x == [disk[t]["work"]["obs"] EXCEPT !.ev = @ \o SubSeq(evbuf[t], wrote[t] + 1, wrote[t] + n)]
<1>4. Put(t, "work", "obs", x)
  BY <1>1, PutEvents DEF Types
<1>5. x.is = disk[t]["work"]["obs"].is
  <2>1. disk[t]["work"]["obs"] \in File
    BY Names DEF Types, RestTypes
  <2> QED
    BY <2>1 DEF File
<1> HIDE DEF x
<1>6. /\ disk'[t]["work"]["obs"] = x
      /\ \A f \in FileName : disk'[t]["final"][f] = disk[t]["final"][f]
  BY <1>4, Names DEF Put
<1> QED
  BY <1>2, <1>3, <1>5, <1>6 DEF Files

\* So do the steps of a thread that ends.
LEMMA EndFiles ==
  ASSUME Types, NEW t \in Thread, Phase(t), Files(t),
         \/ FreeStored(t) \/ MoveCopy(t) \/ MoveRemove(t) \/ RemoveFails(t) \/ ThreadDone(t)
         \/ \E f \in FileName : MoveOpen(t, f) \/ OpenFails(t, f)
  PROVE  Files(t)'
<1>1. pc[t] \in {"store_free", "move", "copy", "remove"}
  BY DEF FreeStored, MoveCopy, MoveRemove, RemoveFails, ThreadDone, MoveOpen, OpenFails, At
<1>2. \/ pc'[t] \in MovePc /\ UNCHANGED <<ready, finished>>
      \/ pc'[t] = "idle" /\ ~ready'[t] /\ finished'[t]
  BY DEF FreeStored, MoveOpen, OpenFails, MoveCopy, MoveRemove, RemoveFails, ThreadDone, At, Finish, Goto,
         Types, BufInv, BufTypes, ProcInv, MovePc
<1>3. ~Live(t)' /\ ~Fresh(t)'
  BY <1>1, <1>2 DEF Phase, Fresh, Live, ReadyPc
<1>4. pc'[t] \notin {"store_init", "store_attr", "store_free"}
  BY <1>2 DEF MovePc
<1> QED
  BY <1>3, <1>4 DEF Files

\* Every step of a thread keeps its files.
LEMMA FilesNext ==
  ASSUME Types, NEW t \in Thread, Phase(t), Files(t), Step(t) \/ Call(t)
  PROVE  Files(t)'
<1>1. CASE Step(t)
  BY <1>1, QuietFiles, OpenFiles, StoreFiles, WriteFiles, EndFiles DEF Step
<1>2. CASE Call(t)
  BY <1>2, QuietFiles, TruncateFiles DEF Call
<1> QED
  BY <1>1, <1>2

\* The history keeps its type.
LEMMA HistNext ==
  ASSUME Types, NEW t \in Thread, Step(t) \/ Call(t)
  PROVE  HistTypes'
<1>1. ASSUME NEW s \in 1..MaxEvBuf - 1, NEW c \in ClockNow(t), Emit(t, s, c) PROVE HistTypes'
  <2>1. c \in 0..MaxClock
    BY ClockType DEF Types, BufInv, BufTypes
  <2>2. Ev("user", c, s) \in Event
    BY <2>1, EventType DEF Kind
  <2>3. Append(emitted[t], Ev("user", c, s)) \in Seq(Event)
    BY <2>2, AppendProperties DEF Types, HistTypes
  <2> QED
    BY <1>1, <2>3 DEF Emit, Types, HistTypes
<1>2. CASE EvEmit(t)
  <2>1. \A s \in EvSizes : s \in 1..MaxEvBuf - 1
    BY RtAssumption
  <2> QED
    BY <1>1, <1>2, <2>1 DEF EvEmit
<1>3. CASE JumboEmit(t)
  <2>1. \A s \in JumboSizes : s < MaxEvBuf => s \in 1..MaxEvBuf - 1
    BY RtAssumption
  <2> QED
    BY <1>1, <1>3, <2>1 DEF JumboEmit
<1>4. CASE Flush(t)
  BY <1>4 DEF Flush, Types, HistTypes
<1> QED
  BY <1>2, <1>3, <1>4, HistSteps DEF Types, HistTypes

StreamInv == Types /\ \A t \in Thread : ThreadInv(t)

\* The invariant of the streams holds at the start.
LEMMA StreamInit == Init => StreamInv
<1> SUFFICES ASSUME Init PROVE StreamInv
  OBVIOUS
<1>1. Types
  <2>1. <<>> \in Seq(Event)
    OBVIOUS
  <2>2. HistTypes
    BY <2>1 DEF Init, HistTypes
  <2> QED
    BY <2>2, RestInit, BufInit, ProcInit0 DEF Types
<1>2. ASSUME NEW t \in Thread PROVE ThreadInv(t)
  <2>1. /\ pc[t] = "idle" /\ ~ready[t] /\ ~finished[t] /\ wrote[t] = 0 /\ held[t].ev = <<>>
        /\ evbuf[t] = <<>> /\ todo[t] = <<>> /\ emitted[t] = <<>>
        /\ \A d \in Dir, f \in FileName : disk[t][d][f] = NoFile
    BY DEF Init, NoFlush
  <2>2. Fresh(t) /\ ~Live(t)
    BY <2>1 DEF Fresh, Live
  <2>3. Phase(t)
    BY <2>1, <2>2 DEF Phase, InitPc, ReadyPc
  <2>4. Stage(t)
    <3>1. Len(<<>>) = 0
      OBVIOUS
    <3> QED
      BY <2>1, <3>1 DEF Stage
  <2>5. Files(t)
    BY <2>1, <2>2, Names DEF Files
  <2> QED
    BY <2>2, <2>3, <2>4, <2>5 DEF ThreadInv, Drained, Lossless
<1> QED
  BY <1>1, <1>2 DEF StreamInv

\* Every step keeps the types.
LEMMA TypesNext == Types /\ [Next]_vars => Types'
<1> SUFFICES ASSUME Types, [Next]_vars PROVE Types'
  OBVIOUS
<1>1. HistTypes'
  <2>1. CASE UNCHANGED vars
    BY <2>1 DEF Types, HistTypes, vars, history
  <2>2. CASE Crash
    BY <2>2 DEF Types, HistTypes, Crash, history
  <2> QED
    BY <2>1, <2>2, HistNext DEF Next
<1> QED
  BY <1>1, RestNext, BufNext, ProcNext DEF Types

\* A step that is not of a thread: nothing that belongs to one changes.
LEMMA IdleThreads ==
  ASSUME UNCHANGED vars \/ Crash, NEW u \in Thread
  PROVE  /\ pc'[u] = pc[u] /\ ready'[u] = ready[u] /\ finished'[u] = finished[u]
         /\ evbuf'[u] = evbuf[u] /\ wrote'[u] = wrote[u] /\ held'[u] = held[u] /\ todo'[u] = todo[u]
         /\ meta'[u] = meta[u] /\ left'[u] = left[u] /\ moving'[u] = moving[u] /\ moveErr'[u] = moveErr[u]
         /\ emitted'[u] = emitted[u] /\ synced'[u] = synced[u]
         /\ disk'[u] = disk[u]
  BY DEF Crash, vars, bufVars, metaVars, moveVars, history

\* No step of any thread loses an event of another.
LEMMA StreamNext == StreamInv /\ [Next]_vars => StreamInv'
<1> SUFFICES ASSUME StreamInv, [Next]_vars PROVE StreamInv'
  OBVIOUS
<1>1. Types /\ Types'
  BY TypesNext DEF StreamInv
<1>2. CASE UNCHANGED vars \/ Crash
  BY <1>1, <1>2, IdleThreads, ThreadInvKept DEF StreamInv
<1>3. ASSUME NEW t \in Thread, Step(t) \/ Call(t) PROVE StreamInv'
  <2>1. ThreadInv(t)'
    <3>1. Phase(t) /\ Events(t) /\ Files(t)
      BY DEF StreamInv, ThreadInv, Events
    <3> QED
      BY <1>1, <1>3, <3>1, PhaseNext, EventsNext, FilesNext DEF ThreadInv, Events
  <2>2. ASSUME NEW u \in Thread, u # t PROVE ThreadInv(u)'
    BY <1>1, <1>3, <2>2, OthersKept, ThreadInvKept DEF StreamInv
  <2> QED
    BY <1>1, <2>1, <2>2 DEF StreamInv
<1> QED
  BY <1>2, <1>3 DEF Next

\* No flush loses, repeats or reorders an event of the program.
THEOREM StreamLossless == Spec => []NothingLost
<1>1. StreamInv => NothingLost
  BY DEF StreamInv, ThreadInv, Lossless, Live, MovePc, NothingLost
<1> QED
  BY <1>1, StreamInit, StreamNext, PTL DEF Spec

-----------------------------------------------------------------------------
(* The move to the final directory.                                        *)

\* fwrite() never writes less than asked.
WholeCopies == CopyOutcomes \subseteq {"whole"}

\* A complete file stays complete while its thread ends.
LEMMA GoodKept ==
  ASSUME NEW t \in Thread, meta' = meta, synced' = synced, emitted' = emitted, NEW f, NEW x
  PROVE  Good(t, f, x)' <=> Good(t, f, x)
  BY DEF Good, MetaFile

\* A thread that is not at the end of its life.
LEMMA QuietMoved ==
  ASSUME Types, NEW t \in Thread, Phase(t), Moved(t), Step(t) \/ Call(t),
         pc[t] \notin MovePc \union {"store_free"}
  PROVE  Moved(t)'
<1>1. pc'[t] \notin MovePc /\ finished' = finished
  <2>1. CASE Step(t)
    BY <2>1 DEF Step, CreateProcDir, CleanProcDir, MakeParent, MakeThreadDir, OpenStream, ThreadReady, AddFits,
           AddFlush, BeginFlush, WriteSome, WriteEvbuf, EndFlush, AttrStored, FreeStored, MoveOpen, OpenFails,
           MoveCopy, MoveRemove, RemoveFails, ThreadDone, At, Goto, MovePc, Types, BufInv, BufTypes
  <2>2. CASE Call(t)
    BY <2>2 DEF Call, ProcInit, ProcFini, ThreadInit, ThreadFree, EvEmit, JumboEmit, Emit, Flush, BeginFlush,
           AttrFlush, Truncate, AttrSet, SetLate, At, Goto, MovePc, Types, BufInv, BufTypes
  <2> QED
    BY <2>1, <2>2
<1>2. ASSUME finished[t] PROVE UNCHANGED <<disk, meta, moveErr, synced, emitted>>
  <2>1. ~ready[t] /\ pc[t] \notin InitPc /\ pc[t] \notin ReadyPc
    BY <1>2 DEF Phase, Fresh
  <2>2. CASE Step(t)
    BY <2>1, <2>2 DEF Step, CreateProcDir, CleanProcDir, MakeParent, MakeThreadDir, OpenStream, ThreadReady, AddFits,
           AddFlush, BeginFlush, WriteSome, WriteEvbuf, EndFlush, AttrStored, FreeStored, MoveOpen, OpenFails,
           MoveCopy, MoveRemove, RemoveFails, ThreadDone, At, InitPc, ReadyPc, metaVars, moveVars, history
  <2>3. CASE Call(t)
    BY <1>2, <2>1, <2>3 DEF Call, ProcInit, ProcFini, ThreadInit, ThreadFree, EvEmit, JumboEmit, Emit, Flush,
           AttrFlush, AttrSet, SetLate, metaVars, moveVars, history
  <2> QED
    BY <2>2, <2>3
<1>3. ASSUME finished[t] PROVE \A f \in FileName : (moveErr[t] \/ Good(t, f, disk[t][FinalDir][f]))'
  <2>1. \A f \in FileName : moveErr[t] \/ Good(t, f, disk[t][FinalDir][f])
    BY <1>3 DEF Moved
  <2> QED
    BY <1>2, <1>3, <2>1 DEF Good, MetaFile
<1> QED
  BY <1>1, <1>3 DEF Moved

\* The metadata is stored and the stream is complete when the move begins.
LEMMA FreeMoved ==
  ASSUME Types, Types', NEW t \in Thread, ThreadInv(t), FreeStored(t)
  PROVE  Moved(t)'
<1>1. /\ pc[t] = "store_free" /\ ready[t] /\ ~finished[t] /\ Live(t)
      /\ UNCHANGED <<meta, synced, emitted, moveErr>>
  BY DEF FreeStored, At, metaVars, history, ThreadInv, Phase, Live, MovePc, ReadyPc
<1>2. disk'[t]["work"]["json"] = MetaFile(t) /\ disk'[t]["work"]["obs"] = disk[t]["work"]["obs"]
      /\ \A f \in FileName : disk'[t]["final"][f] = NoFile
  <2>1. \A f \in FileName : disk[t]["final"][f] = NoFile
    BY <1>1 DEF ThreadInv, Files
  <2> QED
    BY <2>1, PutMeta, Names DEF Put, Types
<1>3. Good(t, "json", disk'[t]["work"]["json"])
  BY <1>2 DEF Good, MetaFile
<1>4. synced[t] => UserEvents(Ob(t), emitted[t])
  <2>1. Stream(t) = (Ob(t) \o evbuf[t]) \o <<>>
    BY <1>1, QuietThread DEF ThreadInv, Stage
  <2>2. Stream(t) = Ob(t) \o evbuf[t]
    BY <2>1, SeqTypes, ConcatProperties, ConcatEmptySeq
  <2>3. UserEvents(Stream(t), emitted[t]) /\ (synced[t] => NoUser(evbuf[t]))
    BY <1>1 DEF ThreadInv, Lossless, Drained
  <2> QED
    BY <2>2, <2>3, SeqTypes, UserSuffix
<1>5. Good(t, "obs", disk'[t]["work"]["obs"])
  BY <1>1, <1>2, <1>4 DEF Good, ThreadInv, Files, Ob
<1>6. \A f \in FileName : Good(t, f, disk[t]["work"][f])'
  BY <1>1, <1>3, <1>5, Names DEF Good, MetaFile
<1>7. CASE MoveToFinal
  <2>1. pc'[t] = "move" /\ left'[t] = FileName /\ finished' = finished
    BY <1>7 DEF FreeStored, Goto, Types, BufInv, BufTypes, RestTypes
  <2>2. NoFile.is # "whole"
    BY DEF NoFile
  <2> QED
    BY <1>1, <1>2, <1>6, <1>7, <2>1, <2>2 DEF Moved
<1>8. CASE ~MoveToFinal
  <2>1. pc'[t] = "idle" /\ FinalDir = "work"
    BY <1>8 DEF FreeStored, Finish, Goto, Types, BufInv, BufTypes, FinalDir
  <2> QED
    BY <1>6, <2>1 DEF Moved, MovePc
<1> QED
  BY <1>7, <1>8

\* Each step of move_thread_to_final() leaves every file whole in one of the two
\* directories.
LEMMA MoveMoved ==
  ASSUME Types, Types', NEW t \in Thread, ThreadInv(t), Moved(t), WholeCopies, pc[t] \in MovePc,
         \/ \E f \in FileName : MoveOpen(t, f) \/ OpenFails(t, f)
         \/ MoveCopy(t) \/ MoveRemove(t) \/ RemoveFails(t) \/ ThreadDone(t)
  PROVE  Moved(t)'
<1>1. /\ UNCHANGED <<meta, synced, emitted>> /\ ready[t] /\ ~finished[t] /\ MoveToFinal
  BY DEF MoveOpen, OpenFails, MoveCopy, MoveRemove, RemoveFails, ThreadDone, metaVars, history, ThreadInv, Phase,
         MovePc, ReadyPc, Moved
<1>2. \A f, x : Good(t, f, x)' <=> Good(t, f, x)
  BY <1>1, GoodKept
<1>3. ASSUME NEW f \in FileName, MoveOpen(t, f) PROVE Moved(t)'
  <2>1. /\ pc[t] = "move" /\ f \in left[t] /\ left'[t] = left[t] \ {f} /\ moving'[t] = f /\ pc'[t] = "copy"
        /\ finished' = finished /\ moveErr' = moveErr
    BY <1>3 DEF MoveOpen, At, Goto, Types, BufInv, BufTypes, RestTypes
  <2>2. /\ disk'[t]["final"][f] = Truncated
        /\ \A d \in Dir, g \in FileName : d # "final" \/ g # f => disk'[t][d][g] = disk[t][d][g]
    BY <1>3, PutOpened DEF Types, Put
  <2>3. Truncated.is # "whole"
    BY DEF Truncated, NoFile
  <2> QED
    BY <1>1, <1>2, <2>1, <2>2, <2>3, Names DEF Moved, MovePc
<1>4. ASSUME NEW f \in FileName, OpenFails(t, f) PROVE Moved(t)'
  <2>1. /\ pc[t] = "move" /\ left'[t] = left[t] \ {f} /\ pc' = pc
        /\ finished' = finished /\ moveErr'[t] = TRUE /\ disk' = disk
    BY <1>4 DEF OpenFails, At, Types, RestTypes
  <2> QED
    BY <1>1, <1>2, <2>1 DEF Moved, MovePc
<1>5. CASE MoveCopy(t)
  <2>1. /\ pc[t] = "copy" /\ pc'[t] = "remove" /\ left' = left /\ moving' = moving
        /\ finished' = finished /\ moveErr' = moveErr /\ moving[t] \in FileName
    BY <1>5, PutCopied DEF MoveCopy, At, Goto, Types, BufInv, BufTypes, moveVars
  <2>2. Put(t, "final", moving[t], Copied(disk[t]["work"][moving[t]], "whole"))
    BY <1>5, PutCopied DEF WholeCopies, Types
  <2>3. /\ disk'[t]["final"][moving[t]] = disk[t]["work"][moving[t]]
        /\ \A d \in Dir, g \in FileName : d # "final" \/ g # moving[t] => disk'[t][d][g] = disk[t][d][g]
    BY <2>2 DEF Put, Copied
  <2> QED
    BY <1>1, <1>2, <2>1, <2>3, Names DEF Moved, MovePc
<1>6. CASE MoveRemove(t)
  <2>1. /\ pc[t] = "remove" /\ pc'[t] = "move" /\ left' = left /\ moving[t] \in FileName
        /\ finished' = finished /\ moveErr' = moveErr
    BY <1>6, PutRemoved DEF MoveRemove, At, Goto, Types, BufInv, BufTypes
  <2>2. \A d \in Dir, g \in FileName : d # "work" \/ g # moving[t] => disk'[t][d][g] = disk[t][d][g]
    BY <1>6, PutRemoved DEF Types, Put
  <2> QED
    BY <1>1, <1>2, <2>1, <2>2, Names DEF Moved, MovePc
<1>7. CASE RemoveFails(t)
  <2>1. /\ pc[t] = "remove" /\ pc'[t] = "move" /\ left' = left
        /\ finished' = finished /\ moveErr'[t] = TRUE /\ disk' = disk
    BY <1>7 DEF RemoveFails, At, Goto, Types, BufInv, BufTypes, RestTypes
  <2>2. moving[t] \in FileName
    BY <2>1 DEF Types, RestTypes
  <2> QED
    BY <1>1, <1>2, <2>1, <2>2 DEF Moved, MovePc
<1>8. CASE ThreadDone(t)
  <2>1. /\ pc[t] = "move" /\ pc'[t] = "idle" /\ left[t] = {} /\ moveErr' = moveErr /\ disk' = disk
    BY <1>8 DEF ThreadDone, Finish, At, Goto, Types, BufInv, BufTypes, moveVars
  <2>2. FinalDir = "final"
    BY <1>1 DEF FinalDir
  <2> QED
    BY <1>1, <1>2, <2>1, <2>2 DEF Moved, MovePc
<1> QED
  BY <1>3, <1>4, <1>5, <1>6, <1>7, <1>8

\* So does any other step of the thread.
LEMMA MovedNext ==
  ASSUME Types, Types', NEW t \in Thread, ThreadInv(t), Moved(t), WholeCopies, Step(t) \/ Call(t)
  PROVE  Moved(t)'
<1>1. CASE pc[t] \notin MovePc \union {"store_free"}
  BY <1>1, QuietMoved DEF ThreadInv
<1>2. CASE pc[t] = "store_free"
  <2>1. FreeStored(t)
    <3>1. CASE Step(t)
      BY <1>2, <3>1 DEF Step, CreateProcDir, CleanProcDir, MakeParent, MakeThreadDir, OpenStream, ThreadReady,
             AddFits, AddFlush, WriteSome, WriteEvbuf, EndFlush, AttrStored, MoveOpen, OpenFails,
             MoveCopy, MoveRemove, RemoveFails, ThreadDone, At
    <3>2. CASE Call(t)
      BY <1>2, <3>2 DEF Call, ProcInit, ProcFini, ThreadInit, ThreadFree, EvEmit, JumboEmit, Emit, Flush,
             AttrFlush, AttrSet, SetLate, At
    <3> QED
      BY <3>1, <3>2
  <2> QED
    BY <2>1, FreeMoved
<1>3. CASE pc[t] \in MovePc
  <2>1. \/ \E f \in FileName : MoveOpen(t, f) \/ OpenFails(t, f)
        \/ MoveCopy(t) \/ MoveRemove(t) \/ RemoveFails(t) \/ ThreadDone(t)
    <3>1. CASE Step(t)
      BY <1>3, <3>1 DEF Step, CreateProcDir, CleanProcDir, MakeParent, MakeThreadDir, OpenStream, ThreadReady,
             AddFits, AddFlush, WriteSome, WriteEvbuf, EndFlush, AttrStored, FreeStored, At, MovePc
    <3>2. CASE Call(t)
      BY <1>3, <3>2 DEF Call, ProcInit, ProcFini, ThreadInit, ThreadFree, EvEmit, JumboEmit, Emit, Flush,
             AttrFlush, AttrSet, SetLate, At, MovePc
    <3> QED
      BY <3>1, <3>2
  <2> QED
    BY <1>3, <2>1, MoveMoved
<1> QED
  BY <1>1, <1>2, <1>3

MovedInv == StreamInv /\ \A t \in Thread : Moved(t)

\* The invariant of the move holds at the start.
LEMMA MovedInit == Init => MovedInv
<1> SUFFICES ASSUME Init PROVE MovedInv
  OBVIOUS
<1>1. \A t \in Thread : pc[t] = "idle" /\ ~finished[t]
  BY DEF Init
<1> QED
  BY <1>1, StreamInit DEF MovedInv, Moved, MovePc

\* Every step keeps it.
LEMMA MovedStep == WholeCopies /\ MovedInv /\ [Next]_vars => MovedInv'
<1> SUFFICES ASSUME WholeCopies, MovedInv, [Next]_vars PROVE MovedInv'
  OBVIOUS
<1>1. StreamInv /\ StreamInv' /\ Types /\ Types'
  BY StreamNext DEF MovedInv, StreamInv
<1>2. CASE UNCHANGED vars \/ Crash
  BY <1>1, <1>2, IdleThreads, ThreadInvKept DEF StreamInv, MovedInv
<1>3. ASSUME NEW t \in Thread, Step(t) \/ Call(t) PROVE MovedInv'
  <2>1. Moved(t)'
    BY <1>1, <1>3, MovedNext DEF StreamInv, MovedInv
  <2>2. ASSUME NEW u \in Thread, u # t PROVE Moved(u)'
    BY <1>1, <1>3, <2>2, OthersKept, ThreadInvKept DEF StreamInv, MovedInv
  <2> QED
    BY <1>1, <2>1, <2>2 DEF MovedInv
<1> QED
  BY <1>2, <1>3 DEF Next

\* After ovni_thread_free() returns with no error, the directory of the trace
\* holds the complete metadata and the stream, with every event of a program
\* that called ovni_flush() after its last event, if no fwrite() was short.
THEOREM FreedSafe == ASSUME WholeCopies PROVE Spec => []FreedComplete
<1>1. MovedInv => FreedComplete
  BY Names DEF MovedInv, Moved, Good, FreedComplete
<1>2. MovedInv /\ [Next]_vars => MovedInv'
  BY MovedStep
<1> QED
  BY <1>1, <1>2, MovedInit, PTL DEF Spec

-----------------------------------------------------------------------------
(* What is on disk is never lost.                                          *)

\* Prefixes of streams.
LEMMA PrefixSelf ==
  ASSUME NEW s \in Seq(Event)
  PROVE  IsPrefix(s, s) /\ IsPrefix(<<>>, s)
<1>1. Len(s) \in Nat
  BY LenProperties
<1>2. SubSeq(<<>>, 1, 0) = <<>> /\ SubSeq(s, 1, 0) = <<>>
  BY SubSeqEmpty
<1> QED
  BY <1>1, <1>2 DEF IsPrefix

\* A sequence is a prefix of any that continues it.
LEMMA PrefixConcat ==
  ASSUME NEW s \in Seq(Event), NEW r \in Seq(Event)
  PROVE  IsPrefix(s, s \o r)
<1>1. /\ s \o r \in Seq(Event) /\ Len(s \o r) = Len(s) + Len(r) /\ Len(s) \in Nat /\ Len(r) \in Nat
  BY ConcatProperties, LenProperties
<1>2. CASE Len(s) = 0
  <2>1. SubSeq(s, 1, 0) = <<>> /\ SubSeq(s \o r, 1, 0) = <<>>
    BY SubSeqEmpty
  <2> QED
    BY <1>1, <1>2, <2>1 DEF IsPrefix
<1>3. CASE Len(s) # 0
  <2>1. 1 \in 1..Len(s) /\ Len(s) \in 1..Len(s)
    BY <1>1, <1>3
  <2>2. SubSeq(s \o r, 1, Len(s)) = SubSeq(s, 1, Len(s))
    BY <2>1, SubSeqOfConcat1
  <2> QED
    BY <1>1, <2>2 DEF IsPrefix
<1> QED
  BY <1>2, <1>3

\* What is on disk is a sequence of events.
LEMMA ContentType ==
  ASSUME NEW t \in Thread, Types
  PROVE  Content(t) \in Seq(Event)
<1>1. disk[t]["work"]["obs"] \in File /\ disk[t]["final"]["obs"] \in File
  BY Names DEF Types, RestTypes
<1>2. <<>> \in Seq(Event)
  OBVIOUS
<1> QED
  BY <1>1, <1>2 DEF Content, File

\* What one step of a thread does to its own files.
LEMMA StreamStep ==
  ASSUME Types, Types', NEW t \in Thread, ThreadInv(t), Moved(t), WholeCopies, Step(t) \/ Call(t)
  PROVE  IsPrefix(Content(t), Content(t)')
<1>0. Content(t) \in Seq(Event)
  BY ContentType
<1>1. ASSUME \A d \in Dir : disk'[t][d]["obs"] = disk[t][d]["obs"]
      PROVE  IsPrefix(Content(t), Content(t)')
  <2>1. Content(t)' = Content(t)
    BY <1>1, Names DEF Content
  <2> QED
    BY <1>0, <2>1, PrefixSelf
<1>2. CASE UNCHANGED disk
  BY <1>1, <1>2
<1>3. CASE ThreadReady(t) \/ AttrStored(t) \/ FreeStored(t)
  BY <1>1, <1>3, PutMeta, Names DEF Put, Types
<1>4. CASE ThreadFree(t) \/ AttrFlush(t)
  BY <1>1, <1>4, PutTruncated, Names DEF Put, Types
<1>5. CASE OpenStream(t)
  <2>1. pc[t] = "open"
    BY <1>5 DEF OpenStream, At
  <2>2. disk[t]["work"]["obs"] = NoFile /\ disk[t]["final"]["obs"] = NoFile
    BY <2>1, Names DEF ThreadInv, Phase, Files, InitPc
  <2>3. Content(t) = <<>>
    BY <2>2 DEF Content, NoFile
  <2>4. disk'[t]["work"]["obs"] = [NoFile EXCEPT !.is = "whole"]
    BY <1>5, PutStream DEF Types
  <2>5. Content(t)' = <<>>
    BY <2>4 DEF Content, NoFile
  <2>6. <<>> \in Seq(Event)
    OBVIOUS
  <2> QED
    BY <2>3, <2>5, <2>6, PrefixSelf
<1>6. CASE WriteSome(t)
  <2>1. PICK n \in 1..(Len(evbuf[t]) - wrote[t]) : WriteEvbuf(t, n)
    BY <1>6 DEF WriteSome
  <2> DEFINE m == SubSeq(evbuf[t], wrote[t] + 1, wrote[t] + n)
             x == [disk[t]["work"]["obs"] EXCEPT !.ev = @ \o m]
  <2>2. m \in Seq(Event)
    <3>1. evbuf[t] \in Seq(Event) /\ wrote[t] \in Nat /\ Len(evbuf[t]) \in Nat
      BY SeqTypes, LenProperties
    <3>2. \A i \in (wrote[t] + 1)..(wrote[t] + n) : evbuf[t][i] \in Event
      BY <3>1, ElementOfSeq
    <3> QED
      BY <3>1, <3>2, SubSeqProperties
  <2>3. Put(t, "work", "obs", x)
    BY <2>1, PutEvents DEF Types
  <2> HIDE DEF m
  <2>4. disk[t]["work"]["obs"] \in File
    BY Names DEF Types, RestTypes
  <2>5. x.ev = Ob(t) \o m /\ x.is = disk[t]["work"]["obs"].is
    BY <2>4 DEF File, Ob
  <2> HIDE DEF x
  <2>6. pc[t] = "write"
    BY <2>1 DEF WriteEvbuf, At
  <2>7. disk[t]["work"]["obs"].is = "whole"
    BY <2>6 DEF ThreadInv, Phase, Files, Live, ReadyPc, MovePc
  <2>8. disk'[t]["work"]["obs"] = x
    BY <2>3 DEF Put
  <2>9. Content(t) = Ob(t) /\ Content(t)' = Ob(t) \o m
    BY <2>5, <2>7, <2>8 DEF Content, Ob
  <2> QED
    BY <1>0, <2>2, <2>9, PrefixConcat
<1>7. CASE \E f \in FileName : MoveOpen(t, f)
  <2>1. PICK f \in FileName : MoveOpen(t, f)
    BY <1>7
  <2>2. /\ disk'[t]["work"]["obs"] = disk[t]["work"]["obs"]
        /\ f = "json" => disk'[t]["final"]["obs"] = disk[t]["final"]["obs"]
    BY <2>1, PutOpened, Names DEF Put, Types
  <2>3. CASE f = "obs"
    <3>1. pc[t] = "move" /\ f \in left[t]
      BY <2>1 DEF MoveOpen, At
    <3>2. disk[t]["work"]["obs"].is = "whole"
      BY <2>3, <3>1 DEF Moved, MovePc, Good
    <3>3. Content(t)' = Content(t)
      BY <2>2, <3>2 DEF Content
    <3> QED
      BY <1>0, <3>3, PrefixSelf
  <2>4. CASE f = "json"
    BY <1>1, <2>2, <2>4, Names
  <2> QED
    BY <2>3, <2>4, Names
<1>8. CASE MoveCopy(t)
  <2>1. pc[t] = "copy" /\ moving[t] \in FileName
    BY <1>8, PutCopied DEF MoveCopy, At, Types
  <2>2. /\ disk'[t]["work"]["obs"] = disk[t]["work"]["obs"]
        /\ moving[t] = "json" => disk'[t]["final"]["obs"] = disk[t]["final"]["obs"]
    BY <1>8, PutCopied, Names DEF Put, Types
  <2>3. CASE moving[t] = "obs"
    <3>1. disk[t]["work"]["obs"].is = "whole"
      BY <2>1, <2>3 DEF Moved, MovePc, Good
    <3>2. Content(t)' = Content(t)
      BY <2>2, <3>1 DEF Content
    <3> QED
      BY <1>0, <3>2, PrefixSelf
  <2>4. CASE moving[t] = "json"
    BY <1>1, <2>2, <2>4, Names
  <2> QED
    BY <2>1, <2>3, <2>4, Names
<1>9. CASE MoveRemove(t)
  <2>1. pc[t] = "remove" /\ moving[t] \in FileName
    BY <1>9, PutRemoved DEF MoveRemove, At, Types
  <2>2. /\ disk'[t]["final"]["obs"] = disk[t]["final"]["obs"]
        /\ moving[t] = "json" => disk'[t]["work"]["obs"] = disk[t]["work"]["obs"]
        /\ moving[t] = "obs" => disk'[t]["work"]["obs"] = NoFile
    BY <1>9, PutRemoved, Names DEF Put, Types
  <2>3. CASE moving[t] = "obs"
    <3>1. disk[t]["work"]["obs"].is = "whole" /\ disk[t]["final"]["obs"] = disk[t]["work"]["obs"]
      BY <2>1, <2>3 DEF Moved, MovePc, Good
    <3>2. Content(t)' = Content(t)
      BY <2>2, <2>3, <3>1 DEF Content, NoFile
    <3> QED
      BY <1>0, <3>2, PrefixSelf
  <2>4. CASE moving[t] = "json"
    BY <1>1, <2>2, <2>4, Names
  <2> QED
    BY <2>1, <2>3, <2>4, Names
<1> QED
  BY <1>2, <1>3, <1>4, <1>5, <1>6, <1>7, <1>8, <1>9, DiskSteps

\* What a thread wrote to disk stays on disk, through the move and a crash.
THEOREM StreamSafe == ASSUME WholeCopies PROVE Spec => StreamKept
<1>1. MovedInv /\ [Next]_vars => [\A t \in Thread : IsPrefix(Content(t), Content(t)')]_vars
  <2> SUFFICES ASSUME MovedInv, Next, NEW t \in Thread PROVE IsPrefix(Content(t), Content(t)')
    OBVIOUS
  <2>1. StreamInv /\ StreamInv' /\ Types /\ Types'
    BY StreamNext DEF MovedInv, StreamInv
  <2>2. Content(t) \in Seq(Event)
    BY <2>1, ContentType
  <2>3. ASSUME disk'[t] = disk[t] PROVE IsPrefix(Content(t), Content(t)')
    <3>1. Content(t)' = Content(t)
      BY <2>3 DEF Content
    <3> QED
      BY <2>2, <3>1, PrefixSelf
  <2>4. CASE Crash
    BY <2>3, <2>4, IdleThreads
  <2>5. ASSUME NEW u \in Thread, Step(u) \/ Call(u) PROVE IsPrefix(Content(t), Content(t)')
    <3>1. CASE u = t
      BY <2>1, <2>5, <3>1, StreamStep DEF MovedInv, StreamInv
    <3>2. CASE u # t
      BY <2>1, <2>3, <2>5, <3>2, OthersKept
    <3> QED
      BY <3>1, <3>2
  <2> QED
    BY <2>4, <2>5 DEF Next
<1>2. MovedInv /\ [Next]_vars => MovedInv'
  BY MovedStep
<1> QED
  BY <1>1, <1>2, MovedInit, PTL DEF Spec, StreamKept

\* The attributes on disk depend on the metadata files only.
LEMMA SavedKept ==
  ASSUME NEW t \in Thread,
         \A d \in Dir : disk[t][d]["json"].is = "whole" =>
            \E e \in Dir : /\ disk'[t][e]["json"].is = "whole"
                           /\ disk[t][d]["json"].keys \subseteq disk'[t][e]["json"].keys
  PROVE  Saved(t) \subseteq Saved(t)'
  BY DEF Saved

\* No step loses attributes that are on disk.
LEMMA AttrsStep ==
  ASSUME Types, Types', NEW t \in Thread, ThreadInv(t), Moved(t), WholeCopies, Step(t) \/ Call(t),
         pc'[t] \notin {"store_attr", "store_free"}
  PROVE  Saved(t) \subseteq Saved(t)'
<1>1. ASSUME \A d \in Dir : disk'[t][d]["json"] = disk[t][d]["json"]
      PROVE  Saved(t) \subseteq Saved(t)'
  BY <1>1, SavedKept
<1>2. CASE UNCHANGED disk
  BY <1>1, <1>2
<1>3. CASE ThreadReady(t) \/ AttrStored(t) \/ FreeStored(t)
  <2>1. pc[t] \in {"store_init", "store_attr", "store_free"}
    BY <1>3 DEF ThreadReady, AttrStored, FreeStored, At
  <2>2. disk[t]["work"]["json"] = Truncated
    BY <2>1 DEF ThreadInv, Files
  <2>3. \A d \in Dir : d # "work" => disk'[t][d]["json"] = disk[t][d]["json"]
    BY <1>3, PutMeta, Names DEF Put, Types
  <2>4. Truncated.is # "whole"
    BY DEF Truncated, NoFile
  <2> QED
    BY <2>2, <2>3, <2>4, SavedKept
<1>4. CASE ThreadFree(t) \/ AttrFlush(t)
  <2>1. pc'[t] \in {"store_attr", "store_free"}
    BY <1>4 DEF ThreadFree, AttrFlush, Truncate, Goto, Types, BufInv, BufTypes
  <2> QED
    BY <2>1
<1>5. CASE OpenStream(t)
  <2>1. pc[t] = "open"
    BY <1>5 DEF OpenStream, At
  <2>2. \A d \in Dir : disk[t][d]["json"] = NoFile
    BY <2>1, Names DEF ThreadInv, Phase, Files, InitPc
  <2>3. NoFile.is # "whole"
    BY DEF NoFile
  <2> QED
    BY <2>2, <2>3, SavedKept
<1>6. CASE WriteSome(t)
  <2>1. PICK n \in 1..(Len(evbuf[t]) - wrote[t]) : WriteEvbuf(t, n)
    BY <1>6 DEF WriteSome
  <2> DEFINE x == [disk[t]["work"]["obs"] EXCEPT !.ev = @ \o SubSeq(evbuf[t], wrote[t] + 1, wrote[t] + n)]
  <2>2. Put(t, "work", "obs", x)
    BY <2>1, PutEvents DEF Types
  <2> HIDE DEF x
  <2> QED
    BY <1>1, <2>2, Names DEF Put
<1>7. CASE \E f \in FileName : MoveOpen(t, f)
  <2>1. PICK f \in FileName : MoveOpen(t, f)
    BY <1>7
  <2>2. pc[t] = "move" /\ f \in left[t]
    BY <2>1 DEF MoveOpen, At
  <2>3. \A d \in Dir : d # "final" \/ f # "json" => disk'[t][d]["json"] = disk[t][d]["json"]
    BY <2>1, PutOpened, Names DEF Put, Types
  <2>4. f = "json" => disk[t]["final"]["json"].is # "whole"
    BY <2>2, Names DEF Moved, MovePc
  <2> QED
    BY <2>3, <2>4, SavedKept
<1>8. CASE MoveCopy(t)
  <2>1. pc[t] = "copy" /\ moving[t] \in FileName
    BY <1>8, PutCopied DEF MoveCopy, At, Types
  <2>2. \A d \in Dir : d # "final" \/ moving[t] # "json" => disk'[t][d]["json"] = disk[t][d]["json"]
    BY <1>8, PutCopied, Names DEF Put, Types
  <2>3. moving[t] = "json" => disk[t]["final"]["json"].is # "whole"
    BY <2>1, Names DEF Moved, MovePc
  <2> QED
    BY <2>2, <2>3, SavedKept
<1>9. CASE MoveRemove(t)
  <2>1. pc[t] = "remove" /\ moving[t] \in FileName
    BY <1>9, PutRemoved DEF MoveRemove, At, Types
  <2>2. \A d \in Dir : d # "work" \/ moving[t] # "json" => disk'[t][d]["json"] = disk[t][d]["json"]
    BY <1>9, PutRemoved, Names DEF Put, Types
  <2>3. moving[t] = "json" => disk[t]["final"]["json"] = disk[t]["work"]["json"]
    BY <2>1, Names DEF Moved, MovePc
  <2> QED
    BY <2>2, <2>3, SavedKept, Names
<1> QED
  BY <1>2, <1>3, <1>4, <1>5, <1>6, <1>7, <1>8, <1>9, DiskSteps

\* The attributes that are on disk are lost only where the thread itself
\* truncates its metadata to store it again, if no fwrite() was short.
THEOREM AttrsSafe == ASSUME WholeCopies PROVE Spec => AttrsKept
<1>1. MovedInv /\ [Next]_vars =>
        [\A t \in Thread : pc'[t] \notin {"store_attr", "store_free"} => Saved(t) \subseteq Saved(t)']_vars
  <2> SUFFICES ASSUME MovedInv, Next, NEW t \in Thread, pc'[t] \notin {"store_attr", "store_free"}
               PROVE  Saved(t) \subseteq Saved(t)'
    OBVIOUS
  <2>1. StreamInv /\ StreamInv' /\ Types /\ Types'
    BY StreamNext DEF MovedInv, StreamInv
  <2>2. ASSUME disk'[t] = disk[t] PROVE Saved(t) \subseteq Saved(t)'
    BY <2>2, SavedKept
  <2>3. CASE Crash
    BY <2>2, <2>3, IdleThreads
  <2>4. ASSUME NEW u \in Thread, Step(u) \/ Call(u) PROVE Saved(t) \subseteq Saved(t)'
    <3>1. CASE u = t
      BY <2>1, <2>4, <3>1, AttrsStep DEF MovedInv, StreamInv
    <3>2. CASE u # t
      BY <2>1, <2>2, <2>4, <3>2, OthersKept
    <3> QED
      BY <3>1, <3>2
  <2> QED
    BY <2>3, <2>4 DEF Next
<1>2. MovedInv /\ [Next]_vars => MovedInv'
  BY MovedStep
<1> QED
  BY <1>1, <1>2, MovedInit, PTL DEF Spec, AttrsKept

-----------------------------------------------------------------------------
(* The order of the clocks and of the flushes.                             *)

\* Behind the largest event there is room for the event that opens a flush, and
\* both events of a flush fit in the buffer.  The code checks neither: an event of
\* ovni_ev_jumbo_emit() may take all of the buffer.
Room ==
    /\ 2 * HeaderSize < MaxEvBuf
    /\ \A s \in EvSizes \union JumboSizes : s < MaxEvBuf => s + HeaderSize < MaxEvBuf

Spare(s) == \A i \in 1..Len(s) : s[i].size + HeaderSize < MaxEvBuf
Before(s, c) == \A i \in 1..Len(s) : s[i].clock <= c

\* With room for the opening event of a flush, no flush starts before the
\* events of the one before are in the buffer.
InOrder(t) ==
    /\ Live(t) =>
        /\ Ordered(Stream(t))
        /\ FlushPlace(Stream(t), Len(Stream(t))) % 2 = 0
        /\ Before(Stream(t), now[t])
        /\ pc[t] = "write" => /\ todo[t] = <<>>
                              /\ Before(Stream(t), held[t].t0) /\ held[t].t0 <= now[t]
                              /\ Spare(held[t].ev)
        /\ pc[t] = "add" => /\ Spare(todo[t])
                            /\ Len(todo[t]) = 1 \/ (Len(todo[t]) = 2 /\ Fits(t, Head(todo[t])))
    /\ ~Live(t) => Ordered(Ob(t))

\* The place of the next event among the events of flushes.
LEMMA FlushPlaceStep ==
  ASSUME NEW s \in Seq(Event), NEW i \in Nat
  PROVE  /\ FlushPlace(s, i) \in Nat
         /\ FlushPlace(s, i + 1) = FlushPlace(s, i) + (IF s[i + 1].kind # "user" THEN 1 ELSE 0)
<1> DEFINE S == {j \in 1..(i + 1) : s[j].kind # "user"}
<1>1. FlushPlace(s, i) = Cardinality({j \in 1..i : j \in S})
  <2>1. {j \in 1..i : s[j].kind # "user"} = {j \in 1..i : j \in S}
    OBVIOUS
  <2> QED
    BY <2>1 DEF FlushPlace
<1>2. FlushPlace(s, i + 1) = Cardinality({j \in 1..(i + 1) : j \in S})
  <2>1. {j \in 1..(i + 1) : s[j].kind # "user"} = {j \in 1..(i + 1) : j \in S}
    OBVIOUS
  <2> QED
    BY <2>1 DEF FlushPlace
<1>3. i + 1 \in S <=> s[i + 1].kind # "user"
  OBVIOUS
<1> HIDE DEF S
<1>4. Cardinality({j \in 1..i : j \in S}) \in Nat
  BY CountStep
<1>5. Cardinality({j \in 1..(i + 1) : j \in S})
        = Cardinality({j \in 1..i : j \in S}) + (IF i + 1 \in S THEN 1 ELSE 0)
  BY CountStep
<1> QED
  BY <1>1, <1>2, <1>3, <1>4, <1>5

\* Events after a place do not change where its flush began.
LEMMA FlushPlacePrefix ==
  ASSUME NEW s \in Seq(Event), NEW f \in Seq(Event), NEW i \in 0..Len(s)
  PROVE  FlushPlace(s \o f, i) = FlushPlace(s, i)
<1>1. \A j \in 1..i : (s \o f)[j] = s[j]
  BY ConcatProperties, LenProperties
<1>2. {j \in 1..i : (s \o f)[j].kind # "user"} = {j \in 1..i : s[j].kind # "user"}
  BY <1>1
<1> QED
  BY <1>2 DEF FlushPlace

\* A stream that is cut is ordered as far as it goes.
LEMMA OrderedPrefix ==
  ASSUME NEW s \in Seq(Event), NEW f \in Seq(Event), Ordered(s \o f)
  PROVE  Ordered(s)
<1> DEFINE r == s \o f
<1>1. /\ Len(r) = Len(s) + Len(f) /\ Len(s) \in Nat /\ Len(f) \in Nat
      /\ \A i \in 1..Len(s) : r[i] = s[i]
  BY ConcatProperties, LenProperties
<1>2. \A i \in 0..Len(s) : FlushPlace(r, i) = FlushPlace(s, i)
  BY FlushPlacePrefix
<1> HIDE DEF r
<1>3. Ordered(r)
  BY DEF r
<1>4. ASSUME NEW i \in 1..Len(s) - 1 PROVE s[i].clock <= s[i + 1].clock
  <2>1. i \in 1..Len(r) - 1 /\ i \in 1..Len(s) /\ i + 1 \in 1..Len(s)
    BY <1>1
  <2> QED
    BY <1>1, <1>3, <2>1 DEF Ordered
<1>5. ASSUME NEW i \in 1..Len(s), s[i].kind # "user"
      PROVE  s[i].kind = (IF FlushPlace(s, i) % 2 = 1 THEN "flush[" ELSE "flush]")
  <2>1. i \in 1..Len(r) /\ r[i] = s[i] /\ FlushPlace(r, i) = FlushPlace(s, i)
    BY <1>1, <1>2
  <2> QED
    BY <1>3, <1>5, <2>1 DEF Ordered
<1> QED
  BY <1>4, <1>5 DEF Ordered

\* One more event, not before the others and of the kind that comes next.
LEMMA OrderedAppend ==
  ASSUME NEW s \in Seq(Event), NEW e \in Event, Ordered(s), Before(s, e.clock),
         e.kind # "user" =>
            e.kind = (IF FlushPlace(s, Len(s)) % 2 = 0 THEN "flush[" ELSE "flush]")
  PROVE  /\ Ordered(s \o <<e>>) /\ s \o <<e>> \in Seq(Event)
         /\ FlushPlace(s \o <<e>>, Len(s \o <<e>>))
              = FlushPlace(s, Len(s)) + (IF e.kind # "user" THEN 1 ELSE 0)
         /\ FlushPlace(s, Len(s)) \in Nat
         /\ \A c \in Int : e.clock <= c => Before(s \o <<e>>, c)
<1> DEFINE r == s \o <<e>>
<1>1. /\ r \in Seq(Event) /\ Len(r) = Len(s) + 1 /\ Len(s) \in Nat
      /\ \A i \in 1..Len(s) : r[i] = s[i]
      /\ r[Len(s) + 1] = e
  BY ConcatProperties, LenProperties
<1>2. \A i \in 0..Len(s) : FlushPlace(r, i) = FlushPlace(s, i)
  <2>1. <<e>> \in Seq(Event)
    OBVIOUS
  <2> QED
    BY <2>1, FlushPlacePrefix
<1> HIDE DEF r
<1> DEFINE n == FlushPlace(s, Len(s))
<1>3. /\ n \in Nat /\ FlushPlace(r, Len(s)) = n
      /\ FlushPlace(r, Len(s) + 1) = n + (IF e.kind # "user" THEN 1 ELSE 0)
  <2>1. FlushPlace(r, Len(s)) = n /\ FlushPlace(s, Len(s)) \in Nat
    BY <1>1, <1>2, FlushPlaceStep
  <2>2. FlushPlace(r, Len(s) + 1) = FlushPlace(r, Len(s)) + (IF r[Len(s) + 1].kind # "user" THEN 1 ELSE 0)
    BY <1>1, FlushPlaceStep
  <2> QED
    BY <1>1, <2>1, <2>2
<1> HIDE DEF n
<1>4. e.kind # "user" => e.kind = (IF n % 2 = 0 THEN "flush[" ELSE "flush]")
  BY DEF n
<1>5. ASSUME NEW i \in 1..Len(r) - 1 PROVE r[i].clock <= r[i + 1].clock
  <2>1. CASE i = Len(s)
    BY <1>1, <1>5, <2>1 DEF Before
  <2>2. CASE i # Len(s)
    <3>1. i \in 1..Len(s) - 1 /\ i \in 1..Len(s) /\ i + 1 \in 1..Len(s)
      BY <1>1, <2>2
    <3> QED
      BY <1>1, <3>1 DEF Ordered
  <2> QED
    BY <2>1, <2>2
<1>6. ASSUME NEW i \in 1..Len(r), r[i].kind # "user"
      PROVE  r[i].kind = (IF FlushPlace(r, i) % 2 = 1 THEN "flush[" ELSE "flush]")
  <2>1. CASE i = Len(s) + 1
    <3>1. r[i] = e /\ FlushPlace(r, i) = n + 1 /\ e.kind # "user"
      BY <1>1, <1>3, <1>6, <2>1
    <3>2. (n + 1) % 2 = 1 <=> n % 2 = 0
      BY <1>3
    <3> QED
      BY <1>4, <3>1, <3>2
  <2>2. CASE i \in 1..Len(s)
    <3>1. r[i] = s[i] /\ FlushPlace(r, i) = FlushPlace(s, i)
      BY <1>1, <1>2, <2>2
    <3> QED
      BY <1>6, <2>2, <3>1 DEF Ordered
  <2> QED
    BY <1>1, <2>1, <2>2
<1>7. ASSUME NEW c \in Int, e.clock <= c PROVE Before(r, c)
  <2> SUFFICES ASSUME NEW i \in 1..Len(r) PROVE r[i].clock <= c
    BY DEF Before
  <2>1. e.clock \in Int
    BY DEF Event
  <2>2. CASE i = Len(s) + 1
    BY <1>1, <1>7, <2>2
  <2>3. CASE i \in 1..Len(s)
    <3>1. r[i] = s[i] /\ s[i] \in Event
      BY <1>1, <2>3, ElementOfSeq
    <3>2. r[i].clock <= e.clock /\ r[i].clock \in Int
      BY <2>3, <3>1 DEF Before, Event
    <3> QED
      BY <1>7, <2>1, <3>2
  <2> QED
    BY <1>1, <2>2, <2>3
<1>8. Ordered(r)
  BY <1>5, <1>6 DEF Ordered
<1> QED
  BY <1>1, <1>3, <1>7, <1>8 DEF r, n

\* An empty stream is in order.
LEMMA OrderedEmpty ==
  Ordered(<<>>) /\ FlushPlace(<<>>, Len(<<>>)) = 0 /\ \A c : Before(<<>>, c)
<1>1. {j \in 1..0 : <<>>[j].kind # "user"} = {}
  OBVIOUS
<1>2. FlushPlace(<<>>, 0) = 0
  BY <1>1, FS_EmptySet DEF FlushPlace
<1> QED
  BY <1>2 DEF Ordered, Before

\* The clock never goes back.
LEMMA ClockAfter ==
  ASSUME Types, NEW t \in Thread, NEW c \in ClockNow(t)
  PROVE  c \in 0..MaxClock /\ now[t] \in 0..MaxClock /\ now[t] <= c
<1>1. now[t] \in 0..MaxClock /\ MaxClock \in Nat
  BY RtAssumption DEF Types, BufInv, BufTypes
<1> QED
  BY <1>1 DEF ClockNow

\* Events before a clock are before any later one.
LEMMA BeforeLater ==
  ASSUME NEW s \in Seq(Event), NEW c \in Int, NEW d \in Int, Before(s, c), c <= d
  PROVE  Before(s, d)
<1> SUFFICES ASSUME NEW i \in 1..Len(s) PROVE s[i].clock <= d
  BY DEF Before
<1>1. s[i] \in Event
  BY ElementOfSeq
<1>2. s[i].clock \in Int /\ s[i].clock <= c
  BY <1>1, RtAssumption DEF Event, Before
<1> QED
  BY <1>2

\* The stream of a thread is a sequence of events.
LEMMA StreamType ==
  ASSUME Types, NEW t \in Thread, Stage(t)
  PROVE  Stream(t) \in Seq(Event) /\ Written(t) \in Seq(Event)
<1> DEFINE b == SubSeq(evbuf[t], wrote[t] + 1, Len(evbuf[t]))
<1>1. b \in Seq(Event)
  <2>1. evbuf[t] \in Seq(Event) /\ wrote[t] \in Nat /\ Len(evbuf[t]) \in Nat
    BY SeqTypes, LenProperties
  <2>2. \A i \in (wrote[t] + 1)..Len(evbuf[t]) : evbuf[t][i] \in Event
    BY <2>1, ElementOfSeq
  <2> QED
    BY <2>1, <2>2, SubSeqProperties
<1>2. Written(t) = Ob(t) \o b
  BY DEF Written, Ob
<1> HIDE DEF b
<1>3. Ob(t) \in Seq(Event) /\ held[t].ev \in Seq(Event) /\ todo[t] \in Seq(Event)
  BY SeqTypes
<1>4. Written(t) \in Seq(Event)
  BY <1>1, <1>2, <1>3, ConcatProperties
<1>5. Written(t) \o held[t].ev \in Seq(Event)
  BY <1>3, <1>4, ConcatProperties
<1> QED
  BY <1>3, <1>4, <1>5, ConcatProperties DEF Stream

\* The event of the program is not before the others, and leaves room for a flush.
LEMMA EmitOrder ==
  ASSUME Types, Types', NEW t \in Thread, Phase(t), Events(t), InOrder(t),
         NEW s \in 1..MaxEvBuf - 1, s + HeaderSize < MaxEvBuf, NEW c \in ClockNow(t), Emit(t, s, c)
  PROVE  InOrder(t)'
<1> DEFINE e == Ev("user", c, s)
           w == Stream(t)
<1>1. c \in 0..MaxClock /\ now[t] \in 0..MaxClock /\ now[t] <= c
  BY ClockAfter
<1>2. e \in Event /\ e.kind = "user" /\ e.clock = c /\ e.size = s
  BY <1>1, EventType DEF Kind, Ev
<1>3. /\ pc[t] = "idle" /\ ready[t] /\ pc'[t] = "add" /\ ready'[t] /\ now'[t] = c /\ todo'[t] = <<e>>
  BY DEF Emit, At, Goto, Types, BufInv, BufTypes
<1>4. w \in Seq(Event) /\ Stream(t)' = w \o <<e>>
  BY EmitEvents
<1>5. Live(t) /\ Live(t)'
  BY <1>3 DEF Live, MovePc
<1>6. Ordered(w) /\ FlushPlace(w, Len(w)) % 2 = 0 /\ Before(w, now[t])
  BY <1>5 DEF InOrder
<1> HIDE DEF w, e
<1>7. Before(w, c)
  BY <1>1, <1>4, <1>6, BeforeLater
<1>8. /\ Ordered(w \o <<e>>) /\ FlushPlace(w \o <<e>>, Len(w \o <<e>>)) = FlushPlace(w, Len(w)) + 0
      /\ FlushPlace(w, Len(w)) \in Nat /\ Before(w \o <<e>>, c)
  BY <1>1, <1>2, <1>4, <1>6, <1>7, OrderedAppend
<1>9. Spare(<<e>>) /\ Len(<<e>>) = 1
  BY <1>2 DEF Spare
<1>10. FlushPlace(w \o <<e>>, Len(w \o <<e>>)) % 2 = 0
  BY <1>6, <1>8
<1> QED
  BY <1>3, <1>4, <1>5, <1>8, <1>9, <1>10 DEF InOrder, Spare

\* The event that waits is added at the end of the buffer.
LEMMA AddFitsOrder ==
  ASSUME Types, Types', NEW t \in Thread, Phase(t), Events(t), InOrder(t), AddFits(t)
  PROVE  InOrder(t)'
<1> DEFINE q == todo[t]
<1>1. /\ pc[t] = "add" /\ q # <<>> /\ ready[t] /\ pc'[t] = (IF Tail(q) = <<>> THEN "idle" ELSE "add")
      /\ ready'[t] /\ todo'[t] = Tail(q) /\ now' = now
  BY DEF AddFits, At, Goto, Types, BufInv, BufTypes, Phase, ReadyPc
<1>2. Stream(t)' = Stream(t)
  BY AddFitsEvents
<1>3. Live(t) /\ Live(t)'
  BY <1>1 DEF Live, MovePc
<1>4. q \in Seq(Event)
  BY SeqTypes
<1>5. Spare(q) /\ Len(q) \in {1, 2}
  BY <1>1, <1>3 DEF InOrder
<1>6. /\ Len(q) \in Nat \ {0} /\ Len(Tail(q)) = Len(q) - 1 /\ Tail(q) \in Seq(Event)
      /\ \A i \in 1..Len(Tail(q)) : Tail(q)[i] = q[i + 1]
  BY <1>1, <1>4, HeadTailProperties, EmptySeq
<1>7. Spare(Tail(q))
  BY <1>5, <1>6 DEF Spare
<1>8. Tail(q) # <<>> => Len(Tail(q)) = 1
  BY <1>5, <1>6, EmptySeq
<1> QED
  BY <1>1, <1>2, <1>3, <1>7, <1>8 DEF InOrder

\* Only the event of a call of the program may not fit: none waits behind it.
LEMMA AddFlushOrder ==
  ASSUME Types, Types', NEW t \in Thread, Phase(t), Events(t), InOrder(t), AddFlush(t)
  PROVE  InOrder(t)'
<1> DEFINE q == todo[t]
<1>1. PICK c \in ClockNow(t) : BeginFlush(t, <<Head(q)>>, c)
  BY DEF AddFlush
<1>2. /\ pc[t] = "add" /\ q # <<>> /\ ready[t] /\ pc'[t] = "write" /\ ready'[t] /\ ~Fits(t, Head(q))
      /\ todo'[t] = Tail(q) /\ now'[t] = c /\ held'[t] = [ev |-> <<Head(q)>>, t0 |-> c]
  BY <1>1 DEF AddFlush, BeginFlush, At, Goto, Types, BufInv, BufTypes, Phase, ReadyPc
<1>3. Stream(t)' = Stream(t)
  BY AddFlushEvents
<1>4. Live(t) /\ Live(t)'
  BY <1>2 DEF Live, MovePc
<1>5. q \in Seq(Event)
  BY SeqTypes
<1>6. Spare(q) /\ Len(q) = 1
  BY <1>2, <1>4 DEF InOrder
<1>7. Tail(q) = <<>> /\ Head(q) = q[1]
  <2>1. Len(Tail(q)) = Len(q) - 1 /\ Tail(q) \in Seq(Event)
    BY <1>2, <1>5, HeadTailProperties
  <2>2. Len(Tail(q)) = 0
    BY <1>6, <2>1
  <2>3. Tail(q) = <<>>
    BY <2>1, <2>2, EmptySeq
  <2>4. Head(q) = q[1]
    OBVIOUS
  <2> QED
    BY <2>3, <2>4
<1>8. Spare(<<Head(q)>>)
  BY <1>6, <1>7 DEF Spare
<1>9. c \in 0..MaxClock /\ now[t] \in 0..MaxClock /\ now[t] <= c
  BY ClockAfter
<1>10. Before(Stream(t), c)
  <2>1. Stream(t) \in Seq(Event)
    BY StreamType DEF Events
  <2>2. Before(Stream(t), now[t])
    BY <1>4 DEF InOrder
  <2> QED
    BY <1>9, <2>1, <2>2, BeforeLater
<1> QED
  BY <1>2, <1>3, <1>4, <1>7, <1>8, <1>9, <1>10 DEF InOrder

\* ovni_flush() reads the clock of its start.
LEMMA FlushOrder ==
  ASSUME Types, Types', NEW t \in Thread, Phase(t), Events(t), InOrder(t), Flush(t)
  PROVE  InOrder(t)'
<1>1. PICK c \in ClockNow(t) : BeginFlush(t, <<>>, c)
  BY DEF Flush
<1>2. /\ pc[t] = "idle" /\ ready[t] /\ pc'[t] = "write" /\ ready'[t]
      /\ todo'[t] = todo[t] /\ now'[t] = c /\ held'[t] = [ev |-> <<>>, t0 |-> c]
  BY <1>1 DEF Flush, BeginFlush, At, Goto, Types, BufInv, BufTypes
<1>3. Stream(t)' = Stream(t)
  BY FlushEventsKept
<1>4. Live(t) /\ Live(t)' /\ todo[t] = <<>> /\ Spare(<<>>)
  BY <1>2 DEF Live, MovePc, Events, Stage, Spare
<1>5. c \in 0..MaxClock /\ now[t] \in 0..MaxClock /\ now[t] <= c
  BY ClockAfter
<1>6. Before(Stream(t), c)
  <2>1. Stream(t) \in Seq(Event)
    BY StreamType DEF Events
  <2>2. Before(Stream(t), now[t])
    BY <1>4 DEF InOrder
  <2> QED
    BY <1>5, <2>1, <2>2, BeforeLater
<1> QED
  BY <1>2, <1>3, <1>4, <1>5, <1>6 DEF InOrder

\* write_evbuffer() keeps the order.
LEMMA WriteOrder ==
  ASSUME Types, Types', NEW t \in Thread, Phase(t), Events(t), InOrder(t), WriteSome(t)
  PROVE  InOrder(t)'
<1>1. pc[t] = "write" /\ pc' = pc /\ ready' = ready /\ todo' = todo /\ held' = held /\ now' = now
  BY DEF WriteSome, WriteEvbuf, At
<1>2. Stream(t)' = Stream(t)
  BY WriteEvents
<1>3. Live(t) /\ Live(t)'
  BY <1>1 DEF Live, MovePc, Phase, ReadyPc
<1> QED
  BY <1>1, <1>2, <1>3 DEF InOrder

\* The two events of the flush go to the end of the stream, with the clocks
\* of its start and its end, and the first one fits.
LEMMA EndFlushOrder ==
  ASSUME Room, Types, Types', NEW t \in Thread, Phase(t), Events(t), InOrder(t), EndFlush(t)
  PROVE  InOrder(t)'
<1> DEFINE s == Stream(t)
           z == held[t].t0
           a == Ob(t) \o held[t].ev
<1>1. /\ pc[t] = "write" /\ ready[t] /\ pc'[t] = "add" /\ ready'[t]
      /\ evlen'[t] = (IF held[t].ev = <<>> THEN 0 ELSE held[t].ev[1].size)
  BY DEF EndFlush, At, Goto, Types, BufInv, BufTypes, Phase, ReadyPc
<1>2. Live(t) /\ Live(t)'
  BY <1>1 DEF Live, MovePc
<1>3. /\ todo[t] = <<>> /\ Ordered(s) /\ FlushPlace(s, Len(s)) % 2 = 0
      /\ Before(s, z) /\ z <= now[t] /\ Spare(held[t].ev)
  BY <1>1, <1>2 DEF InOrder
<1>4. PICK c \in ClockNow(t) :
         /\ s = a \o todo[t] /\ now' = [now EXCEPT ![t] = c]
         /\ todo'[t] = FlushEvents(t, c) \o todo[t] /\ Stream(t)' = a \o (FlushEvents(t, c) \o todo[t])
  BY EndFlushEvents
<1>5. c \in 0..MaxClock /\ now[t] \in 0..MaxClock /\ now[t] <= c /\ now'[t] = c /\ z \in 0..MaxClock
  BY <1>4, ClockAfter, SeqTypes DEF Types, BufInv, BufTypes
<1> DEFINE e == Ev("flush[", z, HeaderSize)
           f == Ev("flush]", c, HeaderSize)
<1>6. /\ e \in Event /\ e.kind = "flush[" /\ e.clock = z /\ e.size = HeaderSize
      /\ f \in Event /\ f.kind = "flush]" /\ f.clock = c /\ f.size = HeaderSize
  BY <1>5, EventType, RtAssumption DEF Kind, Ev
<1>7. FlushEvents(t, c) = <<e, f>>
  BY DEF FlushEvents
<1>8. held[t].ev \in Seq(Event) /\ Ob(t) \in Seq(Event) /\ a \in Seq(Event)
  <2>1. held[t].ev \in Seq(Event) /\ Ob(t) \in Seq(Event)
    BY SeqTypes
  <2> QED
    BY <2>1, ConcatProperties
<1> HIDE DEF s, a, z, e, f
<1>9. <<e, f>> \in Seq(Event) /\ <<e>> \in Seq(Event) /\ <<f>> \in Seq(Event)
  BY <1>6
<1>10. <<e, f>> \o <<>> = <<e, f>> /\ a \o <<>> = a /\ <<e, f>> = <<e>> \o <<f>>
  <2>1. <<e, f>> = <<e>> \o <<f>>
    <3>1. Len(<<e>> \o <<f>>) = 2 /\ (<<e>> \o <<f>>)[1] = e /\ (<<e>> \o <<f>>)[2] = f
      BY <1>9, ConcatProperties
    <3>2. <<e>> \o <<f>> \in Seq(Event)
      BY <1>9, ConcatProperties
    <3>3. Len(<<e, f>>) = 2 /\ <<e, f>>[1] = e /\ <<e, f>>[2] = f
      OBVIOUS
    <3>4. \A i \in 1..2 : i = 1 \/ i = 2
      OBVIOUS
    <3> QED
      BY <1>9, <3>1, <3>2, <3>3, <3>4, SeqEqual
  <2> QED
    BY <1>8, <1>9, <2>1, ConcatEmptySeq
<1>11. s = a /\ todo'[t] = <<e, f>> /\ Stream(t)' = a \o (<<e>> \o <<f>>)
  BY <1>3, <1>4, <1>7, <1>10
<1>12. a \o (<<e>> \o <<f>>) = (a \o <<e>>) \o <<f>>
  BY <1>8, <1>9, EvAssoc, Zenon
<1> DEFINE r == a \o <<e>>
<1>13. /\ r \in Seq(Event) /\ Ordered(r) /\ Before(r, c)
       /\ FlushPlace(a, Len(a)) \in Nat /\ FlushPlace(r, Len(r)) = FlushPlace(a, Len(a)) + 1
  <2>1. Ordered(a) /\ FlushPlace(a, Len(a)) % 2 = 0 /\ Before(a, e.clock) /\ e.clock <= c /\ c \in Int
    BY <1>3, <1>5, <1>6, <1>11
  <2> QED
    BY <1>6, <1>8, <2>1, OrderedAppend
<1>14. FlushPlace(a, Len(a)) % 2 = 0
  BY <1>3, <1>11
<1>15. FlushPlace(r, Len(r)) % 2 # 0
  BY <1>13, <1>14
<1> HIDE DEF r
<1>16. /\ Ordered(r \o <<f>>) /\ Before(r \o <<f>>, c)
       /\ FlushPlace(r, Len(r)) \in Nat
       /\ FlushPlace(r \o <<f>>, Len(r \o <<f>>)) = FlushPlace(r, Len(r)) + 1
  <2>1. Before(r, f.clock) /\ f.clock <= c /\ c \in Int
    BY <1>5, <1>6, <1>13
  <2> QED
    BY <1>6, <1>13, <1>15, <2>1, OrderedAppend
<1>17. FlushPlace(r \o <<f>>, Len(r \o <<f>>)) % 2 = 0
  BY <1>13, <1>14, <1>16
<1>18. Stream(t)' = r \o <<f>>
  BY <1>11, <1>12, Zenon DEF r
<1>19. Spare(<<e, f>>) /\ Len(<<e, f>>) = 2 /\ Head(<<e, f>>) = e
  <2>1. HeaderSize + HeaderSize < MaxEvBuf
    BY RtAssumption DEF Room
  <2> QED
    BY <1>6, <2>1 DEF Spare
<1>20. evlen'[t] + HeaderSize < MaxEvBuf
  <2>1. CASE held[t].ev = <<>>
    BY <1>1, <2>1, RtAssumption
  <2>2. CASE held[t].ev # <<>>
    <3>1. 1 \in 1..Len(held[t].ev)
      BY <1>8, <2>2, EmptySeq, LenProperties
    <3> QED
      BY <1>1, <1>3, <2>2, <3>1 DEF Spare
  <2> QED
    BY <2>1, <2>2
<1>21. /\ Ordered(Stream(t)') /\ FlushPlace(Stream(t)', Len(Stream(t)')) % 2 = 0 /\ Before(Stream(t)', now'[t])
  BY <1>5, <1>16, <1>17, <1>18
<1>22. Spare(todo'[t]) /\ Len(todo'[t]) = 2 /\ Fits(t, Head(todo[t]))'
  BY <1>6, <1>11, <1>19, <1>20 DEF Fits
<1> QED
  BY <1>1, <1>2, <1>21, <1>22 DEF InOrder

\* A stream begins in order.
LEMMA ReadyOrder ==
  ASSUME Types, Types', NEW t \in Thread, Phase(t), Events(t), Files(t), ThreadReady(t)
  PROVE  InOrder(t)'
<1>1. pc'[t] = "idle" /\ ready'[t]
  BY DEF ThreadReady, Goto, Types, BufInv, BufTypes, ProcInv
<1>2. Stream(t)' = <<>>
  BY ReadyEvents
<1>3. Live(t)'
  BY <1>1 DEF Live, MovePc
<1>4. Ordered(<<>>) /\ FlushPlace(<<>>, Len(<<>>)) % 2 = 0 /\ Before(<<>>, now'[t])
  BY OrderedEmpty
<1> QED
  BY <1>1, <1>2, <1>3, <1>4 DEF InOrder

\* The file has a part of the stream.
LEMMA FileOrder ==
  ASSUME Types, NEW t \in Thread, Stage(t), InOrder(t)
  PROVE  Ordered(Ob(t)) /\ Ordered(Written(t))
<1> DEFINE b == SubSeq(evbuf[t], wrote[t] + 1, Len(evbuf[t]))
           w == Written(t)
           a == Ob(t)
           h == held[t].ev
           q == todo[t]
<1>1. /\ Written(t) \in Seq(Event) /\ Ob(t) \in Seq(Event) /\ held[t].ev \in Seq(Event)
      /\ todo[t] \in Seq(Event)
  BY StreamType, SeqTypes
<1>2. b \in Seq(Event)
  <2>1. evbuf[t] \in Seq(Event) /\ wrote[t] \in Nat /\ Len(evbuf[t]) \in Nat
    BY SeqTypes, LenProperties
  <2>2. \A i \in (wrote[t] + 1)..Len(evbuf[t]) : evbuf[t][i] \in Event
    BY <2>1, ElementOfSeq
  <2> QED
    BY <2>1, <2>2, SubSeqProperties
<1>3. w = a \o b /\ Stream(t) = (w \o h) \o q
  BY DEF Written, Ob, Stream
<1>4. CASE Live(t)
  <2>1. Ordered((w \o h) \o q)
    BY <1>3, <1>4 DEF InOrder
  <2> HIDE DEF w, a, b, h, q
  <2>2. w \in Seq(Event) /\ a \in Seq(Event) /\ h \in Seq(Event) /\ q \in Seq(Event) /\ w \o h \in Seq(Event)
    <3>1. w \in Seq(Event) /\ a \in Seq(Event) /\ h \in Seq(Event) /\ q \in Seq(Event)
      BY <1>1 DEF w, a, h, q
    <3> QED
      BY <3>1, ConcatProperties
  <2>3. Ordered(w \o h)
    BY <2>1, <2>2, OrderedPrefix
  <2>4. Ordered(w)
    BY <2>2, <2>3, OrderedPrefix
  <2>5. Ordered(a \o b)
    BY <1>3, <2>4
  <2>6. Ordered(a)
    BY <1>2, <2>2, <2>5, OrderedPrefix
  <2> QED
    BY <2>4, <2>6 DEF w, a
<1>5. CASE ~Live(t)
  <2>1. Ordered(a) /\ evbuf[t] = <<>> /\ wrote[t] + 1 > Len(evbuf[t])
    <3>1. evbuf[t] = <<>> /\ Len(<<>>) = 0 /\ wrote[t] \in Nat
      BY <1>5, SeqTypes DEF Stage
    <3> QED
      BY <1>5, <3>1 DEF InOrder
  <2>2. b = <<>>
    BY <2>1, SubSeqEmpty, SeqTypes, LenProperties
  <2>3. a \o <<>> = a
    BY <1>1, ConcatEmptySeq
  <2> QED
    BY <1>3, <2>1, <2>2, <2>3
<1> QED
  BY <1>4, <1>5

\* The rest neither adds an event nor reads the clock.
LEMMA QuietOrder ==
  ASSUME Types, NEW t \in Thread, Stage(t), InOrder(t),
         Live(t)' => Live(t) /\ Stream(t)' = Stream(t),
         pc'[t] \notin {"add", "write"}, now'[t] = now[t],
         ~Live(t)' => Ob(t)' = Ob(t) \/ Ob(t)' = <<>>
  PROVE  InOrder(t)'
<1>1. Ordered(Ob(t)) /\ Ordered(<<>>)
  BY FileOrder, OrderedEmpty
<1> QED
  BY <1>1 DEF InOrder

\* The calls that add no events keep the order.
LEMMA RestOrder ==
  ASSUME Types, NEW t \in Thread, Phase(t), Events(t), InOrder(t),
         \/ CreateProcDir(t) \/ CleanProcDir(t) \/ MakeParent(t) \/ MakeThreadDir(t) \/ ProcInit(t)
         \/ ProcFini(t) \/ ThreadInit(t) \/ (\E k \in Key : AttrSet(t, k)) \/ (\E k \in Late : SetLate(t, k))
         \/ AttrStored(t) \/ ThreadFree(t) \/ AttrFlush(t) \/ OpenStream(t) \/ FreeStored(t)
         \/ (\E f \in FileName : MoveOpen(t, f) \/ OpenFails(t, f))
         \/ MoveCopy(t) \/ MoveRemove(t) \/ RemoveFails(t) \/ ThreadDone(t)
  PROVE  InOrder(t)'
<1>1. Stage(t) /\ (Live(t)' => Live(t) /\ Stream(t)' = Stream(t))
  BY IdleEvents, StoreEvents, OpenEvents, FreeEvents, MoveEvents DEF Events
<1>2. pc'[t] \notin {"add", "write"} /\ now' = now
  BY DEF CreateProcDir, CleanProcDir, MakeParent, MakeThreadDir, ProcInit, ProcFini, ThreadInit, AttrSet,
         SetLate, AttrStored, ThreadFree, AttrFlush, Truncate, OpenStream, FreeStored, MoveOpen, OpenFails,
         MoveCopy, MoveRemove, RemoveFails, ThreadDone, Finish, At, Goto, bufVars, Types, BufInv, BufTypes
<1>3. Ob(t)' = Ob(t) \/ Ob(t)' = <<>>
  <2>1. CASE disk' = disk
    BY <2>1 DEF Ob
  <2>2. CASE AttrStored(t) \/ ThreadFree(t) \/ AttrFlush(t) \/ FreeStored(t)
    BY <2>2, PutMeta, PutTruncated, Names DEF Put, Types, Ob
  <2>3. CASE OpenStream(t)
    BY <2>3, PutStream DEF Ob, NoFile, Types
  <2>4. CASE \E f \in FileName : MoveOpen(t, f)
    BY <2>4, PutOpened, Names DEF Put, Types, Ob
  <2>5. CASE MoveCopy(t)
    BY <2>5, PutCopied, Names DEF Put, Types, Ob
  <2>6. CASE MoveRemove(t)
    BY <2>6, PutRemoved, Names DEF Put, Types, Ob, NoFile
  <2>7. CASE \/ CreateProcDir(t) \/ CleanProcDir(t) \/ MakeParent(t) \/ MakeThreadDir(t) \/ ProcInit(t)
             \/ ProcFini(t) \/ ThreadInit(t) \/ (\E k \in Key : AttrSet(t, k)) \/ (\E k \in Late : SetLate(t, k))
             \/ (\E f \in FileName : OpenFails(t, f)) \/ RemoveFails(t) \/ ThreadDone(t)
    BY <2>1, <2>7 DEF CreateProcDir, CleanProcDir, MakeParent, MakeThreadDir, ProcInit, ProcFini, ThreadInit,
         AttrSet, SetLate, OpenFails, RemoveFails, ThreadDone
  <2> QED
    BY <2>2, <2>3, <2>4, <2>5, <2>6, <2>7
<1> QED
  BY <1>1, <1>2, <1>3, QuietOrder

\* Every step of a thread keeps the order of its stream.
LEMMA OrderStep ==
  ASSUME Room, Types, Types', NEW t \in Thread, ThreadInv(t), InOrder(t), Step(t) \/ Call(t)
  PROVE  InOrder(t)'
<1>1. Phase(t) /\ Events(t) /\ Files(t)
  BY DEF ThreadInv, Events
<1>2. CASE EvEmit(t)
  <2>1. PICK s \in EvSizes, c \in ClockNow(t) : Emit(t, s, c)
    BY <1>2 DEF EvEmit
  <2>2. s \in 1..MaxEvBuf - 1 /\ s + HeaderSize < MaxEvBuf
    BY RtAssumption DEF Room
  <2> QED
    BY <1>1, <2>1, <2>2, EmitOrder
<1>3. CASE JumboEmit(t)
  <2>1. PICK s \in JumboSizes, c \in ClockNow(t) : s < MaxEvBuf /\ Emit(t, s, c)
    BY <1>3 DEF JumboEmit
  <2>2. s \in 1..MaxEvBuf - 1 /\ s + HeaderSize < MaxEvBuf
    BY <2>1, RtAssumption DEF Room
  <2> QED
    BY <1>1, <2>1, <2>2, EmitOrder
<1>4. CASE Step(t)
  BY <1>1, <1>4, AddFitsOrder, AddFlushOrder, WriteOrder, EndFlushOrder, ReadyOrder, RestOrder DEF Step
<1>5. CASE Call(t)
  BY <1>1, <1>2, <1>3, <1>5, FlushOrder, RestOrder DEF Call
<1> QED
  BY <1>4, <1>5

\* Only the clock and the buffer of the thread that runs move.
LEMMA ClockOthers ==
  ASSUME Types, NEW t \in Thread, Step(t) \/ Call(t), NEW u \in Thread, u # t
  PROVE  now'[u] = now[u] /\ evlen'[u] = evlen[u]
<1>1. now \in [Thread -> 0..MaxClock] /\ evlen \in [Thread -> Nat]
  BY DEF Types, BufInv, BufTypes
<1>2. CASE Step(t)
  BY <1>1, <1>2 DEF Step, bufVars, CreateProcDir, CleanProcDir, MakeParent, MakeThreadDir, OpenStream,
              ThreadReady, AddFits, AddFlush, BeginFlush, WriteSome, WriteEvbuf, EndFlush, AttrStored,
              FreeStored, MoveOpen, OpenFails, MoveCopy, MoveRemove, RemoveFails, ThreadDone
<1>3. CASE Call(t)
  BY <1>1, <1>3 DEF Call, bufVars, ProcInit, ProcFini, ThreadInit, ThreadFree, EvEmit, JumboEmit, Emit,
              Flush, BeginFlush, AttrFlush, AttrSet, SetLate
<1> QED
  BY <1>2, <1>3

\* A thread that does nothing keeps its order.
LEMMA OrderKept ==
  ASSUME NEW u \in Thread, InOrder(u),
         pc'[u] = pc[u], ready'[u] = ready[u], evbuf'[u] = evbuf[u], wrote'[u] = wrote[u],
         held'[u] = held[u], todo'[u] = todo[u], disk'[u] = disk[u], now'[u] = now[u], evlen'[u] = evlen[u]
  PROVE  InOrder(u)'
<1>1. Live(u)' = Live(u) /\ Ob(u)' = Ob(u)
  BY DEF Live, Ob
<1>2. Stream(u)' = Stream(u)
  BY DEF Stream, Written
<1>3. Fits(u, Head(todo[u]))' = Fits(u, Head(todo[u]))
  BY DEF Fits
<1> QED
  BY <1>1, <1>2, <1>3 DEF InOrder

OrderInv == StreamInv /\ \A t \in Thread : InOrder(t)

\* The invariant of the order holds at the start.
LEMMA OrderInit == Init => OrderInv
<1> SUFFICES ASSUME Init PROVE OrderInv
  OBVIOUS
<1>1. StreamInv
  BY StreamInit
<1>2. ASSUME NEW t \in Thread PROVE InOrder(t)
  <2>1. ~Live(t) /\ disk[t]["work"]["obs"] = NoFile
    BY Names DEF Init, Live
  <2>2. Ob(t) = <<>>
    BY <2>1 DEF Ob, NoFile
  <2> QED
    BY <2>1, <2>2, OrderedEmpty DEF InOrder
<1> QED
  BY <1>1, <1>2 DEF OrderInv

\* Every step keeps it.
LEMMA OrderNext == Room /\ OrderInv /\ [Next]_vars => OrderInv'
<1> SUFFICES ASSUME Room, OrderInv, [Next]_vars PROVE OrderInv'
  OBVIOUS
<1>1. Types /\ Types' /\ StreamInv'
  BY TypesNext, StreamNext DEF OrderInv, StreamInv
<1>2. CASE UNCHANGED vars \/ Crash
  <2>1. now' = now /\ evlen' = evlen
    BY <1>2 DEF vars, bufVars, Crash
  <2> QED
    BY <1>1, <1>2, <2>1, IdleThreads, OrderKept DEF OrderInv
<1>3. ASSUME NEW t \in Thread, Step(t) \/ Call(t) PROVE OrderInv'
  <2>1. InOrder(t)'
    BY <1>1, <1>3, OrderStep DEF OrderInv, StreamInv
  <2>2. ASSUME NEW u \in Thread, u # t PROVE InOrder(u)'
    BY <1>1, <1>3, <2>2, OthersKept, ClockOthers, OrderKept DEF OrderInv
  <2> QED
    BY <1>1, <2>1, <2>2 DEF OrderInv
<1> QED
  BY <1>2, <1>3 DEF Next

\* With room for the event that opens a flush behind any event, the clocks of
\* a stream never go back and its flushes do not nest.
THEOREM OrderSafe ==
  ASSUME Room
  PROVE  Spec => []StreamOrdered
<1>1. OrderInv => StreamOrdered
  BY FileOrder DEF OrderInv, StreamInv, ThreadInv, StreamOrdered
<1>2. OrderInv /\ [Next]_vars => OrderInv'
  BY OrderNext
<1> QED
  BY <1>1, <1>2, OrderInit, PTL DEF Spec
=============================================================================

--------------------------------- MODULE Rt ---------------------------------
(***************************************************************************)
(* The runtime library that the traced program links with                  *)
(* (src/src/rt/ovni.c).  Every thread fills its own buffer with events and *)
(* writes it to its own stream.obs; the threads share the process state,   *)
(* rproc.st, and the directory of the process.                             *)
(*                                                                         *)
(* A thread of the program calls the functions of the library in any       *)
(* order.  A call is a sequence of steps: other threads, and a crash, come *)
(* between any two of them.  A call that the library rejects with die()    *)
(* aborts the process; that has the effect of Crash, which is always       *)
(* enabled, so the actions below only state when a call is accepted.       *)
(*                                                                         *)
(* ovni_ev_add() flushes when the event does not fit and then calls itself *)
(* with the two events of the flush.  todo[t] is the stack of those calls. *)
(* Sizes are in any unit in which the header of an event is HeaderSize.    *)
(***************************************************************************)
EXTENDS Integers, Sequences, SequencesExt, FiniteSets

CONSTANTS
    Thread,         \* the threads of the process
    MaxEvBuf,       \* OVNI_MAX_EV_BUF
    HeaderSize,     \* the size of an event without payload: OF[ and OF]
    EvSizes,        \* the sizes of the events of ovni_ev_emit()
    JumboSizes,     \* the sizes of the events of ovni_ev_jumbo_emit()
    Key,            \* the attributes that the program may define
    Late,           \* "rank" and "cpus", added when the thread ends
    MoveToFinal,    \* OVNI_TMPDIR is set
    CopyOutcomes,   \* what fwrite() may do when a file is moved
    MaxEvents,      \* bound: a longer stream takes no more user events
    MaxClock        \* bound: the clock stops there

ASSUME RtAssumption ==
    /\ MaxEvBuf \in Nat
    /\ HeaderSize \in 1..MaxEvBuf - 1
    /\ EvSizes \subseteq HeaderSize..MaxEvBuf - 1
    /\ JumboSizes \subseteq {n \in Nat : n >= HeaderSize}
    /\ MoveToFinal \in BOOLEAN
    /\ CopyOutcomes \subseteq {"whole", "short"}
    /\ MaxEvents \in Nat
    /\ MaxClock \in Nat

VARIABLES
    alive,      \* the process has neither aborted nor crashed
    st,         \* rproc.st
    pc,         \* where each thread is in the library, "idle" outside
    ready,      \* rthread.ready
    finished,   \* rthread.finished
    evbuf,      \* rthread.evbuf, up to evlen
    evlen,      \* rthread.evlen
    wrote,      \* the events of evbuf that write_evbuf() has written
    held,       \* the event that waits for the flush, if any, and t0
    todo,       \* the events that the nested calls have still to add
    now,        \* the last clock that the thread has read
    meta,       \* rthread.meta: ovni.finished and the attributes defined
    late,       \* the rank and the CPUs, out of meta until the thread ends
    left,       \* the files that move_thdir_to_final() has still to see
    moving,     \* the file being moved
    moveErr,    \* a file could not be moved (ret)
    disk,       \* the files of each thread in each directory
    procDir,    \* rproc.procdir exists
    thDir,      \* rthread.thdir exists
    emitted,    \* history: the events emitted by the program
    synced      \* history: no event was emitted since the last ovni_flush()

bufVars  == <<evbuf, evlen, wrote, held, todo, now>>
metaVars == <<meta, late>>
moveVars == <<left, moving, moveErr>>
history  == <<emitted, synced>>
vars == <<alive, st, pc, ready, finished, bufVars, metaVars, moveVars,
          disk, procDir, thDir, history>>

Kind == {"user", "flush[", "flush]"}
Event == [kind : Kind, clock : 0..MaxClock, size : 1..MaxEvBuf - 1]
Ev(k, c, s) == [kind |-> k, clock |-> c, size |-> s]

Require == "require"            \* ovni.require.ovni
AllKeys == Key \union Late \union {Require}

FileName == {"obs", "json"}
Dir == {"work", "final"}        \* thdir and thdir_final
File == [is : {"none", "part", "whole"}, ev : Seq(Event),
         fin : BOOLEAN, keys : SUBSET AllKeys]
NoFile == [is |-> "none", ev |-> <<>>, fin |-> FALSE, keys |-> {}]
Truncated == [NoFile EXCEPT !.is = "part"]

NoFlush == [ev |-> <<>>, t0 |-> 0]

StorePc == {"store_init", "store_attr", "store_free"}
InitPc == {"mkparent", "mkdir", "open", "store_init"}
Pc == {"idle", "mkproc", "add", "write", "move", "copy", "remove", "rmproc"} \union StorePc \union InitPc

Init ==
    /\ alive = TRUE
    /\ st = "uninit"
    /\ pc = [t \in Thread |-> "idle"]
    /\ ready = [t \in Thread |-> FALSE]
    /\ finished = [t \in Thread |-> FALSE]
    /\ evbuf = [t \in Thread |-> <<>>]
    /\ evlen = [t \in Thread |-> 0]
    /\ wrote = [t \in Thread |-> 0]
    /\ held = [t \in Thread |-> NoFlush]
    /\ todo = [t \in Thread |-> <<>>]
    /\ now = [t \in Thread |-> 0]
    /\ meta = [t \in Thread |-> [fin |-> FALSE, keys |-> {}]]
    /\ late = [t \in Thread |-> {}]
    /\ left = [t \in Thread |-> {}]
    /\ moving = [t \in Thread |-> "none"]
    /\ moveErr = [t \in Thread |-> FALSE]
    /\ disk = [t \in Thread |-> [d \in Dir |-> [f \in FileName |-> NoFile]]]
    /\ procDir = FALSE
    /\ thDir = [t \in Thread |-> FALSE]
    /\ emitted = [t \in Thread |-> <<>>]
    /\ synced = [t \in Thread |-> TRUE]

At(t, p) == alive /\ pc[t] = p
Goto(t, p) == pc' = [pc EXCEPT ![t] = p]

\* ovni_clock_now(): the clock never goes back.
ClockNow(t) == now[t]..(IF now[t] < MaxClock THEN now[t] + 1 ELSE MaxClock)

-----------------------------------------------------------------------------
(* The process.                                                            *)

\* Mutant: the state is not compared before it is exchanged.
ProcInitNoCompare(t) ==
    /\ At(t, "idle")
    /\ st' = "init"
    /\ Goto(t, "mkproc")
    /\ UNCHANGED <<alive, ready, finished, bufVars, metaVars, moveVars, disk,
                   procDir, thDir, history>>

ProcInit(t) ==
    /\ At(t, "idle")
    /\ st = "uninit"
    /\ st' = "init"
    /\ Goto(t, "mkproc")
    /\ UNCHANGED <<alive, ready, finished, bufVars, metaVars, moveVars, disk,
                   procDir, thDir, history>>

\* create_proc_dir() and the store of ST_READY.
CreateProcDir(t) ==
    /\ At(t, "mkproc")
    /\ procDir' = TRUE
    /\ st' = "ready"
    /\ Goto(t, "idle")
    /\ UNCHANGED <<alive, ready, finished, bufVars, metaVars, moveVars, disk,
                   thDir, history>>

ProcFini(t) ==
    /\ At(t, "idle")
    /\ st = "ready"
    /\ st' = "gone"
    /\ Goto(t, IF MoveToFinal THEN "rmproc" ELSE "idle")
    /\ UNCHANGED <<alive, ready, finished, bufVars, metaVars, moveVars, disk,
                   procDir, thDir, history>>

\* Mutant: the directory is removed with what it holds.
EmptyAlways == TRUE

\* rmdir() removes the directory of the process only when it is empty.
Empty == \A u \in Thread : ~thDir[u]

CleanProcDir(t) ==
    /\ At(t, "rmproc")
    /\ procDir' = (procDir /\ ~Empty)
    /\ Goto(t, "idle")
    /\ UNCHANGED <<alive, st, ready, finished, bufVars, metaVars, moveVars,
                   disk, thDir, history>>

-----------------------------------------------------------------------------
(* The metadata on disk.  json_serialize_to_file_pretty() opens the file   *)
(* for writing, which truncates it, and then writes it.                    *)

Truncate(t, p) ==
    /\ disk' = [disk EXCEPT ![t]["work"]["json"] = Truncated]
    /\ Goto(t, p)

MetaFile(t) == [is |-> "whole", ev |-> <<>>,
                fin |-> meta[t].fin, keys |-> meta[t].keys]

StoreMetadata(t) ==
    disk' = [disk EXCEPT ![t]["work"]["json"] = MetaFile(t)]

-----------------------------------------------------------------------------
(* ovni_thread_init().                                                     *)

ThreadInit(t) ==
    /\ At(t, "idle")
    /\ ~ready[t]
    /\ ~finished[t]
    /\ st = "ready"
    /\ Goto(t, "mkparent")
    /\ UNCHANGED <<alive, st, ready, finished, bufVars, metaVars, moveVars,
                   disk, procDir, thDir, history>>

\* mkpath() creates the missing directories from the top: the directory of
\* the process may be gone by now.
MakeParent(t) ==
    /\ At(t, "mkparent")
    /\ procDir' = TRUE
    /\ Goto(t, "mkdir")
    /\ UNCHANGED <<alive, st, ready, finished, bufVars, metaVars, moveVars,
                   disk, thDir, history>>

\* Without the parent mkdir() fails and the library aborts.
MakeThreadDir(t) ==
    /\ At(t, "mkdir")
    /\ procDir
    /\ thDir' = [thDir EXCEPT ![t] = TRUE]
    /\ Goto(t, "open")
    /\ UNCHANGED <<alive, st, ready, finished, bufVars, metaVars, moveVars,
                   disk, procDir, history>>

\* create_trace_stream(), write_stream_header() and the start of
\* thread_metadata_init().  The header is no event: it leaves evlen at 0.
OpenStream(t) ==
    /\ At(t, "open")
    /\ disk' = [disk EXCEPT ![t]["work"] =
                   [obs |-> [NoFile EXCEPT !.is = "whole"],
                    json |-> Truncated]]
    /\ Goto(t, "store_init")
    /\ UNCHANGED <<alive, st, ready, finished, bufVars, metaVars, moveVars,
                   procDir, thDir, history>>

\* The model "ovni" is required in memory only, after the store.
ThreadReady(t) ==
    /\ At(t, "store_init")
    /\ StoreMetadata(t)
    /\ meta' = [meta EXCEPT ![t].keys = @ \union {Require}]
    /\ ready' = [ready EXCEPT ![t] = TRUE]
    /\ Goto(t, "idle")
    /\ UNCHANGED <<alive, st, finished, bufVars, late, moveVars, procDir,
                   thDir, history>>

-----------------------------------------------------------------------------
(* The events.  The program reads the clock and emits an event with it.    *)

\* The events in the file and in the buffer.
Written(t) == disk[t]["work"]["obs"].ev
                 \o SubSeq(evbuf[t], wrote[t] + 1, Len(evbuf[t]))
Bounded(t) == Len(Written(t)) < MaxEvents

Emit(t, size, c) ==
    /\ At(t, "idle")
    /\ ready[t]
    /\ Bounded(t)
    /\ todo' = [todo EXCEPT ![t] = <<Ev("user", c, size)>>]
    /\ now' = [now EXCEPT ![t] = c]
    /\ emitted' = [emitted EXCEPT ![t] = Append(@, Ev("user", c, size))]
    /\ synced' = [synced EXCEPT ![t] = FALSE]
    /\ Goto(t, "add")
    /\ UNCHANGED <<alive, st, ready, finished, evbuf, evlen, wrote, held,
                   metaVars, moveVars, disk, procDir, thDir>>

\* ovni_ev_emit() and the ovni_mark_*() events.
EvEmit(t) ==
    \E s \in EvSizes, c \in ClockNow(t) : Emit(t, s, c)

\* A jumbo event as large as the buffer aborts.
JumboEmit(t) ==
    \E s \in JumboSizes, c \in ClockNow(t) : s < MaxEvBuf /\ Emit(t, s, c)

\* Mutant: the comparison lets the event reach the end of the buffer.
FitsToTheEnd(t, e) == evlen[t] + e.size <= MaxEvBuf

Fits(t, e) == evlen[t] + e.size < MaxEvBuf

\* ovni_ev_add() of an event that fits.
AddFits(t) ==
    /\ At(t, "add")
    /\ Fits(t, Head(todo[t]))
    /\ evbuf' = [evbuf EXCEPT ![t] = Append(@, Head(todo[t]))]
    /\ evlen' = [evlen EXCEPT ![t] = @ + Head(todo[t]).size]
    /\ todo' = [todo EXCEPT ![t] = Tail(@)]
    /\ Goto(t, IF Tail(todo[t]) = <<>> THEN "idle" ELSE "add")
    /\ UNCHANGED <<alive, st, ready, finished, wrote, held, now, metaVars,
                   moveVars, disk, procDir, thDir, history>>

\* The start of a flush, with the clock t0 and the event that waits for it.
BeginFlush(t, evs, t0) ==
    /\ held' = [held EXCEPT ![t] = [ev |-> evs, t0 |-> t0]]
    /\ now' = [now EXCEPT ![t] = t0]
    /\ Goto(t, "write")

\* ovni_ev_add() of an event that does not fit.
AddFlush(t) ==
    /\ At(t, "add")
    /\ ~Fits(t, Head(todo[t]))
    /\ \E t0 \in ClockNow(t) : BeginFlush(t, <<Head(todo[t])>>, t0)
    /\ todo' = [todo EXCEPT ![t] = Tail(@)]
    /\ UNCHANGED <<alive, st, ready, finished, evbuf, evlen, wrote, metaVars,
                   moveVars, disk, procDir, thDir, history>>

\* ovni_flush(), which no event waits for.
Flush(t) ==
    /\ At(t, "idle")
    /\ ready[t]
    /\ st = "ready"
    /\ Bounded(t)
    /\ \E t0 \in ClockNow(t) : BeginFlush(t, <<>>, t0)
    /\ synced' = [synced EXCEPT ![t] = TRUE]
    /\ UNCHANGED <<alive, st, ready, finished, evbuf, evlen, wrote, todo,
                   metaVars, moveVars, disk, procDir, thDir, emitted>>

\* Mutant: the pointer into the buffer does not advance.
WriteEvbufAgain(t, n) ==
    /\ At(t, "write")
    /\ disk' = [disk EXCEPT ![t]["work"]["obs"].ev = @ \o SubSeq(evbuf[t], 1, n)]
    /\ wrote' = [wrote EXCEPT ![t] = @ + n]
    /\ UNCHANGED <<alive, st, pc, ready, finished, evbuf, evlen, held, todo,
                   now, metaVars, moveVars, procDir, thDir, history>>

\* One write(), which may write less than asked: here, any number of whole
\* events.
WriteEvbuf(t, n) ==
    /\ At(t, "write")
    /\ disk' = [disk EXCEPT ![t]["work"]["obs"].ev =
                   @ \o SubSeq(evbuf[t], wrote[t] + 1, wrote[t] + n)]
    /\ wrote' = [wrote EXCEPT ![t] = @ + n]
    /\ UNCHANGED <<alive, st, pc, ready, finished, evbuf, evlen, held, todo,
                   now, metaVars, moveVars, procDir, thDir, history>>

WriteSome(t) ==
    \E n \in 1..(Len(evbuf[t]) - wrote[t]) : WriteEvbuf(t, n)

\* Mutant: the size of the events of a flush leaves the header out.
FlushEventsNoSize(t, t1) == <<Ev("flush[", held[t].t0, 0), Ev("flush]", t1, 0)>>

\* Mutant: the events of the flush go before the event that did not fit.
EndFlushUserLast(t) ==
    /\ At(t, "write")
    /\ wrote[t] = Len(evbuf[t])
    /\ \E t1 \in ClockNow(t) :
          /\ now' = [now EXCEPT ![t] = t1]
          /\ todo' = [todo EXCEPT ![t] =
                 <<Ev("flush[", held[t].t0, HeaderSize),
                   Ev("flush]", t1, HeaderSize)>> \o held[t].ev \o @]
    /\ evbuf' = [evbuf EXCEPT ![t] = <<>>]
    /\ evlen' = [evlen EXCEPT ![t] = 0]
    /\ wrote' = [wrote EXCEPT ![t] = 0]
    /\ held' = [held EXCEPT ![t] = NoFlush]
    /\ Goto(t, "add")
    /\ UNCHANGED <<alive, st, ready, finished, metaVars, moveVars, disk,
                   procDir, thDir, history>>

\* Mutant: the loop around write() waits for one more event.
EndFlushNever(t) ==
    /\ At(t, "write")
    /\ wrote[t] > Len(evbuf[t])
    /\ UNCHANGED vars

\* The end of a flush: the buffer is empty, the event that did not fit goes
\* first and the events of the flush, with the clocks t0 and t1, follow it.
FlushEvents(t, t1) == <<Ev("flush[", held[t].t0, HeaderSize),
                        Ev("flush]", t1, HeaderSize)>>

EndFlush(t) ==
    /\ At(t, "write")
    /\ wrote[t] = Len(evbuf[t])
    /\ \E t1 \in ClockNow(t) :
          /\ now' = [now EXCEPT ![t] = t1]
          /\ todo' = [todo EXCEPT ![t] = FlushEvents(t, t1) \o @]
    /\ evbuf' = [evbuf EXCEPT ![t] = held[t].ev]
    /\ evlen' = [evlen EXCEPT ![t] =
                    IF held[t].ev = <<>> THEN 0 ELSE held[t].ev[1].size]
    /\ wrote' = [wrote EXCEPT ![t] = 0]
    /\ held' = [held EXCEPT ![t] = NoFlush]
    /\ Goto(t, "add")
    /\ UNCHANGED <<alive, st, ready, finished, metaVars, moveVars, disk,
                   procDir, thDir, history>>

-----------------------------------------------------------------------------
(* The attributes.                                                         *)

\* ovni_attr_set_*() and ovni_thread_require(): in memory.
AttrSet(t, k) ==
    /\ At(t, "idle")
    /\ ready[t]
    /\ meta' = [meta EXCEPT ![t].keys = @ \union {k}]
    /\ UNCHANGED <<alive, st, pc, ready, finished, bufVars, late, moveVars,
                   disk, procDir, thDir, history>>

\* ovni_add_cpu() and ovni_proc_set_rank(): kept out of meta for now.
SetLate(t, k) ==
    /\ At(t, "idle")
    /\ ready[t]
    /\ st = "ready"
    /\ late' = [late EXCEPT ![t] = @ \union {k}]
    /\ UNCHANGED <<alive, st, pc, ready, finished, bufVars, meta, moveVars,
                   disk, procDir, thDir, history>>

AttrFlush(t) ==
    /\ At(t, "idle")
    /\ ready[t]
    /\ Truncate(t, "store_attr")
    /\ UNCHANGED <<alive, st, ready, finished, bufVars, metaVars, moveVars,
                   procDir, thDir, history>>

AttrStored(t) ==
    /\ At(t, "store_attr")
    /\ StoreMetadata(t)
    /\ Goto(t, "idle")
    /\ UNCHANGED <<alive, st, ready, finished, bufVars, metaVars, moveVars,
                   procDir, thDir, history>>

-----------------------------------------------------------------------------
(* ovni_thread_free().  The events still in the buffer are dropped.        *)

ThreadFree(t) ==
    /\ At(t, "idle")
    /\ ready[t]
    /\ meta' = [meta EXCEPT ![t] = [fin |-> TRUE, keys |-> @.keys \union late[t]]]
    /\ Truncate(t, "store_free")
    /\ UNCHANGED <<alive, st, ready, finished, bufVars, late, moveVars,
                   procDir, thDir, history>>

Finish(t) ==
    /\ finished' = [finished EXCEPT ![t] = TRUE]
    /\ ready' = [ready EXCEPT ![t] = FALSE]
    /\ Goto(t, "idle")

\* Mutant: the metadata of the finished thread is not stored.
FreeNotStored(t) ==
    /\ At(t, "store_free")
    /\ evbuf' = [evbuf EXCEPT ![t] = <<>>]
    /\ IF MoveToFinal
       THEN /\ left' = [left EXCEPT ![t] = FileName]
            /\ Goto(t, "move")
            /\ UNCHANGED <<ready, finished>>
       ELSE Finish(t) /\ UNCHANGED left
    /\ UNCHANGED <<alive, st, evlen, wrote, held, todo, now, metaVars, moving,
                   moveErr, disk, procDir, thDir, history>>

FreeStored(t) ==
    /\ At(t, "store_free")
    /\ StoreMetadata(t)
    /\ evbuf' = [evbuf EXCEPT ![t] = <<>>]
    /\ IF MoveToFinal
       THEN /\ left' = [left EXCEPT ![t] = FileName]
            /\ Goto(t, "move")
            /\ UNCHANGED <<ready, finished>>
       ELSE Finish(t) /\ UNCHANGED left
    /\ UNCHANGED <<alive, st, evlen, wrote, held, todo, now, metaVars, moving,
                   moveErr, procDir, thDir, history>>

\* move_thread_to_final() truncates the new file, copies the contents and
\* removes the old one.  readdir() returns the files in any order.
MoveOpen(t, f) ==
    /\ At(t, "move")
    /\ f \in left[t]
    /\ left' = [left EXCEPT ![t] = @ \ {f}]
    /\ moving' = [moving EXCEPT ![t] = f]
    /\ disk' = [disk EXCEPT ![t]["final"][f] = Truncated]
    /\ Goto(t, "copy")
    /\ UNCHANGED <<alive, st, ready, finished, bufVars, metaVars, moveErr,
                   procDir, thDir, history>>

\* fopen() fails: the file stays where it was.
OpenFails(t, f) ==
    /\ At(t, "move")
    /\ f \in left[t]
    /\ left' = [left EXCEPT ![t] = @ \ {f}]
    /\ moveErr' = [moveErr EXCEPT ![t] = TRUE]
    /\ UNCHANGED <<alive, st, pc, ready, finished, bufVars, metaVars, moving,
                   disk, procDir, thDir, history>>

\* Mutant: only the first block of the file is copied.
CopiedOneBlock(f, how) == [f EXCEPT !.ev = <<>>, !.keys = {}]

\* What fwrite() returns is not looked at.
Copied(f, how) == IF how = "whole" THEN f ELSE [f EXCEPT !.is = "part"]

MoveCopy(t) ==
    /\ At(t, "copy")
    /\ \E how \in CopyOutcomes :
          disk' = [disk EXCEPT ![t]["final"][moving[t]] =
                      Copied(disk[t]["work"][moving[t]], how)]
    /\ Goto(t, "remove")
    /\ UNCHANGED <<alive, st, ready, finished, bufVars, metaVars, moveVars,
                   procDir, thDir, history>>

MoveRemove(t) ==
    /\ At(t, "remove")
    /\ disk' = [disk EXCEPT ![t]["work"][moving[t]] = NoFile]
    /\ moving' = [moving EXCEPT ![t] = "none"]
    /\ Goto(t, "move")
    /\ UNCHANGED <<alive, st, ready, finished, bufVars, metaVars, left,
                   moveErr, procDir, thDir, history>>

\* remove() fails: the file is now in both directories.
RemoveFails(t) ==
    /\ At(t, "remove")
    /\ moving' = [moving EXCEPT ![t] = "none"]
    /\ moveErr' = [moveErr EXCEPT ![t] = TRUE]
    /\ Goto(t, "move")
    /\ UNCHANGED <<alive, st, ready, finished, bufVars, metaVars, left, disk,
                   procDir, thDir, history>>

\* try_clean_dir(thdir) removes it only when empty, and the thread is done.
ThreadDone(t) ==
    /\ At(t, "move")
    /\ left[t] = {}
    /\ thDir' = [thDir EXCEPT ![t] =
                    \E f \in FileName : disk[t]["work"][f].is # "none"]
    /\ Finish(t)
    /\ UNCHANGED <<alive, st, bufVars, metaVars, moveVars, disk, procDir,
                   history>>

-----------------------------------------------------------------------------
\* The process is killed, or a call is rejected with die().
Crash ==
    /\ alive
    /\ alive' = FALSE
    /\ UNCHANGED <<st, pc, ready, finished, bufVars, metaVars, moveVars, disk,
                   procDir, thDir, history>>

\* What a thread does inside the library, to the return of the call.
Step(t) ==
    \/ CreateProcDir(t) \/ CleanProcDir(t)
    \/ MakeParent(t) \/ MakeThreadDir(t) \/ OpenStream(t) \/ ThreadReady(t)
    \/ AddFits(t) \/ AddFlush(t) \/ WriteSome(t) \/ EndFlush(t)
    \/ AttrStored(t) \/ FreeStored(t)
    \/ \E f \in FileName : MoveOpen(t, f) \/ OpenFails(t, f)
    \/ MoveCopy(t) \/ MoveRemove(t) \/ RemoveFails(t) \/ ThreadDone(t)

\* What the program calls.
Call(t) ==
    \/ ProcInit(t) \/ ProcFini(t) \/ ThreadInit(t) \/ ThreadFree(t)
    \/ EvEmit(t) \/ JumboEmit(t) \/ Flush(t) \/ AttrFlush(t)
    \/ \E k \in Key : AttrSet(t, k)
    \/ \E k \in Late : SetLate(t, k)

Next == Crash \/ \E t \in Thread : Step(t) \/ Call(t)

\* A thread that is inside the library keeps running: no call waits for
\* another thread.
Spec == Init /\ [][Next]_vars /\ \A t \in Thread : WF_vars(Step(t))

-----------------------------------------------------------------------------
(* Properties.                                                             *)

\* Every thread keeps its buffer, calls, clocks, metadata and files in their types
\* through any interleaving of calls and a crash (rthread and rproc of ovni.c).
TypeOK ==
    /\ alive \in BOOLEAN
    /\ st \in {"uninit", "init", "ready", "gone"}
    /\ pc \in [Thread -> Pc]
    /\ ready \in [Thread -> BOOLEAN]
    /\ finished \in [Thread -> BOOLEAN]
    /\ evbuf \in [Thread -> Seq(Event)]
    /\ evlen \in [Thread -> Nat]
    /\ wrote \in [Thread -> Nat]
    /\ held \in [Thread -> [ev : Seq(Event), t0 : 0..MaxClock]]
    /\ todo \in [Thread -> Seq(Event)]
    /\ now \in [Thread -> 0..MaxClock]
    /\ meta \in [Thread -> [fin : BOOLEAN, keys : SUBSET AllKeys]]
    /\ late \in [Thread -> SUBSET Late]
    /\ left \in [Thread -> SUBSET FileName]
    /\ moving \in [Thread -> FileName \union {"none"}]
    /\ moveErr \in [Thread -> BOOLEAN]
    /\ disk \in [Thread -> [Dir -> [FileName -> File]]]
    /\ procDir \in BOOLEAN
    /\ thDir \in [Thread -> BOOLEAN]

\* The events of a thread never run past the end of its buffer, jumbo events
\* and the events of a flush included: the comparisons with OVNI_MAX_EV_BUF
\* in ovni_ev_add() and ovni_ev_add_jumbo() are the only protection of the
\* two memcpy().
BufferFits == \A t \in Thread : evlen[t] < MaxEvBuf

\* The process is initialized by one thread and finished by one thread, no
\* matter how the calls race, and no thread starts its stream before the
\* directory of the process was created (the two compare and exchange of
\* rproc.st).
OneInitOneFini ==
    /\ \A t, u \in Thread :
          /\ pc[t] = "mkproc" /\ pc[u] = "mkproc" => t = u
          /\ pc[t] = "rmproc" /\ pc[u] = "rmproc" => t = u
    /\ \A t \in Thread :
          /\ pc[t] = "mkproc" => st = "init"
          /\ pc[t] = "rmproc" => st = "gone"
          /\ ready[t] \/ finished[t] \/ pc[t] \in InitPc => st \in {"ready", "gone"}

\* A thread that is ready has its directory, although ovni_proc_fini() in
\* another thread may be removing the directory of the process at any time.
DirKept ==
    \A t \in Thread : ready[t] => procDir /\ thDir[t]

\* The user events of s are u: the place of each one among them is its place in u.
UserPlace(s, i) == Cardinality({j \in 1..i : s[j].kind = "user"})
UserEvents(s, u) ==
    /\ Len(u) = UserPlace(s, Len(s))
    /\ \A i \in 1..Len(s) : s[i].kind = "user" => u[UserPlace(s, i)] = s[i]

Stream(t) == Written(t) \o held[t].ev \o todo[t]

\* The user events in the stream and in the buffer are the events emitted, in
\* the order they were emitted: no flush, whether complete or partial, nested
\* or not, loses, repeats or reorders one.
NothingLost ==
    \A t \in Thread :
        ready[t] /\ pc[t] \in {"idle", "add", "write"}
            => UserEvents(Stream(t), emitted[t])

\* The clocks never go back and the events of the flushes open and close in turn.
FlushPlace(s, i) == Cardinality({j \in 1..i : s[j].kind # "user"})
Ordered(s) ==
    /\ \A i \in 1..Len(s) - 1 : s[i].clock <= s[i + 1].clock
    /\ \A i \in 1..Len(s) : s[i].kind # "user" =>
           s[i].kind = (IF FlushPlace(s, i) % 2 = 1 THEN "flush[" ELSE "flush]")

\* The clocks of a stream never go back and the events that open and close a
\* flush alternate; the emulator rejects a stream otherwise.  "A binary stream
\* is a binary file named `stream.obs` that contains a succession of events
\* with monotonically increasing clock values" (trace_spec.md).
StreamOrdered == \A t \in Thread : Ordered(Written(t))

\* When ovni_thread_free() has returned and no file operation failed, the
\* directory where the trace is wanted holds the complete metadata and the
\* stream, and the stream has every event of a program that called
\* ovni_flush() after its last event.
FinalDir == IF MoveToFinal THEN "final" ELSE "work"
FreedComplete ==
    \A t \in Thread :
        finished[t] /\ ~moveErr[t] =>
            LET d == disk[t][FinalDir] IN
            /\ d["json"] = MetaFile(t)
            /\ d["obs"].is = "whole"
            /\ synced[t] => UserEvents(d["obs"].ev, emitted[t])

\* What a thread has written to disk is never lost again, even if the process
\* crashes while it moves the stream to the final directory: the old file
\* is removed after the new one is complete.
Content(t) == LET d == IF disk[t]["work"]["obs"].is = "whole" THEN "work" ELSE "final"
              IN  IF disk[t][d]["obs"].is = "whole" THEN disk[t][d]["obs"].ev ELSE <<>>
StreamKept ==
    [][\A t \in Thread : IsPrefix(Content(t), Content(t)')]_vars

\* The attributes of a thread that are on disk are never lost again, through moves,
\* failed operations and what other threads do, unless the thread itself stores its
\* metadata, which truncates the file: that is the only place where a crash loses
\* the attributes that an ovni_attr_flush() saved before.
Saved(t) == UNION {disk[t][d]["json"].keys : d \in {e \in Dir : disk[t][e]["json"].is = "whole"}}
AttrsKept ==
    [][\A t \in Thread :
          pc'[t] \notin {"store_attr", "store_free"} => Saved(t) \subseteq Saved(t)']_vars

\* "`ovni.finished`: must be 1 to ensure the stream is complete"
\* (trace_spec.md): after a crash, a stream whose metadata in the final
\* directory says that it is finished has all the events that the thread wrote
\* to disk.  The files are moved one at a time.
FinishedComplete ==
    \A t \in Thread :
        LET d == disk[t][FinalDir] IN
        ~alive /\ d["json"].is = "whole" /\ d["json"].fin
            => d["obs"].is = "whole" /\ d["obs"].ev = Content(t)

\* Every call returns, unless the process dies: the calls that the events of
\* a flush make to ovni_ev_add() come to an end, as do the retries of
\* write() and the move of the files.
CallsReturn ==
    \A t \in Thread : pc[t] # "idle" ~> (pc[t] = "idle" \/ ~alive)
=============================================================================

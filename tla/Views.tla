-------------------------------- MODULE Views --------------------------------
(***************************************************************************)
(* The Paraver timelines of threads and CPUs: the ovni events of           *)
(* ThreadCpu write the channels of threads and CPUs, every model writes a  *)
(* channel per thread, and the tracks of model_thread.c and model_cpu.c    *)
(* decide when a row shows it:                                             *)
(*                                                                         *)
(*   thread row: the channel as it is (any), or through a mux that the     *)
(*               state of the thread selects when it runs or is active;    *)
(*   CPU row:    through a mux whose key is the only running thread.       *)
(*                                                                         *)
(* The models differ in the channel, the tracks and the flags of the rows, *)
(* a table.  The threads and CPUs behave as in ThreadCpu, of which this    *)
(* module takes the conditions of the events; the trace written is shown   *)
(* to be a behaviour of ThreadCpu again.                                   *)
(***************************************************************************)
EXTENDS Patchbay

CONSTANTS
    NThreads,    \* threads of the only process of the loom, by gindex from 0
    NCpus,       \* CPUs of the loom, by gindex from 0
    VirtualCpu,  \* the virtual ones
    View,        \* the views considered, each with its events
    Label,       \* of each view, the functions, subsystems or marks of its events
    XtasksEvent, \* the payload of the events of XTasks, a value and an identifier
    Sample,      \* the values of the hardware counters in an event
    MaxHeld      \* bound, of each view: the values stacked in all the threads

ASSUME ViewsAssumption ==
    /\ {NThreads, NCpus} \subseteq Nat \ {0}
    /\ VirtualCpu \subseteq 0 .. NCpus - 1
    /\ Label \in [View -> SUBSET (Nat \ {0})]
    /\ MaxHeld \in [View -> Nat]
    /\ View \subseteq {"mpi", "tampi", "nodes", "xtasks", "kernel", "flush", "mark",
                       "single", "type", "hwc"}
    /\ XtasksEvent \subseteq Int \X Nat
    /\ Sample \subseteq Seq(Int)

VARIABLES
    view,       \* the view whose events the trace has
    st,         \* thread->state
    at,         \* thread->cpu, -1 for NULL
    accepted,   \* whether the handler of the last event returned 0
    end         \* "no" until the events end, then how emu_finish() ended

Thread == 0 .. NThreads - 1
Cpu    == 0 .. NCpus - 1

-----------------------------------------------------------------------------
(* The channels of each model, its tracks and its rows.                    *)

\* A stack of MPI functions shown while the thread runs.
MpiSpec == [nch |-> 1, stack |-> TRUE, dup |-> FALSE, track |-> "run",
            cpu |-> TRUE, flags |-> {"skipdup"}]
\* TAMPI and NODES: subsystems shown while the thread is active.
TampiSpec == [MpiSpec EXCEPT !.track = "act"]
NodesSpec == [MpiSpec EXCEPT !.track = "act"]
\* XTasks: the stack as it is, only for threads.  It connects at its first event,
\* before which nothing writes its channels.
XtasksSpec == [MpiSpec EXCEPT !.track = "any", !.cpu = FALSE, !.flags = {}]
\* The context switches of the kernel, and the flush of the ovni model.
KernelSpec == [MpiSpec EXCEPT !.track = "any"]
FlushSpec == [MpiSpec EXCEPT !.track = "any", !.stack = FALSE]
\* A type of marks, with a stack or a single value.
MarkSpec == [MpiSpec EXCEPT !.track = "act", !.dup = TRUE, !.flags = {"skipdupnull"}]
SingleSpec == [MarkSpec EXCEPT !.stack = FALSE]
\* The task type of Nanos6.
TypeSpec == [MpiSpec EXCEPT !.stack = FALSE, !.dup = TRUE, !.flags = {"emitdup"}]
\* The hardware counters of nOS-V, two, all written by one event.
HwcSpec == [nch |-> 2, stack |-> FALSE, dup |-> TRUE, track |-> "act",
            cpu |-> TRUE, flags |-> {"skipdupnull", "zero"}]

Sp(v) == CASE v = "mpi"   -> MpiSpec   [] v = "tampi"  -> TampiSpec
           [] v = "nodes" -> NodesSpec [] v = "xtasks" -> XtasksSpec
           [] v = "kernel" -> KernelSpec [] v = "flush" -> FlushSpec
           [] v = "mark"  -> MarkSpec  [] v = "type"   -> TypeSpec
           [] v = "hwc"   -> HwcSpec   [] v = "single" -> SingleSpec

-----------------------------------------------------------------------------
(* The graph.                                                              *)

\* The channel of a model in a thread, its track in the thread and in a CPU.
Raw(v, t, k)    == <<v, "raw", t, k>>
ThOut(v, t, k)  == <<v, "thread", t, k>>
CpuOut(v, c, k) == <<v, "cpu", c, k>>

OfThreads(V) == UNION {{v} \X {"raw"} \X Thread \X (1 .. Sp(v).nch) : v \in V}
ThMux  == UNION {{v} \X {"thread"} \X Thread \X (1 .. Sp(v).nch) :
                 v \in {w \in View : Sp(w).track # "any"}}
CpuMux == UNION {{v} \X {"cpu"} \X Cpu \X (1 .. Sp(v).nch) :
                 v \in {w \in View : Sp(w).cpu}}

\* PID and TID of a CPU are written together, so one channel stands for both.
SysChan == ({"state", "tid", "cpu"} \X Thread)
           \cup ({"nrun", "tidrun", "thrun", "thact"} \X Cpu)

ViewMux == ThMux \cup CpuMux
ViewChan == SysChan \cup OfThreads(View) \cup ViewMux
\* A model that is not enabled registers no channel.
ChansOf(v) == SysChan \cup OfThreads({v}) \cup {m \in ViewMux : m[1] = v}

ViewStack == OfThreads({v \in View : Sp(v).stack})
\* Mistake: the outputs of the muxes compare their values with the last one.
ViewAllowDupNot == OfThreads({v \in View : Sp(v).dup})
\* chan_dup of each model, and the outputs of the muxes.
ViewAllowDup == OfThreads({v \in View : Sp(v).dup}) \cup ViewMux
\* thread_init_end() and cpu_init_end()
ViewIgnoreDup == ({"tid"} \X Thread) \cup ({"nrun", "tidrun", "thrun", "thact"} \X Cpu)

ViewSel == [m \in ViewMux |-> IF m[2] = "thread" THEN <<"state", m[3]>>
                                                 ELSE <<"thrun", m[3]>>]
ViewIn == [m \in ViewMux |->
    IF m[2] = "thread" THEN <<Raw(m[1], m[3], m[4])>>
    ELSE [i \in 1 .. NThreads |-> Raw(m[1], i - 1, m[4])]]
ViewOut == [m \in ViewMux |-> m]
ViewDef == [m \in ViewMux |-> Null]

\* The values of TH_CHAN_STATE.
Code == [unknown |-> 0, running |-> 1, paused |-> 2, dead |-> 3, cooling |-> 4,
         warming |-> 5]

\* Mistake: the active states are those of a running thread.
thread_select_activeRun(key) == IF key = Code["running"] THEN 1 ELSE 0

thread_select_running(key) == IF key = Code["running"] THEN 1 ELSE 0
thread_select_active(key) ==
    IF key \in {Code["running"], Code["cooling"], Code["warming"]} THEN 1 ELSE 0

ViewSelect(m, key, ins) ==
    IF m[2] = "cpu" THEN DefaultSelect(m, key)
    ELSE IF Sp(m[1]).track = "run" THEN thread_select_running(key)
    ELSE thread_select_active(key)

\* The select callbacks of the tracks of a view, in the order of its channels.
ViewCb(v) == [c \in ChansOf(v) |->
    IF c[1] = "state" /\ Sp(v).track # "any"
    THEN [k \in 1 .. Sp(v).nch |-> SelectCb(ThOut(v, c[2], k))]
    ELSE IF c[1] = "thrun" /\ Sp(v).cpu
    THEN [k \in 1 .. Sp(v).nch |-> SelectCb(CpuOut(v, c[2], k))]
    ELSE <<>>]

\* track_get_output(): the channel of a row.
ThRow(v, t, k) == IF Sp(v).track = "any" THEN Raw(v, t, k) ELSE ThOut(v, t, k)

SysRow == ({"state", "tid", "cpu"} \X Thread) \cup ({"nrun", "tidrun"} \X Cpu)
ViewRow == SysRow \cup ViewMux \cup OfThreads({v \in View : Sp(v).track = "any"})
ViewFlags == [c \in ViewRow |->
    CASE c[1] = "state" -> {"skipdup"} [] c[1] = "cpu" -> {"next"}
      [] c[1] = "nrun" -> {"zero"}     [] c[1] \in {"tid", "tidrun"} -> {}
      [] OTHER -> Sp(c[1]).flags]

-----------------------------------------------------------------------------
(* Threads and CPUs, with the conditions of ThreadCpu.                     *)

OrNull(x) == IF x = -1 THEN Null ELSE x
Holds(v, t) == view = v /\ ChanRead(bay, Raw(v, t, 1)) # Null

Core == INSTANCE ThreadCpu WITH
    Virtual <- VirtualCpu, Loom <- {0}, NoCpu <- -1, NoThread <- -1,
    ThLoom <- [t \in Thread |-> 0], CpuLoom <- [c \in Cpu |-> 0],
    ThProc <- [t \in Thread |-> 0], Tid <- [t \in Thread |-> t + 1],
    emu <- IF state = "ready" THEN "run" ELSE "error",
    state <- st, cpu <- at,
    outOfCpu <- [t \in Thread |-> Holds("kernel", t)],
    flushing <- [t \in Thread |-> Holds("flush", t)],
    threads <- [c \in Cpu |-> {t \in Thread : at[t] = c}],
    nthRunning <- [c \in Cpu |-> 0],
    thRunning <- [c \in Cpu |-> -1],
    thActive <- [c \in Cpu |-> -1]

\* thread_set_state(): the channels of the state and of the TID.
thread_set_state(b, t, s) ==
    ChanSet(ChanSet(b, <<"state", t>>, Code[s]),
            <<"tid", t>>, IF s \in Core!ActiveState THEN t + 1 ELSE Null)

\* Mistake: the running thread of the CPU is only written when there is one.
cpu_updateKeep(b, c, where, states) ==
    LET ths == {t \in Thread : where[t] = c}
        running == Core!OnlyOne(Core!Running(ths, states))
        active == Core!OnlyOne(Core!Active(ths, states))
        b1 == IF running = -1 THEN b
              ELSE ChanSet(ChanSet(b, <<"tidrun", c>>, running + 1), <<"thrun", c>>, running)
    IN  ChanSet(ChanSet(b1, <<"nrun", c>>, Cardinality(Core!Running(ths, states))),
                <<"thact", c>>, OrNull(active))

\* cpu_update(): the channels of a CPU for its threads and their states.
cpu_update(b, c, where, states) ==
    LET ths == {t \in Thread : where[t] = c}
        running == Core!OnlyOne(Core!Running(ths, states))
        active == Core!OnlyOne(Core!Active(ths, states))
        b1 == ChanSet(b, <<"tidrun", c>>, IF running = -1 THEN Null ELSE running + 1)
        b2 == ChanSet(b1, <<"thrun", c>>, OrNull(running))
        b3 == ChanSet(b2, <<"nrun", c>>, Cardinality(Core!Running(ths, states)))
    IN  ChanSet(b3, <<"thact", c>>, OrNull(active))

\* The handler of an event ends with the channels as b and emu_step() goes on.
Processed(b) == Handled(b) /\ accepted' = b.ok /\ UNCHANGED <<view, end>>

pre_thread_execute(t, c) ==
    LET where  == [at EXCEPT ![t] = c]
        states == [st EXCEPT ![t] = "running"]
    IN  /\ Core!CanExecute(t, c)
        /\ at' = where /\ st' = states
        /\ Processed(cpu_update(
                thread_set_state(ChanSet(bay, <<"cpu", t>>, c), t, "running"),
                c, where, states))

pre_thread_end(t) ==
    LET where  == [at EXCEPT ![t] = -1]
        states == [st EXCEPT ![t] = "dead"]
    IN  /\ Core!CanEnd(t)
        /\ at' = where /\ st' = states
        /\ Processed(ChanSet(cpu_update(thread_set_state(bay, t, "dead"), at[t],
                                        where, states),
                             <<"cpu", t>>, Null))

\* OHp, OHr, OHc and OHw.
Switch(t, from, to) ==
    LET states == [st EXCEPT ![t] = to]
    IN  /\ Core!CanSwitch(t, from, to)
        /\ st' = states
        /\ Processed(cpu_update(thread_set_state(bay, t, to), at[t], at, states))
        /\ UNCHANGED at

\* cpu_migrate_thread() and thread_migrate_cpu().
Migrate(t, c) ==
    LET where == [at EXCEPT ![t] = c]
    IN  /\ Core!CanMigrate(t, c)
        /\ at' = where
        /\ Processed(ChanSet(cpu_update(cpu_update(bay, at[t], where, st), c, where, st),
                             <<"cpu", t>>, c))
        /\ UNCHANGED st

pre_affinity_set(t, c) ==
    /\ Core!CanAffinitySet(t, c)
    /\ \/ at[t] = c /\ Processed(bay) /\ UNCHANGED <<st, at>>
       \/ at[t] # c /\ Migrate(t, c)
pre_affinity_remote(t, r, c) == Core!CanAffinityRemote(t, r, c) /\ Migrate(r, c)

ThreadEvent(t) ==
    \/ \E c \in Cpu : pre_thread_execute(t, c)
    \/ pre_thread_end(t)
    \/ Switch(t, {"running", "cooling"}, "paused")
    \/ Switch(t, {"paused", "warming"}, "running")
    \/ Switch(t, {"running"}, "cooling")
    \/ Switch(t, {"paused"}, "warming")
    \/ \E c \in Cpu : pre_affinity_set(t, c)
    \/ \E r \in Thread, c \in Cpu : pre_affinity_remote(t, r, c)

-----------------------------------------------------------------------------
(* The events of the models.                                               *)

\* The state of the thread that process_ev() of each model asks for.  Some also
\* refuse a thread that is out of the CPU: the kernel has a view of its own.
Allowed(t) ==
    CASE view \in {"mpi", "tampi", "nodes"} -> st[t] = "running"
      [] view \in {"hwc", "type"}           -> st[t] \in Core!ActiveState
      [] OTHER                              -> TRUE

Process(t, b) ==
    /\ Processed(IF Allowed(t) THEN b ELSE Fail(bay))
    /\ UNCHANGED <<st, at>>

MyRaw(t) == Raw(view, t, 1)
Room == Sp(view).stack => MapThenSumSet(LAMBDA t : Len(bay.data[MyRaw(t)]), Thread) < MaxHeld[view]

Push(t, v) == Room /\ Process(t, ChanPush(bay, MyRaw(t), v))
Pop(t, v)  == Process(t, ChanPop(bay, MyRaw(t), v))

\* process_ev(): the entry of an event in the table of the model pushes or pops
\* a value, or there is none.
TableEvent(t) ==
    \/ \E v \in Label[view] : Push(t, v) \/ Pop(t, v)
    \/ Process(t, Fail(bay))

model_mpi_event(t)   == view = "mpi" /\ TableEvent(t)
model_tampi_event(t) == view = "tampi" /\ TableEvent(t)
model_nodes_event(t) == view = "nodes" /\ TableEvent(t)

EV_APICALL == 85
idOrVal(ev) == IF ev[2] = EV_APICALL THEN ev[1] ELSE ev[2]

\* event_s() of XTasks: the identifier, or the value for an API call, whatever it
\* is.  Type 2 stands for every other type, and for a payload that is refused.
event_s(t) ==
    /\ view = "xtasks"
    /\ \E ev \in XtasksEvent, type \in 0 .. 2 :
            \/ type = 0 /\ Push(t, idOrVal(ev))
            \/ type = 1 /\ Pop(t, idOrVal(ev))
            \/ type = 2 /\ Process(t, Fail(bay))

ST_CSOUT == 3
context_switch(t) == view = "kernel" /\ (Push(t, ST_CSOUT) \/ Pop(t, ST_CSOUT))

\* The events of the ovni model are refused while the thread is out of the CPU,
\* which no event does in their views.
pre_flush(t) ==
    view = "flush" /\ \E v \in {1, Null} : Process(t, ChanSet(bay, MyRaw(t), v))

\* mark_event(): the channel refuses the operations of the other type, and a
\* value of 0 is refused.
mark_event(t) ==
    /\ view \in {"mark", "single"}
    /\ \/ \E v \in Label[view] : Push(t, v) \/ Pop(t, v)
       \/ \E v \in Label[view] : Process(t, ChanSet(bay, MyRaw(t), v))
       \/ Process(t, Fail(bay))

\* hwc_event(): the event must be a jumbo one with the size of the counters, which
\* are all written.
hwc_event(t) ==
    /\ view = "hwc"
    /\ \E s \in Sample, jumbo \in BOOLEAN :
         Process(t, IF ~jumbo \/ Len(s) # HwcSpec.nch THEN Fail(bay)
                    ELSE ChanSet(ChanSet(bay, Raw("hwc", t, 1), s[1]),
                                 Raw("hwc", t, 2), s[2]))

\* The type of the task that begins or resumes, null when it stops or ends.
task_type(t) ==
    view = "type" /\ \E v \in Label[view] \cup {Null} : Process(t, ChanSet(bay, MyRaw(t), v))

\* The values that the events of the models write, and those of the select channels.
ViewValue == {Null, 1, ST_CSOUT} \cup {idOrVal(ev) : ev \in XtasksEvent}
             \cup (UNION {Label[v] : v \in View}) \cup (UNION {ToSet(s) : s \in Sample})
ViewKey == {Null} \cup {Code[s] : s \in DOMAIN Code} \cup Thread

\* The patch bay has this graph, without a sort module.
ASSUME ViewsGraph ==
    /\ Chan = ViewChan /\ Stack = ViewStack /\ DirtyWrite = ViewMux
    /\ AllowDup = ViewAllowDup /\ IgnoreDup = ViewIgnoreDup
    /\ Mux = ViewMux /\ MuxSel = ViewSel /\ MuxOut = ViewOut /\ MuxIn = ViewIn /\ MuxDef = ViewDef
    /\ SortIn = <<>> /\ SortOut = <<>> /\ Row = ViewRow /\ PrvFlags = ViewFlags
    /\ \A m \in ViewMux, key \in ViewKey : \A ins \in [DOMAIN ViewIn[m] -> ViewValue] :
            Select(m, key, ins) = ViewSelect(m, key, ins)

ModelEvent(t) ==
    \/ model_mpi_event(t) \/ model_tampi_event(t) \/ model_nodes_event(t)
    \/ event_s(t) \/ context_switch(t) \/ pre_flush(t) \/ mark_event(t)
    \/ hwc_event(t) \/ task_type(t)

\* end_lint() of MPI, TAMPI and NODES: nothing is left in the stacks.
end_lint == view \in {"mpi", "tampi", "nodes"} => \A t \in Thread : ~Holds(view, t)

\* emu_finish() after the last event: model_finish() of the ovni model wants every
\* thread dead, and in linter mode those of the other models check their stacks.
Finish(linter) ==
    /\ state = "ready" /\ end = "no"
    /\ end' = IF (\A t \in Thread : st[t] = "dead") /\ (linter => end_lint)
              THEN "finished" ELSE "error"
    /\ UNCHANGED <<vars, view, st, at, accepted>>

-----------------------------------------------------------------------------

viewVars == <<vars, view, st, at, accepted, end>>

Init ==
    /\ view \in View
    /\ BayInit(EmptyBay(ChansOf(view)), ViewCb(view))
    /\ st = [t \in Thread |-> "unknown"]
    /\ at = [t \in Thread |-> -1]
    /\ accepted = TRUE /\ end = "no"

Event ==
    /\ state = "ready" /\ end = "no"
    /\ \E t \in Thread : ThreadEvent(t) \/ ModelEvent(t)
Step == Propagate /\ UNCHANGED <<view, st, at, accepted, end>>

Next == Event \/ Step \/ \E linter \in BOOLEAN : Finish(linter)

\* emu_step() does not return until the propagation ends.
Spec == Init /\ [][Next]_viewVars /\ WF_viewVars(Step)

-----------------------------------------------------------------------------
(* Properties.                                                             *)

\* An event of XTasks left 0 on top of the stack of a thread: event_s() pushes any
\* identifier, chan_push() takes a 0 and the row, without PRV_ZERO, does not.
ZeroShown == view = "xtasks" /\ \E t \in Thread : ChanRead(bay, Raw("xtasks", t, 1)) = 0

\* After an event that its handler accepted, neither a channel of the tracks nor
\* the emission of a row fails (chan_set in the muxes, duplicates and zeros in
\* prv.c): only the 0 of an XTasks event stops the emulator in the propagation.
NoPanic == state = "error" => ~accepted \/ ZeroShown

ShownInThread(t) ==
    CASE Sp(view).track = "run" -> st[t] = "running"
      [] Sp(view).track = "act" -> st[t] \in Core!ActiveState
      [] Sp(view).track = "any" -> TRUE

\* After every event the row of a thread shows the value of its channel in the
\* states its track wants, and the row of a CPU the one of its only running
\* thread, whatever moved the thread there; otherwise the last line written is 0.
ViewShows ==
    state = "ready" => \A k \in 1 .. Sp(view).nch :
        /\ \A t \in Thread :
              prv[ThRow(view, t, k)].line =
                  IF ShownInThread(t) THEN Plain(ChanRead(bay, Raw(view, t, k))) ELSE 0
        /\ Sp(view).cpu => \A c \in Cpu :
              LET r == Core!OnlyOne(Core!Running({t \in Thread : at[t] = c}, st))
              IN  prv[CpuOut(view, c, k)].line =
                      IF r = -1 THEN 0 ELSE Plain(ChanRead(bay, Raw(view, r, k)))

\* What a reader of the trace knows: the last line of each row.
Line == [c \in DOMAIN prv |-> prv[c].line]
Seen == <<prv, bay.last, end>>
StateOf == [n \in 0 .. 5 |-> CHOOSE s \in DOMAIN Code : Code[s] = n]

\* The state of ThreadCpu that they say; thact has no row and its channel is taken.
RowEmu == IF end = "no" THEN "run" ELSE end
RowState == [t \in Thread |-> StateOf[Line[<<"state", t>>]]]
RowCpu == [t \in Thread |-> Line[<<"cpu", t>>] - 1]
RowOut == [t \in Thread |-> view = "kernel" /\ Line[Raw("kernel", t, 1)] # 0]
RowFlush == [t \in Thread |-> view = "flush" /\ Line[Raw("flush", t, 1)] # 0]
RowThreads == [c \in Cpu |-> {t \in Thread : Line[<<"cpu", t>>] = c + 1}]
RowNth == [c \in Cpu |-> Line[<<"nrun", c>>]]
RowRunning == [c \in Cpu |-> Line[<<"tidrun", c>>] - 1]
RowActive == [c \in Cpu |-> IF bay.last[<<"thact", c>>] = Null THEN -1
                            ELSE bay.last[<<"thact", c>>]]

Trace == INSTANCE ThreadCpu WITH
    Virtual <- VirtualCpu, Loom <- {0}, NoCpu <- -1, NoThread <- -1,
    ThLoom <- [t \in Thread |-> 0], CpuLoom <- [c \in Cpu |-> 0],
    ThProc <- [t \in Thread |-> 0], Tid <- [t \in Thread |-> t + 1],
    emu <- RowEmu, state <- RowState, cpu <- RowCpu,
    outOfCpu <- RowOut, flushing <- RowFlush, threads <- RowThreads,
    nthRunning <- RowNth, thRunning <- RowRunning, thActive <- RowActive

\* The rows of the trace, read at any time, are a behaviour of ThreadCpu: all the
\* rows of an event change together and no line is missing, so what is proved of
\* the threads and CPUs holds of the trace (thread and CPU rows, cpu_update()).
\* It is Trace!Spec, without asking Trace!Next of the steps that leave the rows alone.
TraceFollows ==
    Trace!Init /\ [][Seen' # Seen /\ Trace!vars' # Trace!vars => Trace!Next]_Seen
=============================================================================

----------------------------- MODULE Breakdown ------------------------------
(***************************************************************************)
(* The breakdown views of the nOS-V, Nanos6 and OpenMP models: the graph   *)
(* of channels that model_cpu.c and the breakdown.c of each model build on *)
(* the patch bay, and the events of ovni and of the model that write its   *)
(* source channels.  For each physical CPU, with t the thread that runs in *)
(* it, in nOS-V and Nanos6                                                 *)
(*                                                                         *)
(*   thrun selects the type, subsystem and idle of t  -> tt, ss, idle      *)
(*   mux0, by ss, selects ss or tt                    -> tr                *)
(*   mux1, by idle, selects tr or idle                -> tri               *)
(*   sort orders the tri of all CPUs                  -> out, a row each   *)
(*                                                                         *)
(* and in OpenMP                                                           *)
(*                                                                         *)
(*   thrun selects the subsystem and label of t       -> ss, tt            *)
(*   mux0, by tt, selects tt or ss                    -> tri               *)
(*   sort orders the tri of all CPUs                  -> out, a row each   *)
(***************************************************************************)
EXTENDS Patchbay

CONSTANTS
    Model,      \* the models considered, of "nosv", "nanos6" and "openmp"
    NThreads,   \* system.nthreads, with gindex from 0
    NCpus,      \* the physical CPUs
    MaxHeld,    \* bound, of each model: subsystems, and labels, stacked in all the threads
    MaxTasks    \* bound: task bodies stacked in a thread

ASSUME BreakdownAssumption ==
    /\ {NThreads, NCpus, MaxTasks} \subseteq Nat \ {0}
    /\ Model \subseteq {"nosv", "nanos6", "openmp"}
    /\ MaxHeld \in [Model -> Nat]

VARIABLES
    model,      \* the model whose breakdown is enabled
    tasks,      \* the states of the bodies in the task stack of each thread
    used        \* history: the CPUs where some thread has run

Thread == 0 .. NThreads - 1
Cpu    == 1 .. NCpus

ST_UNKNOWN_SS   == 2
ST_SCHED_HUNGRY == 6      \* a subsystem out of the body of tasks
ST_TASK_BODY    == 11
ST_PROGRESSING  == 100
ST_RESTING      == 101
TypeGid         == 200    \* task->type->gid of the only task type

-----------------------------------------------------------------------------
(* The graph.  The channels of a CPU that the models share, those of a     *)
(* model in a thread and those of its tracks and muxes in a CPU.  A mux    *)
(* has the name of its output channel, except those that write tri.        *)

ThRun(c) == <<"cpu", "thrun", c>>
Tri(c)   == <<"cpu", "tri", c>>
Out(c)   == <<"cpu", "out", c>>

Type(m, t)      == <<m, "type", t>>       \* the label in OpenMP
Subsystem(m, t) == <<m, "subsystem", t>>
Progress(m, t)  == <<m, "progress", t>>

HasIdle == Model \ {"openmp"}
RawChan == (Model \X {"type", "subsystem"} \X Thread) \cup (HasIdle \X {"progress"} \X Thread)
Track   == (Model \X {"tt", "ss"} \X Cpu) \cup (HasIdle \X {"idle"} \X Cpu)
BdOut   == {Out(c) : c \in Cpu}
BdMux   == Track \cup (HasIdle \X {"tr"} \X Cpu) \cup (Model \X {"tri"} \X Cpu)

BdMuxOut == [m \in BdMux |-> IF m[2] = "tri" THEN Tri(m[3]) ELSE m]
MuxOuts  == {BdMuxOut[m] : m \in BdMux}
BdChan   == {ThRun(c) : c \in Cpu} \cup RawChan \cup MuxOuts \cup BdOut

\* OpenMP keeps its labels in a stack.
BdStack == {r \in RawChan : r[2] = "subsystem" \/ (r[1] = "openmp" /\ r[2] = "type")}
\* Mistake: the outputs of the muxes do not accept a second write.
BdDirtyWriteNot == BdOut
\* mux_init() and sort_init() give their outputs CHAN_DIRTY_WRITE.
BdDirtyWrite == MuxOuts \cup BdOut
\* The same for CHAN_ALLOW_DUP, that chan_dup gives to the task type or label, and
\* to the subsystem except in Nanos6.
BdAllowDup == MuxOuts \cup BdOut
    \cup {r \in RawChan : r[2] = "type" \/ (r[2] = "subsystem" /\ r[1] # "nanos6")}
\* The channels of a CPU ignore a duplicate.
BdIgnoreDup == {ThRun(c) : c \in Cpu}

\* The channel of the thread that each track follows (connect_cpu, model_cpu.c).
Followed(k) == CASE k = "tt" -> "type" [] k = "ss" -> "subsystem" [] k = "idle" -> "progress"

\* The track that is the select channel of the mux that writes tri.
TriSelect(m) == IF m = "openmp" THEN "tt" ELSE "idle"

BdSel == [m \in BdMux |->
    IF m \in Track THEN ThRun(m[3])
    ELSE <<m[1], IF m[2] = "tr" THEN "ss" ELSE TriSelect(m[1]), m[3]>>]

BdIn == [m \in BdMux |->
    LET In(k) == <<m[1], k, m[3]>>
    IN  CASE m \in Track    -> [i \in 1 .. NThreads |-> <<m[1], Followed(m[2]), i - 1>>]
          [] m[2] = "tr"    -> <<In("ss"), In("tt")>>
          [] m[2] = "tri"   -> IF m[1] = "openmp" THEN <<In("tt"), In("ss")>>
                                                  ELSE <<In("tr"), In("idle")>>]

\* mux_set_default() of mux0 and of the idle track.
BdDef == [m \in BdMux |->
    CASE m[2] = "idle" -> ST_RESTING
      [] m[2] = "tr"   -> ST_UNKNOWN_SS
      [] OTHER         -> Null]

\* Mistake: a null subsystem is selected as any other.
SelectTrNull(key, ins) == IF key = ST_TASK_BODY /\ ins[2] # Null THEN 2 ELSE 1

\* select_tr(): the task type in the body of a task, the subsystem otherwise, and
\* nothing when there is none.
SelectTr(key, ins) ==
    IF key = ST_TASK_BODY /\ ins[2] # Null THEN 2
    ELSE IF ins[1] = Null THEN 0 ELSE 1

\* select_idle()
SelectIdle(key) == IF key = ST_PROGRESSING THEN 1 ELSE 2

\* select_mux0() of OpenMP: the label if there is one.
SelectLabel(key) == IF key # Null THEN 1 ELSE 2

BdSelect(m, key, ins) ==
    CASE m[2] = "tr" -> SelectTr(key, ins)
      [] m[2] = "tri" /\ m[1] = "openmp" -> SelectLabel(key)
      [] m[2] = "tri" /\ m[1] # "openmp" -> SelectIdle(key)
      [] OTHER -> DefaultSelect(m, key)

BdSortIn  == [c \in Cpu |-> Tri(c)]
BdSortOut == [c \in Cpu |-> Out(c)]
BdPrvFlags == [c \in BdOut |-> {"skipdup", "zero"}]

\* The values that the events and the muxes write.
BdValue == {Null, ST_UNKNOWN_SS, ST_SCHED_HUNGRY, ST_TASK_BODY, ST_PROGRESSING,
            ST_RESTING, TypeGid} \cup Thread

\* The patch bay has this graph.
ASSUME BreakdownGraph ==
    /\ Chan = BdChan /\ Stack = BdStack /\ DirtyWrite = BdDirtyWrite
    /\ AllowDup = BdAllowDup /\ IgnoreDup = BdIgnoreDup
    /\ Mux = BdMux /\ MuxSel = BdSel /\ MuxOut = BdMuxOut /\ MuxIn = BdIn /\ MuxDef = BdDef
    /\ SortIn = BdSortIn /\ SortOut = BdSortOut /\ Row = BdOut /\ PrvFlags = BdPrvFlags
    /\ \A m \in BdMux, key \in BdValue : \A ins \in [DOMAIN BdIn[m] -> BdValue] :
            Select(m, key, ins) = BdSelect(m, key, ins)

\* The order of the channels in the enum, the one their tracks are created in.
TrackOrder(m) == IF m = "openmp" THEN <<"ss", "tt">> ELSE <<"tt", "ss", "idle">>

\* A model that is not enabled registers no channel.
ChansOf(m) == {c \in BdChan : c[1] \in {"cpu", m}}

\* The select callbacks and those of the sort module; mux_set_input() leaves the
\* callbacks of the inputs disabled.
BdCb(m) == [c \in ChansOf(m) |->
    IF c[2] = "thrun"
    THEN [i \in DOMAIN TrackOrder(m) |-> SelectCb(<<m, TrackOrder(m)[i], c[3]>>)]
    ELSE IF c[2] = "tri" THEN <<SortCb(c[3])>>
    ELSE IF c[2] = "ss" /\ m # "openmp" THEN <<SelectCb(<<m, "tr", c[3]>>)>>
    ELSE IF c[2] = TriSelect(m) THEN <<SelectCb(<<m, "tri", c[3]>>)>>
    ELSE <<>>]

-----------------------------------------------------------------------------
(* Events, those that their handlers accept.                               *)

Accepted(b) == b.ok /\ Handled(b) /\ UNCHANGED model

Running(c) == ChanRead(bay, ThRun(c))
CpuOf(t)   == {c \in Cpu : Running(c) = t}
MySubsystem(t) == Subsystem(model, t)
Room(k) == MapThenSumSet(LAMBDA t : Len(bay.data[<<model, k, t>>]), Thread) < MaxHeld[model]

\* A thread begins to run in a CPU with none, or stops (cpu_update): a physical
\* CPU never has two running threads.  A thread in none may run in a virtual CPU.
ThreadRuns(t, c) ==
    /\ CpuOf(t) = {} /\ Running(c) = Null
    /\ Accepted(ChanSet(bay, ThRun(c), t))
    /\ used' = used \cup {c}
    /\ UNCHANGED tasks
ThreadStops(c) ==
    /\ Running(c) # Null
    /\ Accepted(ChanSet(bay, ThRun(c), Null))
    /\ UNCHANGED <<tasks, used>>

\* cpu_migrate_thread(): the thread that runs in c goes to d.
ThreadMigrates(c, d) ==
    /\ c # d /\ Running(c) # Null /\ Running(d) = Null
    /\ Accepted(ChanSet(ChanSet(bay, ThRun(c), Null), ThRun(d), Running(c)))
    /\ used' = used \cup {d}
    /\ UNCHANGED tasks

\* simple() with the action SET.
SetIdle(t, v) ==
    /\ model \in HasIdle
    /\ Accepted(ChanSet(bay, Progress(model, t), v))
    /\ UNCHANGED <<tasks, used>>

\* simple() with the actions PUSH and POP.
PushSubsystem(t) ==
    /\ Room("subsystem")
    /\ Accepted(ChanPush(bay, MySubsystem(t), ST_SCHED_HUNGRY))
    /\ UNCHANGED <<tasks, used>>
PopSubsystem(t) ==
    /\ Accepted(ChanPop(bay, MySubsystem(t), ST_SCHED_HUNGRY))
    /\ UNCHANGED <<tasks, used>>

TopBody(t) == IF tasks[t] = <<>> THEN "none" ELSE Last(tasks[t])

\* A body still runs under the top one: chan_task_switch() shows it again.
RunsUnder(t) == Len(tasks[t]) > 1 /\ Last(Front(tasks[t])) = "running"

\* update_task() of nOS-V and Nanos6: the task state, the subsystem channel and
\* the task channels.  Nanos6 relaxes the nesting.
TaskExecute(t) ==
    /\ model \in HasIdle
    /\ TopBody(t) = "running" => model = "nanos6"
    /\ Len(tasks[t]) < MaxTasks /\ Room("subsystem")
    /\ tasks' = [tasks EXCEPT ![t] = Append(@, "running")]
    /\ Accepted(ChanSet(ChanPush(bay, MySubsystem(t), ST_TASK_BODY), Type(model, t), TypeGid))
    /\ UNCHANGED used
TaskPause(t) ==
    /\ TopBody(t) = "running"
    /\ tasks' = [tasks EXCEPT ![t] = Append(Front(@), "paused")]
    /\ Accepted(ChanSet(bay, Type(model, t), Null))
    /\ UNCHANGED used
TaskResume(t) ==
    /\ TopBody(t) = "paused"
    /\ tasks' = [tasks EXCEPT ![t] = Append(Front(@), "running")]
    /\ Accepted(ChanSet(bay, Type(model, t), TypeGid))
    /\ UNCHANGED used
TaskEnd(t) ==
    /\ TopBody(t) = "running"
    /\ tasks' = [tasks EXCEPT ![t] = Front(@)]
    /\ Accepted(ChanSet(ChanPop(bay, MySubsystem(t), ST_TASK_BODY), Type(model, t),
                        IF RunsUnder(t) THEN TypeGid ELSE Null))
    /\ UNCHANGED used

\* update_task() and update_ws_state() of OpenMP: the label is pushed and popped,
\* that of a worksharing out of any task too.
BeginLabel(t) ==
    /\ model = "openmp" /\ Room("type")
    /\ Accepted(ChanPush(bay, Type(model, t), TypeGid))
    /\ UNCHANGED <<tasks, used>>
EndLabel(t) ==
    /\ model = "openmp"
    /\ Accepted(ChanPop(bay, Type(model, t), TypeGid))
    /\ UNCHANGED <<tasks, used>>

\* model_nosv_connect() and model_nanos6_connect() set every thread Progressing, in
\* order, and emu_connect() propagates.
Connected(m) ==
    LET b    == EmptyBay(ChansOf(m))
        idle == [i \in 1 .. IF m \in HasIdle THEN NThreads ELSE 0 |-> Progress(m, i - 1)]
    IN  [b EXCEPT !.data = [c \in DOMAIN b.data |-> IF c \in ToSet(idle)
                                                    THEN <<ST_PROGRESSING>> ELSE b.data[c]],
                  !.flag = ToSet(idle),
                  !.list = idle]

Event == state = "ready" /\
    \/ \E c \in Cpu, t \in Thread : ThreadRuns(t, c)
    \/ \E c \in Cpu : ThreadStops(c)
    \/ \E c, d \in Cpu : ThreadMigrates(c, d)
    \/ \E t \in Thread, v \in {ST_PROGRESSING, ST_RESTING} : SetIdle(t, v)
    \/ \E t \in Thread : PushSubsystem(t) \/ PopSubsystem(t)
    \/ \E t \in Thread :
            TaskExecute(t) \/ TaskPause(t) \/ TaskResume(t) \/ TaskEnd(t)
    \/ \E t \in Thread : BeginLabel(t) \/ EndLabel(t)

bdVars == <<vars, model, tasks, used>>

Init ==
    /\ model \in Model
    /\ BayInit(Connected(model), BdCb(model))
    /\ tasks = [t \in Thread |-> <<>>] /\ used = {}

Step == Propagate /\ UNCHANGED <<model, tasks, used>>

Next == Event \/ Step

\* emu_step() does not return until the propagation ends.
Spec == Init /\ [][Next]_bdVars /\ WF_bdVars(Step)

-----------------------------------------------------------------------------
(* Properties.                                                             *)

\* The events that the handlers accept never stop the emulator in the
\* propagation: no channel of the graph refuses a write, and no row a value.
NoPanic == state # "error"

Ss(t) == ChanRead(bay, MySubsystem(t))
Tt(t) == ChanRead(bay, Type(model, t))
Idle(t) == IF model \in HasIdle THEN ChanRead(bay, Progress(model, t)) ELSE ST_PROGRESSING

\* What the view should show for a CPU where t runs, out of the body of a task.
OutOfBody(t) ==
    IF model = "openmp" THEN IF Tt(t) # Null THEN Tt(t) ELSE Ss(t)
    ELSE IF Idle(t) # ST_PROGRESSING THEN Idle(t)
    ELSE IF Ss(t) = Null THEN ST_UNKNOWN_SS ELSE Ss(t)

Shown(c) == ChanRead(bay, Tri(c))

InBody(t) == Idle(t) = ST_PROGRESSING /\ Ss(t) = ST_TASK_BODY

\* Between events each CPU that has been used shows the state of the thread that
\* runs in it now, or Resting when none does (nothing in OpenMP, that has no idle
\* channel), whatever ran there before.
BreakdownShows ==
    state = "ready" => \A c \in used :
        \/ /\ Running(c) = Null
           /\ Shown(c) = IF model = "openmp" THEN Null ELSE ST_RESTING
        \/ \E t \in Thread : Running(c) = t /\
              IF InBody(t) THEN Shown(c) \in {ST_TASK_BODY, Tt(t)}
                           ELSE Shown(c) = OutOfBody(t)

\* While a thread is in the body of a task the view shows the type of the task
\* if it has one, and otherwise the subsystem.
TaskTypeShown ==
    state = "ready" => \A c \in Cpu, t \in Thread :
        Running(c) = t /\ InBody(t) =>
            Shown(c) = IF Tt(t) = Null THEN ST_TASK_BODY ELSE Tt(t)
=============================================================================

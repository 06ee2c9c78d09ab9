-------------------------------- MODULE Task --------------------------------
(***************************************************************************)
(* The tasks of the nOS-V, Nanos6 and OpenMP models: the bodies of the     *)
(* tasks of a process and the stack of bodies of every thread (task.c,     *)
(* body.c), and the channels that the task events of each model write      *)
(* (nosv/event.c, nanos6/event.c, openmp/event.c).                         *)
(*                                                                         *)
(* A channel is a sequence with its top first; one that is not a stack has *)
(* at most one element, and none when it is null.  The application and     *)
(* rank channels are written with the type and are left out.  The threads  *)
(* stay running: ThreadCpu has their states.                               *)
(*                                                                         *)
(* An event that breaks the rules of tasks stops the emulator, so the      *)
(* actions only state when one is accepted.  A channel that refuses a      *)
(* write after the rules accepted the event is kept in panic.              *)
(***************************************************************************)
EXTENDS Integers, Sequences, FiniteSets

CONSTANTS
    Thread,     \* the threads of the process
    TaskId,     \* the ids of its tasks
    Type,       \* the ids of its task types
    Gid,        \* the identifier computed from the label of each type
    BodyId,     \* the ids of the bodies, 1 the one of a task not parallel
    Runtime,    \* the models, of "nosv", "nanos6" and "openmp"
    MaxStack    \* bound: the depth of a channel, MAX_CHAN_STACK in the code

ASSUME TaskAssumption ==
    /\ BodyId \subseteq Nat \ {0} /\ 1 \in BodyId
    /\ DOMAIN Gid = Type
    /\ Runtime \subseteq {"nosv", "nanos6", "openmp"}
    /\ MaxStack \in Nat

VARIABLES
    runtime,    \* the model of the events of the trace
    types,      \* task_info->types
    task,       \* task_info->tasks: the type and the flags of each task
    body,       \* the state of each body, "none" before it is created, and
                \* the thread of its stack
    stack,      \* the body stack of each thread, the top first
    taskid,     \* CH_TASKID of each thread
    bodyid,     \* CH_BODYID, only in nOS-V
    label,      \* CH_TYPE, in OpenMP CH_LABEL
    subsystem,  \* CH_SUBSYSTEM
    panic       \* the channel that refused a write

chans == <<taskid, bodyid, label, subsystem>>
vars == <<runtime, types, task, body, stack, chans, panic>>

NoTask == [type |-> "none", flags |-> {}]
NoThread == "none"
Flag == {"parallel", "resurrect", "pause", "relax"}
Body == TaskId \X BodyId

\* Only nOS-V has parallel tasks.
Parallel == IF runtime = "nosv" THEN BOOLEAN ELSE {FALSE}

\* Mistake: the bodies of a parallel task may be nested.
FlagsRelaxed(parallel) ==
    CASE runtime = "nosv" /\ parallel -> {"parallel", "relax"}
      [] runtime = "nosv" /\ ~parallel -> {"resurrect", "pause"}
      [] runtime = "nanos6" -> {"pause", "relax"}
      [] runtime = "openmp" -> {"resurrect", "relax"}

\* create_task() of each model.
Flags(parallel) ==
    CASE runtime = "nosv" /\ parallel -> {"parallel"}
      [] runtime = "nosv" /\ ~parallel -> {"resurrect", "pause"}
      [] runtime = "nanos6" -> {"pause", "relax"}
      [] runtime = "openmp" -> {"resurrect", "relax"}

Created(i) == task[i] # NoTask
FlagsOf(b) == task[b[1]].flags
GidOf(b) == Gid[task[b[1]].type]

\* body_get_running(): the top of the stack, if it is running.
Running(bd, stk) == IF stk # <<>> /\ bd[Head(stk)].state = "running"
                    THEN <<Head(stk)>> ELSE <<>>

Init ==
    /\ runtime \in Runtime
    /\ types = {}
    /\ task = [i \in TaskId |-> NoTask]
    /\ body = [b \in Body |-> [state |-> "none", on |-> NoThread]]
    /\ stack = [t \in Thread |-> <<>>]
    /\ taskid = [t \in Thread |-> <<>>]
    /\ bodyid = [t \in Thread |-> <<>>]
    /\ label = [t \in Thread |-> <<>>]
    /\ subsystem = [t \in Thread |-> <<>>]
    /\ panic = "none"

TypeCreate(ty) ==
    /\ panic = "none"
    /\ ty \notin types
    /\ types' = types \union {ty}
    /\ UNCHANGED <<runtime, task, body, stack, chans, panic>>

TaskCreate(i, ty, parallel) ==
    /\ panic = "none"
    /\ ~Created(i) /\ ty \in types
    /\ task' = [task EXCEPT ![i] = [type |-> ty, flags |-> Flags(parallel)]]
    /\ UNCHANGED <<runtime, types, body, stack, chans, panic>>

-----------------------------------------------------------------------------
(* body.c and task.c.  The new states and stacks are given to the channels *)
(* by the actions below.                                                   *)

\* create_body(): only a parallel task has more than one body.
CanCreate(b) ==
    /\ body[b].state = "none"
    /\ "parallel" \in FlagsOf(b) \/ \A k \in BodyId : body[<<b[1], k>>].state = "none"

\* Mistake: a paused body may run again instead of resuming.
CanExecutePaused(t, b) ==
    /\ \/ CanCreate(b)
       \/ body[b].state \in {"dead", "paused"} /\ "resurrect" \in FlagsOf(b)
    /\ Running(body, stack[t]) # <<>> => "relax" \in FlagsOf(Head(stack[t]))

\* Mistake: the nesting is never checked.
CanExecuteNested(t, b) ==
    CanCreate(b) \/ (body[b].state = "dead" /\ "resurrect" \in FlagsOf(b))

\* A body runs for the first time, or again after its end, over a body that is
\* not running unless the nesting is relaxed.
CanExecute(t, b) ==
    /\ CanCreate(b) \/ (body[b].state = "dead" /\ "resurrect" \in FlagsOf(b))
    /\ Running(body, stack[t]) # <<>> => "relax" \in FlagsOf(Head(stack[t]))

IsTop(t, b) == body[b].on = t /\ stack[t] # <<>> /\ Head(stack[t]) = b
CanPause(t, b) == "pause" \in FlagsOf(b) /\ body[b].state = "running" /\ IsTop(t, b)
CanResume(t, b) == body[b].state = "paused" /\ IsTop(t, b)
CanEnd(t, b) == body[b].state = "running" /\ IsTop(t, b)

-----------------------------------------------------------------------------
(* The channels.                                                           *)

ST_TASK_BODY == "task body"
Subsystem == {ST_TASK_BODY, "other"}    \* one stands for all the rest

Top(ch) == IF ch = <<>> THEN <<>> ELSE <<Head(ch)>>
Push(ch, t, value) == [ch EXCEPT ![t] = <<value>> \o @]
Pop(ch, t) == [ch EXCEPT ![t] = Tail(@)]

Set(ch, t, value) == [ch EXCEPT ![t] = value]

Panic(what) ==
    /\ panic' = what
    /\ UNCHANGED <<runtime, types, task, body, stack, chans>>

\* chan_push() refuses a value when the stack of the channel is full.
HasRoom(ch, t) == Len(ch[t]) < MaxStack

\* Nanos6 does not allow a channel to repeat its value; nOS-V and OpenMP do.
CanPush(t, ss) ==
    /\ HasRoom(subsystem, t)
    /\ runtime = "nanos6" => Top(subsystem[t]) # <<ss>>
CanPop(t, ss) == Top(subsystem[t]) = <<ss>>

\* Mistake: a body that ends shows nothing, even with another one under it.
TransitionFlat(v, prev, next) == IF v = "x" /\ prev # <<>> THEN "X" ELSE v

\* expand_transition_value(): X and E are the nested transitions.
Transition(v, prev, next) ==
    IF v = "x" /\ prev # <<>> THEN "X"
    ELSE IF v = "e" /\ next # <<>> THEN "E" ELSE v

\* update_task_channels(): the body to show, if any (chan_body_running,
\* chan_body_stopped and chan_body_switch).
Shown(tr, prev, next) == IF tr \in {"x", "r", "X", "E"} THEN next ELSE <<>>

\* Mistake: the nested transitions do not change the subsystem.
SubsystemAfterNested(t, v, tr) ==
    IF tr = "x" THEN Push(subsystem, t, ST_TASK_BODY)
    ELSE IF tr = "e" THEN Pop(subsystem, t) ELSE subsystem

\* update_task_ss_channel(): it looks at the event, not at the transition.
SubsystemAfter(t, v, tr) ==
    IF v = "x" THEN Push(subsystem, t, ST_TASK_BODY)
    ELSE IF v = "e" THEN Pop(subsystem, t) ELSE subsystem

\* update_task() of nOS-V and Nanos6, when the bodies become bd and
\* the stacks become stk.  enforce_task_rules() finds the subsystem just pushed.
UpdateTask(t, v, bd, stk) ==
    LET prev == Running(body, stack[t])
        next == Running(bd, stk[t])
        tr == Transition(v, prev, next)
        shown == Shown(tr, prev, next)
        id == IF shown = <<>> THEN <<>> ELSE <<shown[1][1]>>
    IN  IF (v = "x" /\ ~CanPush(t, ST_TASK_BODY)) \/ (v = "e" /\ ~CanPop(t, ST_TASK_BODY))
        THEN Panic("subsystem")
        ELSE IF taskid[t] = id
        THEN Panic("taskid")
        ELSE /\ subsystem' = SubsystemAfter(t, v, tr)
             /\ taskid' = Set(taskid, t, id)
             /\ bodyid' = Set(bodyid, t, IF shown # <<>> /\ runtime = "nosv"
                                         THEN <<shown[1][2]>> ELSE <<>>)
             /\ label' = Set(label, t, IF shown # <<>>
                                       THEN <<GidOf(shown[1])>> ELSE <<>>)
             /\ body' = bd
             /\ stack' = stk
             /\ UNCHANGED <<runtime, types, task, panic>>

\* update_task() of OpenMP pushes and pops the task and its label.
UpdateTaskOpenmp(t, b, v, bd, stk) ==
    IF v = "x" /\ ~(HasRoom(taskid, t) /\ HasRoom(label, t)) THEN Panic("full")
    ELSE IF v = "e" /\ Top(taskid[t]) # <<b[1]>> THEN Panic("taskid")
    ELSE IF v = "e" /\ Top(label[t]) # <<GidOf(b)>> THEN Panic("label")
    ELSE /\ taskid' = IF v = "x" THEN Push(taskid, t, b[1]) ELSE Pop(taskid, t)
         /\ label' = IF v = "x" THEN Push(label, t, GidOf(b)) ELSE Pop(label, t)
         /\ body' = bd
         /\ stack' = stk
         /\ UNCHANGED <<runtime, types, task, bodyid, subsystem, panic>>

Update(t, b, v, bd, stk) ==
    IF runtime = "openmp" THEN UpdateTaskOpenmp(t, b, v, bd, stk)
                          ELSE UpdateTask(t, v, bd, stk)

-----------------------------------------------------------------------------
(* The events.                                                             *)

\* The bodies that an event may name: update_task_state().
Named == {b \in Body : Created(b[1]) /\ (b[2] = 1 \/ "parallel" \in FlagsOf(b))}

With(b, st, t) == [body EXCEPT ![b] = [state |-> st, on |-> t]]

TaskExecute(t, b) ==
    /\ panic = "none" /\ b \in Named /\ CanExecute(t, b)
    /\ Update(t, b, "x", With(b, "running", t), Push(stack, t, b))

TaskPause(t, b) ==
    /\ panic = "none" /\ b \in Named /\ CanPause(t, b)
    /\ Update(t, b, "p", With(b, "paused", t), stack)

TaskResume(t, b) ==
    /\ panic = "none" /\ b \in Named /\ CanResume(t, b)
    /\ Update(t, b, "r", With(b, "running", t), stack)

TaskEnd(t, b) ==
    /\ panic = "none" /\ b \in Named /\ CanEnd(t, b)
    /\ Update(t, b, "e", With(b, "dead", NoThread), Pop(stack, t))

\* simple(): the other subsystems of the three models.
PushSubsystem(t, ss) ==
    /\ panic = "none" /\ CanPush(t, ss)
    /\ subsystem' = Push(subsystem, t, ss)
    /\ UNCHANGED <<runtime, types, task, body, stack, taskid, bodyid, label, panic>>

PopSubsystem(t, ss) ==
    /\ panic = "none" /\ CanPop(t, ss)
    /\ subsystem' = Pop(subsystem, t)
    /\ UNCHANGED <<runtime, types, task, body, stack, taskid, bodyid, label, panic>>

\* update_ws_state(): a worksharing of OpenMP shows its label over the task.
WsBegin(t, ty) ==
    /\ panic = "none" /\ runtime = "openmp" /\ ty \in types
    /\ IF HasRoom(label, t)
       THEN /\ label' = Push(label, t, Gid[ty])
            /\ UNCHANGED <<runtime, types, task, body, stack, taskid, bodyid, subsystem,
                           panic>>
       ELSE Panic("full")

WsEnd(t, ty) ==
    /\ panic = "none" /\ runtime = "openmp" /\ ty \in types
    /\ Top(label[t]) = <<Gid[ty]>>
    /\ label' = Pop(label, t)
    /\ UNCHANGED <<runtime, types, task, body, stack, taskid, bodyid, subsystem, panic>>

Next ==
    \/ \E ty \in Type : TypeCreate(ty)
    \/ \E i \in TaskId, ty \in Type, parallel \in Parallel : TaskCreate(i, ty, parallel)
    \/ \E t \in Thread, b \in Body :
           TaskExecute(t, b) \/ TaskPause(t, b) \/ TaskResume(t, b) \/ TaskEnd(t, b)
    \/ \E t \in Thread : PushSubsystem(t, "other") \/ PopSubsystem(t, "other")
    \/ \E t \in Thread, ty \in Type : WsBegin(t, ty) \/ WsEnd(t, ty)

Spec == Init /\ [][Next]_vars

-----------------------------------------------------------------------------
(* Properties.                                                             *)

\* A body is in one place of one stack, the one of body->stack, as long as it
\* runs or is paused, and in none before and after: no thread ends or resumes
\* the body of another (body_execute and body_end are the only ones to move it).
Active(b) == body[b].state \in {"running", "paused"}
StackExact ==
    /\ \A t \in Thread : \A k \in 1..Len(stack[t]) :
           /\ Active(stack[t][k])
           /\ body[stack[t][k]].on = t
           /\ \A j \in 1..Len(stack[t]) : stack[t][j] = stack[t][k] => j = k
    /\ \A b \in Body : Active(b) =>
           \E t \in Thread : \E k \in 1..Len(stack[t]) : stack[t][k] = b

\* Only a task that relaxes the nesting, of Nanos6 or OpenMP, still runs under
\* another one; in nOS-V a thread runs one body at most (body_execute).
StrictNesting ==
    \A t \in Thread : \A k \in 2..Len(stack[t]) :
        body[stack[t][k]].state = "running" => "relax" \in FlagsOf(stack[t][k])

\* After each event the views show the body at the top of the stack of the
\* thread while it runs, and nothing while it is paused, however the bodies are
\* nested, paused and resumed; the OpenMP view keeps the whole stack
\* (update_task_channels).
ShowsRunning ==
    \A t \in Thread :
        LET top == Head(stack[t])
            ids == IF stack[t] # <<>> /\ body[top].state = "running" THEN <<top[1]>> ELSE <<>>
        IN  IF runtime = "openmp"
            THEN taskid[t] = [k \in DOMAIN stack[t] |-> stack[t][k][1]]
            ELSE /\ taskid[t] = ids
                 /\ label[t] = IF ids = <<>> THEN <<>> ELSE <<GidOf(top)>>
                 /\ runtime = "nosv" =>
                        bodyid[t] = IF ids = <<>> THEN <<>> ELSE <<top[2]>>

\* A thread has as many task bodies in its subsystem channel as bodies in its
\* stack, so end_lint(), which only looks at the channel, also finds the bodies
\* that never ended.
SubsystemDepth ==
    runtime # "openmp" =>
        \A t \in Thread :
            Cardinality({k \in DOMAIN subsystem[t] : subsystem[t][k] = ST_TASK_BODY})
                = Len(stack[t])

\* An event that the rules of tasks accept is never refused by the task id
\* channel, which takes no duplicates in nOS-V and Nanos6 and must have the task
\* at the top in OpenMP.  A stack that is full is another matter ("full" and
\* "subsystem"): MAX_CHAN_STACK is a limit on the nesting of the program.
NoTaskRefused == panic # "taskid"
=============================================================================

----------------------------- MODULE TaskProofs -----------------------------
(***************************************************************************)
(* The stacks of bodies are exact and strictly nested, the channels show   *)
(* what they hold and no channel of the task refuses a write, for any      *)
(* number of threads, tasks, types and bodies.                             *)
(***************************************************************************)
EXTENDS Task, SequenceTheorems, FiniteSetTheorems, TLAPS

-----------------------------------------------------------------------------
(* Sequences with the top first.                                           *)

\* A stack with one more at the top.
LEMMA PushedSeq ==
    ASSUME NEW S, NEW s \in Seq(S), NEW e \in S
    PROVE  /\ <<e>> \o s \in Seq(S)
           /\ Len(<<e>> \o s) = Len(s) + 1
           /\ (<<e>> \o s)[1] = e
           /\ \A k \in 2..Len(s) + 1 : (<<e>> \o s)[k] = s[k - 1]
<1>1. <<e>> \in Seq(S) /\ Len(<<e>>) = 1 /\ <<e>>[1] = e
    OBVIOUS
<1>2. <<e>> \o s \in Seq(S) /\ Len(<<e>> \o s) = Len(<<e>>) + Len(s)
    BY <1>1, ConcatProperties
<1>3. \A k \in 1..Len(<<e>>) + Len(s) :
          (<<e>> \o s)[k] = IF k <= Len(<<e>>) THEN <<e>>[k] ELSE s[k - Len(<<e>>)]
    BY <1>1, ConcatProperties
<1>4. Len(s) \in Nat
    OBVIOUS
<1> QED BY <1>1, <1>2, <1>3, <1>4

\* A stack without its top.
LEMMA PoppedSeq ==
    ASSUME NEW S, NEW s \in Seq(S), s # <<>>
    PROVE  /\ Head(s) = s[1] /\ Head(s) \in S
           /\ Len(s) \in Nat \ {0}
           /\ Tail(s) \in Seq(S)
           /\ Len(Tail(s)) = Len(s) - 1
           /\ \A k \in 1..Len(s) - 1 : Tail(s)[k] = s[k + 1]
BY HeadTailProperties, EmptySeq

-----------------------------------------------------------------------------
(* Types.                                                                  *)

TypeInv ==
    /\ runtime \in Runtime
    /\ types \subseteq Type
    /\ task \in [TaskId -> [type : Type, flags : SUBSET Flag] \union {NoTask}]
    /\ body \in [Body -> [state : {"none", "running", "paused", "dead"},
                          on : Thread \union {NoThread}]]
    /\ stack \in [Thread -> Seq(Body)]

\* What an event may do to the bodies and the stacks.
Kept == UNCHANGED <<body, stack>>
Executed(t, b) ==
    /\ ~Active(b) /\ b \in Named
    /\ Running(body, stack[t]) # <<>> => "relax" \in FlagsOf(Head(stack[t]))
    /\ body' = With(b, "running", t) /\ stack' = Push(stack, t, b)
Switched(t, b, st) ==
    /\ st \in {"running", "paused"} /\ Active(b) /\ IsTop(t, b)
    /\ st = "paused" => "pause" \in FlagsOf(b)
    /\ body' = With(b, st, t) /\ UNCHANGED stack
Ended(t, b) ==
    /\ Active(b) /\ IsTop(t, b)
    /\ body' = With(b, "dead", NoThread) /\ stack' = Pop(stack, t)

Moved == \/ Kept
         \/ \E t \in Thread, b \in Body :
                Executed(t, b) \/ (\E st \in {"running", "paused"} : Switched(t, b, st))
                               \/ Ended(t, b)

\* An event changes the stack and the body together, or none of them.
LEMMA UpdateMoves ==
    ASSUME NEW t, NEW b, NEW v, NEW STATE bd, NEW STATE stk, Update(t, b, v, bd, stk)
    PROVE  /\ (body' = bd /\ stack' = stk) \/ Kept
           /\ UNCHANGED <<runtime, types, task>>
<1>1. CASE UpdateTaskOpenmp(t, b, v, bd, stk)
    BY <1>1 DEF UpdateTaskOpenmp, Panic, Kept
<1>2. CASE UpdateTask(t, v, bd, stk)
    BY <1>2 DEF UpdateTask, Panic, Kept
<1> QED BY <1>1, <1>2 DEF Update

\* The events of a task move bodies in four ways.
LEMMA EventMoves ==
    ASSUME NEW t \in Thread, NEW b \in Body,
           TaskExecute(t, b) \/ TaskPause(t, b) \/ TaskResume(t, b) \/ TaskEnd(t, b)
    PROVE  /\ UNCHANGED <<runtime, types, task>>
           /\ \/ Kept \/ Executed(t, b) \/ Ended(t, b)
              \/ \E st \in {"running", "paused"} : Switched(t, b, st)
<1>1. ASSUME TaskExecute(t, b)
      PROVE  UNCHANGED <<runtime, types, task>> /\ (Executed(t, b) \/ Kept)
    <2>1. ~Active(b) /\ b \in Named
        BY <1>1 DEF TaskExecute, CanExecute, CanCreate, Active
    <2>2. Update(t, b, "x", With(b, "running", t), Push(stack, t, b))
          /\ (Running(body, stack[t]) # <<>> => "relax" \in FlagsOf(Head(stack[t])))
        BY <1>1 DEF TaskExecute, CanExecute
    <2> QED BY <2>1, <2>2, UpdateMoves DEF Executed
<1>2. ASSUME TaskPause(t, b)
      PROVE  UNCHANGED <<runtime, types, task>> /\ (Switched(t, b, "paused") \/ Kept)
    <2>1. Active(b) /\ IsTop(t, b) /\ "pause" \in FlagsOf(b) /\ Update(t, b, "p", With(b, "paused", t), stack)
        BY <1>2 DEF TaskPause, CanPause, Active
    <2> QED BY <2>1, UpdateMoves DEF Switched
<1>3. ASSUME TaskResume(t, b)
      PROVE  UNCHANGED <<runtime, types, task>> /\ (Switched(t, b, "running") \/ Kept)
    <2>1. Active(b) /\ IsTop(t, b) /\ Update(t, b, "r", With(b, "running", t), stack)
        BY <1>3 DEF TaskResume, CanResume, Active
    <2> QED BY <2>1, UpdateMoves DEF Switched
<1>4. ASSUME TaskEnd(t, b)
      PROVE  UNCHANGED <<runtime, types, task>> /\ (Ended(t, b) \/ Kept)
    <2>1. Active(b) /\ IsTop(t, b) /\ Update(t, b, "e", With(b, "dead", NoThread), Pop(stack, t))
        BY <1>4 DEF TaskEnd, CanEnd, Active
    <2> QED BY <2>1, UpdateMoves DEF Ended
<1> QED BY <1>1, <1>2, <1>3, <1>4

\* And so does every step of the three models.
LEMMA NextMoves ==
    ASSUME TypeInv, [Next]_vars
    PROVE  /\ Moved
           /\ runtime' = runtime
           /\ types' \subseteq Type /\ types \subseteq types'
           /\ \/ UNCHANGED task
              \/ \E i \in TaskId, ty \in Type, parallel \in Parallel :
                     ~Created(i) /\ task' = [task EXCEPT ![i] =
                                        [type |-> ty, flags |-> Flags(parallel)]]
<1>1. CASE UNCHANGED vars
    BY <1>1 DEF vars, Moved, Kept, TypeInv
<1>2. ASSUME NEW ty \in Type, TypeCreate(ty) PROVE UNCHANGED <<runtime, task, body, stack>> /\ types' = types \union {ty}
    BY <1>2 DEF TypeCreate
<1>3. ASSUME NEW i \in TaskId, NEW ty \in Type, NEW parallel \in Parallel, TaskCreate(i, ty, parallel)
      PROVE  /\ UNCHANGED <<runtime, types, body, stack>> /\ ~Created(i)
             /\ task' = [task EXCEPT ![i] = [type |-> ty, flags |-> Flags(parallel)]]
    BY <1>3 DEF TaskCreate
<1>4. ASSUME NEW t \in Thread, NEW b \in Body,
             TaskExecute(t, b) \/ TaskPause(t, b) \/ TaskResume(t, b) \/ TaskEnd(t, b)
      PROVE  /\ UNCHANGED <<runtime, types, task>>
             /\ \/ Kept \/ Executed(t, b) \/ Ended(t, b)
                \/ \E st \in {"running", "paused"} : Switched(t, b, st)
    BY <1>4, EventMoves
<1>5. ASSUME NEW t \in Thread, NEW ty, PushSubsystem(t, ty) \/ PopSubsystem(t, ty) \/ WsBegin(t, ty) \/ WsEnd(t, ty)
      PROVE  UNCHANGED <<runtime, types, task, body, stack>>
    BY <1>5 DEF PushSubsystem, PopSubsystem, WsBegin, WsEnd, Panic
<1>6. types \subseteq Type
    BY DEF TypeInv
<1> QED BY <1>1, <1>2, <1>3, <1>4, <1>5, <1>6 DEF Next, Moved, Kept

\* create_task() gives the flags of the model.
LEMMA FlagsType == ASSUME NEW parallel \in BOOLEAN, runtime \in Runtime PROVE Flags(parallel) \in SUBSET Flag
BY TaskAssumption DEF Flags, Flag

\* Every step keeps the types.
LEMMA TypeStep == TypeInv /\ [Next]_vars => TypeInv'
<1> SUFFICES ASSUME TypeInv, [Next]_vars PROVE TypeInv'
    OBVIOUS
<1>1. (task \in [TaskId -> [type : Type, flags : SUBSET Flag] \union {NoTask}])'
    <2>1. \A parallel \in Parallel : Flags(parallel) \in SUBSET Flag
        BY FlagsType DEF Parallel, TypeInv
    <2> QED BY <2>1, NextMoves DEF TypeInv
<1>2. /\ (body \in [Body -> [state : {"none", "running", "paused", "dead"},
                             on : Thread \union {NoThread}]])'
      /\ (stack \in [Thread -> Seq(Body)])'
    <2>1. CASE Kept
        BY <2>1 DEF Kept, TypeInv
    <2>2. ASSUME NEW t \in Thread, NEW b \in Body, Executed(t, b) PROVE <1>2!1 /\ <1>2!2
        <3>1. <<b>> \o stack[t] \in Seq(Body)
            BY PushedSeq DEF TypeInv
        <3> QED BY <2>2, <3>1 DEF Executed, With, Push, TypeInv
    <2>3. ASSUME NEW t \in Thread, NEW b \in Body, NEW st \in {"running", "paused"}, Switched(t, b, st)
          PROVE <1>2!1 /\ <1>2!2
        BY <2>3 DEF Switched, With, TypeInv
    <2>4. ASSUME NEW t \in Thread, NEW b \in Body, Ended(t, b) PROVE <1>2!1 /\ <1>2!2
        <3>1. Tail(stack[t]) \in Seq(Body)
            BY <2>4, PoppedSeq DEF TypeInv, Ended, IsTop
        <3> QED BY <2>4, <3>1 DEF Ended, With, Pop, TypeInv
    <2> QED BY <2>1, <2>2, <2>3, <2>4, NextMoves DEF Moved
<1> QED BY <1>1, <1>2, NextMoves DEF TypeInv

-----------------------------------------------------------------------------
(* Stacks.                                                                 *)

\* Every step keeps the stacks exact.
LEMMA StackStep == TypeInv /\ StackExact /\ [Next]_vars => StackExact'
<1> SUFFICES ASSUME TypeInv, StackExact, [Next]_vars PROVE StackExact'
    OBVIOUS
<1> USE DEF TypeInv
<1>1. CASE Kept
    BY <1>1 DEF Kept, StackExact, Active
<1>2. ASSUME NEW t \in Thread, NEW b \in Body, Executed(t, b) PROVE StackExact'
    <2> DEFINE s == stack[t]
    <2>1. /\ stack'[t] = <<b>> \o s /\ s \in Seq(Body) /\ Len(s) \in Nat
          /\ \A u \in Thread : u # t => stack'[u] = stack[u]
          /\ body'[b] = [state |-> "running", on |-> t]
          /\ \A c \in Body : c # b => body'[c] = body[c]
        BY <1>2 DEF Executed, With, Push
    <2>2. /\ Len(stack'[t]) = Len(s) + 1 /\ stack'[t][1] = b
          /\ \A k \in 2..Len(s) + 1 : stack'[t][k] = s[k - 1]
        BY <2>1, PushedSeq
    <2>3. \A u \in Thread : \A k \in 1..Len(stack[u]) : stack[u][k] \in Body /\ stack[u][k] # b
        BY <1>2 DEF Executed, StackExact
    <2>4. ASSUME NEW u \in Thread, NEW k \in 1..Len(stack'[u])
          PROVE  /\ Active(stack[u][k])' /\ body'[stack'[u][k]].on = u
                 /\ \A j \in 1..Len(stack'[u]) : stack'[u][j] = stack'[u][k] => j = k
        <3>1. CASE u # t
            BY <3>1, <2>1, <2>3, <2>4 DEF StackExact, Active
        <3>0. \A j \in 2..Len(s) + 1 :
                  /\ j - 1 \in 1..Len(s) /\ stack'[t][j] = s[j - 1]
                  /\ stack'[t][j] # b
            BY <2>1, <2>2, <2>3
        <3>2. CASE u = t /\ k = 1
            <4>1. Active(stack[u][k])' /\ body'[stack'[u][k]].on = u
                BY <3>2, <2>1, <2>2 DEF Active
            <4>2. \A j \in 1..Len(s) + 1 : j = 1 \/ j \in 2..Len(s) + 1
                BY <2>1
            <4>3. \A j \in 1..Len(s) + 1 : stack'[t][j] = b => j = 1
                BY <4>2, <3>0
            <4> QED BY <3>2, <4>1, <4>3, <2>2
        <3>3. CASE u = t /\ k # 1
            <4>1. k - 1 \in 1..Len(s) /\ stack'[t][k] = s[k - 1] /\ s[k - 1] \in Body /\ s[k - 1] # b
                BY <3>3, <2>1, <2>2, <2>3, <2>4
            <4>2. Active(s[k - 1]) /\ body[s[k - 1]].on = t
                BY <4>1 DEF StackExact
            <4>3. ASSUME NEW j \in 1..Len(s) + 1, stack'[t][j] = stack'[t][k] PROVE j = k
                <5>1. j # 1
                    BY <4>1, <4>3, <2>2
                <5>2. j - 1 \in 1..Len(s) /\ s[j - 1] = s[k - 1]
                    BY <5>1, <4>1, <4>3, <3>0, <2>1
                <5>3. j - 1 = k - 1
                    BY <5>2, <4>1 DEF StackExact
                <5> QED BY <5>3, <3>3, <2>1, <2>2
            <4> QED BY <3>3, <4>1, <4>2, <4>3, <2>1, <2>2 DEF Active
        <3> QED BY <3>1, <3>2, <3>3
    <2>5. ASSUME NEW c \in Body, Active(c)'
          PROVE  \E u \in Thread : \E k \in 1..Len(stack'[u]) : stack'[u][k] = c
        <3> HIDE DEF TypeInv
        <3>1. CASE c = b
            <4>1. 1 \in 1..Len(stack'[t]) /\ stack'[t][1] = c
                BY <3>1, <2>1, <2>2
            <4> QED BY <4>1
        <3>2. CASE c # b
            <4>0. PICK u \in Thread : \E k \in 1..Len(stack[u]) : stack[u][k] = c
                BY <3>2, <2>1, <2>5 DEF StackExact, Active
            <4>1. PICK k \in 1..Len(stack[u]) : stack[u][k] = c
                BY <4>0
            <4>2. CASE u # t
                BY <4>1, <4>2, <2>1
            <4>3. CASE u = t
                <5>1. k + 1 \in 2..Len(s) + 1 /\ (k + 1) - 1 = k
                    BY <4>1, <4>3, <2>1
                <5>2. k + 1 \in 1..Len(stack'[t]) /\ stack'[t][k + 1] = c
                    BY <5>1, <4>1, <4>3, <2>1, <2>2
                <5> QED BY <5>2
            <4> QED BY <4>2, <4>3
        <3> QED BY <3>1, <3>2
    <2> QED BY <2>4, <2>5 DEF StackExact
<1>3. ASSUME NEW t \in Thread, NEW b \in Body, NEW st \in {"running", "paused"},
             Switched(t, b, st)
      PROVE  StackExact'
    <2>1. /\ stack' = stack /\ Active(b) /\ body[b].on = t
          /\ body'[b] = [state |-> st, on |-> t]
          /\ \A c \in Body : c # b => body'[c] = body[c]
        BY <1>3 DEF Switched, With, IsTop
    <2>2. \A c \in Body : Active(c)' = Active(c) /\ (Active(c) => body'[c].on = body[c].on)
        BY <2>1 DEF Active
    <2>3. \A u \in Thread : \A k \in 1..Len(stack[u]) : stack[u][k] \in Body
        OBVIOUS
    <2> HIDE DEF TypeInv
    <2> QED BY <2>1, <2>2, <2>3 DEF StackExact, Active
<1>4. ASSUME NEW t \in Thread, NEW b \in Body, Ended(t, b) PROVE StackExact'
    <2> DEFINE s == stack[t]
    <2>1. /\ stack'[t] = Tail(s) /\ s \in Seq(Body) /\ s # <<>> /\ Head(s) = b
          /\ \A u \in Thread : u # t => stack'[u] = stack[u]
          /\ body'[b] = [state |-> "dead", on |-> NoThread] /\ body[b].on = t
          /\ \A c \in Body : c # b => body'[c] = body[c]
        BY <1>4 DEF Ended, With, Pop, IsTop
    <2>2. /\ Len(s) \in Nat \ {0} /\ s[1] = b /\ Len(stack'[t]) = Len(s) - 1
          /\ \A k \in 1..Len(s) - 1 : stack'[t][k] = s[k + 1]
        BY <2>1, PoppedSeq
    <2>3. \A u \in Thread : \A k \in 1..Len(stack[u]) :
              /\ stack[u][k] \in Body
              /\ stack[u][k] = b => u = t /\ k = 1
        BY <2>1, <2>2 DEF StackExact
    <2>4. ASSUME NEW u \in Thread, NEW k \in 1..Len(stack'[u])
          PROVE  /\ Active(stack[u][k])' /\ body'[stack'[u][k]].on = u
                 /\ \A j \in 1..Len(stack'[u]) : stack'[u][j] = stack'[u][k] => j = k
        <3>1. CASE u # t
            BY <3>1, <2>1, <2>3, <2>4 DEF StackExact, Active
        <3>2. CASE u = t
            <4>1. k + 1 \in 2..Len(s) /\ stack'[t][k] = s[k + 1] /\ s[k + 1] \in Body /\ s[k + 1] # b
                BY <3>2, <2>1, <2>2, <2>3, <2>4
            <4>2. Active(s[k + 1]) /\ body[s[k + 1]].on = t
                BY <4>1, <2>2 DEF StackExact
            <4>3. ASSUME NEW j \in 1..Len(s) - 1, stack'[t][j] = stack'[t][k] PROVE j = k
                BY <4>1, <4>3, <2>1, <2>2 DEF StackExact
            <4> QED BY <3>2, <4>1, <4>2, <4>3, <2>1, <2>2 DEF Active
        <3> QED BY <3>1, <3>2
    <2>5. ASSUME NEW c \in Body, Active(c)'
          PROVE  \E u \in Thread : \E k \in 1..Len(stack'[u]) : stack'[u][k] = c
        <3>1. c # b /\ Active(c)
            BY <2>1, <2>5 DEF Active
        <3>0. PICK u \in Thread : \E k \in 1..Len(stack[u]) : stack[u][k] = c
            BY <3>1 DEF StackExact
        <3>2. PICK k \in 1..Len(stack[u]) : stack[u][k] = c
            BY <3>0
        <3>3. CASE u # t
            BY <3>2, <3>3, <2>1
        <3>4. CASE u = t
            <4>1. k - 1 \in 1..Len(s) - 1 /\ stack'[t][k - 1] = c
                BY <3>1, <3>2, <3>4, <2>1, <2>2
            <4> QED BY <4>1, <2>2
        <3> QED BY <3>3, <3>4
    <2> QED BY <2>4, <2>5 DEF StackExact
<1> QED BY <1>1, <1>2, <1>3, <1>4, NextMoves DEF Moved

-----------------------------------------------------------------------------
(* Nesting.                                                                *)

\* Only bodies of tasks that exist are in the stacks.
ActiveCreated == \A b \in Body : Active(b) => Created(b[1])

TaskInv == TypeInv /\ StackExact /\ ActiveCreated /\ StrictNesting

\* A task that exists keeps its type and its flags.
LEMMA TaskKept ==
    ASSUME TypeInv, [Next]_vars
    PROVE  \A i \in TaskId : Created(i) => task'[i] = task[i] /\ Created(i)'
<1>1. task \in [TaskId -> [type : Type, flags : SUBSET Flag] \union {NoTask}]
    BY DEF TypeInv
<1> HIDE DEF TypeInv
<1> QED BY <1>1, NextMoves DEF Created

\* Only bodies of created tasks are active.
LEMMA CreatedStep == TypeInv /\ ActiveCreated /\ [Next]_vars => ActiveCreated'
<1> SUFFICES ASSUME TypeInv, ActiveCreated, [Next]_vars, NEW b \in Body, Active(b)'
             PROVE  Created(b[1])'
    BY DEF ActiveCreated
<1>1. Active(b) \/ Created(b[1])
    BY NextMoves DEF Moved, Kept, Executed, Switched, Ended, With, Active, Named, TypeInv
<1>2. Created(b[1]) /\ b[1] \in TaskId
    BY <1>1 DEF ActiveCreated, Body
<1> QED BY <1>2, TaskKept

\* Every step keeps the nesting strict.
LEMMA NestingStep == TaskInv /\ [Next]_vars => StrictNesting'
<1> SUFFICES ASSUME TaskInv, [Next]_vars, NEW u \in Thread, NEW k \in 2..Len(stack'[u]),
                    body'[stack'[u][k]].state = "running"
             PROVE  "relax" \in FlagsOf(stack[u][k])'
    BY DEF StrictNesting
<1> DEFINE s == stack[u]
<1>0. TypeInv /\ StackExact /\ ActiveCreated /\ StrictNesting
    BY DEF TaskInv
<1>1. s \in Seq(Body) /\ Len(s) \in Nat
    BY <1>0 DEF TypeInv
<1>2. ASSUME NEW j \in 1..Len(s), stack'[u][k] = s[j], "relax" \in FlagsOf(s[j])
      PROVE  "relax" \in FlagsOf(stack[u][k])'
    <2>1. Active(s[j]) /\ s[j] \in Body
        BY <1>0, <1>1 DEF StackExact
    <2>2. Created(s[j][1]) /\ s[j][1] \in TaskId
        BY <2>1, <1>0 DEF ActiveCreated, Body
    <2>3. task'[s[j][1]] = task[s[j][1]]
        BY <2>2, <1>0, TaskKept
    <2> QED BY <1>2, <2>3 DEF FlagsOf
<1>3. ASSUME NEW j \in 2..Len(s), body[s[j]].state = "running"
      PROVE  "relax" \in FlagsOf(s[j])
    BY <1>3, <1>0 DEF StrictNesting
<1>4. ASSUME stack'[u] = s, body'[s[k]].state = "running" => body[s[k]].state = "running"
      PROVE  "relax" \in FlagsOf(stack[u][k])'
    BY <1>1, <1>2, <1>3, <1>4
<1>5. CASE Kept
    BY <1>4, <1>5 DEF Kept
<1>6. ASSUME NEW t \in Thread, NEW b \in Body, Executed(t, b)
      PROVE  "relax" \in FlagsOf(stack[u][k])'
    <2>1. CASE u # t
        <3>1. stack'[u] = s
            BY <1>0, <1>6, <2>1 DEF Executed, Push, TypeInv
        <3>2. k \in 1..Len(s) /\ s[k] \in Body
            BY <3>1, <1>1
        <3>3. Active(s[k]) /\ s[k] # b
            BY <3>2, <1>0, <1>6 DEF StackExact, Executed
        <3>4. body'[s[k]] = body[s[k]]
            BY <3>2, <3>3, <1>0, <1>6 DEF Executed, With, TypeInv
        <3> QED BY <3>1, <3>4, <1>4
    <2>2. CASE u = t
        <3>1. stack'[u] = <<b>> \o s
            BY <1>0, <1>6, <2>2 DEF Executed, Push, TypeInv
        <3>2. Len(stack'[u]) = Len(s) + 1 /\ stack'[u][k] = s[k - 1]
            BY <3>1, <1>1, PushedSeq
        <3>3. k - 1 \in 1..Len(s) /\ s[k - 1] \in Body
            BY <3>2, <1>1
        <3>4. Active(s[k - 1]) /\ s[k - 1] # b
            BY <3>3, <1>0, <1>6 DEF StackExact, Executed
        <3>5. body[s[k - 1]].state = "running"
            BY <3>2, <3>3, <3>4, <1>0, <1>6 DEF Executed, With, TypeInv
        <3>6. CASE k = 2
            <4>1. s # <<>> /\ Head(s) = s[1]
                BY <3>3, <1>1, PoppedSeq, EmptySeq
            <4>2. "relax" \in FlagsOf(s[1])
                BY <4>1, <3>5, <3>6, <1>6, <2>2 DEF Executed, Running
            <4> QED BY <4>2, <3>2, <3>3, <3>6, <1>2
        <3>7. CASE k # 2
            BY <3>2, <3>3, <3>5, <3>7, <1>2, <1>3
        <3> QED BY <3>6, <3>7
    <2> QED BY <2>1, <2>2
<1>7. ASSUME NEW t \in Thread, NEW b \in Body, NEW st \in {"running", "paused"},
             Switched(t, b, st)
      PROVE  "relax" \in FlagsOf(stack[u][k])'
    <2>1. stack'[u] = s /\ k \in 1..Len(s) /\ s[k] \in Body
        BY <1>1, <1>7 DEF Switched
    <2>2. s[k] # b
        <3>1. s # <<>> /\ Len(s) >= 2
            BY <2>1, <1>1, EmptySeq
        <3>2. Head(s) = s[1] /\ (u = t => s[1] = b)
            BY <3>1, <1>1, <1>7, PoppedSeq DEF Switched, IsTop
        <3>3. body[s[k]].on = u /\ (s[1] = s[k] => k = 1)
            BY <2>1, <3>1, <1>0 DEF StackExact
        <3> QED BY <3>2, <3>3, <1>7 DEF Switched, IsTop
    <2>3. body'[s[k]] = body[s[k]]
        BY <2>1, <2>2, <1>0, <1>7 DEF Switched, With, TypeInv
    <2> QED BY <2>1, <2>3, <1>4
<1>8. ASSUME NEW t \in Thread, NEW b \in Body, Ended(t, b)
      PROVE  "relax" \in FlagsOf(stack[u][k])'
    <2>1. CASE u # t
        <3>1. stack'[u] = s
            BY <1>0, <1>8, <2>1 DEF Ended, Pop, TypeInv
        <3>2. k \in 1..Len(s) /\ s[k] \in Body
            BY <3>1, <1>1
        <3>3. s[k] # b
            BY <3>2, <2>1, <1>0, <1>8 DEF StackExact, Ended, IsTop
        <3>4. body'[s[k]] = body[s[k]]
            BY <3>2, <3>3, <1>0, <1>8 DEF Ended, With, TypeInv
        <3> QED BY <3>1, <3>4, <1>4
    <2>2. CASE u = t
        <3>1. stack'[u] = Tail(s) /\ s # <<>> /\ Head(s) = b
            BY <1>0, <1>8, <2>2 DEF Ended, Pop, IsTop, TypeInv
        <3>2. s[1] = b /\ Len(stack'[u]) = Len(s) - 1 /\ stack'[u][k] = s[k + 1]
            BY <3>1, <1>1, PoppedSeq
        <3>3. k + 1 \in 2..Len(s) /\ s[k + 1] \in Body
            BY <3>2, <1>1
        <3>4. s[k + 1] # b
            BY <3>2, <3>3, <1>0, <1>1 DEF StackExact
        <3>5. body[s[k + 1]].state = "running"
            BY <3>2, <3>3, <3>4, <1>0, <1>8 DEF Ended, With, TypeInv
        <3> QED BY <3>2, <3>3, <3>5, <1>2, <1>3
    <2> QED BY <2>1, <2>2
<1> QED BY <1>0, <1>5, <1>6, <1>7, <1>8, NextMoves DEF Moved

-----------------------------------------------------------------------------
(* The channels.                                                           *)

\* The flags of a task are those its model gives it, and a body other than the
\* first is one of a parallel task.
FlagsExact ==
    \A i \in TaskId : Created(i) =>
        \E p \in BOOLEAN : (p => runtime = "nosv") /\ task[i].flags = Flags(p)
ActiveNamed ==
    \A b \in Body : Active(b) => b[2] = 1 \/ "parallel" \in FlagsOf(b)

\* Only a task that may be paused is.
PausedAllowed ==
    \A b \in Body : body[b].state = "paused" => "pause" \in FlagsOf(b)

ChanTypes ==
    /\ taskid \in [Thread -> Seq(TaskId)]
    /\ bodyid \in [Thread -> Seq(BodyId)]
    /\ label \in [Thread -> Seq({Gid[ty] : ty \in Type})]
    /\ subsystem \in [Thread -> Seq(Subsystem)]

ChanInv == /\ TaskInv /\ FlagsExact /\ ActiveNamed /\ PausedAllowed /\ ChanTypes
           /\ ShowsRunning /\ SubsystemDepth /\ NoTaskRefused

\* Every task keeps the flags it was created with.
LEMMA FlagsStep == TypeInv /\ FlagsExact /\ [Next]_vars => FlagsExact'
<1> SUFFICES ASSUME TypeInv, FlagsExact, [Next]_vars, NEW i \in TaskId, Created(i)'
             PROVE  \E p \in BOOLEAN : (p => runtime' = "nosv") /\ task'[i].flags = Flags(p)'
    BY DEF FlagsExact
<1>1. runtime' = runtime /\ \A p \in BOOLEAN : Flags(p)' = Flags(p)
    BY NextMoves DEF Flags
<1>2. CASE Created(i)
    <2>1. task'[i] = task[i]
        BY <1>2, TaskKept
    <2> QED BY <1>1, <1>2, <2>1 DEF FlagsExact
<1>3. CASE ~Created(i)
    <2>1. \E p \in Parallel : task'[i].flags = Flags(p)
        BY <1>3, NextMoves DEF Created, TypeInv
    <2> QED BY <1>1, <2>1 DEF Parallel
<1> QED BY <1>2, <1>3

\* Only a parallel task has active bodies other than the first.
LEMMA NamedStep == TaskInv /\ ActiveNamed /\ [Next]_vars => ActiveNamed'
<1> SUFFICES ASSUME TaskInv, ActiveNamed, [Next]_vars, NEW b \in Body, Active(b)'
             PROVE  b[2] = 1 \/ "parallel" \in FlagsOf(b)'
    BY DEF ActiveNamed
<1>1. TypeInv /\ ActiveCreated
    BY DEF TaskInv
<1>2. Active(b) \/ b \in Named
    BY <1>1, NextMoves DEF Moved, Kept, Executed, Switched, Ended, With, Active, TypeInv
<1>3. Created(b[1]) /\ b[1] \in TaskId
    BY <1>1, <1>2 DEF ActiveCreated, Named, Body
<1>4. FlagsOf(b)' = FlagsOf(b)
    BY <1>1, <1>3, TaskKept DEF FlagsOf
<1> QED BY <1>2, <1>4 DEF ActiveNamed, Named

\* Only a task that may pause is paused.
LEMMA PausedStep == TaskInv /\ PausedAllowed /\ [Next]_vars => PausedAllowed'
<1> SUFFICES ASSUME TaskInv, PausedAllowed, [Next]_vars, NEW b \in Body,
                    body'[b].state = "paused"
             PROVE  "pause" \in FlagsOf(b)'
    BY DEF PausedAllowed
<1>1. TypeInv /\ ActiveCreated
    BY DEF TaskInv
<1>2. "pause" \in FlagsOf(b) /\ Active(b)
    <2>1. CASE Kept
        BY <2>1 DEF Kept, PausedAllowed, Active
    <2>2. ASSUME NEW t \in Thread, NEW c \in Body, Executed(t, c) \/ Ended(t, c)
          PROVE  <1>2!1 /\ <1>2!2
        BY <1>1, <2>2 DEF Executed, Ended, With, PausedAllowed, Active, TypeInv
    <2>3. ASSUME NEW t \in Thread, NEW c \in Body, NEW st \in {"running", "paused"},
                 Switched(t, c, st)
          PROVE  <1>2!1 /\ <1>2!2
        BY <1>1, <2>3 DEF Switched, With, PausedAllowed, Active, TypeInv
    <2> QED BY <1>1, <2>1, <2>2, <2>3, NextMoves DEF Moved
<1>3. Created(b[1]) /\ b[1] \in TaskId
    BY <1>1, <1>2 DEF ActiveCreated, Body
<1>4. FlagsOf(b)' = FlagsOf(b)
    BY <1>1, <1>3, TaskKept DEF FlagsOf
<1> QED BY <1>2, <1>4

\* Two active bodies of a task are one, unless the task is parallel.
LEMMA OneBody ==
    ASSUME ActiveNamed, NEW b \in Body, NEW c \in Body, Active(b), Active(c),
           b[1] = c[1], "parallel" \notin FlagsOf(b)
    PROVE  b = c
BY DEF ActiveNamed, FlagsOf, Body

\* In the models of this project a task that may be nested is not parallel.
LEMMA RelaxFlags ==
    ASSUME FlagsExact, runtime \in Runtime, NEW i \in TaskId, Created(i)
    PROVE  /\ "relax" \in task[i].flags => runtime # "nosv"
           /\ runtime # "nosv" => "parallel" \notin task[i].flags
           /\ runtime = "openmp" => "pause" \notin task[i].flags
<1>1. PICK p \in BOOLEAN : (p => runtime = "nosv") /\ task[i].flags = Flags(p)
    BY DEF FlagsExact
<1>2. CASE runtime = "nosv"
    <2>1. Flags(p) \in {{"parallel"}, {"resurrect", "pause"}}
        BY <1>2 DEF Flags
    <2> QED BY <1>1, <1>2, <2>1
<1>3. CASE runtime = "nanos6"
    <2>1. Flags(p) = {"pause", "relax"}
        BY <1>3, Zenon DEF Flags
    <2> QED BY <1>1, <1>3, <2>1
<1>4. CASE runtime = "openmp"
    <2>1. Flags(p) = {"resurrect", "relax"}
        BY <1>4, Zenon DEF Flags
    <2> QED BY <1>1, <1>4, <2>1
<1> QED BY <1>2, <1>3, <1>4, TaskAssumption

\* What an event of one thread leaves alone in the stack of another.
LEMMA OtherStacks ==
    ASSUME TaskInv, NEW t \in Thread, NEW b \in Body, NEW u \in Thread, u # t,
           \/ Kept \/ Executed(t, b) \/ Ended(t, b)
           \/ \E st \in {"running", "paused"} : Switched(t, b, st)
    PROVE  /\ stack'[u] = stack[u]
           /\ \A k \in 1..Len(stack[u]) : body'[stack[u][k]] = body[stack[u][k]]
<1>1. TypeInv /\ StackExact
    BY DEF TaskInv
<1>2. stack'[u] = stack[u]
    BY <1>1 DEF Kept, Executed, Switched, Ended, Push, Pop, TypeInv
<1>3. ASSUME ~Kept, NEW k \in 1..Len(stack[u]) PROVE stack[u][k] \in Body /\ stack[u][k] # b
    <2>1. stack[u][k] \in Body
        BY <1>1 DEF TypeInv
    <2>2. Active(stack[u][k]) /\ body[stack[u][k]].on = u
        BY <1>1 DEF StackExact
    <2> QED BY <1>3, <2>1, <2>2 DEF Executed, Switched, Ended, IsTop
<1>4. \A c \in Body : c # b => body'[c] = body[c]
    BY <1>1 DEF Kept, Executed, Switched, Ended, With, TypeInv
<1> QED BY <1>2, <1>3, <1>4 DEF Kept

-----------------------------------------------------------------------------
(* What the channels show.                                                 *)

IdOf(r) == IF r = <<>> THEN <<>> ELSE <<r[1][1]>>

\* The identifiers of different tasks are different.
LEMMA Ids == /\ IdOf(<<>>) = <<>>
             /\ \A c : IdOf(<<c>>) = <<c[1]>> /\ IdOf(<<c>>) # <<>>
             /\ \A c, d : c[1] # d[1] => IdOf(<<c>>) # IdOf(<<d>>)
BY DEF IdOf

\* ShowsRunning of a thread, in nOS-V and Nanos6 and in OpenMP.
ShowsFlat(t) ==
    LET r == Running(body, stack[t])
    IN  /\ taskid[t] = IdOf(r)
        /\ label[t] = IF r = <<>> THEN <<>> ELSE <<GidOf(r[1])>>
        /\ runtime = "nosv" => bodyid[t] = IF r = <<>> THEN <<>> ELSE <<r[1][2]>>
ShowsStack(t) == taskid[t] = [k \in DOMAIN stack[t] |-> stack[t][k][1]]
Shows(t) == IF runtime = "openmp" THEN ShowsStack(t) ELSE ShowsFlat(t)

\* The property, one thread at a time.
LEMMA ShowsDef == ShowsRunning <=> \A t \in Thread : Shows(t)
<1> SUFFICES ASSUME NEW t \in Thread, runtime # "openmp"
             PROVE  LET top == Head(stack[t])
                        ids == IF stack[t] # <<>> /\ body[top].state = "running" THEN <<top[1]>> ELSE <<>>
                    IN  ShowsFlat(t) <=>
                        /\ taskid[t] = ids
                        /\ label[t] = IF ids = <<>> THEN <<>> ELSE <<GidOf(top)>>
                        /\ runtime = "nosv" =>
                               bodyid[t] = IF ids = <<>> THEN <<>> ELSE <<top[2]>>
    BY DEF ShowsRunning, Shows, ShowsStack
<1>1. CASE stack[t] # <<>> /\ body[Head(stack[t])].state = "running"
    BY <1>1 DEF ShowsFlat, Running, IdOf
<1>2. CASE ~(stack[t] # <<>> /\ body[Head(stack[t])].state = "running")
    BY <1>2 DEF ShowsFlat, Running, IdOf
<1> QED BY <1>1, <1>2

\* The same after a step.
LEMMA ShowsPrime == ShowsRunning' <=> \A t \in Thread : Shows(t)'
<1>1. (ShowsRunning <=> \A t \in Thread : Shows(t))'
    BY ShowsDef, PTL
<1> QED BY <1>1

\* The body at the top of a stack.
LEMMA TopOf ==
    ASSUME TaskInv, NEW t \in Thread, stack[t] # <<>>
    PROVE  LET b == Head(stack[t])
           IN  /\ b = stack[t][1] /\ 1 \in 1..Len(stack[t])
               /\ b \in Body /\ b[1] \in TaskId /\ b[2] \in BodyId
               /\ Active(b) /\ Created(b[1])
               /\ [Next]_vars => task'[b[1]] = task[b[1]]
<1>1. TypeInv /\ StackExact /\ ActiveCreated
    BY DEF TaskInv
<1>2. /\ Head(stack[t]) = stack[t][1] /\ Head(stack[t]) \in Body
      /\ Len(stack[t]) \in Nat \ {0}
    BY <1>1, PoppedSeq DEF TypeInv
<1>3. Active(stack[t][1])
    BY <1>1, <1>2 DEF StackExact
<1>4. stack[t][1][1] \in TaskId /\ stack[t][1][2] \in BodyId
    BY <1>2 DEF Body
<1> QED BY <1>1, <1>2, <1>3, <1>4, TaskKept DEF ActiveCreated

\* A thread shows the same when its channels, its stack and its bodies are kept.
LEMMA ShowsKept ==
    ASSUME TaskInv, [Next]_vars, NEW u \in Thread, Shows(u),
           stack'[u] = stack[u],
           \A k \in 1..Len(stack[u]) : body'[stack[u][k]] = body[stack[u][k]],
           taskid'[u] = taskid[u], bodyid'[u] = bodyid[u],
           label'[u] = label[u] \/ runtime = "openmp"
    PROVE  Shows(u)'
<1>0. runtime' = runtime
    BY NextMoves DEF TaskInv
<1>1. CASE runtime = "openmp"
    BY <1>0, <1>1 DEF Shows, ShowsStack
<1>2. CASE runtime # "openmp"
    <2>1. CASE stack[u] = <<>>
        BY <1>0, <1>2, <2>1 DEF Shows, ShowsFlat, Running, IdOf
    <2>2. CASE stack[u] # <<>>
        <3>1. /\ body'[Head(stack[u])] = body[Head(stack[u])]
              /\ task'[Head(stack[u])[1]] = task[Head(stack[u])[1]]
            BY <2>2, TopOf
        <3>2. Running(body, stack[u])' = Running(body, stack[u])
            BY <3>1 DEF Running
        <3>3. CASE Running(body, stack[u]) = <<>>
            BY <1>0, <1>2, <3>2, <3>3 DEF Shows, ShowsFlat, IdOf
        <3>4. CASE Running(body, stack[u]) # <<>>
            <4>1. Running(body, stack[u]) = <<Head(stack[u])>>
                BY <3>4 DEF Running
            <4>2. GidOf(Head(stack[u]))' = GidOf(Head(stack[u]))
                BY <3>1 DEF GidOf
            <4> QED BY <1>0, <1>2, <3>2, <4>1, <4>2 DEF Shows, ShowsFlat, IdOf
        <3> QED BY <3>3, <3>4
    <2> QED BY <2>1, <2>2
<1> QED BY <1>1, <1>2

\* After an event the channel shows the body that runs next.
LEMMA ShownIsNext ==
    ASSUME NEW v \in {"x", "p", "r", "e"}, NEW prev, NEW next, v = "p" => next = <<>>
    PROVE  Shown(Transition(v, prev, next), prev, next) = next
BY DEF Shown, Transition

\* update_task() of nOS-V and Nanos6: when the body to show changes, no channel
\* refuses it and the thread shows the body that runs now.
LEMMA FlatUpdate ==
    ASSUME ChanInv, [Next]_vars, runtime # "openmp",
           NEW t \in Thread, NEW b \in Body, NEW v \in {"x", "p", "r", "e"},
           NEW STATE bd, NEW STATE stk, UpdateTask(t, v, bd, stk),
           \/ Kept \/ Executed(t, b) \/ Ended(t, b)
           \/ \E st \in {"running", "paused"} : Switched(t, b, st),
           v = "p" => Running(bd, stk[t]) = <<>>,
           IdOf(Running(body, stack[t])) # IdOf(Running(bd, stk[t]))
    PROVE  ShowsRunning' /\ NoTaskRefused'
<1> DEFINE prev == Running(body, stack[t])
           next == Running(bd, stk[t])
           tr == Transition(v, prev, next)
<1>1. TaskInv /\ ShowsRunning /\ NoTaskRefused /\ ChanTypes
    BY DEF ChanInv
<1>2. \A u \in Thread : Shows(u)
    BY <1>1, ShowsDef
<1>3. Shown(tr, prev, next) = next
    BY ShownIsNext
<1>4. taskid[t] = IdOf(prev)
    BY <1>2 DEF Shows, ShowsFlat
<1> HIDE DEF tr
<1>5. \/ Panic("subsystem")
      \/ /\ taskid' = Set(taskid, t, IdOf(next))
         /\ bodyid' = Set(bodyid, t, IF next # <<>> /\ runtime = "nosv"
                                     THEN <<next[1][2]>> ELSE <<>>)
         /\ label' = Set(label, t, IF next # <<>>
                                   THEN <<GidOf(next[1])>> ELSE <<>>)
         /\ body' = bd /\ stack' = stk
         /\ UNCHANGED <<runtime, types, task, panic>>
    BY <1>3, <1>4 DEF UpdateTask, IdOf, tr
<1>6. CASE Panic("subsystem")
    <2>1. UNCHANGED <<runtime, types, task, body, stack, taskid, bodyid, label>>
        BY <1>6 DEF Panic, chans
    <2>2. \A u \in Thread : Shows(u)'
        BY <1>2, <2>1 DEF Shows, ShowsFlat, ShowsStack, Running, GidOf, IdOf
    <2>3. NoTaskRefused'
        BY <1>6 DEF Panic, NoTaskRefused
    <2> QED BY <2>2, <2>3, ShowsPrime
<1>7. CASE ~Panic("subsystem")
    <2>1. ASSUME NEW u \in Thread PROVE Shows(u)'
        <3>1. CASE u # t
            <4>1. taskid'[u] = taskid[u] /\ bodyid'[u] = bodyid[u] /\ label'[u] = label[u]
                BY <1>1, <1>5, <1>7, <3>1 DEF Set, ChanTypes
            <4>2. /\ stack'[u] = stack[u]
                  /\ \A k \in 1..Len(stack[u]) : body'[stack[u][k]] = body[stack[u][k]]
                BY <1>1, <3>1, OtherStacks
            <4> QED BY <1>1, <1>2, <4>1, <4>2, ShowsKept
        <3>2. CASE u = t
            <4>1. /\ taskid'[t] = IdOf(next)
                  /\ bodyid'[t] = IF next # <<>> /\ runtime = "nosv" THEN <<next[1][2]>> ELSE <<>>
                  /\ label'[t] = IF next # <<>> THEN <<GidOf(next[1])>> ELSE <<>>
                BY <1>1, <1>5, <1>7 DEF Set, ChanTypes
            <4>2. Running(body, stack[t])' = next /\ runtime' = runtime /\ task' = task
                BY <1>5, <1>7 DEF Running
            <4> QED BY <3>2, <4>1, <4>2 DEF Shows, ShowsFlat, IdOf, GidOf
        <3> QED BY <3>1, <3>2
    <2>2. NoTaskRefused'
        BY <1>1, <1>5, <1>7 DEF NoTaskRefused
    <2> QED BY <2>1, <2>2, ShowsPrime
<1> QED BY <1>6, <1>7

\* The body that runs after an event is of another task than the one before, so
\* the channel of the task, which takes no duplicates, never refuses it.
LEMMA ExecuteDiffers ==
    ASSUME ChanInv, NEW t \in Thread, NEW b \in Body, TaskExecute(t, b), runtime # "openmp"
    PROVE  IdOf(Running(body, stack[t]))
             # IdOf(Running(With(b, "running", t), Push(stack, t, b)[t]))
<1>0. TaskInv /\ TypeInv /\ FlagsExact /\ ActiveNamed
    BY DEF ChanInv, TaskInv
<1>1. ~Active(b) /\ b \in Named /\ CanExecute(t, b)
    BY DEF TaskExecute, CanExecute, CanCreate, Active
<1>2. Running(With(b, "running", t), Push(stack, t, b)[t]) = <<b>>
    <2>1. Push(stack, t, b)[t] = <<b>> \o stack[t] /\ stack[t] \in Seq(Body)
        BY <1>0 DEF Push, TypeInv
    <2>2. <<b>> \o stack[t] # <<>> /\ Head(<<b>> \o stack[t]) = b
        BY <2>1, PushedSeq, PoppedSeq, EmptySeq
    <2>3. With(b, "running", t)[b].state = "running"
        BY <1>0 DEF With, TypeInv
    <2> QED BY <2>1, <2>2, <2>3 DEF Running
<1>3. CASE Running(body, stack[t]) = <<>>
    BY <1>2, <1>3, Ids
<1>4. CASE Running(body, stack[t]) # <<>>
    <2> DEFINE c == Head(stack[t])
    <2>1. stack[t] # <<>> /\ Running(body, stack[t]) = <<c>> /\ "relax" \in FlagsOf(c)
        BY <1>1, <1>4 DEF Running, CanExecute
    <2>2. c \in Body /\ Active(c) /\ Created(c[1]) /\ c[1] \in TaskId
        BY <1>0, <2>1, TopOf
    <2>3. "parallel" \notin FlagsOf(c)
        BY <1>0, <2>1, <2>2, RelaxFlags DEF FlagsOf, TypeInv
    <2>4. c[2] = 1
        BY <1>0, <2>2, <2>3 DEF ActiveNamed
    <2>5. ASSUME c[1] = b[1] PROVE FALSE
        <3>1. b[2] = 1
            BY <1>1, <2>3, <2>5 DEF Named, FlagsOf
        <3>2. b = c
            BY <2>2, <2>4, <2>5, <3>1 DEF Body
        <3> QED BY <1>1, <2>2, <3>2
    <2> HIDE DEF c
    <2> QED BY <1>2, <2>1, <2>5, Ids
<1> QED BY <1>3, <1>4

\* The end of a body changes the task that is shown, so its channel accepts it.
LEMMA EndDiffers ==
    ASSUME ChanInv, NEW t \in Thread, NEW b \in Body, TaskEnd(t, b), runtime # "openmp"
    PROVE  IdOf(Running(body, stack[t]))
             # IdOf(Running(With(b, "dead", NoThread), Pop(stack, t)[t]))
<1>0. TaskInv /\ TypeInv /\ StackExact /\ StrictNesting /\ ActiveCreated /\ FlagsExact /\ ActiveNamed
    BY DEF ChanInv, TaskInv
<1> DEFINE s == stack[t]
           next == Running(With(b, "dead", NoThread), Pop(stack, t)[t])
<1>1. body[b].state = "running" /\ IsTop(t, b) /\ s \in Seq(Body)
    BY <1>0 DEF TaskEnd, CanEnd, TypeInv
<1>2. Running(body, s) = <<b>> /\ s # <<>> /\ Head(s) = b
    BY <1>1 DEF Running, IsTop
<1>3. Pop(stack, t)[t] = Tail(s)
    BY <1>0 DEF Pop, TypeInv
<1>4. CASE next = <<>>
    BY <1>2, <1>4, Ids
<1>5. CASE next # <<>>
    <2> DEFINE c == Head(Tail(s))
    <2>1. Tail(s) # <<>> /\ With(b, "dead", NoThread)[c].state = "running" /\ next = <<c>>
        BY <1>3, <1>5 DEF Running
    <2>2. Tail(s) \in Seq(Body) /\ Len(Tail(s)) = Len(s) - 1 /\ Len(s) \in Nat
          /\ \A k \in 1..Len(s) - 1 : Tail(s)[k] = s[k + 1]
        BY <1>1, <1>2, PoppedSeq
    <2>3. c \in Body /\ c = Tail(s)[1] /\ Len(Tail(s)) \in Nat \ {0}
        BY <2>1, <2>2, PoppedSeq
    <2>4. 2 \in 2..Len(s) /\ 2 \in 1..Len(s) /\ c = s[2]
        <3>1. Len(s) >= 2 /\ Len(s) \in Nat /\ 1 \in 1..Len(s) - 1
            <4>1. ASSUME NEW n \in Nat, NEW m \in Nat \ {0}, m = n - 1
                  PROVE  n >= 2 /\ 1 \in 1..n - 1
                BY <4>1
            <4> HIDE DEF s, c
            <4> QED BY <2>2, <2>3, <4>1
        <3>2. Tail(s)[1] = s[1 + 1]
            BY <2>2, <3>1
        <3> QED BY <2>3, <3>1, <3>2
    <2> HIDE DEF c
    <2>5. c # b /\ body[c].state = "running"
        BY <1>0, <2>1, <2>3 DEF With, TypeInv
    <2>6. "relax" \in FlagsOf(c)
        BY <1>0, <2>4, <2>5 DEF StrictNesting
    <2>7. Active(c) /\ Active(b) /\ c[1] \in TaskId /\ Created(c[1])
        BY <1>0, <1>1, <2>3, <2>5 DEF Active, ActiveCreated, Body
    <2>8. "parallel" \notin FlagsOf(c)
        BY <1>0, <2>6, <2>7, RelaxFlags DEF FlagsOf, TypeInv
    <2>9. c[1] # b[1]
        BY <1>0, <2>3, <2>5, <2>7, <2>8, OneBody
    <2> QED BY <1>2, <2>1, <2>9, Ids
<1> QED BY <1>4, <1>5

\* So does a pause.
LEMMA PauseDiffers ==
    ASSUME ChanInv, NEW t \in Thread, NEW b \in Body, TaskPause(t, b)
    PROVE  /\ Running(With(b, "paused", t), stack[t]) = <<>>
           /\ IdOf(Running(body, stack[t])) # IdOf(Running(With(b, "paused", t), stack[t]))
BY DEF TaskPause, CanPause, IsTop, Running, With, IdOf, ChanInv, TaskInv, TypeInv

\* So does a resume.
LEMMA ResumeDiffers ==
    ASSUME ChanInv, NEW t \in Thread, NEW b \in Body, TaskResume(t, b)
    PROVE  IdOf(Running(body, stack[t])) # IdOf(Running(With(b, "running", t), stack[t]))
BY DEF TaskResume, CanResume, IsTop, Running, With, IdOf, ChanInv, TaskInv, TypeInv

\* The events of a task show what runs, in nOS-V and Nanos6.
LEMMA FlatEvents ==
    ASSUME ChanInv, [Next]_vars, runtime # "openmp", NEW t \in Thread, NEW b \in Body,
           TaskExecute(t, b) \/ TaskPause(t, b) \/ TaskResume(t, b) \/ TaskEnd(t, b)
    PROVE  ShowsRunning' /\ NoTaskRefused'
<1>1. \/ Kept \/ Executed(t, b) \/ Ended(t, b)
      \/ \E st \in {"running", "paused"} : Switched(t, b, st)
    BY EventMoves
<1>2. CASE TaskExecute(t, b)
    <2>1. UpdateTask(t, "x", With(b, "running", t), Push(stack, t, b))
        BY <1>2 DEF TaskExecute, Update
    <2> QED BY <1>1, <1>2, <2>1, ExecuteDiffers, FlatUpdate
<1>3. CASE TaskPause(t, b)
    <2>1. UpdateTask(t, "p", With(b, "paused", t), stack)
        BY <1>3 DEF TaskPause, Update
    <2> QED BY <1>1, <1>3, <2>1, PauseDiffers, FlatUpdate
<1>4. CASE TaskResume(t, b)
    <2>1. UpdateTask(t, "r", With(b, "running", t), stack)
        BY <1>4 DEF TaskResume, Update
    <2> QED BY <1>1, <1>4, <2>1, ResumeDiffers, FlatUpdate
<1>5. CASE TaskEnd(t, b)
    <2>1. UpdateTask(t, "e", With(b, "dead", NoThread), Pop(stack, t))
        BY <1>5 DEF TaskEnd, Update
    <2> QED BY <1>1, <1>5, <2>1, EndDiffers, FlatUpdate
<1> QED BY <1>2, <1>3, <1>4, <1>5

\* No task of OpenMP is paused: create_task() does not allow it.
LEMMA NoPauseOpenmp ==
    ASSUME ChanInv, runtime = "openmp", NEW t \in Thread, NEW b \in Body
    PROVE  ~TaskPause(t, b) /\ ~TaskResume(t, b)
<1>1. TypeInv /\ FlagsExact /\ PausedAllowed
    BY DEF ChanInv, TaskInv
<1>2. ASSUME b \in Named, "pause" \in FlagsOf(b) PROVE FALSE
    <2>1. b[1] \in TaskId /\ Created(b[1])
        BY <1>2 DEF Named, Body
    <2> QED BY <1>1, <1>2, <2>1, RelaxFlags DEF FlagsOf, TypeInv
<1> QED BY <1>1, <1>2 DEF TaskPause, TaskResume, CanPause, CanResume, PausedAllowed

\* In OpenMP the channel of the task follows the stack of bodies.
LEMMA StackEvents ==
    ASSUME ChanInv, [Next]_vars, runtime = "openmp", NEW t \in Thread, NEW b \in Body,
           TaskExecute(t, b) \/ TaskEnd(t, b)
    PROVE  ShowsRunning' /\ NoTaskRefused'
<1>1. TaskInv /\ TypeInv /\ ShowsRunning /\ NoTaskRefused /\ ChanTypes
    BY DEF ChanInv, TaskInv
<1>2. /\ \A u \in Thread : Shows(u)
      /\ taskid[t] = [k \in DOMAIN stack[t] |-> stack[t][k][1]]
    BY <1>1, ShowsDef DEF Shows, ShowsStack
<1>3. stack[t] \in Seq(Body) /\ taskid[t] \in Seq(TaskId) /\ Len(stack[t]) \in Nat
      /\ DOMAIN stack[t] = 1..Len(stack[t]) /\ runtime' = runtime
    BY <1>1, NextMoves, LenProperties DEF TypeInv, ChanTypes
<1>4. Len(taskid[t]) = Len(stack[t]) /\ \A k \in 1..Len(stack[t]) : taskid[t][k] = stack[t][k][1]
    <2>1. DOMAIN taskid[t] = 1..Len(stack[t]) /\ DOMAIN taskid[t] = 1..Len(taskid[t]) /\ Len(taskid[t]) \in Nat
        BY <1>2, <1>3, LenProperties
    <2> QED BY <1>2, <1>3, <2>1
<1>5. ASSUME NEW u \in Thread, u # t, taskid'[u] = taskid[u], bodyid' = bodyid PROVE Shows(u)'
    <2>1. \/ Kept \/ Executed(t, b) \/ Ended(t, b)
          \/ \E st \in {"running", "paused"} : Switched(t, b, st)
        BY EventMoves
    <2> QED BY <1>1, <1>2, <1>5, <2>1, OtherStacks, ShowsKept
<1>6. ASSUME stack'[t] \in Seq(Body), taskid'[t] \in Seq(TaskId), Len(taskid'[t]) = Len(stack'[t]),
             \A k \in 1..Len(stack'[t]) : taskid'[t][k] = stack'[t][k][1]
      PROVE  Shows(t)'
    <2>1. DOMAIN stack'[t] = 1..Len(stack'[t]) /\ taskid'[t] \in [1..Len(stack'[t]) -> TaskId]
        BY <1>6, LenProperties
    <2> QED BY <1>3, <1>6, <2>1 DEF Shows, ShowsStack
<1>9. ASSUME NEW what \in {"label", "full"}, Panic(what) PROVE ShowsRunning' /\ NoTaskRefused'
    <2>1. UNCHANGED <<runtime, body, stack, taskid, bodyid, label, task>> /\ NoTaskRefused'
        BY <1>9 DEF Panic, chans, NoTaskRefused
    <2>2. \A u \in Thread : Shows(u)'
        BY <1>2, <2>1 DEF Shows, ShowsFlat, ShowsStack, Running, GidOf, IdOf
    <2> QED BY <2>1, <2>2, ShowsPrime
<1>7. CASE TaskExecute(t, b) /\ ~Panic("full")
    <2>1. /\ taskid' = Push(taskid, t, b[1]) /\ stack' = Push(stack, t, b)
          /\ UNCHANGED <<bodyid, panic>>
        BY <1>7 DEF TaskExecute, Update, UpdateTaskOpenmp
    <2>2. /\ taskid'[t] = <<b[1]>> \o taskid[t] /\ stack'[t] = <<b>> \o stack[t]
          /\ \A u \in Thread : u # t => taskid'[u] = taskid[u]
          /\ b[1] \in TaskId
        BY <1>1, <2>1 DEF Push, TypeInv, ChanTypes, Body
    <2>3. /\ taskid'[t] \in Seq(TaskId) /\ stack'[t] \in Seq(Body)
          /\ Len(taskid'[t]) = Len(stack[t]) + 1 /\ Len(stack'[t]) = Len(stack[t]) + 1
          /\ taskid'[t][1] = b[1] /\ stack'[t][1] = b
          /\ \A k \in 2..Len(stack[t]) + 1 : taskid'[t][k] = taskid[t][k - 1] /\ stack'[t][k] = stack[t][k - 1]
        BY <1>3, <1>4, <2>2, PushedSeq
    <2>4. ASSUME NEW k \in 1..Len(stack[t]) + 1 PROVE taskid'[t][k] = stack'[t][k][1]
        <3>1. CASE k = 1
            BY <2>3, <3>1
        <3>2. CASE k # 1
            <4>1. k \in 2..Len(stack[t]) + 1 /\ k - 1 \in 1..Len(stack[t])
                BY <1>3, <3>2
            <4> QED BY <1>4, <2>3, <4>1
        <3> QED BY <3>1, <3>2
    <2>5. Shows(t)'
        BY <1>6, <2>3, <2>4
    <2> QED BY <1>1, <1>5, <2>1, <2>2, <2>5, ShowsPrime DEF NoTaskRefused
<1>8. CASE TaskEnd(t, b)
    <2>1. stack[t] # <<>> /\ Head(stack[t]) = b
        BY <1>8 DEF TaskEnd, CanEnd, IsTop
    <2>2. /\ stack[t][1] = b /\ Len(stack[t]) \in Nat \ {0} /\ Len(Tail(stack[t])) = Len(stack[t]) - 1
          /\ Tail(stack[t]) \in Seq(Body)
          /\ \A k \in 1..Len(stack[t]) - 1 : Tail(stack[t])[k] = stack[t][k + 1]
        BY <1>3, <2>1, PoppedSeq
    <2>3. taskid[t] # <<>>
        BY <1>3, <1>4, <2>2, EmptySeq
    <2>4. /\ Head(taskid[t]) = taskid[t][1] /\ Tail(taskid[t]) \in Seq(TaskId)
          /\ Len(Tail(taskid[t])) = Len(stack[t]) - 1
          /\ \A k \in 1..Len(stack[t]) - 1 : Tail(taskid[t])[k] = taskid[t][k + 1]
        BY <1>3, <1>4, <2>3, PoppedSeq
    <2>5. Top(taskid[t]) = <<b[1]>>
        BY <1>4, <2>2, <2>3, <2>4 DEF Top
    <2>6. UpdateTaskOpenmp(t, b, "e", With(b, "dead", NoThread), Pop(stack, t))
        BY <1>8 DEF TaskEnd, Update
    <2>7. CASE Panic("label")
        BY <1>9, <2>7
    <2>8. CASE /\ taskid' = Pop(taskid, t) /\ stack' = Pop(stack, t)
               /\ UNCHANGED <<bodyid, panic>>
        <3>1. /\ taskid'[t] = Tail(taskid[t]) /\ stack'[t] = Tail(stack[t])
              /\ \A u \in Thread : u # t => taskid'[u] = taskid[u]
            BY <1>1, <2>8 DEF Pop, TypeInv, ChanTypes
        <3>2. \A k \in 1..Len(stack[t]) - 1 : k + 1 \in 1..Len(stack[t])
            BY <2>2
        <3>3. \A k \in 1..Len(stack[t]) - 1 : taskid'[t][k] = stack'[t][k][1]
            BY <1>4, <2>2, <2>4, <3>1, <3>2
        <3>4. Shows(t)'
            BY <1>6, <2>2, <2>4, <3>1, <3>3
        <3> QED BY <1>1, <1>5, <2>8, <3>1, <3>4, ShowsPrime DEF NoTaskRefused
    <2> QED BY <2>5, <2>6, <2>7, <2>8 DEF UpdateTaskOpenmp
<1> QED BY <1>7, <1>8, <1>9

\* After every step the channels show what runs, and none has refused a write.
LEMMA ShowsStep == ChanInv /\ [Next]_vars => ShowsRunning' /\ NoTaskRefused'
<1> SUFFICES ASSUME ChanInv, [Next]_vars PROVE ShowsRunning' /\ NoTaskRefused'
    OBVIOUS
<1>1. ASSUME NEW t \in Thread, NEW b \in Body,
             TaskExecute(t, b) \/ TaskPause(t, b) \/ TaskResume(t, b) \/ TaskEnd(t, b)
      PROVE  ShowsRunning' /\ NoTaskRefused'
    BY <1>1, FlatEvents, StackEvents, NoPauseOpenmp
<1>2. ASSUME UNCHANGED <<body, stack, taskid, bodyid, panic>>, UNCHANGED label \/ runtime = "openmp"
      PROVE  ShowsRunning' /\ NoTaskRefused'
    <2>1. \A u \in Thread : Shows(u)'
        BY <1>2, ShowsDef, ShowsKept DEF ChanInv
    <2> QED BY <1>2, <2>1, ShowsPrime DEF ChanInv, NoTaskRefused
<1>3. CASE UNCHANGED vars
    BY <1>2, <1>3 DEF vars, chans
<1>4. ASSUME NEW ty \in Type, TypeCreate(ty) PROVE ShowsRunning' /\ NoTaskRefused'
    BY <1>2, <1>4 DEF TypeCreate, chans
<1>5. ASSUME NEW i \in TaskId, NEW ty \in Type, NEW parallel \in Parallel, TaskCreate(i, ty, parallel)
      PROVE  ShowsRunning' /\ NoTaskRefused'
    BY <1>2, <1>5 DEF TaskCreate, chans
<1>6. ASSUME NEW t \in Thread, NEW x,
             PushSubsystem(t, x) \/ PopSubsystem(t, x) \/ WsBegin(t, x) \/ WsEnd(t, x)
      PROVE  ShowsRunning' /\ NoTaskRefused'
    <2>1. CASE Panic("full")
        <3>1. \A u \in Thread : Shows(u)'
            BY <2>1, ShowsDef, ShowsKept DEF ChanInv, Panic, chans
        <3> QED BY <2>1, <3>1, ShowsPrime DEF Panic, NoTaskRefused
    <2>2. CASE ~Panic("full")
        BY <1>2, <1>6, <2>2 DEF PushSubsystem, PopSubsystem, WsBegin, WsEnd
    <2> QED BY <2>1, <2>2
<1> QED BY <1>1, <1>3, <1>4, <1>5, <1>6 DEF Next

-----------------------------------------------------------------------------
(* The depth of the subsystem channel.                                     *)

Bodies(s) == {k \in DOMAIN s : s[k] = ST_TASK_BODY}

\* A stack of subsystems has a number of task bodies.
LEMMA BodiesFinite ==
    ASSUME NEW S, NEW s \in Seq(S)
    PROVE  IsFiniteSet(Bodies(s)) /\ Cardinality(Bodies(s)) \in Nat
<1>1. IsFiniteSet(1..Len(s)) /\ DOMAIN s = 1..Len(s)
    BY FS_Interval, LenProperties
<1>2. Bodies(s) \in SUBSET (1..Len(s))
    BY <1>1 DEF Bodies
<1> QED BY <1>1, <1>2, FS_Subset, FS_CardinalityType

\* A value that is pushed moves the others by one place.
LEMMA BodiesPushed ==
    ASSUME NEW S, NEW s \in Seq(S), NEW e \in S
    PROVE  Cardinality(Bodies(<<e>> \o s)) =
               Cardinality(Bodies(s)) + (IF e = ST_TASK_BODY THEN 1 ELSE 0)
<1> DEFINE p == <<e>> \o s
           B == Bodies(s)
           C == {k \in Bodies(p) : k # 1}
           f == [k \in B |-> k + 1]
<1>1. /\ p \in Seq(S) /\ Len(p) = Len(s) + 1 /\ Len(s) \in Nat /\ p[1] = e
      /\ \A k \in 2..Len(s) + 1 : p[k] = s[k - 1]
      /\ DOMAIN p = 1..Len(s) + 1 /\ DOMAIN s = 1..Len(s)
    BY PushedSeq, LenProperties
<1> HIDE DEF p
<1>2. IsFiniteSet(B) /\ Cardinality(B) \in Nat
    BY BodiesFinite
<1>3. f \in Bijection(B, C)
    <2>1. \A k \in B : k \in Nat /\ k + 1 \in C
        BY <1>1 DEF Bodies
    <2>2. \A k \in C : k - 1 \in B /\ (k - 1) + 1 = k
        BY <1>1 DEF Bodies
    <2>3. f \in [B -> C]
        BY <2>1
    <2>4. \A j, k \in B : f[j] = f[k] => j = k
        BY <2>1
    <2>5. \A k \in C : \E j \in B : f[j] = k
        BY <2>2
    <2> HIDE DEF f, B, C
    <2> QED BY <2>3, <2>4, <2>5 DEF Bijection, Injection, Surjection, IsInjective
<1>4. IsFiniteSet(C) /\ Cardinality(C) = Cardinality(B)
    BY <1>2, <1>3, FS_Bijection DEF ExistsBijection
<1>5. CASE e = ST_TASK_BODY
    <2>1. Bodies(p) = C \union {1} /\ 1 \notin C
        BY <1>1, <1>5 DEF Bodies
    <2> HIDE DEF B, C
    <2>2. Cardinality(Bodies(p)) = Cardinality(B) + 1
        BY <1>4, <2>1, FS_AddElement
    <2> QED BY <1>5, <2>2 DEF p, B
<1>6. CASE e # ST_TASK_BODY
    <2>1. Bodies(p) = C
        BY <1>1, <1>6 DEF Bodies
    <2> HIDE DEF B, C
    <2>2. Cardinality(Bodies(p)) = Cardinality(B) + 0
        BY <1>2, <1>4, <2>1
    <2> QED BY <1>6, <2>2 DEF p, B
<1> QED BY <1>5, <1>6

\* A pop takes one body from it if that is what was at the top.
LEMMA BodiesPopped ==
    ASSUME NEW S, NEW s \in Seq(S), s # <<>>
    PROVE  Cardinality(Bodies(s)) =
               Cardinality(Bodies(Tail(s))) + (IF Head(s) = ST_TASK_BODY THEN 1 ELSE 0)
<1>1. /\ Head(s) = s[1] /\ Head(s) \in S /\ Len(s) \in Nat \ {0} /\ Tail(s) \in Seq(S)
      /\ Len(Tail(s)) = Len(s) - 1
      /\ \A k \in 1..Len(s) - 1 : Tail(s)[k] = s[k + 1]
    BY PoppedSeq
<1> DEFINE q == <<Head(s)>> \o Tail(s)
<1>2. /\ q \in Seq(S) /\ Len(q) = Len(Tail(s)) + 1 /\ q[1] = Head(s)
      /\ \A k \in 2..Len(Tail(s)) + 1 : q[k] = Tail(s)[k - 1]
    BY <1>1, PushedSeq
<1> HIDE DEF q
<1>3. ASSUME NEW k \in 1..Len(s) PROVE s[k] = q[k]
    <2>1. CASE k = 1
        BY <1>1, <1>2, <2>1
    <2>2. CASE k # 1
        <3>1. k \in 2..Len(Tail(s)) + 1 /\ k - 1 \in 1..Len(s) - 1 /\ (k - 1) + 1 = k
            BY <1>1, <2>2
        <3>2. Tail(s)[k - 1] = s[(k - 1) + 1]
            BY <1>1, <3>1
        <3> QED BY <1>2, <3>1, <3>2
    <2> QED BY <2>1, <2>2
<1>4. s = q
    BY <1>1, <1>2, <1>3, SeqEqual
<1> QED BY <1>1, <1>4, BodiesPushed DEF q

\* What an event does to the subsystem channel of a thread.
SubKept == UNCHANGED <<stack, subsystem>>
SubPushed(t, ss) == ss \in Subsystem /\ subsystem' = Push(subsystem, t, ss)
SubPopped(t, ss) == CanPop(t, ss) /\ subsystem' = Pop(subsystem, t)

SubMoved ==
    \/ SubKept
    \/ \E t \in Thread, b \in Body :
           \/ SubPushed(t, ST_TASK_BODY) /\ stack' = Push(stack, t, b)
           \/ SubPopped(t, ST_TASK_BODY) /\ stack' = Pop(stack, t) /\ stack[t] # <<>>
    \/ runtime = "openmp" /\ UNCHANGED subsystem
    \/ \E t \in Thread : UNCHANGED stack /\ (SubPushed(t, "other") \/ SubPopped(t, "other"))

\* Every step moves the subsystems with the stack of bodies.
LEMMA SubsystemMoves == ASSUME [Next]_vars PROVE SubMoved
<1>1. CASE UNCHANGED vars
    BY <1>1 DEF vars, chans, SubMoved, SubKept
<1>2. ASSUME NEW ty \in Type, TypeCreate(ty) PROVE SubMoved
    BY <1>2 DEF TypeCreate, chans, SubMoved, SubKept
<1>3. ASSUME NEW i \in TaskId, NEW ty \in Type, NEW parallel \in Parallel, TaskCreate(i, ty, parallel)
      PROVE  SubMoved
    BY <1>3 DEF TaskCreate, chans, SubMoved, SubKept
<1>4. ASSUME NEW t \in Thread, NEW b, NEW v \in {"x", "p", "r", "e"},
             NEW STATE bd, NEW STATE stk, UpdateTask(t, v, bd, stk)
      PROVE  \/ SubKept
             \/ v = "x" /\ SubPushed(t, ST_TASK_BODY) /\ stack' = stk
             \/ v = "e" /\ SubPopped(t, ST_TASK_BODY) /\ stack' = stk
             \/ v \in {"p", "r"} /\ UNCHANGED subsystem /\ stack' = stk
    BY <1>4 DEF UpdateTask, Panic, chans, SubsystemAfter, SubKept, SubPushed, SubPopped, Subsystem
<1>5. ASSUME NEW t \in Thread, NEW b \in Body, runtime # "openmp",
             TaskExecute(t, b) \/ TaskPause(t, b) \/ TaskResume(t, b) \/ TaskEnd(t, b)
      PROVE  SubMoved
    <2>1. CASE TaskExecute(t, b)
        <3>1. UpdateTask(t, "x", With(b, "running", t), Push(stack, t, b))
            BY <1>5, <2>1 DEF TaskExecute, Update
        <3> QED BY <3>1, <1>4 DEF SubMoved
    <2>2. CASE TaskPause(t, b) \/ TaskResume(t, b)
        <3>1. \/ UpdateTask(t, "p", With(b, "paused", t), stack)
              \/ UpdateTask(t, "r", With(b, "running", t), stack)
            BY <1>5, <2>2 DEF TaskPause, TaskResume, Update
        <3> QED BY <3>1, <1>4 DEF SubMoved, SubKept
    <2>3. CASE TaskEnd(t, b)
        <3>1. UpdateTask(t, "e", With(b, "dead", NoThread), Pop(stack, t)) /\ stack[t] # <<>>
            BY <1>5, <2>3 DEF TaskEnd, CanEnd, IsTop, Update
        <3> QED BY <3>1, <1>4 DEF SubMoved
    <2> QED BY <1>5, <2>1, <2>2, <2>3
<1>6. ASSUME NEW t \in Thread, NEW b \in Body, runtime = "openmp",
             TaskExecute(t, b) \/ TaskPause(t, b) \/ TaskResume(t, b) \/ TaskEnd(t, b)
      PROVE  SubMoved
    <2>1. ASSUME NEW v, NEW STATE bd, NEW STATE stk, UpdateTaskOpenmp(t, b, v, bd, stk)
          PROVE  UNCHANGED subsystem
        BY <2>1 DEF UpdateTaskOpenmp, Panic, chans
    <2> QED BY <1>6, <2>1 DEF TaskExecute, TaskPause, TaskResume, TaskEnd, Update, SubMoved
<1>7. ASSUME NEW t \in Thread, PushSubsystem(t, "other") \/ PopSubsystem(t, "other")
      PROVE  SubMoved
    BY <1>7 DEF PushSubsystem, PopSubsystem, SubMoved, SubPushed, SubPopped, Subsystem
<1>8. ASSUME NEW t \in Thread, NEW ty \in Type, WsBegin(t, ty) \/ WsEnd(t, ty) PROVE SubMoved
    BY <1>8 DEF WsBegin, WsEnd, Panic, chans, SubMoved, SubKept
<1> QED BY <1>1, <1>2, <1>3, <1>5, <1>6, <1>7, <1>8 DEF Next

\* The channel and the stack grow and shrink together.
LEMMA DepthStep ==
    ASSUME TypeInv, ChanTypes, SubsystemDepth, [Next]_vars
    PROVE  SubsystemDepth'
<1> SUFFICES ASSUME runtime # "openmp", NEW u \in Thread
             PROVE  Cardinality(Bodies(subsystem'[u])) = Len(stack'[u])
    BY NextMoves DEF SubsystemDepth, Bodies
<1> DEFINE s == subsystem[u]
<1>1. /\ s \in Seq(Subsystem) /\ stack[u] \in Seq(Body) /\ Len(stack[u]) \in Nat
      /\ Cardinality(Bodies(s)) = Len(stack[u])
    BY DEF TypeInv, ChanTypes, SubsystemDepth, Bodies
<1>2. CASE subsystem'[u] = s /\ stack'[u] = stack[u]
    BY <1>1, <1>2
<1>3. ASSUME NEW b \in Body, subsystem'[u] = <<ST_TASK_BODY>> \o s, stack'[u] = <<b>> \o stack[u]
      PROVE  Cardinality(Bodies(subsystem'[u])) = Len(stack'[u])
    <2>1. ST_TASK_BODY \in Subsystem
        BY DEF Subsystem
    <2>2. Cardinality(Bodies(<<ST_TASK_BODY>> \o s)) = Len(stack[u]) + 1
        BY <1>1, <2>1, BodiesPushed
    <2>3. Len(<<b>> \o stack[u]) = Len(stack[u]) + 1
        BY <1>1, PushedSeq
    <2> QED BY <1>3, <2>2, <2>3
<1>4. ASSUME NEW ss \in Subsystem, CanPop(u, ss), subsystem'[u] = Tail(s),
             ss = ST_TASK_BODY => stack[u] # <<>>,
             stack'[u] = IF ss = ST_TASK_BODY THEN Tail(stack[u]) ELSE stack[u]
      PROVE  Cardinality(Bodies(subsystem'[u])) = Len(stack'[u])
    <2>1. s # <<>> /\ Head(s) = ss
        BY <1>4 DEF CanPop, Top
    <2>2. Len(stack[u]) = Cardinality(Bodies(Tail(s))) + (IF ss = ST_TASK_BODY THEN 1 ELSE 0)
        BY <1>1, <2>1, BodiesPopped
    <2>3. Tail(s) \in Seq(Subsystem)
        BY <1>1, <2>1, PoppedSeq
    <2>4. Cardinality(Bodies(Tail(s))) \in Nat
        BY <2>3, BodiesFinite
    <2>5. ss = ST_TASK_BODY => Len(Tail(stack[u])) = Len(stack[u]) - 1
        BY <1>1, <1>4, PoppedSeq
    <2> QED BY <1>1, <1>4, <2>2, <2>4, <2>5
<1>5. "other" # ST_TASK_BODY /\ "other" \in Subsystem /\ ST_TASK_BODY \in Subsystem
    BY DEF ST_TASK_BODY, Subsystem
<1>6. ASSUME NEW t \in Thread, NEW ss, SubPushed(t, ss),
             \/ ss = ST_TASK_BODY /\ \E b \in Body : stack' = Push(stack, t, b)
             \/ ss = "other" /\ UNCHANGED stack
      PROVE  Cardinality(Bodies(subsystem'[u])) = Len(stack'[u])
    <2>1. CASE u # t
        BY <1>2, <1>6, <2>1 DEF SubPushed, Push, TypeInv, ChanTypes
    <2>2. CASE u = t /\ ss = ST_TASK_BODY
        BY <1>3, <1>5, <1>6, <2>2 DEF SubPushed, Push, TypeInv, ChanTypes
    <2>3. CASE u = t /\ ss = "other"
        <3>1. subsystem'[u] = <<"other">> \o s /\ stack'[u] = stack[u]
            BY <1>6, <2>3, <1>5 DEF SubPushed, Push, ChanTypes
        <3>2. Cardinality(Bodies(<<"other">> \o s)) = Len(stack[u]) + 0
            BY <1>1, <1>5, BodiesPushed
        <3> QED BY <1>1, <3>1, <3>2
    <2> QED BY <2>1, <2>2, <2>3, <1>6
<1>7. ASSUME NEW t \in Thread, NEW ss, SubPopped(t, ss),
             \/ ss = ST_TASK_BODY /\ stack' = Pop(stack, t) /\ stack[t] # <<>>
             \/ ss = "other" /\ UNCHANGED stack
      PROVE  Cardinality(Bodies(subsystem'[u])) = Len(stack'[u])
    <2>1. CASE u # t
        BY <1>2, <1>7, <2>1 DEF SubPopped, Pop, TypeInv, ChanTypes
    <2>2. CASE u = t
        <3>1. /\ CanPop(u, ss) /\ ss \in Subsystem /\ subsystem'[u] = Tail(s)
              /\ ss = ST_TASK_BODY => stack[u] # <<>> /\ stack'[u] = Tail(stack[u])
              /\ ss # ST_TASK_BODY => stack'[u] = stack[u]
            BY <1>5, <1>7, <2>2 DEF SubPopped, Pop, TypeInv, ChanTypes
        <3> QED BY <1>4, <3>1
    <2> QED BY <2>1, <2>2
<1>8. SubMoved
    BY SubsystemMoves
<1> QED BY <1>2, <1>6, <1>7, <1>8 DEF SubMoved, SubKept

-----------------------------------------------------------------------------
(* The types of the channels.                                              *)

Gids == {Gid[ty] : ty \in Type}

\* The channels hold tasks, bodies and labels that exist.
LEMMA ChanTypesStep == ChanInv /\ TaskInv' /\ [Next]_vars => ChanTypes'
<1> SUFFICES ASSUME ChanInv, TaskInv', [Next]_vars PROVE ChanTypes'
    OBVIOUS
<1> DEFINE Typed == /\ taskid' \in [Thread -> Seq(TaskId)]
                    /\ bodyid' \in [Thread -> Seq(BodyId)]
                    /\ label' \in [Thread -> Seq(Gids)]
<1>1. TypeInv /\ ChanTypes
    BY DEF ChanInv, TaskInv
<1>2. ASSUME NEW t \in Thread, NEW v \in {"x", "p", "r", "e"}, NEW STATE bd, NEW STATE stk,
             UpdateTask(t, v, bd, stk), v = "p" => Running(bd, stk[t]) = <<>>
      PROVE  Typed
    <2>1. CASE UNCHANGED chans
        BY <1>1, <2>1 DEF chans, ChanTypes, Gids
    <2>2. CASE ~UNCHANGED chans
        <3> DEFINE prev == Running(body, stack[t])
                   next == Running(bd, stk[t])
                   tr == Transition(v, prev, next)
        <3>1. Shown(tr, prev, next) = next
            BY <1>2, ShownIsNext
        <3> HIDE DEF tr
        <3>2. /\ taskid' = Set(taskid, t, IdOf(next))
              /\ bodyid' = Set(bodyid, t, IF next # <<>> /\ runtime = "nosv"
                                          THEN <<next[1][2]>> ELSE <<>>)
              /\ label' = Set(label, t, IF next # <<>>
                                        THEN <<GidOf(next[1])>> ELSE <<>>)
              /\ body' = bd /\ stack' = stk /\ task' = task
            BY <1>2, <2>2, <3>1 DEF UpdateTask, Panic, IdOf, tr
        <3>3. <<>> \in Seq(TaskId) /\ <<>> \in Seq(BodyId) /\ <<>> \in Seq(Gids)
            OBVIOUS
        <3>4. CASE next = <<>>
            BY <1>1, <3>2, <3>3, <3>4, Ids DEF Set, ChanTypes, Gids
        <3>5. CASE next # <<>>
            <4>0. PICK c : c = Head(stack'[t])
                OBVIOUS
            <4>1. next = <<c>> /\ stack'[t] # <<>>
                BY <3>2, <3>5, <4>0 DEF Running
            <4>2. stack'[t] \in Seq(Body) /\ StackExact' /\ ActiveCreated'
                BY DEF TaskInv, TypeInv
            <4>3. c = stack'[t][1] /\ c \in Body /\ Len(stack'[t]) \in Nat \ {0}
                BY <4>0, <4>1, <4>2, PoppedSeq
            <4>4. Active(c)'
                BY <4>2, <4>3 DEF StackExact, Active
            <4>5. c[1] \in TaskId /\ c[2] \in BodyId /\ task'[c[1]] # NoTask
                BY <4>2, <4>3, <4>4 DEF ActiveCreated, Created, Body
            <4>6. GidOf(c) \in Gids
                BY <1>1, <3>2, <4>5 DEF GidOf, Gids, TypeInv
            <4>7. <<c[1]>> \in Seq(TaskId) /\ <<c[2]>> \in Seq(BodyId) /\ <<GidOf(c)>> \in Seq(Gids)
                BY <4>5, <4>6
            <4>8. IdOf(next) = <<c[1]>> /\ next[1] = c
                BY <4>1, Ids
            <4> HIDE DEF next
            <4> QED BY <1>1, <3>2, <3>3, <4>7, <4>8 DEF Set, ChanTypes, Gids
        <3> QED BY <3>4, <3>5
    <2> QED BY <2>1, <2>2
<1>3. ASSUME NEW t \in Thread, NEW b \in Body, b \in Named,
             NEW v \in {"x", "e"}, NEW STATE bd, NEW STATE stk, UpdateTaskOpenmp(t, b, v, bd, stk)
      PROVE  Typed
    <2>1. b[1] \in TaskId /\ GidOf(b) \in Gids
        BY <1>1, <1>3 DEF Named, Created, Body, GidOf, Gids, TypeInv
    <2>2. taskid[t] \in Seq(TaskId) /\ label[t] \in Seq(Gids)
        BY <1>1 DEF ChanTypes, Gids
    <2>3. <<b[1]>> \o taskid[t] \in Seq(TaskId) /\ <<GidOf(b)>> \o label[t] \in Seq(Gids)
        BY <2>1, <2>2, PushedSeq
    <2>4. CASE UNCHANGED chans
        BY <1>1, <2>4 DEF chans, ChanTypes, Gids
    <2>5. CASE ~UNCHANGED chans /\ v = "x"
        <3>1. taskid' = Push(taskid, t, b[1]) /\ label' = Push(label, t, GidOf(b)) /\ bodyid' = bodyid
            BY <1>3, <2>5 DEF UpdateTaskOpenmp, Panic
        <3> QED BY <1>1, <2>3, <3>1 DEF Push, ChanTypes, Gids
    <2>6. CASE ~UNCHANGED chans /\ v = "e"
        <3>1. /\ taskid' = Pop(taskid, t) /\ label' = Pop(label, t) /\ bodyid' = bodyid
              /\ taskid[t] # <<>> /\ label[t] # <<>>
            BY <1>3, <2>6 DEF UpdateTaskOpenmp, Panic, Top
        <3>2. Tail(taskid[t]) \in Seq(TaskId) /\ Tail(label[t]) \in Seq(Gids)
            BY <2>2, <3>1, PoppedSeq
        <3> QED BY <1>1, <3>1, <3>2 DEF Pop, ChanTypes, Gids
    <2> QED BY <2>4, <2>5, <2>6
<1>4. ASSUME NEW t \in Thread, NEW b \in Body,
             TaskExecute(t, b) \/ TaskPause(t, b) \/ TaskResume(t, b) \/ TaskEnd(t, b)
      PROVE  Typed
    <2>1. CASE runtime = "openmp"
        <3>1. \/ UpdateTaskOpenmp(t, b, "x", With(b, "running", t), Push(stack, t, b))
              \/ UpdateTaskOpenmp(t, b, "e", With(b, "dead", NoThread), Pop(stack, t))
            BY <1>4, <2>1, NoPauseOpenmp DEF TaskExecute, TaskEnd, Update
        <3>2. b \in Named
            BY <1>4 DEF TaskExecute, TaskPause, TaskResume, TaskEnd
        <3> QED BY <1>3, <3>1, <3>2
    <2>2. CASE runtime # "openmp"
        <3>1. CASE TaskPause(t, b)
            <4>1. UpdateTask(t, "p", With(b, "paused", t), stack)
                BY <2>2, <3>1 DEF TaskPause, Update
            <4> QED BY <1>2, <3>1, <4>1, PauseDiffers
        <3>2. CASE ~TaskPause(t, b)
            <4>1. \/ UpdateTask(t, "x", With(b, "running", t), Push(stack, t, b))
                  \/ UpdateTask(t, "r", With(b, "running", t), stack)
                  \/ UpdateTask(t, "e", With(b, "dead", NoThread), Pop(stack, t))
                BY <1>4, <2>2, <3>2 DEF TaskExecute, TaskResume, TaskEnd, Update
            <4> QED BY <1>2, <4>1
        <3> QED BY <3>1, <3>2
    <2> QED BY <2>1, <2>2
<1>5. ASSUME NEW t \in Thread, NEW ty \in Type, WsBegin(t, ty) \/ WsEnd(t, ty)
      PROVE  taskid' = taskid /\ bodyid' = bodyid /\ label' \in [Thread -> Seq(Gids)]
    <2>1. label[t] \in Seq(Gids) /\ Gid[ty] \in Gids
        BY <1>1 DEF ChanTypes, Gids
    <2>2. CASE WsBegin(t, ty)
        <3>1. CASE Panic("full")
            BY <1>1, <3>1 DEF Panic, chans, ChanTypes, Gids
        <3>2. CASE ~Panic("full")
            <4>1. label' = Push(label, t, Gid[ty]) /\ taskid' = taskid /\ bodyid' = bodyid
                BY <2>2, <3>2 DEF WsBegin
            <4> QED BY <1>1, <2>1, <4>1, PushedSeq DEF Push, ChanTypes, Gids
        <3> QED BY <3>1, <3>2
    <2>3. CASE WsEnd(t, ty)
        <3>1. label[t] # <<>>
            BY <2>3 DEF WsEnd, Top
        <3> QED BY <1>1, <2>1, <2>3, <3>1, PoppedSeq DEF WsEnd, Pop, ChanTypes, Gids
    <2> QED BY <1>5, <2>2, <2>3
<1>6. Typed
    <2>1. CASE UNCHANGED <<taskid, bodyid, label>>
        BY <1>1, <2>1 DEF ChanTypes, Gids
    <2>2. ASSUME NEW t \in Thread, NEW ty \in Type, WsBegin(t, ty) \/ WsEnd(t, ty)
          PROVE  Typed
        BY <1>1, <1>5, <2>2 DEF ChanTypes
    <2>3. CASE \/ UNCHANGED vars \/ \E ty \in Type : TypeCreate(ty)
               \/ \E i \in TaskId, ty \in Type, parallel \in Parallel : TaskCreate(i, ty, parallel)
               \/ \E t \in Thread : PushSubsystem(t, "other") \/ PopSubsystem(t, "other")
        BY <2>1, <2>3 DEF vars, chans, TypeCreate, TaskCreate, PushSubsystem, PopSubsystem
    <2> QED BY <1>4, <2>2, <2>3 DEF Next
<1>7. subsystem' \in [Thread -> Seq(Subsystem)]
    <2>1. ASSUME NEW t \in Thread, NEW ss, SubPushed(t, ss) PROVE <1>7
        BY <1>1, <2>1, PushedSeq DEF SubPushed, Push, ChanTypes
    <2>2. ASSUME NEW t \in Thread, NEW ss, SubPopped(t, ss) PROVE <1>7
        <3>1. subsystem[t] # <<>>
            BY <2>2 DEF SubPopped, CanPop, Top
        <3> QED BY <1>1, <2>2, <3>1, PoppedSeq DEF SubPopped, Pop, ChanTypes
    <2>3. CASE UNCHANGED subsystem
        BY <1>1, <2>3 DEF ChanTypes
    <2> QED BY <2>1, <2>2, <2>3, SubsystemMoves DEF SubMoved, SubKept
<1> QED BY <1>6, <1>7 DEF ChanTypes, Gids

-----------------------------------------------------------------------------
(* Theorems.                                                               *)

\* The invariant of the stacks holds at the start.
LEMMA InitInv == Init => TaskInv
BY DEF Init, TaskInv, TypeInv, StackExact, ActiveCreated, StrictNesting, Active, NoTask

\* With any number of threads, tasks and bodies, and in the three models, the
\* invariant of the stacks of bodies holds.
THEOREM StacksKept == Spec => []TaskInv
<1>1. TaskInv /\ [Next]_vars => TaskInv'
    BY TypeStep, StackStep, CreatedStep, NestingStep DEF TaskInv
<1> QED BY <1>1, InitInv, PTL DEF Spec

\* A body that runs or is paused is in one place of one stack, and no other is
\* in any (body_execute, body_end).
THEOREM StacksExact == Spec => []StackExact
BY StacksKept, PTL DEF TaskInv

\* No thread of nOS-V ever has two bodies running, and in the other models only
\* a task that relaxes the nesting runs under another (body_execute).
THEOREM OneRuns == Spec => []StrictNesting
BY StacksKept, PTL DEF TaskInv

\* The invariant of the channels holds at the start.
LEMMA InitChan == Init => ChanInv
<1> SUFFICES ASSUME Init PROVE ChanInv
    OBVIOUS
<1>1. TaskInv /\ FlagsExact /\ ActiveNamed /\ PausedAllowed /\ NoTaskRefused
    BY InitInv DEF Init, FlagsExact, ActiveNamed, PausedAllowed, Active, Created, NoTaskRefused
<1>2. ChanTypes
    BY DEF Init, ChanTypes
<1>3. ShowsRunning
    BY DEF Init, ShowsRunning
<1>4. SubsystemDepth
    <2>1. {k \in DOMAIN <<>> : <<>>[k] = ST_TASK_BODY} = {} /\ Len(<<>>) = 0
        OBVIOUS
    <2> QED BY <2>1, FS_EmptySet DEF Init, SubsystemDepth
<1> QED BY <1>1, <1>2, <1>3, <1>4 DEF ChanInv

\* The invariant of the channels: to the stacks it adds the flags that the models
\* give to the tasks, which is why the body that an event starts or uncovers is
\* never of the task that was shown.
THEOREM ChannelsKept == Spec => []ChanInv
<1>1. ChanInv /\ [Next]_vars => ChanInv'
    <2> SUFFICES ASSUME ChanInv, [Next]_vars PROVE ChanInv'
        OBVIOUS
    <2>1. TaskInv /\ TypeInv
        BY DEF ChanInv, TaskInv
    <2>2. TaskInv'
        BY <2>1, TypeStep, StackStep, CreatedStep, NestingStep DEF TaskInv
    <2>3. FlagsExact' /\ ActiveNamed' /\ PausedAllowed'
        BY <2>1, FlagsStep, NamedStep, PausedStep DEF ChanInv
    <2>4. ChanTypes' /\ ShowsRunning' /\ NoTaskRefused' /\ SubsystemDepth'
        BY <2>1, <2>2, ChanTypesStep, ShowsStep, DepthStep DEF ChanInv
    <2> QED BY <2>2, <2>3, <2>4 DEF ChanInv
<1> QED BY <1>1, InitChan, PTL DEF Spec

\* After each event of any trace the views show the body at the top of the stack
\* while it runs, and nothing while it is paused; the OpenMP view keeps the whole
\* stack (update_task_channels and update_task of openmp/event.c).
THEOREM ViewsFollow == Spec => []ShowsRunning
BY ChannelsKept, PTL DEF ChanInv

\* The subsystem channel has one task body for each body in the stack, in nOS-V
\* and Nanos6, whatever other subsystems are pushed and popped in between
\* (update_task_ss_channel), so end_lint() finds the bodies that never ended.
THEOREM DepthExact == Spec => []SubsystemDepth
BY ChannelsKept, PTL DEF ChanInv

\* No event that the rules of tasks accept stops the emulator at the channel of
\* the task, which takes no duplicates in nOS-V and Nanos6 and pops the expected
\* task in OpenMP (chan_set and chan_pop in update_task).
THEOREM NeverRefused == Spec => []NoTaskRefused
BY ChannelsKept, PTL DEF ChanInv
=============================================================================

------------------------------ MODULE ThreadCpu ------------------------------
(***************************************************************************)
(* The ovni and kernel models of the emulator: how the events of the       *)
(* threads move them between states and CPUs (src/src/emu/ovni/event.c,    *)
(* kernel/event.c, thread.c, cpu.c).                                       *)
(*                                                                         *)
(* An event is processed to the end before the next one is read, so every  *)
(* handler is one action.  A handler that returns -1 makes emu_step() fail *)
(* and the emulator stops without propagating the channels that the        *)
(* handler had already written: that is the action Reject, and the         *)
(* conditions under which a handler succeeds are the Can... predicates.    *)
(***************************************************************************)
EXTENDS Naturals, FiniteSets

CONSTANTS
    Thread,     \* the threads of the trace, one per stream
    Cpu,        \* the CPUs of every loom, the virtual ones too
    Virtual,    \* the virtual CPUs, one per loom
    Loom,       \* the looms
    ThLoom,     \* the loom of each thread
    CpuLoom,    \* the loom of each CPU
    ThProc,     \* the process of each thread
    Tid,        \* the TID of each thread, unique only inside its process
    NoCpu,      \* the NULL pointer to a CPU
    NoThread    \* the NULL pointer to a thread

ASSUME SystemAssumption ==
    /\ IsFiniteSet(Thread)
    /\ Virtual \subseteq Cpu
    /\ ThLoom \in [Thread -> Loom]
    /\ CpuLoom \in [Cpu -> Loom]
    /\ NoCpu \notin Cpu
    /\ NoThread \notin Thread

VARIABLES
    emu,        \* the emulator: "run", "finished" or "error"
    state,      \* thread->state
    cpu,        \* thread->cpu
    outOfCpu,   \* thread->is_out_of_cpu, and CH_CS holding ST_CSOUT
    flushing,   \* CH_FLUSH is ST_FLUSHING
    threads,    \* cpu->threads, whose order has no effect
    nthRunning, \* cpu->nth_running, CPU_CHAN_NRUN
    thRunning,  \* cpu->th_running, CPU_CHAN_TID, _PID and _THRUN
    thActive    \* cpu->th_active, CPU_CHAN_THACT

cpuVars == <<threads, nthRunning, thRunning, thActive>>
localVars == <<outOfCpu, flushing>>
vars == <<emu, state, cpu, outOfCpu, flushing,
          threads, nthRunning, thRunning, thActive>>

State == {"unknown", "running", "paused", "dead", "cooling", "warming"}
ActiveState == {"running", "cooling", "warming"}

Init ==
    /\ emu = "run"
    /\ state = [t \in Thread |-> "unknown"]
    /\ cpu = [t \in Thread |-> NoCpu]
    /\ outOfCpu = [t \in Thread |-> FALSE]
    /\ flushing = [t \in Thread |-> FALSE]
    /\ threads = [c \in Cpu |-> {}]
    /\ nthRunning = [c \in Cpu |-> 0]
    /\ thRunning = [c \in Cpu |-> NoThread]
    /\ thActive = [c \in Cpu |-> NoThread]

-----------------------------------------------------------------------------
(* The CPU: the fields cpu_update() recomputes from the list of threads.   *)

Running(ths, st) == {t \in ths : st[t] = "running"}
Active(ths, st) == {t \in ths : st[t] \in ActiveState}

\* The thread shown when exactly one qualifies, NULL otherwise.
OnlyOne(ths) == IF \E t \in ths : ths = {t} THEN CHOOSE t \in ths : TRUE
                                            ELSE NoThread

\* Mistake: physical CPUs may be oversubscribed too.
SchedulableAlways(c, ths, st) == TRUE

\* cpu_update() refuses a physical CPU with two running threads.
Schedulable(c, ths, st) == c \in Virtual \/ Cardinality(Running(ths, st)) <= 1

\* cpu_update() of the CPUs in C once their lists are ths and the states st;
\* that it does not fail is part of the condition of each event below.
CpuUpdate(C, ths, st) ==
    /\ nthRunning' = [c \in Cpu |-> IF c \in C THEN Cardinality(Running(ths[c], st))
                                               ELSE nthRunning[c]]
    /\ thRunning' = [c \in Cpu |-> IF c \in C THEN OnlyOne(Running(ths[c], st))
                                              ELSE thRunning[c]]
    /\ thActive' = [c \in Cpu |-> IF c \in C THEN OnlyOne(Active(ths[c], st))
                                             ELSE thActive[c]]

\* loom_get_cpu(): an index only names CPUs of the loom of the event.
LoomCpu(t) == {c \in Cpu : CpuLoom[c] = ThLoom[t]}

\* Mistake: is_out_of_cpu is not looked at.
CanEmitOutOfCpu(t) == emu = "run"

\* model_ovni_event() refuses the events of a thread that is out of its CPU.
CanEmit(t) == emu = "run" /\ ~outOfCpu[t]

-----------------------------------------------------------------------------
(* OHx, OHe, OHp, OHr, OHc and OHw.                                        *)

CanExecute(t, c) ==
    /\ CanEmit(t)
    /\ state[t] # "running"
    /\ c \in LoomCpu(t)
    /\ cpu[t] = NoCpu
    /\ t \notin threads[c]
    /\ Schedulable(c, threads[c] \cup {t}, [state EXCEPT ![t] = "running"])

pre_thread_execute(t, c) ==
    /\ CanExecute(t, c)
    /\ cpu' = [cpu EXCEPT ![t] = c]
    /\ state' = [state EXCEPT ![t] = "running"]
    /\ threads' = [threads EXCEPT ![c] = @ \cup {t}]
    /\ CpuUpdate({c}, threads', state')
    /\ UNCHANGED <<emu, localVars>>

CanEnd(t) ==
    /\ CanEmit(t)
    /\ state[t] \in {"running", "cooling"}
    /\ cpu[t] # NoCpu
    /\ t \in threads[cpu[t]]
    /\ Schedulable(cpu[t], threads[cpu[t]] \ {t}, [state EXCEPT ![t] = "dead"])

\* Mistake: the CPU pointer survives the end of the thread.
EndKeepingCpu(t) ==
    /\ CanEnd(t)
    /\ state' = [state EXCEPT ![t] = "dead"]
    /\ threads' = [threads EXCEPT ![cpu[t]] = @ \ {t}]
    /\ CpuUpdate({cpu[t]}, threads', state')
    /\ UNCHANGED <<emu, cpu, localVars>>

pre_thread_end(t) ==
    /\ CanEnd(t)
    /\ state' = [state EXCEPT ![t] = "dead"]
    /\ threads' = [threads EXCEPT ![cpu[t]] = @ \ {t}]
    /\ CpuUpdate({cpu[t]}, threads', state')
    /\ cpu' = [cpu EXCEPT ![t] = NoCpu]
    /\ UNCHANGED <<emu, localVars>>

\* The four events that only change the state: thread_set_state(), cpu_update().
CanSwitch(t, from, to) ==
    /\ CanEmit(t)
    /\ state[t] \in from
    /\ cpu[t] # NoCpu
    /\ Schedulable(cpu[t], threads[cpu[t]], [state EXCEPT ![t] = to])

\* Mistake: the CPU is not updated after the state of a thread changes.
SwitchNoUpdate(t, from, to) ==
    /\ CanSwitch(t, from, to)
    /\ state' = [state EXCEPT ![t] = to]
    /\ UNCHANGED <<emu, cpu, localVars, cpuVars>>

Switch(t, from, to) ==
    /\ CanSwitch(t, from, to)
    /\ state' = [state EXCEPT ![t] = to]
    /\ CpuUpdate({cpu[t]}, threads, state')
    /\ UNCHANGED <<emu, cpu, threads, localVars>>

pre_thread_pause(t) == Switch(t, {"running", "cooling"}, "paused")
pre_thread_resume(t) == Switch(t, {"paused", "warming"}, "running")
pre_thread_cool(t) == Switch(t, {"running"}, "cooling")
pre_thread_warm(t) == Switch(t, {"paused"}, "warming")

-----------------------------------------------------------------------------
(* OAs and OAr.                                                            *)

\* cpu_migrate_thread() and thread_migrate_cpu(): the old CPU is updated
\* before the new one, and each has its channels written once.  A migration to
\* the same CPU writes twice, so it fails in chan_set().
CanMigrate(t, c) ==
    /\ cpu[t] \notin {NoCpu, c}
    /\ t \in threads[cpu[t]]
    /\ t \notin threads[c]
    /\ Schedulable(cpu[t], threads[cpu[t]] \ {t}, state)
    /\ Schedulable(c, threads[c] \cup {t}, state)

\* Mistake: the thread stays in the list of the CPU it leaves.
MigrateNoRemove(t, c) ==
    /\ CanMigrate(t, c)
    /\ threads' = [threads EXCEPT ![c] = @ \cup {t}]
    /\ CpuUpdate({c}, threads', state)
    /\ cpu' = [cpu EXCEPT ![t] = c]
    /\ UNCHANGED <<emu, state, localVars>>

Migrate(t, c) ==
    /\ CanMigrate(t, c)
    /\ threads' = [threads EXCEPT ![cpu[t]] = @ \ {t}, ![c] = @ \cup {t}]
    /\ CpuUpdate({cpu[t], c}, threads', state)
    /\ cpu' = [cpu EXCEPT ![t] = c]
    /\ UNCHANGED <<emu, state, localVars>>

CanAffinitySet(t, c) ==
    /\ CanEmit(t)
    /\ cpu[t] # NoCpu
    /\ state[t] \in ActiveState
    /\ c \in LoomCpu(t)

\* The CPU that is already set is accepted and changes nothing.
pre_affinity_set(t, c) ==
    /\ CanAffinitySet(t, c)
    /\ \/ cpu[t] = c /\ UNCHANGED vars
       \/ cpu[t] # c /\ Migrate(t, c)

\* Mistake: a TID is looked for in every loom.
RemoteThreadAnyLoom(t, tid) == {r \in Thread : Tid[r] = tid}

\* proc_find_thread(), then loom_find_thread(): a TID names a thread of the
\* process of t if it has one, and otherwise a thread of the loom.
RemoteThread(t, tid) ==
    LET inLoom == {r \in Thread : ThLoom[r] = ThLoom[t] /\ Tid[r] = tid}
        inProc == {r \in inLoom : ThProc[r] = ThProc[t]}
    IN  IF inProc # {} THEN inProc ELSE inLoom

CanAffinityRemote(t, r, c) ==
    /\ CanEmit(t)
    /\ r \in RemoteThread(t, Tid[r])
    /\ state[r] \notin {"dead", "unknown"}
    /\ cpu[r] # NoCpu
    /\ c \in LoomCpu(t)

pre_affinity_remote(t, r, c) ==
    /\ CanAffinityRemote(t, r, c)
    /\ Migrate(r, c)

-----------------------------------------------------------------------------
(* OF[ and OF], the events without effect on the state, KCO and KCI.       *)

\* CH_FLUSH refuses the value it already has.
pre_flush(t, on) ==
    /\ CanEmit(t)
    /\ flushing[t] # on
    /\ flushing' = [flushing EXCEPT ![t] = on]
    /\ UNCHANGED <<emu, state, cpu, outOfCpu, cpuVars>>

\* OHC, OCn, OU[ and OU] do nothing, and OB. only collects the statistics of a
\* message: its counter goes back to 0 as soon as it reaches MAX_BURSTS.
Ignored(t) == CanEmit(t) /\ UNCHANGED vars

\* CH_CS is a stack that refuses to push its top again or to pop when empty.
context_switch(t, out) ==
    /\ emu = "run"
    /\ outOfCpu[t] # out
    /\ outOfCpu' = [outOfCpu EXCEPT ![t] = out]
    /\ UNCHANGED <<emu, state, cpu, flushing, cpuVars>>

-----------------------------------------------------------------------------
(* Events that are refused, and the end of the trace.                      *)

\* Whether the handlers would accept whatever event came next.
AcceptsAll ==
    \A t \in Thread :
        /\ ~outOfCpu[t]
        /\ ~flushing[t]
        /\ CanEnd(t)
        /\ CanSwitch(t, {"running", "cooling"}, "paused")
        /\ CanSwitch(t, {"paused", "warming"}, "running")
        /\ CanSwitch(t, {"running"}, "cooling")
        /\ CanSwitch(t, {"paused"}, "warming")
        /\ \A c \in Cpu : /\ CanExecute(t, c)
                          /\ CanAffinitySet(t, c) /\ (cpu[t] # c => CanMigrate(t, c))
        /\ \A r \in Thread, c \in Cpu : CanAffinityRemote(t, r, c) /\ CanMigrate(r, c)

\* emu_step() fails in the handler of an event and the emulator stops.
Reject ==
    /\ emu = "run"
    /\ ~AcceptsAll
    /\ emu' = "error"
    /\ UNCHANGED <<state, cpu, localVars, cpuVars>>

\* Mistake: only running threads make the end of the trace an error.
FinishNotRunning ==
    /\ emu = "run"
    /\ emu' = IF \A t \in Thread : state[t] # "running" THEN "finished" ELSE "error"
    /\ UNCHANGED <<state, cpu, localVars, cpuVars>>

\* model_ovni_finish(): after the last event every thread must be dead.
model_ovni_finish ==
    /\ emu = "run"
    /\ emu' = IF \A t \in Thread : state[t] = "dead" THEN "finished" ELSE "error"
    /\ UNCHANGED <<state, cpu, localVars, cpuVars>>

model_ovni_event(t) ==
    \/ \E c \in Cpu : pre_thread_execute(t, c)
    \/ pre_thread_end(t)
    \/ pre_thread_pause(t)
    \/ pre_thread_resume(t)
    \/ pre_thread_cool(t)
    \/ pre_thread_warm(t)
    \/ \E c \in Cpu : pre_affinity_set(t, c)
    \/ \E r \in Thread, c \in Cpu : pre_affinity_remote(t, r, c)
    \/ \E on \in BOOLEAN : pre_flush(t, on)
    \/ Ignored(t)

model_kernel_event(t) == \E out \in BOOLEAN : context_switch(t, out)

Next ==
    \/ \E t \in Thread : model_ovni_event(t) \/ model_kernel_event(t)
    \/ Reject
    \/ model_ovni_finish

Spec == Init /\ [][Next]_vars

-----------------------------------------------------------------------------
(* Properties.                                                             *)

\* Every variable of the emulator keeps its type.
TypeOK ==
    /\ emu \in {"run", "finished", "error"}
    /\ state \in [Thread -> State]
    /\ cpu \in [Thread -> Cpu \cup {NoCpu}]
    /\ outOfCpu \in [Thread -> BOOLEAN]
    /\ flushing \in [Thread -> BOOLEAN]
    /\ threads \in [Cpu -> SUBSET Thread]
    /\ nthRunning \in [Cpu -> Nat]
    /\ thRunning \in [Cpu -> Thread \cup {NoThread}]
    /\ thActive \in [Cpu -> Thread \cup {NoThread}]

\* The two sides of the thread-CPU link agree after every event: a thread is in
\* the list of exactly the CPU it points to (cpu_add_thread, cpu_remove_thread,
\* thread_set_cpu, thread_unset_cpu and thread_migrate_cpu in step).
ListsAgree == \A t \in Thread, c \in Cpu : t \in threads[c] <=> cpu[t] = c

\* A thread has a CPU exactly from OHx to OHe, whatever events of other threads
\* move it in between, so cpu_update(th->cpu) never gets a NULL pointer.
CpuIffAlive ==
    \A t \in Thread : cpu[t] # NoCpu <=> state[t] \notin {"unknown", "dead"}

\* No sequence of local and remote affinity events takes a thread to a CPU of
\* another loom (loom_get_cpu with the loom of the emitter of the event).
LoomConfined ==
    \A t \in Thread : cpu[t] # NoCpu => CpuLoom[cpu[t]] = ThLoom[t]

\* The values cached in a CPU, which the CPU channels show and the muxes of
\* every model select with, are those of the states its threads have now.
CachesFresh ==
    \A c \in Cpu :
        /\ nthRunning[c] = Cardinality(Running(threads[c], state))
        /\ thRunning[c] = OnlyOne(Running(threads[c], state))
        /\ thActive[c] = OnlyOne(Active(threads[c], state))

\* Only virtual CPUs are oversubscribed.
NotOversubscribed == \A c \in Cpu : Schedulable(c, threads[c], state)

\* What the events preserve together: the theorems about this module rest on it.
IInv ==
    /\ TypeOK
    /\ ListsAgree
    /\ CpuIffAlive
    /\ LoomConfined
    /\ CachesFresh
    /\ NotOversubscribed

\* A thread running in a physical CPU is the one that CPU shows, and no CPU
\* shows a thread that does not run in it: what a model tracks per CPU comes
\* from the right thread.
RunningShown ==
    /\ \A t \in Thread : state[t] = "running" /\ cpu[t] \notin Virtual
                             => thRunning[cpu[t]] = t
    /\ \A c \in Cpu : thRunning[c] # NoThread
                             => cpu[thRunning[c]] = c /\ state[thRunning[c]] = "running"

\* When model_ovni_finish() accepts the trace no CPU is left busy.
FinishedIsIdle ==
    emu = "finished" =>
        \A c \in Cpu : threads[c] = {} /\ nthRunning[c] = 0 /\ thActive[c] = NoThread

\* While the kernel keeps a thread out of the CPU its state stays as it was:
\* another thread may move it to another CPU, nothing else reaches it.
OutOfCpuFrozen ==
    [][\A t \in Thread : outOfCpu[t] =>
           /\ state'[t] = state[t]
           /\ flushing'[t] = flushing[t]
           /\ (cpu'[t] # cpu[t] => cpu'[t] # NoCpu)]_vars
=============================================================================

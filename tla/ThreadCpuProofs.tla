--------------------------- MODULE ThreadCpuProofs ---------------------------
(***************************************************************************)
(* What ThreadCpu guarantees for any number of looms, CPUs and threads.    *)
(***************************************************************************)
EXTENDS ThreadCpu, FiniteSetTheorems, TLAPS

-----------------------------------------------------------------------------
(* The operators cpu_update() is built from.                               *)

\* The running and the active threads of a CPU are threads, finitely many.
LEMMA RunningType ==
    ASSUME NEW ths \in SUBSET Thread, NEW st
    PROVE  /\ Running(ths, st) \in SUBSET Thread
           /\ Active(ths, st) \in SUBSET Thread
           /\ IsFiniteSet(Running(ths, st))
           /\ Cardinality(Running(ths, st)) \in Nat
<1>1. Running(ths, st) \in SUBSET Thread /\ Active(ths, st) \in SUBSET Thread
  BY DEF Running, Active
<1>2. IsFiniteSet(Running(ths, st))
  BY <1>1, FS_Subset, SystemAssumption
<1> QED
  BY <1>1, <1>2, FS_CardinalityType

\* The running and the active threads of a CPU do not depend on the state of a
\* thread that is not in its list.
LEMMA SameThreads ==
    ASSUME NEW t \in Thread, NEW x, TypeOK, state' = [state EXCEPT ![t] = x],
           NEW ths \in SUBSET Thread, t \notin ths
    PROVE  /\ Running(ths, state') = Running(ths, state)
           /\ Active(ths, state') = Active(ths, state)
<1>1. \A u \in ths : state'[u] = state[u]
  BY DEF TypeOK
<1> QED
  BY <1>1 DEF Running, Active

\* What the CPU channels show is a thread that qualifies, or NULL.
LEMMA OnlyOneType ==
    ASSUME NEW S \in SUBSET Thread
    PROVE  /\ OnlyOne(S) \in Thread \cup {NoThread}
           /\ OnlyOne(S) # NoThread => OnlyOne(S) \in S
           /\ \A t \in S : S = {t} => OnlyOne(S) = t
           /\ S = {} => OnlyOne(S) = NoThread
  BY SystemAssumption DEF OnlyOne

\* At most one running thread: any two are the same.
LEMMA AtMostOne ==
    ASSUME NEW S, IsFiniteSet(S), Cardinality(S) <= 1, NEW t \in S
    PROVE  S = {t}
<1>1. CASE Cardinality(S) = 0
  BY <1>1, FS_EmptySet
<1>2. CASE Cardinality(S) = 1
  BY <1>2, FS_Singleton
<1> QED
  BY <1>1, <1>2, FS_CardinalityType

\* cpu_update() on the CPUs an event touches leaves every cache fresh when the
\* threads of the other CPUs have not changed.
LEMMA CpuUpdateFresh ==
    ASSUME NEW C \in SUBSET Cpu,
           TypeOK, CachesFresh, threads' \in [Cpu -> SUBSET Thread],
           CpuUpdate(C, threads', state'),
           \A c \in Cpu \ C :
               /\ Running(threads'[c], state') = Running(threads[c], state)
               /\ Active(threads'[c], state') = Active(threads[c], state)
    PROVE  /\ CachesFresh'
           /\ nthRunning' \in [Cpu -> Nat]
           /\ thRunning' \in [Cpu -> Thread \cup {NoThread}]
           /\ thActive' \in [Cpu -> Thread \cup {NoThread}]
<1>1. CachesFresh'
  BY DEF CachesFresh, CpuUpdate
<1>2. \A c \in Cpu : /\ Cardinality(Running(threads'[c], state')) \in Nat
                     /\ OnlyOne(Running(threads'[c], state')) \in Thread \cup {NoThread}
                     /\ OnlyOne(Active(threads'[c], state')) \in Thread \cup {NoThread}
  BY RunningType, OnlyOneType
<1> QED
  BY <1>1, <1>2 DEF CpuUpdate, TypeOK

-----------------------------------------------------------------------------
(* The invariant.                                                          *)

\* The state before the first event satisfies the invariant.
LEMMA InitIInv == Init => IInv
<1> SUFFICES ASSUME Init PROVE IInv
  OBVIOUS
<1>1. Running({}, state) = {} /\ Active({}, state) = {}
  BY DEF Running, Active
<1>2. Cardinality({}) = 0 /\ OnlyOne({}) = NoThread
  BY FS_EmptySet, OnlyOneType
<1>3. TypeOK
  BY DEF Init, TypeOK, State
<1>4. ListsAgree /\ CpuIffAlive /\ LoomConfined
  BY SystemAssumption DEF Init, ListsAgree, CpuIffAlive, LoomConfined
<1>5. CachesFresh /\ NotOversubscribed
  BY <1>1, <1>2 DEF Init, CachesFresh, NotOversubscribed, Schedulable
<1> QED
  BY <1>3, <1>4, <1>5 DEF IInv

\* OHx keeps the invariant.
LEMMA ExecuteIInv ==
    ASSUME IInv, NEW t \in Thread, NEW c \in Cpu, pre_thread_execute(t, c)
    PROVE  IInv'
<1> USE DEF pre_thread_execute, CanExecute, CanEmit, localVars
<1>1. /\ state' \in [Thread -> State] /\ cpu' \in [Thread -> Cpu \cup {NoCpu}]
      /\ threads' \in [Cpu -> SUBSET Thread]
      /\ UNCHANGED <<emu, outOfCpu, flushing>>
  BY DEF IInv, TypeOK, State
<1>2. ListsAgree' /\ CpuIffAlive' /\ LoomConfined'
  BY SystemAssumption
  DEF IInv, TypeOK, ListsAgree, CpuIffAlive, LoomConfined, LoomCpu
<1>3. \A d \in Cpu \ {c} : /\ threads'[d] = threads[d]
                           /\ Running(threads'[d], state') = Running(threads[d], state)
                           /\ Active(threads'[d], state') = Active(threads[d], state)
  <2> TAKE d \in Cpu \ {c}
  <2>1. threads'[d] = threads[d] /\ threads[d] \in SUBSET Thread /\ t \notin threads[d]
    BY SystemAssumption DEF IInv, TypeOK, ListsAgree
  <2>2. state' = [state EXCEPT ![t] = "running"] /\ TypeOK
    BY DEF IInv
  <2> QED
    BY ONLY <2>1, <2>2, SameThreads
<1>4. /\ CachesFresh'
      /\ nthRunning' \in [Cpu -> Nat]
      /\ thRunning' \in [Cpu -> Thread \cup {NoThread}]
      /\ thActive' \in [Cpu -> Thread \cup {NoThread}]
  BY <1>1, <1>3, CpuUpdateFresh DEF IInv
<1>5. NotOversubscribed'
  BY <1>3 DEF IInv, TypeOK, NotOversubscribed, Schedulable
<1> QED
  BY <1>1, <1>2, <1>4, <1>5 DEF IInv, TypeOK

\* OHe keeps the invariant.
LEMMA EndIInv ==
    ASSUME IInv, NEW t \in Thread, pre_thread_end(t)
    PROVE  IInv'
<1> USE DEF pre_thread_end, CanEnd, CanEmit, localVars
<1>0. cpu[t] \in Cpu
  BY DEF IInv, TypeOK
<1>1. /\ state' \in [Thread -> State] /\ cpu' \in [Thread -> Cpu \cup {NoCpu}]
      /\ threads' \in [Cpu -> SUBSET Thread]
      /\ UNCHANGED <<emu, outOfCpu, flushing>>
  BY DEF IInv, TypeOK, State
<1>2. ListsAgree' /\ CpuIffAlive' /\ LoomConfined'
  BY <1>0, SystemAssumption
  DEF IInv, TypeOK, ListsAgree, CpuIffAlive, LoomConfined
<1>3. \A d \in Cpu \ {cpu[t]} :
          /\ threads'[d] = threads[d]
          /\ Running(threads'[d], state') = Running(threads[d], state)
          /\ Active(threads'[d], state') = Active(threads[d], state)
  <2> TAKE d \in Cpu \ {cpu[t]}
  <2>1. threads'[d] = threads[d] /\ threads[d] \in SUBSET Thread /\ t \notin threads[d]
    BY <1>0 DEF IInv, TypeOK, ListsAgree
  <2>2. state' = [state EXCEPT ![t] = "dead"] /\ TypeOK
    BY DEF IInv
  <2> QED
    BY ONLY <2>1, <2>2, SameThreads
<1>4. /\ CachesFresh'
      /\ nthRunning' \in [Cpu -> Nat]
      /\ thRunning' \in [Cpu -> Thread \cup {NoThread}]
      /\ thActive' \in [Cpu -> Thread \cup {NoThread}]
  BY <1>0, <1>1, <1>3, CpuUpdateFresh DEF IInv
<1>5. NotOversubscribed'
  BY <1>0, <1>3 DEF IInv, TypeOK, NotOversubscribed, Schedulable
<1> QED
  BY <1>1, <1>2, <1>4, <1>5 DEF IInv, TypeOK

\* OHp, OHr, OHc and OHw keep the invariant.
LEMMA SwitchIInv ==
    ASSUME IInv, NEW t \in Thread, NEW from, NEW to \in State \ {"unknown", "dead"},
           Switch(t, from, to)
    PROVE  IInv'
<1> USE DEF Switch, CanSwitch, CanEmit, localVars
<1>0. cpu[t] \in Cpu
  BY DEF IInv, TypeOK
<1>1. /\ state' \in [Thread -> State]
      /\ UNCHANGED <<emu, cpu, threads, outOfCpu, flushing>>
  BY DEF IInv, TypeOK, State
<1>2. ListsAgree' /\ CpuIffAlive' /\ LoomConfined'
  BY <1>0, SystemAssumption
  DEF IInv, TypeOK, ListsAgree, CpuIffAlive, LoomConfined
<1>3. \A d \in Cpu \ {cpu[t]} :
          /\ Running(threads'[d], state') = Running(threads[d], state)
          /\ Active(threads'[d], state') = Active(threads[d], state)
  <2> TAKE d \in Cpu \ {cpu[t]}
  <2>1. threads'[d] = threads[d] /\ threads[d] \in SUBSET Thread /\ t \notin threads[d]
    BY <1>0 DEF IInv, TypeOK, ListsAgree
  <2>2. state' = [state EXCEPT ![t] = to] /\ TypeOK
    BY DEF IInv
  <2> QED
    BY ONLY <2>1, <2>2, SameThreads
<1>4. /\ CachesFresh'
      /\ nthRunning' \in [Cpu -> Nat]
      /\ thRunning' \in [Cpu -> Thread \cup {NoThread}]
      /\ thActive' \in [Cpu -> Thread \cup {NoThread}]
  <2>1. CpuUpdate({cpu[t]}, threads', state') /\ {cpu[t]} \in SUBSET Cpu
    BY <1>0, <1>1
  <2>2. TypeOK /\ CachesFresh /\ threads' \in [Cpu -> SUBSET Thread]
    BY <1>1 DEF IInv, TypeOK
  <2> QED
    BY <2>1, <2>2, <1>3, CpuUpdateFresh
<1>5. NotOversubscribed'
  BY <1>0, <1>3 DEF IInv, TypeOK, NotOversubscribed, Schedulable
<1> QED
  BY <1>1, <1>2, <1>4, <1>5 DEF IInv, TypeOK

\* A migration inside the loom of the thread, by OAs or OAr, keeps the invariant.
LEMMA MigrateIInv ==
    ASSUME IInv, NEW t \in Thread, NEW c \in LoomCpu(t), Migrate(t, c)
    PROVE  IInv'
<1> USE DEF Migrate, CanMigrate, localVars
<1>0. cpu[t] \in Cpu /\ c \in Cpu /\ cpu[t] # c /\ CpuLoom[c] = ThLoom[t]
  BY DEF IInv, TypeOK, LoomCpu
<1>1. /\ cpu' \in [Thread -> Cpu \cup {NoCpu}]
      /\ threads' \in [Cpu -> SUBSET Thread]
      /\ UNCHANGED <<emu, state, outOfCpu, flushing>>
  BY <1>0 DEF IInv, TypeOK
<1>2. ListsAgree' /\ CpuIffAlive' /\ LoomConfined'
  BY <1>0, SystemAssumption
  DEF IInv, TypeOK, ListsAgree, CpuIffAlive, LoomConfined
<1>3. \A d \in Cpu \ {cpu[t], c} : threads'[d] = threads[d]
  BY <1>0 DEF IInv, TypeOK
<1>4. /\ CachesFresh'
      /\ nthRunning' \in [Cpu -> Nat]
      /\ thRunning' \in [Cpu -> Thread \cup {NoThread}]
      /\ thActive' \in [Cpu -> Thread \cup {NoThread}]
  <2>1. CpuUpdate({cpu[t], c}, threads', state') /\ {cpu[t], c} \in SUBSET Cpu
    BY <1>0, <1>1
  <2> QED
    BY <2>1, <1>1, <1>3, CpuUpdateFresh DEF IInv
<1>5. NotOversubscribed'
  BY <1>0, <1>1, <1>3 DEF IInv, TypeOK, NotOversubscribed, Schedulable
<1> QED
  BY <1>1, <1>2, <1>4, <1>5 DEF IInv, TypeOK

\* The steps that touch neither the state nor the CPU of a thread.
LEMMA OtherIInv ==
    ASSUME IInv, UNCHANGED <<state, cpu, threads, nthRunning, thRunning, thActive>>,
           (emu \in {"run", "finished", "error"})', (outOfCpu \in [Thread -> BOOLEAN])',
           (flushing \in [Thread -> BOOLEAN])'
    PROVE  IInv'
<1>1. TypeOK'
  BY DEF IInv, TypeOK
<1>2. ListsAgree' /\ CpuIffAlive' /\ LoomConfined'
  BY DEF IInv, ListsAgree, CpuIffAlive, LoomConfined
<1>3. CachesFresh' /\ NotOversubscribed'
  BY DEF IInv, CachesFresh, NotOversubscribed, Schedulable
<1> QED
  BY <1>1, <1>2, <1>3 DEF IInv

\* Every step keeps the invariant.
LEMMA NextIInv == IInv /\ [Next]_vars => IInv'
<1> SUFFICES ASSUME IInv, [Next]_vars PROVE IInv'
  OBVIOUS
<1>1. ASSUME NEW t \in Thread, model_ovni_event(t) PROVE IInv'
  <2>1. CASE \E c \in Cpu : pre_thread_execute(t, c)
    BY <2>1, ExecuteIInv
  <2>2. CASE pre_thread_end(t)
    BY <2>2, EndIInv
  <2>3. CASE pre_thread_pause(t) \/ pre_thread_resume(t)
    BY <2>3, SwitchIInv DEF pre_thread_pause, pre_thread_resume, State
  <2>4. CASE pre_thread_cool(t) \/ pre_thread_warm(t)
    BY <2>4, SwitchIInv DEF pre_thread_cool, pre_thread_warm, State
  <2>5. CASE \E c \in Cpu : pre_affinity_set(t, c)
    <3> PICK c \in Cpu : pre_affinity_set(t, c)
      BY <2>5
    <3>1. CASE UNCHANGED vars
      BY <3>1, OtherIInv DEF vars, IInv, TypeOK
    <3>2. CASE Migrate(t, c)
      BY <3>2, MigrateIInv DEF pre_affinity_set, CanAffinitySet
    <3> QED
      BY <3>1, <3>2 DEF pre_affinity_set
  <2>6. CASE \E r \in Thread, c \in Cpu : pre_affinity_remote(t, r, c)
    <3> PICK r \in Thread, c \in Cpu : pre_affinity_remote(t, r, c)
      BY <2>6
    <3>1. ThLoom[r] = ThLoom[t]
      BY DEF pre_affinity_remote, CanAffinityRemote, RemoteThread
    <3>2. c \in LoomCpu(r) /\ Migrate(r, c)
      BY <3>1 DEF pre_affinity_remote, CanAffinityRemote, LoomCpu
    <3> QED
      BY <3>2, MigrateIInv
  <2>7. CASE \E on \in BOOLEAN : pre_flush(t, on)
    BY <2>7, OtherIInv DEF pre_flush, cpuVars, IInv, TypeOK
  <2>8. CASE Ignored(t)
    BY <2>8, OtherIInv DEF Ignored, vars, IInv, TypeOK
  <2> QED
    BY <1>1, <2>1, <2>2, <2>3, <2>4, <2>5, <2>6, <2>7, <2>8 DEF model_ovni_event
<1>2. ASSUME NEW t \in Thread, model_kernel_event(t) PROVE IInv'
  BY <1>2, OtherIInv DEF model_kernel_event, context_switch, cpuVars, IInv, TypeOK
<1>3. CASE Reject
  BY <1>3, OtherIInv DEF Reject, localVars, cpuVars, IInv, TypeOK
<1>4. CASE model_ovni_finish
  BY <1>4, OtherIInv DEF model_ovni_finish, localVars, cpuVars, IInv, TypeOK
<1>5. CASE UNCHANGED vars
  BY <1>5, OtherIInv DEF vars, IInv, TypeOK
<1> QED
  BY <1>1, <1>2, <1>3, <1>4, <1>5 DEF Next

\* The emulator keeps the links between threads and CPUs, and the values cached
\* in the CPUs, consistent on every trace.
THEOREM Consistent == Spec => []IInv
  BY InitIInv, NextIInv, PTL DEF Spec

\* The list of a CPU and the pointers of the threads never disagree, after any
\* trace of executes, ends, local and remote migrations (thread_set_cpu and
\* cpu_add_thread, thread_migrate_cpu and cpu_migrate_thread).
THEOREM LinksAgree == Spec => []ListsAgree
<1>1. IInv => ListsAgree
  BY DEF IInv
<1> QED
  BY <1>1, Consistent, PTL

\* Every event finds a CPU in a thread that is alive and none in one that is not:
\* the cpu_update(th->cpu) of each handler has no NULL pointer to follow.
THEOREM AliveHasCpu == Spec => []CpuIffAlive
<1>1. IInv => CpuIffAlive
  BY DEF IInv
<1> QED
  BY <1>1, Consistent, PTL

\* No thread leaves its loom: the two handlers of affinity look the CPU up in the
\* loom of the thread that emits, and the remote one only reaches threads of it.
THEOREM StaysInLoom == Spec => []LoomConfined
<1>1. IInv => LoomConfined
  BY DEF IInv
<1> QED
  BY <1>1, Consistent, PTL

\* What cpu_update() caches is never stale: each handler that changes the state
\* of a thread, or the list of a CPU, updates every CPU whose threads it changed.
THEOREM CachesExact == Spec => []CachesFresh
<1>1. IInv => CachesFresh
  BY DEF IInv
<1> QED
  BY <1>1, Consistent, PTL

\* The CPU channels show the thread that runs in the CPU and no other: the one
\* fact about a physical CPU that the invariant adds is that two running
\* threads in it are the same.
LEMMA IInvRunningShown == IInv => RunningShown
<1> SUFFICES ASSUME IInv PROVE RunningShown
  OBVIOUS
<1>1. ASSUME NEW t \in Thread, state[t] = "running", cpu[t] \notin Virtual
      PROVE  thRunning[cpu[t]] = t
  <2>1. cpu[t] \in Cpu /\ t \in threads[cpu[t]] /\ threads[cpu[t]] \in SUBSET Thread
    BY <1>1 DEF IInv, TypeOK, CpuIffAlive, ListsAgree
  <2> DEFINE R == Running(threads[cpu[t]], state)
  <2>2. t \in R /\ R \in SUBSET Thread /\ IsFiniteSet(R)
    BY <1>1, <2>1, RunningType DEF Running
  <2>3. Cardinality(R) <= 1
    BY <1>1, <2>1 DEF IInv, NotOversubscribed, Schedulable
  <2>4. R = {t}
    BY ONLY <2>2, <2>3, AtMostOne
  <2>5. OnlyOne(R) = t
    BY ONLY <2>2, <2>4, OnlyOneType
  <2> QED
    BY <2>1, <2>5 DEF IInv, CachesFresh
<1>2. ASSUME NEW c \in Cpu, thRunning[c] # NoThread
      PROVE  cpu[thRunning[c]] = c /\ state[thRunning[c]] = "running"
  <2> DEFINE R == Running(threads[c], state)
  <2>1. R \in SUBSET Thread /\ thRunning[c] = OnlyOne(R)
    BY RunningType DEF IInv, TypeOK, CachesFresh
  <2>2. thRunning[c] \in R
    BY <1>2, <2>1, OnlyOneType
  <2> QED
    BY <2>1, <2>2 DEF Running, IInv, ListsAgree
<1> QED
  BY <1>1, <1>2 DEF RunningShown

\* On every trace, of any system, each physical CPU shows the thread that runs
\* in it and no CPU shows a thread that does not (cpu_update, cpu.c).
THEOREM ShownCorrect == Spec => []RunningShown
  BY Consistent, IInvRunningShown, PTL

\* The CPUs of an accepted trace are idle at the end (model_ovni_finish).
THEOREM FinishCorrect == Spec => []FinishedIsIdle
<1> DEFINE Dead == emu = "finished" => \A t \in Thread : state[t] = "dead"
<1>1. Init => Dead
  BY DEF Init
<1>2. Dead /\ [Next]_vars => Dead'
  <2> SUFFICES ASSUME Dead, [Next]_vars, emu' = "finished",
                      NEW t \in Thread
               PROVE  state'[t] = "dead"
    OBVIOUS
  <2>1. CASE emu = "run"
    BY <2>1
    DEF Next, vars, Reject, model_ovni_finish, model_ovni_event, model_kernel_event,
        context_switch, pre_thread_execute, pre_thread_end, pre_thread_pause,
        pre_thread_resume, pre_thread_cool, pre_thread_warm, Switch, pre_affinity_set,
        pre_affinity_remote, Migrate, pre_flush, Ignored
  <2>2. CASE emu # "run"
    BY <2>2
    DEF Next, vars, Reject, model_ovni_finish, model_ovni_event, model_kernel_event,
        context_switch, pre_thread_execute, pre_thread_end, pre_thread_pause,
        pre_thread_resume, pre_thread_cool, pre_thread_warm, Switch, pre_affinity_set,
        pre_affinity_remote, pre_flush, Ignored, CanExecute, CanEnd, CanSwitch,
        CanAffinitySet, CanAffinityRemote, CanEmit
  <2> QED
    BY <2>1, <2>2
<1>3. IInv /\ Dead => FinishedIsIdle
  <2> SUFFICES ASSUME IInv, \A t \in Thread : state[t] = "dead", NEW c \in Cpu
               PROVE  threads[c] = {} /\ nthRunning[c] = 0 /\ thActive[c] = NoThread
    BY DEF FinishedIsIdle
  <2>1. threads[c] = {}
    BY SystemAssumption DEF IInv, TypeOK, ListsAgree, CpuIffAlive
  <2>2. Running({}, state) = {} /\ Active({}, state) = {}
    BY DEF Running, Active
  <2>3. Cardinality({}) = 0 /\ OnlyOne({}) = NoThread
    BY FS_EmptySet, OnlyOneType
  <2> QED
    BY <2>1, <2>2, <2>3 DEF IInv, CachesFresh
<1> QED
  BY <1>1, <1>2, <1>3, Consistent, PTL DEF Spec

\* Nothing but a migration reaches a thread the kernel keeps out of the CPU
\* (is_out_of_cpu in model_ovni_event).
THEOREM OutOfCpuSafe == Spec => OutOfCpuFrozen
<1> DEFINE Frozen == \A t \in Thread : outOfCpu[t] =>
                         /\ state'[t] = state[t]
                         /\ flushing'[t] = flushing[t]
                         /\ (cpu'[t] # cpu[t] => cpu'[t] # NoCpu)
<1>1. IInv /\ [Next]_vars => [Frozen]_vars
  <2> SUFFICES ASSUME IInv, Next PROVE Frozen
    BY DEF vars
  <2> SUFFICES ASSUME NEW u \in Thread, outOfCpu[u]
               PROVE  /\ state'[u] = state[u]
                      /\ flushing'[u] = flushing[u]
                      /\ (cpu'[u] # cpu[u] => cpu'[u] # NoCpu)
    OBVIOUS
  <2> USE DEF localVars, cpuVars, IInv, TypeOK
  <2> DEFINE Safe == /\ state'[u] = state[u]
                     /\ flushing'[u] = flushing[u]
                     /\ (cpu'[u] # cpu[u] => cpu'[u] # NoCpu)
  <2>1. ASSUME NEW t \in Thread, NEW c \in Cpu, Migrate(t, c) PROVE Safe
    BY <2>1, SystemAssumption DEF Migrate
  <2>2. ASSUME NEW t \in Thread, model_ovni_event(t) PROVE Safe
    <3>1. CASE u = t
      BY <2>2, <3>1
      DEF model_ovni_event, pre_thread_execute, CanExecute, pre_thread_end, CanEnd,
          pre_thread_pause, pre_thread_resume, pre_thread_cool, pre_thread_warm,
          Switch, CanSwitch, pre_affinity_set, CanAffinitySet, pre_affinity_remote,
          CanAffinityRemote, pre_flush, Ignored, CanEmit
    <3>2. CASE u # t
      <4>1. CASE \E c \in Cpu : pre_thread_execute(t, c) \/ pre_affinity_set(t, c)
        BY <2>1, <3>2, <4>1 DEF pre_thread_execute, pre_affinity_set, vars
      <4>2. CASE \E r \in Thread, c \in Cpu : pre_affinity_remote(t, r, c)
        BY <2>1, <4>2 DEF pre_affinity_remote
      <4>3. CASE \/ pre_thread_end(t) \/ Ignored(t)
                 \/ \E on \in BOOLEAN : pre_flush(t, on)
        BY <3>2, <4>3 DEF pre_thread_end, Ignored, pre_flush, vars
      <4>4. CASE \/ pre_thread_pause(t) \/ pre_thread_resume(t)
                 \/ pre_thread_cool(t) \/ pre_thread_warm(t)
        BY <3>2, <4>4
        DEF pre_thread_pause, pre_thread_resume, pre_thread_cool, pre_thread_warm, Switch
      <4> QED
        BY <2>2, <4>1, <4>2, <4>3, <4>4 DEF model_ovni_event
    <3> QED
      BY <3>1, <3>2
  <2>3. CASE Reject \/ model_ovni_finish \/ \E t \in Thread : model_kernel_event(t)
    BY <2>3 DEF Reject, model_ovni_finish, model_kernel_event, context_switch
  <2> QED
    BY <2>2, <2>3 DEF Next
<1> QED
  BY <1>1, Consistent, PTL DEF Spec, OutOfCpuFrozen

=============================================================================

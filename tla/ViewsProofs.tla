---------------------------- MODULE ViewsProofs -----------------------------
(***************************************************************************)
(* The timelines are right in every behaviour, for any number of threads,  *)
(* CPUs and views.                                                         *)
(*                                                                         *)
(* The bookkeeping of the bay is that of PatchbayProofs: the handlers only *)
(* change the channels with the operations of chan.c.  VInv adds, of the   *)
(* graph, one mux deep, that every mux is right or is to be corrected; of  *)
(* the threads and CPUs, that their channels follow st and at (Follows)    *)
(* whatever the handler did; of the values, that what is dirty has changed *)
(* where a row refuses duplicates (Fresh, Steep) and is not zero where it  *)
(* refuses zeros (ValInv); and of the rows, that each has the value its    *)
(* channel had at the last flush (RowsInv).  From it no accepted event     *)
(* makes the propagation fail and every row shows the channel of the right *)
(* thread.                                                                 *)
(*                                                                         *)
(* TraceInv adds, while an event is propagated, that the rows still say    *)
(* the state before it and that the one of now is what the event makes of  *)
(* it (Change); the end of the propagation shows it all at once, and so    *)
(* the rows are a behaviour of ThreadCpu.                                  *)
(***************************************************************************)
EXTENDS Views, PatchbayProofs

\* The end of every handler: propagate what it wrote.
LEMMA ProcessedInv == ASSUME NEW b, BayInv(b), IInv, Processed(b) PROVE IInv'
  BY HandledInv DEF Processed

\* thread_set_state() and cpu_update() are made of chan_set().
LEMMA StateInv ==
  ASSUME NEW b, NEW t, NEW s, BayInv(b) PROVE BayInv(thread_set_state(b, t, s))
  BY ChanInv DEF thread_set_state

\* cpu_update() keeps the bookkeeping of the channels.
LEMMA CpuInv ==
  ASSUME NEW b, NEW c, NEW where, NEW states, BayInv(b)
  PROVE  BayInv(cpu_update(b, c, where, states))
  BY ChanInv DEF cpu_update

\* The events of the ovni model.
LEMMA MigrateInv == ASSUME IInv, NEW t, NEW c, Migrate(t, c) PROVE IInv'
<1>1. BayInv(bay)
  BY DEF IInv
<1> QED
  BY <1>1, CpuInv, ChanInv, ProcessedInv DEF Migrate

\* So does every event of threads and CPUs.
LEMMA ThreadEventInv == ASSUME IInv, NEW t \in Thread, ThreadEvent(t) PROVE IInv'
<1>0. BayInv(bay)
  BY DEF IInv
<1>1. ASSUME NEW c \in Cpu, pre_thread_execute(t, c) PROVE IInv'
  BY <1>0, <1>1, StateInv, CpuInv, ChanInv, ProcessedInv DEF pre_thread_execute
<1>2. CASE pre_thread_end(t)
  BY <1>0, <1>2, StateInv, CpuInv, ChanInv, ProcessedInv DEF pre_thread_end
<1>3. ASSUME NEW from, NEW to, Switch(t, from, to) PROVE IInv'
  BY <1>0, <1>3, StateInv, CpuInv, ProcessedInv DEF Switch
<1>4. ASSUME NEW c \in Cpu, pre_affinity_set(t, c) PROVE IInv'
  BY <1>0, <1>4, MigrateInv, ProcessedInv DEF pre_affinity_set
<1>5. ASSUME NEW r \in Thread, NEW c \in Cpu, pre_affinity_remote(t, r, c) PROVE IInv'
  BY <1>5, MigrateInv DEF pre_affinity_remote
<1> QED
  BY <1>1, <1>2, <1>3, <1>4, <1>5 DEF ThreadEvent

\* The events of the models.
LEMMA ProcessInv == ASSUME IInv, NEW t, NEW b, BayInv(b), Process(t, b) PROVE IInv'
<1>1. BayInv(bay) /\ BayInv(Fail(bay))
  BY FailInv DEF IInv
<1> QED
  BY <1>1, ProcessedInv DEF Process

\* So does every event of the other models.
LEMMA ModelEventInv == ASSUME IInv, NEW t \in Thread, ModelEvent(t) PROVE IInv'
<1>0. BayInv(bay) /\ BayInv(Fail(bay))
  BY FailInv DEF IInv
<1>1. ASSUME NEW v, Push(t, v) \/ Pop(t, v) PROVE IInv'
  BY <1>0, <1>1, ChanInv, ProcessInv DEF Push, Pop
<1>2. CASE Process(t, Fail(bay))
  BY <1>0, <1>2, ProcessInv
<1>3. ASSUME NEW c, NEW v, Process(t, ChanSet(bay, c, v)) PROVE IInv'
  BY <1>0, <1>3, ChanInv, ProcessInv
<1>4. CASE TableEvent(t)
  BY <1>4, <1>1, <1>2 DEF TableEvent
<1>5. CASE event_s(t)
  BY <1>5, <1>1, <1>2 DEF event_s
<1>6. CASE context_switch(t)
  BY <1>6, <1>1 DEF context_switch
<1>7. CASE pre_flush(t)
  BY <1>7, <1>3 DEF pre_flush
<1>8. CASE mark_event(t)
  BY <1>8, <1>1, <1>2, <1>3 DEF mark_event
<1>9. CASE hwc_event(t)
  <2>1. PICK s \in Sample, jumbo \in BOOLEAN :
          Process(t, IF ~jumbo \/ Len(s) # HwcSpec.nch THEN Fail(bay)
                     ELSE ChanSet(ChanSet(bay, Raw("hwc", t, 1), s[1]), Raw("hwc", t, 2), s[2]))
    BY <1>9 DEF hwc_event
  <2>2. BayInv(ChanSet(ChanSet(bay, Raw("hwc", t, 1), s[1]), Raw("hwc", t, 2), s[2]))
    BY <1>0, ChanInv
  <2> QED
    BY <2>1, <2>2, <1>0, ProcessInv
<1>10. CASE task_type(t)
  BY <1>10, <1>3 DEF task_type
<1> QED
  BY <1>4, <1>5, <1>6, <1>7, <1>8, <1>9, <1>10
  DEF ModelEvent, model_mpi_event, model_tampi_event, model_nodes_event

-----------------------------------------------------------------------------

\* The bookkeeping of the bay is an invariant of the timelines: each dirty channel
\* is once in the dirty list and the others have not changed since their flush.
THEOREM Bookkeeping == Spec => []IInv
<1>1. Init => IInv
  BY EmptyInv DEF Init, BayInit, IInv
<1>2. IInv /\ [Next]_viewVars => IInv'
  <2> SUFFICES ASSUME IInv, [Next]_viewVars PROVE IInv'
    OBVIOUS
  <2>1. CASE Event
    BY <2>1, ThreadEventInv, ModelEventInv DEF Event
  <2>2. CASE Step
    BY <2>2, PropagateInv DEF Step
  <2>3. ASSUME NEW linter \in BOOLEAN, Finish(linter) PROVE IInv'
    BY <2>3 DEF Finish, vars, IInv
  <2>4. CASE UNCHANGED viewVars
    BY <2>4 DEF viewVars, vars, IInv
  <2> QED
    BY <2>1, <2>2, <2>3, <2>4 DEF Next
<1> QED
  BY <1>1, <1>2, PTL DEF Spec

\* The dirty list holds each dirty channel once, however the handlers and the
\* callbacks write (chan.c and bay.c).
THEOREM DirtyListExact == Spec => []ListedOnce
  BY InvListed, Bookkeeping, PTL

\* Every propagation that ends leaves the channels flushed: the next write is
\* compared with the value that the channel really shows.
THEOREM FlushedWhenReady == Spec => []CleanWhenReady
  BY InvClean, Bookkeeping, PTL
-----------------------------------------------------------------------------
(* The graph of the timelines, one mux deep.                               *)

SysName == {"state", "tid", "cpu", "nrun", "tidrun", "thrun", "thact"}
MuxOf(v) == {m \in ViewMux : m[1] = v}

\* A row of the table of views.
IsSpec(s, nch, stack, dup, track, cpu, flags) ==
    /\ s.nch = nch /\ s.stack = stack /\ s.dup = dup
    /\ s.track = track /\ s.cpu = cpu /\ s.flags = flags

\* The tables of the models.
LEMMA SpecIs ==
  ASSUME NEW v \in View
  PROVE  /\ Sp(v).nch \in {1, 2} /\ Sp(v).track \in {"run", "act", "any"}
         /\ Sp(v).stack \in BOOLEAN /\ Sp(v).dup \in BOOLEAN /\ Sp(v).cpu \in BOOLEAN
         /\ Sp(v).nch = 2 => v = "hwc"
         /\ "zero" \in Sp(v).flags <=> v = "hwc"
         /\ "next" \notin Sp(v).flags
         /\ Sp(v).flags \cap {"emitdup", "skipdup", "skipdupnull"} = {} =>
                /\ v = "xtasks" /\ Sp(v).track = "any"
                /\ Sp(v).cpu = FALSE /\ Sp(v).stack = TRUE /\ Sp(v).dup = FALSE
         /\ v \notin SysName
<1>0. v \in {"mpi", "tampi", "nodes", "xtasks", "kernel", "flush", "mark", "single", "type", "hwc"}
  BY ViewsAssumption
<1>a. v \notin SysName
  BY <1>0 DEF SysName
<1>1. CASE v = "mpi"
  <2>1. Sp(v) = MpiSpec
    BY <1>1 DEF Sp
  <2>2. IsSpec(MpiSpec, 1, TRUE, FALSE, "run", TRUE, {"skipdup"})
    BY DEF IsSpec, MpiSpec
  <2>3. Sp(v).stack \in BOOLEAN /\ Sp(v).dup \in BOOLEAN /\ Sp(v).cpu \in BOOLEAN
    BY <2>1, <2>2, Zenon DEF IsSpec
  <2>4. IsSpec(Sp(v), 1, TRUE, FALSE, "run", TRUE, {"skipdup"})
    BY <2>1, <2>2, Zenon
  <2> QED
    BY <1>a, <1>1, <2>3, <2>4 DEF IsSpec
<1>2. CASE v = "tampi"
  <2>1. Sp(v) = TampiSpec
    BY <1>2 DEF Sp
  <2>2. IsSpec(TampiSpec, 1, TRUE, FALSE, "act", TRUE, {"skipdup"})
    BY DEF IsSpec, TampiSpec, MpiSpec
  <2>3. Sp(v).stack \in BOOLEAN /\ Sp(v).dup \in BOOLEAN /\ Sp(v).cpu \in BOOLEAN
    BY <2>1, <2>2, Zenon DEF IsSpec
  <2>4. IsSpec(Sp(v), 1, TRUE, FALSE, "act", TRUE, {"skipdup"})
    BY <2>1, <2>2, Zenon
  <2> QED
    BY <1>a, <1>2, <2>3, <2>4 DEF IsSpec
<1>3. CASE v = "nodes"
  <2>1. Sp(v) = NodesSpec
    BY <1>3 DEF Sp
  <2>2. IsSpec(NodesSpec, 1, TRUE, FALSE, "act", TRUE, {"skipdup"})
    BY DEF IsSpec, NodesSpec, MpiSpec
  <2>3. Sp(v).stack \in BOOLEAN /\ Sp(v).dup \in BOOLEAN /\ Sp(v).cpu \in BOOLEAN
    BY <2>1, <2>2, Zenon DEF IsSpec
  <2>4. IsSpec(Sp(v), 1, TRUE, FALSE, "act", TRUE, {"skipdup"})
    BY <2>1, <2>2, Zenon
  <2> QED
    BY <1>a, <1>3, <2>3, <2>4 DEF IsSpec
<1>4. CASE v = "xtasks"
  <2>1. Sp(v) = XtasksSpec
    BY <1>4 DEF Sp
  <2>2. IsSpec(XtasksSpec, 1, TRUE, FALSE, "any", FALSE, {})
    BY DEF IsSpec, XtasksSpec, MpiSpec
  <2>3. Sp(v).stack \in BOOLEAN /\ Sp(v).dup \in BOOLEAN /\ Sp(v).cpu \in BOOLEAN
    BY <2>1, <2>2, Zenon DEF IsSpec
  <2>4. IsSpec(Sp(v), 1, TRUE, FALSE, "any", FALSE, {})
    BY <2>1, <2>2, Zenon
  <2> QED
    BY <1>a, <1>4, <2>3, <2>4 DEF IsSpec
<1>5. CASE v = "kernel"
  <2>1. Sp(v) = KernelSpec
    BY <1>5 DEF Sp
  <2>2. IsSpec(KernelSpec, 1, TRUE, FALSE, "any", TRUE, {"skipdup"})
    BY DEF IsSpec, KernelSpec, MpiSpec
  <2>3. Sp(v).stack \in BOOLEAN /\ Sp(v).dup \in BOOLEAN /\ Sp(v).cpu \in BOOLEAN
    BY <2>1, <2>2, Zenon DEF IsSpec
  <2>4. IsSpec(Sp(v), 1, TRUE, FALSE, "any", TRUE, {"skipdup"})
    BY <2>1, <2>2, Zenon
  <2> QED
    BY <1>a, <1>5, <2>3, <2>4 DEF IsSpec
<1>6. CASE v = "flush"
  <2>1. Sp(v) = FlushSpec
    BY <1>6 DEF Sp
  <2>2. IsSpec(FlushSpec, 1, FALSE, FALSE, "any", TRUE, {"skipdup"})
    BY DEF IsSpec, FlushSpec, MpiSpec
  <2>3. Sp(v).stack \in BOOLEAN /\ Sp(v).dup \in BOOLEAN /\ Sp(v).cpu \in BOOLEAN
    BY <2>1, <2>2, Zenon DEF IsSpec
  <2>4. IsSpec(Sp(v), 1, FALSE, FALSE, "any", TRUE, {"skipdup"})
    BY <2>1, <2>2, Zenon
  <2> QED
    BY <1>a, <1>6, <2>3, <2>4 DEF IsSpec
<1>7. CASE v = "mark"
  <2>1. Sp(v) = MarkSpec
    BY <1>7 DEF Sp
  <2>2. IsSpec(MarkSpec, 1, TRUE, TRUE, "act", TRUE, {"skipdupnull"})
    BY DEF IsSpec, MarkSpec, MpiSpec
  <2>3. Sp(v).stack \in BOOLEAN /\ Sp(v).dup \in BOOLEAN /\ Sp(v).cpu \in BOOLEAN
    BY <2>1, <2>2, Zenon DEF IsSpec
  <2>4. IsSpec(Sp(v), 1, TRUE, TRUE, "act", TRUE, {"skipdupnull"})
    BY <2>1, <2>2, Zenon
  <2> QED
    BY <1>a, <1>7, <2>3, <2>4 DEF IsSpec
<1>8. CASE v = "single"
  <2>1. Sp(v) = SingleSpec
    BY <1>8 DEF Sp
  <2>2. IsSpec(SingleSpec, 1, FALSE, TRUE, "act", TRUE, {"skipdupnull"})
    BY DEF IsSpec, SingleSpec, MarkSpec, MpiSpec
  <2>3. Sp(v).stack \in BOOLEAN /\ Sp(v).dup \in BOOLEAN /\ Sp(v).cpu \in BOOLEAN
    BY <2>1, <2>2, Zenon DEF IsSpec
  <2>4. IsSpec(Sp(v), 1, FALSE, TRUE, "act", TRUE, {"skipdupnull"})
    BY <2>1, <2>2, Zenon
  <2> QED
    BY <1>a, <1>8, <2>3, <2>4 DEF IsSpec
<1>9. CASE v = "type"
  <2>1. Sp(v) = TypeSpec
    BY <1>9 DEF Sp
  <2>2. IsSpec(TypeSpec, 1, FALSE, TRUE, "run", TRUE, {"emitdup"})
    BY DEF IsSpec, TypeSpec, MpiSpec
  <2>3. Sp(v).stack \in BOOLEAN /\ Sp(v).dup \in BOOLEAN /\ Sp(v).cpu \in BOOLEAN
    BY <2>1, <2>2, Zenon DEF IsSpec
  <2>4. IsSpec(Sp(v), 1, FALSE, TRUE, "run", TRUE, {"emitdup"})
    BY <2>1, <2>2, Zenon
  <2> QED
    BY <1>a, <1>9, <2>3, <2>4 DEF IsSpec
<1>10. CASE v = "hwc"
  <2>1. Sp(v) = HwcSpec
    BY <1>10 DEF Sp
  <2>2. IsSpec(HwcSpec, 2, FALSE, TRUE, "act", TRUE, {"skipdupnull", "zero"})
    BY DEF IsSpec, HwcSpec
  <2>3. Sp(v).stack \in BOOLEAN /\ Sp(v).dup \in BOOLEAN /\ Sp(v).cpu \in BOOLEAN
    BY <2>1, <2>2, Zenon DEF IsSpec
  <2>4. IsSpec(Sp(v), 2, FALSE, TRUE, "act", TRUE, {"skipdupnull", "zero"})
    BY <2>1, <2>2, Zenon
  <2> QED
    BY <1>a, <1>10, <2>3, <2>4 DEF IsSpec
<1> QED
  BY <1>0, <1>1, <1>2, <1>3, <1>4, <1>5, <1>6, <1>7, <1>8, <1>9, <1>10

\* The channels of a model in the threads.
LEMMA Raws ==
  ASSUME NEW V
  PROVE  \A e : e \in OfThreads(V) <=>
             \E v \in V : \E t \in Thread : \E k \in 1 .. Sp(v).nch : e = Raw(v, t, k)
<1> SUFFICES ASSUME NEW e
             PROVE  e \in OfThreads(V) <=>
                        \E v \in V : \E t \in Thread : \E k \in 1 .. Sp(v).nch : e = Raw(v, t, k)
  OBVIOUS
<1>1. ASSUME e \in OfThreads(V)
      PROVE  \E v \in V : \E t \in Thread : \E k \in 1 .. Sp(v).nch : e = Raw(v, t, k)
  <2>1. PICK v \in V : e \in {v} \X {"raw"} \X Thread \X (1 .. Sp(v).nch)
    BY <1>1 DEF OfThreads
  <2>2. e = <<v, "raw", e[3], e[4]>> /\ e[3] \in Thread /\ e[4] \in 1 .. Sp(v).nch
    BY <2>1
  <2> QED
    BY <2>2 DEF Raw
<1>2. ASSUME NEW v \in V, NEW t \in Thread, NEW k \in 1 .. Sp(v).nch, e = Raw(v, t, k)
      PROVE  e \in OfThreads(V)
  <2>1. e \in {v} \X {"raw"} \X Thread \X (1 .. Sp(v).nch)
    BY <1>2 DEF Raw
  <2> QED
    BY <2>1 DEF OfThreads
<1> QED
  BY <1>1, <1>2

\* The muxes of a view.
LEMMA Muxes ==
  ASSUME NEW v \in View
  PROVE  \A m : m \in MuxOf(v) <=>
             \/ /\ Sp(v).track # "any"
                /\ \E t \in Thread : \E k \in 1 .. Sp(v).nch : m = ThOut(v, t, k)
             \/ /\ Sp(v).cpu
                /\ \E c \in Cpu : \E k \in 1 .. Sp(v).nch : m = CpuOut(v, c, k)
<1> SUFFICES ASSUME NEW m
             PROVE  m \in MuxOf(v) <=>
                       \/ /\ Sp(v).track # "any"
                          /\ \E t \in Thread : \E k \in 1 .. Sp(v).nch : m = ThOut(v, t, k)
                       \/ /\ Sp(v).cpu
                          /\ \E c \in Cpu : \E k \in 1 .. Sp(v).nch : m = CpuOut(v, c, k)
  OBVIOUS
<1>1. ASSUME m \in ThMux, m[1] = v
      PROVE  Sp(v).track # "any" /\ \E t \in Thread : \E k \in 1 .. Sp(v).nch : m = ThOut(v, t, k)
  <2>1. PICK w \in View : Sp(w).track # "any" /\ m \in {w} \X {"thread"} \X Thread \X (1 .. Sp(w).nch)
    BY <1>1 DEF ThMux
  <2>2. m = <<w, "thread", m[3], m[4]>> /\ m[3] \in Thread /\ m[4] \in 1 .. Sp(w).nch /\ w = v
    BY <1>1, <2>1
  <2> QED
    BY <2>1, <2>2 DEF ThOut
<1>2. ASSUME m \in CpuMux, m[1] = v
      PROVE  Sp(v).cpu /\ \E c \in Cpu : \E k \in 1 .. Sp(v).nch : m = CpuOut(v, c, k)
  <2>1. PICK w \in View : Sp(w).cpu /\ m \in {w} \X {"cpu"} \X Cpu \X (1 .. Sp(w).nch)
    BY <1>2 DEF CpuMux
  <2>2. m = <<w, "cpu", m[3], m[4]>> /\ m[3] \in Cpu /\ m[4] \in 1 .. Sp(w).nch /\ w = v
    BY <1>2, <2>1
  <2> QED
    BY <2>1, <2>2 DEF CpuOut
<1>3. ASSUME Sp(v).track # "any", NEW t \in Thread, NEW k \in 1 .. Sp(v).nch, m = ThOut(v, t, k)
      PROVE  m \in MuxOf(v)
  <2>1. m \in {v} \X {"thread"} \X Thread \X (1 .. Sp(v).nch) /\ m[1] = v
    BY <1>3 DEF ThOut
  <2>2. m \in ThMux
    BY <1>3, <2>1 DEF ThMux
  <2> QED
    BY <2>1, <2>2 DEF MuxOf, ViewMux
<1>4. ASSUME Sp(v).cpu, NEW c \in Cpu, NEW k \in 1 .. Sp(v).nch, m = CpuOut(v, c, k)
      PROVE  m \in MuxOf(v)
  <2>1. m \in {v} \X {"cpu"} \X Cpu \X (1 .. Sp(v).nch) /\ m[1] = v
    BY <1>4 DEF CpuOut
  <2>2. m \in CpuMux
    BY <1>4, <2>1 DEF CpuMux
  <2> QED
    BY <2>1, <2>2 DEF MuxOf, ViewMux
<1> QED
  BY <1>1, <1>2, <1>3, <1>4 DEF MuxOf, ViewMux

\* A mux is of a view.
LEMMA MuxView == ASSUME NEW m \in ViewMux PROVE m[1] \in View /\ m \in MuxOf(m[1])
<1>1. ASSUME m \in ThMux PROVE m[1] \in View
  <2>1. PICK w \in View : m \in {w} \X {"thread"} \X Thread \X (1 .. Sp(w).nch)
    BY <1>1 DEF ThMux
  <2> QED
    BY <2>1
<1>2. ASSUME m \in CpuMux PROVE m[1] \in View
  <2>1. PICK w \in View : m \in {w} \X {"cpu"} \X Cpu \X (1 .. Sp(w).nch)
    BY <1>2 DEF CpuMux
  <2> QED
    BY <2>1
<1> QED
  BY <1>1, <1>2 DEF MuxOf, ViewMux

\* The channels of threads and CPUs.
LEMMA SysIs ==
  /\ \A e \in SysChan : e[1] \in SysName
  /\ \A t \in Thread : {<<"state", t>>, <<"tid", t>>, <<"cpu", t>>} \subseteq SysChan
  /\ \A c \in Cpu : {<<"nrun", c>>, <<"tidrun", c>>, <<"thrun", c>>, <<"thact", c>>} \subseteq SysChan
  /\ \A e \in SysChan : \/ \E t \in Thread : e \in {<<"state", t>>, <<"tid", t>>, <<"cpu", t>>}
                        \/ \E c \in Cpu : e \in {<<"nrun", c>>, <<"tidrun", c>>, <<"thrun", c>>, <<"thact", c>>}
  BY DEF SysChan, SysName

\* Their kinds differ.
LEMMA KindsDiffer ==
  ASSUME NEW v \in View
  PROVE  /\ \A e \in SysChan : /\ e \notin OfThreads(View) /\ e \notin ViewMux
                               /\ e \notin Stack /\ e \notin DirtyWrite /\ e \notin AllowDup
         /\ \A t \in Thread : \A k \in 1 .. Sp(v).nch :
                LET e == Raw(v, t, k)
                IN  /\ e \in ChansOf(v) /\ e \notin SysChan /\ e \notin ViewMux /\ e \notin DirtyWrite
                    /\ e \notin IgnoreDup
                    /\ e \in Stack <=> Sp(v).stack
                    /\ e \in AllowDup <=> Sp(v).dup
         /\ \A m \in MuxOf(v) : /\ m \in ChansOf(v) /\ m \notin SysChan /\ m \notin OfThreads(View)
                                /\ m \notin Stack /\ m \in DirtyWrite /\ m \in AllowDup
                                /\ m \in Mux
<1>1. \A w \in View, e \in SysChan : e[1] # w
  <2>1. \A w \in View : w \notin SysName
    BY SpecIs, Zenon
  <2> QED
    BY <2>1, SysIs
<1>2. \A W \in SUBSET View : \A e \in OfThreads(W) : e[1] \in W /\ e[2] = "raw"
  BY Raws DEF Raw
<1>3. \A m \in ViewMux : m[1] \in View /\ m[2] \in {"thread", "cpu"}
  <2> SUFFICES ASSUME NEW m \in ViewMux PROVE m[2] \in {"thread", "cpu"}
    BY MuxView
  <2>1. m[1] \in View /\ m \in MuxOf(m[1])
    BY MuxView
  <2>2. PICK w \in View : m \in MuxOf(w)
    BY <2>1
  <2> QED
    BY <2>2, Muxes DEF ThOut, CpuOut
<1>4. OfThreads(View) \cap ViewMux = {}
  <2>1. \A e \in OfThreads(View) : e[2] = "raw"
    BY <1>2
  <2> QED
    BY <1>3, <2>1
<1>5. ASSUME NEW e \in SysChan
      PROVE  /\ e \notin OfThreads(View) /\ e \notin ViewMux
             /\ \A W \in SUBSET View : e \notin OfThreads(W)
  BY <1>1, <1>2, <1>3
<1>6. /\ Stack = OfThreads({w \in View : Sp(w).stack}) /\ DirtyWrite = ViewMux /\ Mux = ViewMux
      /\ AllowDup = OfThreads({w \in View : Sp(w).dup}) \cup ViewMux
      /\ IgnoreDup \subseteq SysChan
  BY ViewsGraph DEF ViewStack, ViewAllowDup, ViewIgnoreDup, SysChan
<1>7. ASSUME NEW t \in Thread, NEW k \in 1 .. Sp(v).nch, NEW e, e = Raw(v, t, k)
      PROVE  /\ e \in ChansOf(v) /\ e \notin SysChan /\ e \notin ViewMux /\ e \notin DirtyWrite
             /\ e \notin IgnoreDup
             /\ e \in Stack <=> Sp(v).stack
             /\ e \in AllowDup <=> Sp(v).dup
  <2>1. e[1] = v /\ e[2] = "raw"
    BY <1>7 DEF Raw
  <2>2. e \notin SysChan /\ e \notin ViewMux
    BY <2>1, <1>1, <1>3
  <2>3. \A W : v \in W => e \in OfThreads(W)
    BY <1>7, Raws
  <2>4. \A W \in SUBSET View : v \notin W => e \notin OfThreads(W)
    BY <1>2, <2>1
  <2>5. e \in ChansOf(v)
    BY <2>3 DEF ChansOf
  <2>6. {w \in View : Sp(w).stack} \in SUBSET View /\ {w \in View : Sp(w).dup} \in SUBSET View
    OBVIOUS
  <2> QED
    BY <1>6, <2>2, <2>3, <2>4, <2>5, <2>6
<1>8. ASSUME NEW m \in MuxOf(v)
      PROVE  /\ m \in ChansOf(v) /\ m \notin SysChan /\ m \notin OfThreads(View)
             /\ m \notin Stack /\ m \in DirtyWrite /\ m \in AllowDup /\ m \in Mux
  <2>1. m \in ViewMux /\ m[1] = v
    BY DEF MuxOf
  <2>2. \A W \in SUBSET View : m \notin OfThreads(W)
    BY <1>2, <1>3, <2>1
  <2>3. {w \in View : Sp(w).stack} \in SUBSET View
    OBVIOUS
  <2> QED
    BY <1>5, <1>6, <2>1, <2>2, <2>3 DEF ChansOf
<1>9. \A e \in SysChan : e \notin Stack /\ e \notin DirtyWrite /\ e \notin AllowDup
  <2>1. {w \in View : Sp(w).stack} \in SUBSET View /\ {w \in View : Sp(w).dup} \in SUBSET View
    OBVIOUS
  <2> QED
    BY <1>5, <1>6, <2>1
<1> QED
  BY <1>5, <1>7, <1>8, <1>9

\* What a mux selects by, reads and writes.
LEMMA MuxGraph ==
  ASSUME NEW v \in View, NEW m \in MuxOf(v)
  PROVE  /\ MuxOut[m] = m /\ MuxDef[m] = Null /\ m \in Mux
         /\ m[2] = "thread" => /\ Sp(v).track # "any" /\ m[3] \in Thread /\ m[4] \in 1 .. Sp(v).nch
                               /\ m = ThOut(v, m[3], m[4])
                               /\ MuxSel[m] = <<"state", m[3]>> /\ MuxIn[m] = <<Raw(v, m[3], m[4])>>
         /\ m[2] = "cpu" => /\ Sp(v).cpu /\ m[3] \in Cpu /\ m[4] \in 1 .. Sp(v).nch
                            /\ m = CpuOut(v, m[3], m[4])
                            /\ MuxSel[m] = <<"thrun", m[3]>>
                            /\ MuxIn[m] = [i \in 1 .. NThreads |-> Raw(v, i - 1, m[4])]
         /\ m[2] \in {"thread", "cpu"}
<1>0. m \in ViewMux /\ m[1] = v
  BY DEF MuxOf
<1>1. MuxOut[m] = m /\ MuxDef[m] = Null /\ m \in Mux
  BY <1>0, ViewsGraph DEF ViewOut, ViewDef
<1>2. /\ MuxSel[m] = IF m[2] = "thread" THEN <<"state", m[3]>> ELSE <<"thrun", m[3]>>
      /\ MuxIn[m] = IF m[2] = "thread" THEN <<Raw(m[1], m[3], m[4])>>
                    ELSE [i \in 1 .. NThreads |-> Raw(m[1], i - 1, m[4])]
  BY <1>0, ViewsGraph DEF ViewSel, ViewIn
<1>3. ASSUME Sp(v).track # "any", NEW t \in Thread, NEW k \in 1 .. Sp(v).nch, m = ThOut(v, t, k)
      PROVE  /\ m[2] = "thread" /\ Sp(v).track # "any" /\ m[3] \in Thread /\ m[4] \in 1 .. Sp(v).nch
             /\ m = ThOut(v, m[3], m[4])
  BY <1>3 DEF ThOut
<1>4. ASSUME Sp(v).cpu, NEW c \in Cpu, NEW k \in 1 .. Sp(v).nch, m = CpuOut(v, c, k)
      PROVE  /\ m[2] = "cpu" /\ Sp(v).cpu /\ m[3] \in Cpu /\ m[4] \in 1 .. Sp(v).nch
             /\ m = CpuOut(v, m[3], m[4])
  BY <1>4 DEF CpuOut
<1>5. \/ /\ m[2] = "thread" /\ Sp(v).track # "any" /\ m[3] \in Thread /\ m[4] \in 1 .. Sp(v).nch
         /\ m = ThOut(v, m[3], m[4])
      \/ /\ m[2] = "cpu" /\ Sp(v).cpu /\ m[3] \in Cpu /\ m[4] \in 1 .. Sp(v).nch
         /\ m = CpuOut(v, m[3], m[4])
  BY <1>3, <1>4, Muxes
<1>6. CASE /\ m[2] = "thread" /\ Sp(v).track # "any" /\ m[3] \in Thread /\ m[4] \in 1 .. Sp(v).nch
           /\ m = ThOut(v, m[3], m[4])
  BY <1>0, <1>1, <1>2, <1>6
<1>7. CASE /\ m[2] = "cpu" /\ Sp(v).cpu /\ m[3] \in Cpu /\ m[4] \in 1 .. Sp(v).nch
           /\ m = CpuOut(v, m[3], m[4])
  BY <1>0, <1>1, <1>2, <1>7
<1> QED
  BY <1>5, <1>6, <1>7

\* The inputs of a mux.
LEMMA MuxInputs ==
  ASSUME NEW v \in View, NEW m \in MuxOf(v)
  PROVE  /\ MuxSel[m] \in SysChan /\ MuxSel[m] \in ChansOf(v)
         /\ DOMAIN MuxIn[m] = IF m[2] = "thread" THEN {1} ELSE 1 .. NThreads
         /\ \A i \in DOMAIN MuxIn[m] : \E t \in Thread : MuxIn[m][i] = Raw(v, t, m[4])
         /\ m[4] \in 1 .. Sp(v).nch
         /\ ToSet(MuxIn[m]) \subseteq OfThreads({v}) /\ ToSet(MuxIn[m]) \subseteq ChansOf(v)
<1>1. CASE m[2] = "thread"
  <2>1. /\ m[3] \in Thread /\ m[4] \in 1 .. Sp(v).nch
        /\ MuxSel[m] = <<"state", m[3]>> /\ MuxIn[m] = <<Raw(v, m[3], m[4])>>
    BY <1>1, MuxGraph
  <2>2. MuxSel[m] \in SysChan
    BY <2>1, SysIs
  <2>3. DOMAIN MuxIn[m] = {1} /\ MuxIn[m][1] = Raw(v, m[3], m[4])
    BY <2>1
  <2>4. ToSet(MuxIn[m]) = {Raw(v, m[3], m[4])}
    BY <2>3 DEF ToSet
  <2>5. Raw(v, m[3], m[4]) \in OfThreads({v})
    BY <2>1, Raws
  <2> QED
    BY <1>1, <2>1, <2>2, <2>3, <2>4, <2>5 DEF ChansOf
<1>2. CASE m[2] = "cpu"
  <2>1. /\ m[3] \in Cpu /\ m[4] \in 1 .. Sp(v).nch
        /\ MuxSel[m] = <<"thrun", m[3]>> /\ MuxIn[m] = [i \in 1 .. NThreads |-> Raw(v, i - 1, m[4])]
    BY <1>2, MuxGraph
  <2>2. MuxSel[m] \in SysChan
    BY <2>1, SysIs
  <2>3. DOMAIN MuxIn[m] = 1 .. NThreads /\ \A i \in 1 .. NThreads : MuxIn[m][i] = Raw(v, i - 1, m[4])
    BY <2>1
  <2>4. \A i \in 1 .. NThreads : i - 1 \in Thread
    BY ViewsAssumption DEF Thread
  <2>5. \A i \in 1 .. NThreads : Raw(v, i - 1, m[4]) \in OfThreads({v})
    BY <2>1, <2>4, Raws
  <2>6. ToSet(MuxIn[m]) \subseteq OfThreads({v})
    BY <2>3, <2>5 DEF ToSet
  <2> QED
    BY <1>2, <2>1, <2>2, <2>3, <2>4, <2>6 DEF ChansOf
<1> QED
  BY <1>1, <1>2, MuxGraph

\* The graph of each view is wired, and nobody reads the output of a mux.
LEMMA ViewWired ==
  ASSUME NEW v \in View
  PROVE  /\ Wired(MuxOf(v), ChansOf(v))
         /\ \A m, n \in MuxOf(v) : MuxOut[m] # MuxSel[n] /\ MuxOut[m] \notin ToSet(MuxIn[n])
<1>0. SortIn = <<>> /\ SortOut = <<>>
  BY ViewsGraph
<1>1. ToSet(SortIn) = {} /\ ToSet(SortOut) = {} /\ DOMAIN SortOut = {}
  BY <1>0 DEF ToSet
<1>2. \A m \in MuxOf(v) : /\ MuxOut[m] = m /\ m \in Mux /\ m \in ChansOf(v)
                          /\ m \in DirtyWrite \cap AllowDup
                          /\ m \notin SysChan /\ m \notin OfThreads({v})
  <2> SUFFICES ASSUME NEW m \in MuxOf(v)
               PROVE  /\ MuxOut[m] = m /\ m \in Mux /\ m \in ChansOf(v)
                      /\ m \in DirtyWrite \cap AllowDup
                      /\ m \notin SysChan /\ m \notin OfThreads({v})
    OBVIOUS
  <2>1. MuxOut[m] = m
    BY MuxGraph
  <2>2. OfThreads({v}) \subseteq OfThreads(View)
    BY Raws
  <2> QED
    BY <2>1, <2>2, KindsDiffer
<1>3. \A m \in MuxOf(v) : /\ MuxSel[m] \in SysChan /\ MuxSel[m] \in ChansOf(v)
                          /\ ToSet(MuxIn[m]) \subseteq OfThreads({v}) /\ ToSet(MuxIn[m]) \subseteq ChansOf(v)
  BY MuxInputs
<1>4. \A m, n \in MuxOf(v) : MuxOut[m] # MuxSel[n] /\ MuxOut[m] \notin ToSet(MuxIn[n])
  BY <1>2, <1>3
<1> QED
  BY <1>1, <1>2, <1>3, <1>4 DEF Wired

\* The muxes of the bay are those of the view.
LEMMA MuxOfIs ==
  ASSUME NEW v \in View
  PROVE  {x \in Mux : {MuxSel[x], MuxOut[x]} \subseteq ChansOf(v)} = MuxOf(v)
<1>1. Mux = ViewMux
  BY ViewsGraph
<1>2. ASSUME NEW x \in MuxOf(v) PROVE x \in Mux /\ {MuxSel[x], MuxOut[x]} \subseteq ChansOf(v)
  BY ViewWired DEF Wired
<1>3. ASSUME NEW x \in ViewMux, MuxOut[x] \in ChansOf(v) PROVE x \in MuxOf(v)
  <2>1. x[1] \in View /\ x \in MuxOf(x[1])
    BY MuxView
  <2>2. PICK w \in View : x \in MuxOf(w)
    BY <2>1
  <2>3. MuxOut[x] = x /\ x \notin SysChan /\ x \notin OfThreads(View)
    BY <2>2, MuxGraph, KindsDiffer
  <2>4. OfThreads({v}) \subseteq OfThreads(View)
    BY Raws
  <2> QED
    BY <1>3, <2>3, <2>4 DEF ChansOf, MuxOf
<1> QED
  BY <1>1, <1>2, <1>3 DEF MuxOf

\* The callbacks that the models connect.
LEMMA ViewCbs ==
  ASSUME NEW v \in View
  PROVE  /\ CbLists(ViewCb(v)) /\ DOMAIN ViewCb(v) = ChansOf(v)
         /\ \A c \in ChansOf(v) : \A y \in ToSet(ViewCb(v)[c]) :
                \E m \in MuxOf(v) : y = SelectCb(m) /\ MuxSel[m] = c
         /\ \A m \in MuxOf(v) : SelectCb(m) \in ToSet(ViewCb(v)[MuxSel[m]])
<1>0. DOMAIN ViewCb(v) = ChansOf(v) /\ Sp(v).nch \in Nat
  <2>1. Sp(v).nch \in {1, 2}
    BY SpecIs
  <2> QED
    BY <2>1 DEF ViewCb
<1>1. ASSUME NEW c \in ChansOf(v)
      PROVE  /\ (c[1] = "state" /\ Sp(v).track # "any") =>
                    ViewCb(v)[c] = [k \in 1 .. Sp(v).nch |-> SelectCb(ThOut(v, c[2], k))]
             /\ (c[1] = "thrun" /\ Sp(v).cpu) =>
                    ViewCb(v)[c] = [k \in 1 .. Sp(v).nch |-> SelectCb(CpuOut(v, c[2], k))]
             /\ ~(c[1] = "state" /\ Sp(v).track # "any") /\ ~(c[1] = "thrun" /\ Sp(v).cpu) =>
                    ViewCb(v)[c] = <<>>
  BY DEF ViewCb
<1>3. CbList(<<>>) /\ ToSet(<<>>) = {}
  BY DEF CbList, NoRepeat, ToSet
<1>4. ASSUME NEW c \in ChansOf(v), c[1] \in {"state", "thrun"}
      PROVE  /\ c[1] = "state" => c[2] \in Thread /\ c = <<"state", c[2]>>
             /\ c[1] = "thrun" => c[2] \in Cpu /\ c = <<"thrun", c[2]>>
  <2>1. c[1] \in SysName /\ v \notin SysName
    BY <1>4, SpecIs, Zenon DEF SysName
  <2>2. \A e \in OfThreads({v}) : e[1] = v
    BY Raws DEF Raw
  <2>3. c \in SysChan
    BY <2>1, <2>2 DEF ChansOf
  <2> QED
    BY <1>4, <2>3, SysIs
<1>5. ASSUME NEW c \in ChansOf(v), c[1] = "state", Sp(v).track # "any"
      PROVE  /\ CbList(ViewCb(v)[c])
             /\ ToSet(ViewCb(v)[c]) = {SelectCb(ThOut(v, c[2], k)) : k \in 1 .. Sp(v).nch}
  <2>1. PICK t : t = c[2]
    OBVIOUS
  <2> DEFINE F(k) == SelectCb(ThOut(v, t, k))
             s == ViewCb(v)[c]
  <2>2. s = [k \in 1 .. Sp(v).nch |-> F(k)]
    BY <1>1, <1>5, <2>1
  <2>3. \A i, j : F(i) = F(j) => i = j
    BY DEF SelectCb, ThOut
  <2> HIDE DEF F, s
  <2>4. CbList(s) /\ ToSet(s) = {F(k) : k \in 1 .. Sp(v).nch}
    <3>1. DOMAIN s = 1 .. Sp(v).nch /\ s \in Seq(ToSet(s)) /\ Len(s) = Sp(v).nch
      BY <1>0, <2>2 DEF ToSet
    <3>2. ToSet(s) = {F(k) : k \in 1 .. Sp(v).nch}
      BY <2>2, <3>1 DEF ToSet
    <3>3. \A i, j \in DOMAIN s : s[i] = s[j] => i = j
      BY <2>2, <2>3
    <3> QED
      BY <3>1, <3>2, <3>3 DEF CbList, NoRepeat
  <2> QED
    BY <2>1, <2>4 DEF F, s
<1>6. ASSUME NEW c \in ChansOf(v), c[1] = "thrun", Sp(v).cpu
      PROVE  /\ CbList(ViewCb(v)[c])
             /\ ToSet(ViewCb(v)[c]) = {SelectCb(CpuOut(v, c[2], k)) : k \in 1 .. Sp(v).nch}
  <2>1. PICK t : t = c[2]
    OBVIOUS
  <2> DEFINE F(k) == SelectCb(CpuOut(v, t, k))
             s == ViewCb(v)[c]
  <2>2. s = [k \in 1 .. Sp(v).nch |-> F(k)]
    BY <1>1, <1>6, <2>1
  <2>3. \A i, j : F(i) = F(j) => i = j
    BY DEF SelectCb, CpuOut
  <2> HIDE DEF F, s
  <2>4. CbList(s) /\ ToSet(s) = {F(k) : k \in 1 .. Sp(v).nch}
    <3>1. DOMAIN s = 1 .. Sp(v).nch /\ s \in Seq(ToSet(s)) /\ Len(s) = Sp(v).nch
      BY <1>0, <2>2 DEF ToSet
    <3>2. ToSet(s) = {F(k) : k \in 1 .. Sp(v).nch}
      BY <2>2, <3>1 DEF ToSet
    <3>3. \A i, j \in DOMAIN s : s[i] = s[j] => i = j
      BY <2>2, <2>3
    <3> QED
      BY <3>1, <3>2, <3>3 DEF CbList, NoRepeat
  <2> QED
    BY <2>1, <2>4 DEF F, s
<1>7. CbLists(ViewCb(v))
  <2>1. \A c \in ChansOf(v) : CbList(ViewCb(v)[c])
    BY <1>1, <1>3, <1>5, <1>6
  <2>2. ViewCb(v) = [c \in DOMAIN ViewCb(v) |-> ViewCb(v)[c]]
    BY DEF ViewCb
  <2> QED
    BY <1>0, <2>1, <2>2 DEF CbLists
<1>8. ASSUME NEW c \in ChansOf(v), NEW y \in ToSet(ViewCb(v)[c])
      PROVE  \E m \in MuxOf(v) : y = SelectCb(m) /\ MuxSel[m] = c
  <2>1. CASE c[1] = "state" /\ Sp(v).track # "any"
    <3>1. PICK k \in 1 .. Sp(v).nch : y = SelectCb(ThOut(v, c[2], k))
      BY <1>5, <2>1
    <3>2. c[2] \in Thread /\ c = <<"state", c[2]>>
      BY <1>4, <2>1
    <3>3. PICK m : m = ThOut(v, c[2], k)
      OBVIOUS
    <3>4. m \in MuxOf(v) /\ m[2] = "thread" /\ m[3] = c[2]
      BY <2>1, <3>2, <3>3, Muxes DEF ThOut
    <3>5. MuxSel[m] = <<"state", m[3]>>
      BY <3>4, MuxGraph
    <3> QED
      BY <3>1, <3>2, <3>3, <3>4, <3>5
  <2>2. CASE c[1] = "thrun" /\ Sp(v).cpu
    <3>1. PICK k \in 1 .. Sp(v).nch : y = SelectCb(CpuOut(v, c[2], k))
      BY <1>6, <2>2
    <3>2. c[2] \in Cpu /\ c = <<"thrun", c[2]>>
      BY <1>4, <2>2
    <3>3. PICK m : m = CpuOut(v, c[2], k)
      OBVIOUS
    <3>4. m \in MuxOf(v) /\ m[2] = "cpu" /\ m[3] = c[2]
      BY <2>2, <3>2, <3>3, Muxes DEF CpuOut
    <3>5. MuxSel[m] = <<"thrun", m[3]>>
      BY <3>4, MuxGraph
    <3> QED
      BY <3>1, <3>2, <3>3, <3>4, <3>5
  <2>3. CASE ~(c[1] = "state" /\ Sp(v).track # "any") /\ ~(c[1] = "thrun" /\ Sp(v).cpu)
    BY <1>1, <1>3, <2>3
  <2> QED
    BY <2>1, <2>2, <2>3
<1>9. ASSUME NEW m \in MuxOf(v) PROVE SelectCb(m) \in ToSet(ViewCb(v)[MuxSel[m]])
  <2>0. MuxSel[m] \in ChansOf(v) /\ m[2] \in {"thread", "cpu"}
    BY MuxInputs, MuxGraph
  <2>1. PICK c \in ChansOf(v) : c = MuxSel[m]
    BY <2>0
  <2>2. CASE m[2] = "thread"
    <3>1. /\ Sp(v).track # "any" /\ m[4] \in 1 .. Sp(v).nch /\ m = ThOut(v, m[3], m[4])
          /\ c = <<"state", m[3]>>
      BY <2>1, <2>2, MuxGraph
    <3>2. c[1] = "state" /\ c[2] = m[3]
      BY <3>1
    <3> QED
      BY <2>1, <3>1, <3>2, <1>5
  <2>3. CASE m[2] = "cpu"
    <3>1. /\ Sp(v).cpu /\ m[4] \in 1 .. Sp(v).nch /\ m = CpuOut(v, m[3], m[4])
          /\ c = <<"thrun", m[3]>>
      BY <2>1, <2>3, MuxGraph
    <3>2. c[1] = "thrun" /\ c[2] = m[3]
      BY <3>1
    <3> QED
      BY <2>1, <3>1, <3>2, <1>6
  <2> QED
    BY <2>0, <2>2, <2>3
<1> QED
  BY <1>0, <1>7, <1>8, <1>9
-----------------------------------------------------------------------------
(* The invariant of the timelines.                                         *)

\* The values of the channels of a model and of its tracks: only the hardware counters
\* and the events of XTasks may be zero.
RawValue(v) == IF v \in {"hwc", "xtasks"} THEN ViewValue ELSE ViewValue \ {0}
ValInv(v, b) == \A e \in ChansOf(v) \ SysChan : b.data[e] \in Seq(RawValue(v))

\* The stacks of XTasks never hold a value twice in a row, so that no pop shows again the
\* value that the row has.
Steep(d) == \A i \in DOMAIN d : d[i] # Null /\ (i > 1 => d[i - 1] # d[i])
SteepInv(v, b) == v = "xtasks" => \A e \in OfThreads({v}) : Steep(b.data[e])

\* A zero of XTasks is in the event that is being propagated, which wrote nothing else:
\* the emulator stops when it is emitted.
ZeroAlone(v, b) ==
    v = "xtasks" => \A e \in OfThreads({v}) :
        ChanRead(b, e) = 0 => e \in b.flag /\ b.flag \cap SysChan = {}

\* Where a row refuses duplicates the dirty channels have a new value.
Fresh(v, b) == \A e \in b.flag : e \in SysChan \/ v = "xtasks" => ChanRead(b, e) # b.last[e]

\* The channels of a thread and of a CPU are those of its state.
ThShows(b, t, states, where) ==
    /\ ChanRead(b, <<"state", t>>) = IF states[t] = "unknown" THEN Null ELSE Code[states[t]]
    /\ ChanRead(b, <<"tid", t>>) = IF states[t] \in Core!ActiveState THEN t + 1 ELSE Null
    /\ ChanRead(b, <<"cpu", t>>) = OrNull(where[t])
RunIn(c, states, where) == Core!Running({t \in Thread : where[t] = c}, states)
ActIn(c, states, where) == Core!Active({t \in Thread : where[t] = c}, states)
CpuShows(b, c, states, where) ==
    LET r == Core!OnlyOne(RunIn(c, states, where))
    IN  /\ ChanRead(b, <<"tidrun", c>>) = IF r = -1 THEN Null ELSE r + 1
        /\ ChanRead(b, <<"thrun", c>>) = OrNull(r)
        /\ Plain(ChanRead(b, <<"nrun", c>>)) = Cardinality(RunIn(c, states, where))
        /\ ChanRead(b, <<"thact", c>>) = OrNull(Core!OnlyOne(ActIn(c, states, where)))
Follows(b, states, where) ==
    /\ \A t \in Thread : ThShows(b, t, states, where)
    /\ \A c \in Cpu : CpuShows(b, c, states, where)

\* A row has the value of the last flush of its channel.
RowVal(c, v) == IF v = Null THEN 0 ELSE IF "next" \in PrvFlags[c] THEN v + 1 ELSE v
RowOk(c, p, last) ==
    /\ p \in [set : {p.set}, last : {p.last}, line : {p.line}, ok : {TRUE}]
    /\ p.line = RowVal(c, last)
    /\ p.set => p.last = last /\ "emitdup" \notin PrvFlags[c]
RowsInv ==
    /\ DOMAIN prv = ViewRow \cap ChansOf(view)
    /\ \A c \in DOMAIN prv : RowOk(c, prv[c], bay.last[c])

\* The inductive invariant while the emulator runs, and the one of all the states.
VInv ==
    /\ view \in View /\ state \in {"ready", "propagating"}
    /\ st \in [Thread -> DOMAIN Code] /\ at \in [Thread -> Cpu \cup {-1}]
    /\ IInv /\ Sound(ViewValue)
    /\ DOMAIN bay.data = ChansOf(view) /\ DOMAIN selected = MuxOf(view)
    /\ ValInv(view, bay) /\ SteepInv(view, bay) /\ Fresh(view, bay) /\ ZeroAlone(view, bay)
    /\ RowsInv /\ Follows(bay, st, at)
ViewsInv == (state = "error" /\ (~accepted \/ ZeroShown)) \/ VInv

\* An event of XTasks writes a number.
LEMMA XtasksInt == ASSUME NEW ev \in XtasksEvent PROVE idOrVal(ev) \in Int
<1>1. ev[1] \in Int /\ ev[2] \in Nat
  BY ViewsAssumption
<1> QED
  BY <1>1 DEF idOrVal

\* The values are numbers or null.
LEMMA Values ==
  ASSUME NEW v \in View
  PROVE  /\ Null \in RawValue(v) /\ RawValue(v) \subseteq ViewValue
         /\ ViewValue \subseteq Int \cup {Null} /\ Null \notin Int
         /\ v \notin {"hwc", "xtasks"} => 0 \notin RawValue(v)
<1>1. Null \notin Int
  BY GraphAssumption
<1>2. {Null, 1, ST_CSOUT} \subseteq Int \cup {Null}
  BY DEF ST_CSOUT
<1>3. \A w \in View : Label[w] \subseteq Int
  BY ViewsAssumption
<1>4. \A s \in Sample : ToSet(s) \subseteq Int
  <2> SUFFICES ASSUME NEW s \in Sample, NEW i \in DOMAIN s PROVE s[i] \in Int
    BY DEF ToSet
  <2>1. s \in Seq(Int)
    BY ViewsAssumption
  <2> QED
    BY <2>1
<1>5. ViewValue \subseteq Int \cup {Null}
  <2> SUFFICES ASSUME NEW x \in ViewValue PROVE x \in Int \cup {Null}
    OBVIOUS
  <2>1. CASE x \in {Null, 1, ST_CSOUT}
    BY <1>2, <2>1
  <2>5. CASE \E ev \in XtasksEvent : x = idOrVal(ev)
    BY <2>5, XtasksInt
  <2>2. CASE \E w \in View : x \in Label[w]
    BY <1>3, <2>2
  <2>3. CASE \E s \in Sample : x \in ToSet(s)
    BY <1>4, <2>3
  <2>4. \/ x \in {Null, 1, ST_CSOUT}
        \/ x \in {idOrVal(ev) : ev \in XtasksEvent}
        \/ x \in UNION {Label[w] : w \in View}
        \/ x \in UNION {ToSet(s) : s \in Sample}
    BY Zenon DEF ViewValue
  <2> QED
    BY <2>1, <2>2, <2>3, <2>4, <2>5
<1>6. Null \in ViewValue /\ Null # 0
  BY <1>1 DEF ViewValue
<1> QED
  BY <1>1, <1>5, <1>6 DEF RawValue

\* A channel of a model reads one of its values.
LEMMA ValRead ==
  ASSUME NEW v \in View, NEW b, ValInv(v, b), NEW e \in ChansOf(v) \ SysChan
  PROVE  ChanRead(b, e) \in RawValue(v)
<1>1. b.data[e] \in Seq(RawValue(v)) /\ Null \in RawValue(v)
  BY Values DEF ValInv
<1> QED
  BY <1>1 DEF ChanRead, Last

\* The thread that a CPU shows.
LEMMA OnlyOneIs ==
  ASSUME NEW S \in SUBSET Thread
  PROVE  /\ Core!OnlyOne(S) \in Thread \cup {-1}
         /\ Core!OnlyOne(S) # -1 => S = {Core!OnlyOne(S)}
         /\ -1 \notin Thread
<1>1. -1 \notin Thread
  BY DEF Thread
<1>2. CASE \E t \in S : S = {t}
  <2>1. PICK t \in S : S = {t}
    BY <1>2
  <2>2. Core!OnlyOne(S) = CHOOSE x \in S : TRUE
    BY <1>2 DEF Core!OnlyOne
  <2>3. (CHOOSE x \in S : TRUE) \in S
    BY <2>1
  <2> QED
    BY <1>1, <2>1, <2>2, <2>3
<1>3. CASE ~\E t \in S : S = {t}
  BY <1>1, <1>3 DEF Core!OnlyOne
<1> QED
  BY <1>2, <1>3

\* The keys of the muxes.
LEMMA Keys ==
  ASSUME NEW b, NEW states \in [Thread -> DOMAIN Code], NEW where, Follows(b, states, where)
  PROVE  /\ \A t \in Thread : ChanRead(b, <<"state", t>>) \in ViewKey
         /\ \A c \in Cpu : ChanRead(b, <<"thrun", c>>) \in {Null} \cup Thread
         /\ {Null} \cup Thread \subseteq ViewKey
<1>0. {Null} \cup Thread \subseteq ViewKey /\ {Code[s] : s \in DOMAIN Code} \subseteq ViewKey
  BY DEF ViewKey
<1>1. ASSUME NEW t \in Thread PROVE ChanRead(b, <<"state", t>>) \in ViewKey
  <2>1. ChanRead(b, <<"state", t>>) = IF states[t] = "unknown" THEN Null ELSE Code[states[t]]
    BY DEF Follows, ThShows
  <2>2. states[t] \in DOMAIN Code
    OBVIOUS
  <2> QED
    BY <2>1, <2>2, <1>0
<1>2. ASSUME NEW c \in Cpu PROVE ChanRead(b, <<"thrun", c>>) \in {Null} \cup Thread
  <2>1. PICK r : r = Core!OnlyOne(RunIn(c, states, where))
    OBVIOUS
  <2>2. ChanRead(b, <<"thrun", c>>) = OrNull(r)
    BY <2>1 DEF Follows, CpuShows
  <2>3. RunIn(c, states, where) \subseteq Thread
    BY DEF RunIn, Core!Running
  <2>4. r \in Thread \cup {-1}
    BY <2>1, <2>3, OnlyOneIs
  <2> QED
    BY <2>2, <2>4 DEF OrNull
<1> QED
  BY <1>0, <1>1, <1>2

\* Every mux can select.
LEMMA ViewSane == ASSUME VInv PROVE Sane(ViewValue)
<1> SUFFICES ASSUME NEW m \in DOMAIN selected
             PROVE  /\ \A i \in DOMAIN MuxIn[m] : ChanRead(bay, MuxIn[m][i]) \in ViewValue
                    /\ Selection(m) \in {0} \cup DOMAIN MuxIn[m]
  BY DEF Sane
<1>0. /\ view \in View /\ m \in MuxOf(view) /\ ValInv(view, bay)
      /\ st \in [Thread -> DOMAIN Code] /\ Follows(bay, st, at)
  BY DEF VInv
<1>1. ASSUME NEW i \in DOMAIN MuxIn[m] PROVE ChanRead(bay, MuxIn[m][i]) \in ViewValue
  <2>1. PICK t \in Thread : MuxIn[m][i] = Raw(view, t, m[4])
    BY <1>0, MuxInputs
  <2>2. m[4] \in 1 .. Sp(view).nch
    BY <1>0, MuxInputs
  <2>3. PICK e : e = Raw(view, t, m[4])
    OBVIOUS
  <2>4. e \in ChansOf(view) \ SysChan
    BY <1>0, <2>2, <2>3, KindsDiffer
  <2>5. ChanRead(bay, e) \in RawValue(view) /\ RawValue(view) \subseteq ViewValue
    BY <1>0, <2>4, ValRead, Values
  <2> QED
    BY <2>1, <2>3, <2>5
<1>2. PICK key : key = ChanRead(bay, MuxSel[m])
  OBVIOUS
<1>3. PICK ins : ins = [i \in DOMAIN MuxIn[m] |-> ChanRead(bay, MuxIn[m][i])]
  OBVIOUS
<1>4. ins \in [DOMAIN MuxIn[m] -> ViewValue]
  BY <1>1, <1>3
<1>5. Selection(m) = Select(m, key, ins)
  BY <1>2, <1>3 DEF Selection
<1>6. m \in ViewMux /\ m[1] = view /\ MuxIn[m] = ViewIn[m]
  BY <1>0, ViewsGraph DEF MuxOf
<1>7. CASE m[2] = "thread"
  <2>1. m[3] \in Thread /\ MuxSel[m] = <<"state", m[3]>> /\ Sp(view).track # "any"
    BY <1>0, <1>7, MuxGraph
  <2>2. key \in ViewKey
    BY <1>0, <1>2, <2>1, Keys
  <2>3. Selection(m) = ViewSelect(m, key, ins)
    BY <1>4, <1>5, <1>6, <2>2, ViewsGraph
  <2>4. Sp(view).track \in {"run", "act"}
    BY <1>0, <2>1, SpecIs
  <2>5. DOMAIN MuxIn[m] = {1}
    BY <1>0, <1>7, MuxInputs
  <2>6. Selection(m) \in {0, 1}
    <3>1. CASE Sp(view).track = "run"
      BY <1>6, <1>7, <2>3, <3>1 DEF ViewSelect, thread_select_running
    <3>2. CASE Sp(view).track = "act"
      BY <1>6, <1>7, <2>3, <3>2 DEF ViewSelect, thread_select_active
    <3> QED
      BY <2>4, <3>1, <3>2
  <2> QED
    BY <1>1, <2>5, <2>6
<1>8. CASE m[2] = "cpu"
  <2>1. m[3] \in Cpu /\ MuxSel[m] = <<"thrun", m[3]>>
    BY <1>0, <1>8, MuxGraph
  <2>2. key \in {Null} \cup Thread /\ key \in ViewKey
    BY <1>0, <1>2, <2>1, Keys
  <2>3. Selection(m) = DefaultSelect(m, key)
    <3>1. Selection(m) = ViewSelect(m, key, ins)
      BY <1>4, <1>5, <1>6, <2>2, ViewsGraph
    <3> QED
      BY <1>8, <3>1 DEF ViewSelect
  <2>4. DOMAIN MuxIn[m] = 1 .. NThreads
    BY <1>0, <1>8, MuxInputs
  <2>5. key # Null => key + 1 \in DOMAIN MuxIn[m]
    BY <2>2, <2>4, ViewsAssumption DEF Thread
  <2> QED
    BY <1>1, <2>3, <2>5 DEF DefaultSelect
<1> QED
  BY <1>0, <1>7, <1>8, MuxGraph

\* The row of a channel after its value is emitted.
LEMMA RowEmits ==
  ASSUME NEW c, NEW p, NEW last, RowOk(c, p, last), NEW v, NEW F, F = PrvFlags[c],
         F \cap {"emitdup", "skipdup", "skipdupnull"} = {} => v # last,
         v # Null /\ "zero" \notin F => RowVal(c, v) # 0
  PROVE  RowOk(c, Emit(p, v, F), v)
<1> DEFINE kept == IF "emitdup" \in F THEN p ELSE [p EXCEPT !.last = v, !.set = TRUE]
           q == Emit(p, v, F)
           dup == "emitdup" \notin F /\ p.set /\ v = p.last
<1>0. p \in [set : {p.set}, last : {p.last}, line : {p.line}, ok : {TRUE}]
  BY DEF RowOk
<1>1. \/ q = p /\ dup
      \/ q = [kept EXCEPT !.line = RowVal(c, v)]
  <2>1. dup => v = last
    BY DEF RowOk
  <2>2. ~(dup /\ "skipdup" \notin F /\ "skipdupnull" \notin F)
    BY <2>1
  <2>3. ~(v # Null /\ RowVal(c, v) = 0 /\ "zero" \notin F)
    OBVIOUS
  <2> QED
    BY <2>2, <2>3 DEF Emit, RowVal
<1>2. CASE q = p /\ dup
  <2>1. v = last
    BY <1>2 DEF RowOk
  <2> QED
    BY <1>2, <2>1
<1>3. CASE q = [kept EXCEPT !.line = RowVal(c, v)]
  <2>1. CASE "emitdup" \in F
    <3>1. q = [p EXCEPT !.line = RowVal(c, v)]
      BY <1>3, <2>1
    <3>2. q \in [set : {q.set}, last : {q.last}, line : {q.line}, ok : {TRUE}]
      BY <1>0, <3>1
    <3>3. q.line = RowVal(c, v) /\ q.set = p.set
      BY <1>0, <3>1
    <3>4. ~p.set
      BY <2>1 DEF RowOk
    <3> QED
      BY <3>2, <3>3, <3>4 DEF RowOk
  <2>2. CASE "emitdup" \notin F
    <3>1. q = [[p EXCEPT !.last = v, !.set = TRUE] EXCEPT !.line = RowVal(c, v)]
      BY <1>3, <2>2
    <3>2. q = [set |-> TRUE, last |-> v, line |-> RowVal(c, v), ok |-> TRUE]
      BY <1>0, <3>1
    <3>3. q.set = TRUE /\ q.last = v /\ q.line = RowVal(c, v)
      BY <3>2
    <3>4. q \in [set : {q.set}, last : {q.last}, line : {q.line}, ok : {TRUE}]
      BY <3>2, <3>3
    <3>5. RowOk(c, q, v)
      BY <2>2, <3>3, <3>4 DEF RowOk
    <3> QED
      BY <3>5
  <2> QED
    BY <2>1, <2>2
<1> QED
  BY <1>1, <1>2, <1>3
-----------------------------------------------------------------------------
(* The propagation.                                                        *)

\* The sort module has no part in the timelines.
LEMMA NoSort == ASSUME VInv PROVE ~RunSort /\ ~WriteOutput
<1>0. CbsInv /\ WalkInv /\ Sorting /\ IInv
  BY DEF VInv, Sound
<1>1. DOMAIN SortIn = {} /\ DOMAIN SortOut = {}
  BY ViewsGraph
<1>2. ASSUME RunSort PROVE FALSE
  <2>1. pos \in 1 .. Len(bay.list) /\ cbi \in DOMAIN cbs[CurChan] /\ CurChan \in bay.flag
    BY <1>0, <1>2 DEF RunSort, Walking, WalkInv, CurChan, IInv, BayInv, Listed
  <2>2. CurChan \in DOMAIN cbs /\ CurCb \in ToSet(cbs[CurChan])
    BY <1>0, <2>1 DEF WalkInv, CurCb, ToSet
  <2>3. OfChan(CurChan, CurCb)
    BY <1>0, <2>2 DEF CbsInv
  <2>4. CurCb[1] \in {"select", "input"}
    BY <1>1, <2>3 DEF OfChan, SelectCb, InputCb
  <2> QED
    BY <1>2, <2>4 DEF RunSort
<1>3. ASSUME WriteOutput PROVE FALSE
  BY <1>0, <1>1, <1>3 DEF WriteOutput, Sorting
<1> QED
  BY <1>2, <1>3

\* The channels of threads and CPUs decide what Follows says.
LEMMA FollowsKeep ==
  ASSUME NEW b, NEW r, NEW states, NEW where, Follows(b, states, where),
         \A e \in SysChan : ChanRead(r, e) = ChanRead(b, e)
  PROVE  Follows(r, states, where)
<1>1. ASSUME NEW t \in Thread PROVE ThShows(r, t, states, where)
  <2>1. /\ ChanRead(r, <<"state", t>>) = ChanRead(b, <<"state", t>>)
        /\ ChanRead(r, <<"tid", t>>) = ChanRead(b, <<"tid", t>>)
        /\ ChanRead(r, <<"cpu", t>>) = ChanRead(b, <<"cpu", t>>)
    BY SysIs
  <2> QED
    BY <2>1 DEF Follows, ThShows
<1>2. ASSUME NEW c \in Cpu PROVE CpuShows(r, c, states, where)
  <2>1. /\ ChanRead(r, <<"nrun", c>>) = ChanRead(b, <<"nrun", c>>)
        /\ ChanRead(r, <<"tidrun", c>>) = ChanRead(b, <<"tidrun", c>>)
        /\ ChanRead(r, <<"thrun", c>>) = ChanRead(b, <<"thrun", c>>)
        /\ ChanRead(r, <<"thact", c>>) = ChanRead(b, <<"thact", c>>)
    BY SysIs
  <2> QED
    BY <2>1 DEF Follows, CpuShows
<1> QED
  BY <1>1, <1>2 DEF Follows

\* One callback of a mux.
LEMMA ViewRunMux == ASSUME VInv, RunMux, UNCHANGED <<view, st, at>> PROVE VInv'
<1>0. /\ IInv /\ Sound(ViewValue) /\ Sane(ViewValue) /\ view \in View /\ Walking
      /\ DOMAIN selected = MuxOf(view) /\ DOMAIN bay.data = ChansOf(view)
      /\ ValInv(view, bay) /\ BayInv(bay) /\ bay.ok
  BY ViewSane DEF VInv, RunMux, IInv, Sound
<1>1. state' = state /\ DOMAIN selected' = DOMAIN selected
  BY <1>0, RunMuxIs
<1>2. PICK m \in DOMAIN selected : \E v :
          /\ \/ CurCb = SelectCb(m) /\ CurChan = MuxSel[m]
             \/ \E i \in DOMAIN MuxIn[m] : CurCb = InputCb(m, i) /\ CurChan = MuxIn[m][i]
          /\ v = MuxDef[m] \/ \E i \in DOMAIN MuxIn[m] : v = ChanRead(bay, MuxIn[m][i])
          /\ bay' = ChanSet(bay, MuxOut[m], v)
          /\ \A e \in DOMAIN cbs : e \notin ToSet(MuxIn[m]) => cbs'[e] = cbs[e]
  BY <1>0, RunMuxIs
<1>3. PICK v :
          /\ \/ CurCb = SelectCb(m) /\ CurChan = MuxSel[m]
             \/ \E i \in DOMAIN MuxIn[m] : CurCb = InputCb(m, i) /\ CurChan = MuxIn[m][i]
          /\ v = MuxDef[m] \/ \E i \in DOMAIN MuxIn[m] : v = ChanRead(bay, MuxIn[m][i])
          /\ bay' = ChanSet(bay, MuxOut[m], v)
  BY <1>2
<1>4. m \in MuxOf(view) /\ MuxOut[m] = m /\ MuxDef[m] = Null
  BY <1>0, MuxGraph
<1>5. ~HasReader(MuxOut[m])
  <2>1. ToSet(SortIn) = {}
    BY ViewsGraph DEF ToSet
  <2> QED
    BY <1>0, <1>4, <2>1, ViewWired DEF HasReader
<1>6. AheadInv
  BY <1>3, <1>5 DEF AheadInv, Ahead, SelectCb, InputCb
<1>7. FlowsOn(ViewValue) /\ IInv'
  BY <1>0, <1>6, FlowRunMux, PropagateInv DEF Propagate
<1>8. /\ m \in DOMAIN bay.data /\ m \notin Stack /\ m \in DirtyWrite \cap AllowDup
      /\ m \notin SysChan /\ m \notin OfThreads({view})
  <2>1. OfThreads({view}) \subseteq OfThreads(View)
    BY <1>0, Raws
  <2> QED
    BY <1>0, <1>4, <2>1, KindsDiffer
<1>9. /\ bay'.last = bay.last /\ bay'.flag = bay.flag \cup {m}
      /\ DOMAIN bay'.data = DOMAIN bay.data
      /\ bay'.data[m] = <<v>>
      /\ \A e \in DOMAIN bay.data : e # m =>
             bay'.data[e] = bay.data[e] /\ ChanRead(bay', e) = ChanRead(bay, e)
  BY <1>0, <1>3, <1>4, <1>8, SetOutput
<1>10. v \in RawValue(view)
  <2>1. CASE v = MuxDef[m]
    BY <1>0, <1>4, <2>1, Values
  <2>2. ASSUME NEW i \in DOMAIN MuxIn[m], v = ChanRead(bay, MuxIn[m][i]) PROVE v \in RawValue(view)
    <3>1. PICK t \in Thread : MuxIn[m][i] = Raw(view, t, m[4])
      BY <1>0, <1>4, MuxInputs
    <3>2. m[4] \in 1 .. Sp(view).nch
      BY <1>0, <1>4, MuxInputs
    <3>3. PICK e : e = Raw(view, t, m[4])
      OBVIOUS
    <3>4. e \in ChansOf(view) \ SysChan
      BY <1>0, <3>2, <3>3, KindsDiffer
    <3> QED
      BY <1>0, <2>2, <3>1, <3>3, <3>4, ValRead
  <2> QED
    BY <1>3, <2>1, <2>2
<1>11. ValInv(view, bay')
  <2> SUFFICES ASSUME NEW e \in ChansOf(view) \ SysChan PROVE bay'.data[e] \in Seq(RawValue(view))
    BY DEF ValInv
  <2>1. CASE e = m
    <3>1. <<v>> \in Seq(RawValue(view))
      BY <1>10
    <3> QED
      BY <1>9, <2>1, <3>1
  <2>2. CASE e # m
    BY <1>0, <1>9, <2>2 DEF ValInv
  <2> QED
    BY <2>1, <2>2
<1>12. SteepInv(view, bay')
  <2>1. OfThreads({view}) \subseteq ChansOf(view)
    BY DEF ChansOf
  <2> QED
    BY <1>0, <1>8, <1>9, <2>1 DEF VInv, SteepInv
<1>13. view # "xtasks"
  <2>1. m[2] \in {"thread", "cpu"} /\ (m[2] = "thread" => Sp(view).track # "any")
        /\ (m[2] = "cpu" => Sp(view).cpu)
    BY <1>0, <1>4, MuxGraph
  <2>2. Sp("xtasks") = XtasksSpec
    BY DEF Sp
  <2>3. XtasksSpec.track = "any" /\ XtasksSpec.cpu = FALSE
    BY DEF XtasksSpec, MpiSpec
  <2> QED
    BY <2>1, <2>2, <2>3
<1>14. Fresh(view, bay')
  <2> SUFFICES ASSUME NEW e \in bay'.flag, e \in SysChan \/ view = "xtasks"
               PROVE  ChanRead(bay', e) # bay'.last[e]
    BY DEF Fresh
  <2>1. e \in SysChan /\ e # m /\ e \in bay.flag
    BY <1>8, <1>9, <1>13
  <2>2. e \in DOMAIN bay.data
    BY <1>0, <2>1 DEF ChansOf
  <2> QED
    BY <1>9, <2>1, <2>2 DEF VInv, Fresh
<1>15. Follows(bay', st, at)
  <2>1. \A e \in SysChan : ChanRead(bay', e) = ChanRead(bay, e)
    BY <1>0, <1>8, <1>9 DEF ChansOf
  <2>2. PICK b : b = bay'
    OBVIOUS
  <2>3. Follows(bay, st, at)
    BY DEF VInv
  <2>4. Follows(b, st, at)
    BY <2>1, <2>2, <2>3, FollowsKeep
  <2> QED
    BY <2>2, <2>4
<1>16. RowsInv'
  <2>1. prv' = prv
    BY DEF RunMux
  <2> QED
    BY <1>9, <2>1 DEF VInv, RowsInv
<1> QED
  BY <1>0, <1>1, <1>7, <1>9, <1>11, <1>12, <1>13, <1>14, <1>15, <1>16 DEF VInv, FlowsOn, ZeroAlone

\* The flags of the rows.
LEMMA RowFlags ==
  ASSUME NEW v \in View
  PROVE  /\ \A t \in Thread : /\ PrvFlags[<<"state", t>>] = {"skipdup"}
                              /\ PrvFlags[<<"cpu", t>>] = {"next"}
                              /\ PrvFlags[<<"tid", t>>] = {}
         /\ \A c \in Cpu : /\ PrvFlags[<<"nrun", c>>] = {"zero"}
                           /\ PrvFlags[<<"tidrun", c>>] = {}
         /\ \A e \in (ViewRow \cap ChansOf(v)) \ SysRow : PrvFlags[e] = Sp(v).flags /\ e \notin SysChan
<1>0. PrvFlags = ViewFlags /\ DOMAIN ViewFlags = ViewRow
  BY ViewsGraph DEF ViewFlags
<1>1. ASSUME NEW t \in Thread
      PROVE  {<<"state", t>>, <<"tid", t>>, <<"cpu", t>>} \subseteq ViewRow
  BY DEF ViewRow, SysRow
<1>2. ASSUME NEW c \in Cpu PROVE {<<"nrun", c>>, <<"tidrun", c>>} \subseteq ViewRow
  BY DEF ViewRow, SysRow
<1>3. ASSUME NEW e \in (ViewRow \cap ChansOf(v)) \ SysRow PROVE PrvFlags[e] = Sp(v).flags /\ e \notin SysChan
  <2>1. e \notin SysChan
    <3>1. OfThreads({w \in View : Sp(w).track = "any"}) \subseteq OfThreads(View)
      BY Raws
    <3> QED
      BY <3>1, KindsDiffer DEF ViewRow
  <2>2. e \in OfThreads({v}) \/ e \in MuxOf(v)
    BY <2>1 DEF ChansOf, MuxOf
  <2>3. e[1] = v
    BY <2>2, Raws DEF MuxOf, Raw
  <2>4. v \notin SysName
    BY SpecIs, Zenon
  <2>5. e[1] \notin {"state", "cpu", "nrun", "tid", "tidrun"}
    BY <2>3, <2>4 DEF SysName
  <2> QED
    BY <1>0, <2>1, <2>3, <2>5 DEF ViewFlags
<1>4. ASSUME NEW e \in ViewRow
      PROVE  /\ e[1] = "state" => PrvFlags[e] = {"skipdup"}
             /\ e[1] = "cpu" => PrvFlags[e] = {"next"}
             /\ e[1] = "nrun" => PrvFlags[e] = {"zero"}
             /\ e[1] \in {"tid", "tidrun"} => PrvFlags[e] = {}
  BY <1>0 DEF ViewFlags
<1>5. ASSUME NEW t \in Thread
      PROVE  /\ PrvFlags[<<"state", t>>] = {"skipdup"} /\ PrvFlags[<<"cpu", t>>] = {"next"}
             /\ PrvFlags[<<"tid", t>>] = {}
  BY <1>1, <1>4
<1>6. ASSUME NEW c \in Cpu PROVE PrvFlags[<<"nrun", c>>] = {"zero"} /\ PrvFlags[<<"tidrun", c>>] = {}
  BY <1>2, <1>4
<1> QED
  BY <1>3, <1>5, <1>6

\* The channels of XTasks: one in each thread, without muxes.
LEMMA XtasksChans ==
  ASSUME view \in View, view = "xtasks", NEW e \in ChansOf(view) \ SysChan
  PROVE  e \in OfThreads({view}) /\ \E t \in Thread : e = Raw("xtasks", t, 1)
<1>1. Sp(view).nch = 1 /\ Sp(view).track = "any" /\ ~Sp(view).cpu
  <2>1. Sp("xtasks") = XtasksSpec
    BY DEF Sp
  <2>2. XtasksSpec.nch = 1 /\ XtasksSpec.track = "any" /\ ~XtasksSpec.cpu
    BY DEF XtasksSpec, MpiSpec
  <2> QED
    BY <2>1, <2>2
<1>2. e \notin MuxOf(view)
  BY <1>1, Muxes
<1>3. e \in OfThreads({view})
  BY <1>2 DEF ChansOf, MuxOf
<1>4. PICK t \in Thread : \E k \in 1 .. Sp(view).nch : e = Raw(view, t, k)
  BY <1>3, Raws
<1>5. PICK k \in 1 .. Sp(view).nch : e = Raw(view, t, k)
  BY <1>4
<1>6. k = 1
  BY <1>1, <1>5
<1> QED
  BY <1>3, <1>5, <1>6

\* No row refuses the value of a dirty channel, other than a zero of XTasks.
LEMMA RowAccepts ==
  ASSUME VInv, ~ZeroShown, NEW e \in DOMAIN prv, e \in bay.flag
  PROVE  /\ PrvFlags[e] \cap {"emitdup", "skipdup", "skipdupnull"} = {} =>
                ChanRead(bay, e) # bay.last[e]
         /\ ChanRead(bay, e) # Null /\ "zero" \notin PrvFlags[e] => RowVal(e, ChanRead(bay, e)) # 0
<1>0. /\ view \in View /\ e \in ViewRow \cap ChansOf(view) /\ Fresh(view, bay) /\ ValInv(view, bay)
      /\ Follows(bay, st, at) /\ st \in [Thread -> DOMAIN Code] /\ at \in [Thread -> Cpu \cup {-1}]
  BY DEF VInv, RowsInv
<1>1. Null \notin Int
  BY GraphAssumption
<1>2. CASE e \notin SysRow
  <2>1. PrvFlags[e] = Sp(view).flags /\ e \notin SysChan
    BY <1>0, <1>2, RowFlags
  <2>2. /\ "zero" \in Sp(view).flags <=> view = "hwc"
        /\ "next" \notin Sp(view).flags
        /\ Sp(view).flags \cap {"emitdup", "skipdup", "skipdupnull"} = {} => view = "xtasks"
    BY <1>0, SpecIs
  <2>3. ChanRead(bay, e) \in RawValue(view)
    BY <1>0, <2>1, ValRead
  <2>4. view # "hwc" => ChanRead(bay, e) # 0
    <3>1. CASE view = "xtasks"
      BY <1>0, <2>1, <3>1, XtasksChans DEF ZeroShown
    <3>2. CASE view # "xtasks"
      BY <1>0, <2>3, <3>2, Values
    <3> QED
      BY <3>1, <3>2
  <2> QED
    BY <1>0, <2>1, <2>2, <2>4 DEF Fresh, RowVal
<1>3. ASSUME e \in SysRow PROVE e \in SysChan /\ ChanRead(bay, e) # bay.last[e]
  <2>1. e \in SysChan
    BY <1>3 DEF SysRow, SysChan
  <2> QED
    BY <1>0, <2>1 DEF Fresh
<1>4. ASSUME NEW t \in Thread, e \in {<<"state", t>>, <<"tid", t>>, <<"cpu", t>>}
      PROVE  ChanRead(bay, e) # Null => RowVal(e, ChanRead(bay, e)) # 0
  <2>0. ThShows(bay, t, st, at) /\ t \in Nat
    BY <1>0 DEF Follows, Thread
  <2>1. CASE e = <<"state", t>>
    <3>1. ChanRead(bay, e) = IF st[t] = "unknown" THEN Null ELSE Code[st[t]]
      BY <2>0, <2>1 DEF ThShows
    <3>2. "next" \notin PrvFlags[e]
      BY <1>0, <2>1, RowFlags
    <3>3. st[t] # "unknown" => Code[st[t]] # 0
      <4>1. st[t] \in DOMAIN Code
        BY <1>0
      <4>2. DOMAIN Code = {"unknown", "running", "paused", "dead", "cooling", "warming"}
        BY DEF Code
      <4> QED
        BY <4>1, <4>2 DEF Code
    <3> QED
      BY <3>1, <3>2, <3>3 DEF RowVal
  <2>2. CASE e = <<"tid", t>>
    <3>1. ChanRead(bay, e) = IF st[t] \in Core!ActiveState THEN t + 1 ELSE Null
      BY <2>0, <2>2 DEF ThShows
    <3>2. "next" \notin PrvFlags[e]
      BY <1>0, <2>2, RowFlags
    <3> QED
      BY <2>0, <3>1, <3>2 DEF RowVal
  <2>3. CASE e = <<"cpu", t>>
    <3>1. ChanRead(bay, e) = OrNull(at[t]) /\ at[t] \in Cpu \cup {-1}
      BY <1>0, <2>0, <2>3 DEF ThShows
    <3>2. "next" \in PrvFlags[e]
      BY <1>0, <2>3, RowFlags
    <3>3. at[t] \in Int /\ (at[t] # -1 => at[t] >= 0)
      BY <3>1, ViewsAssumption DEF Cpu
    <3> QED
      BY <3>1, <3>2, <3>3 DEF RowVal, OrNull
  <2> QED
    BY <1>4, <2>1, <2>2, <2>3
<1>5. ASSUME NEW c \in Cpu, e = <<"tidrun", c>>
      PROVE  ChanRead(bay, e) # Null => RowVal(e, ChanRead(bay, e)) # 0
  <2>1. PICK r : r = Core!OnlyOne(RunIn(c, st, at))
    OBVIOUS
  <2>2. RunIn(c, st, at) \subseteq Thread
    BY DEF RunIn, Core!Running
  <2>3. r \in Thread \cup {-1}
    BY <2>1, <2>2, OnlyOneIs
  <2>4. ChanRead(bay, e) = IF r = -1 THEN Null ELSE r + 1
    BY <1>0, <1>5, <2>1 DEF Follows, CpuShows
  <2>5. "next" \notin PrvFlags[e]
    BY <1>0, <1>5, RowFlags
  <2> QED
    BY <2>3, <2>4, <2>5 DEF RowVal, Thread
<1>6. ASSUME NEW c \in Cpu, e = <<"nrun", c>> PROVE "zero" \in PrvFlags[e]
  BY <1>0, <1>6, RowFlags
<1>7. ASSUME e \in SysRow
      PROVE  \/ \E t \in Thread : e \in {<<"state", t>>, <<"tid", t>>, <<"cpu", t>>}
             \/ \E c \in Cpu : e = <<"tidrun", c>>
             \/ \E c \in Cpu : e = <<"nrun", c>>
  BY <1>7 DEF SysRow
<1>8. ASSUME e \in SysRow
      PROVE  ChanRead(bay, e) # Null /\ "zero" \notin PrvFlags[e] => RowVal(e, ChanRead(bay, e)) # 0
  BY <1>4, <1>5, <1>6, <1>7, <1>8
<1> QED
  BY <1>2, <1>3, <1>8

\* The row of a zero of XTasks refuses it: the emulator stops, with the rows of threads
\* and CPUs as they were.
LEMMA ZeroStops ==
  ASSUME VInv, ZeroShown, EmitAndFlush, UNCHANGED view
  PROVE  /\ state' = "error" /\ ZeroShown' /\ bay'.last = bay.last
         /\ \A e \in SysRow : prv'[e] = prv[e]
<1>0. /\ view \in View /\ view = "xtasks" /\ IsBay(bay) /\ ToSet(bay.list) = bay.flag
      /\ DOMAIN bay.data = ChansOf(view) /\ DOMAIN prv = ViewRow \cap ChansOf(view)
      /\ ZeroAlone(view, bay)
  BY InvListed DEF VInv, IInv, BayInv, ListedOnce, RowsInv, ZeroShown
<1>1. PICK t \in Thread : ChanRead(bay, Raw("xtasks", t, 1)) = 0
  BY DEF ZeroShown
<1>2. PICK e : e = Raw("xtasks", t, 1)
  OBVIOUS
<1>3. /\ Sp(view).nch = 1 /\ Sp(view).track = "any" /\ Sp(view).flags = {}
  <2>1. Sp("xtasks") = XtasksSpec
    BY DEF Sp
  <2>2. XtasksSpec.nch = 1 /\ XtasksSpec.track = "any" /\ XtasksSpec.flags = {}
    BY DEF XtasksSpec, MpiSpec
  <2> QED
    BY <1>0, <2>1, <2>2
<1>4. e \in OfThreads({view}) /\ e \in OfThreads({v \in View : Sp(v).track = "any"})
  BY <1>0, <1>2, <1>3, Raws
<1>5. e \in ChansOf(view) \ SysChan
  BY <1>0, <1>2, <1>3, KindsDiffer
<1>6. e \in DOMAIN prv /\ e \notin SysRow
  BY <1>0, <1>4, <1>5 DEF ViewRow, SysRow, SysChan
<1>7. PrvFlags[e] = {}
  BY <1>0, <1>3, <1>6, RowFlags
<1>8. e \in bay.flag /\ bay.flag \cap SysChan = {}
  BY <1>0, <1>1, <1>2, <1>4 DEF ZeroAlone
<1>9. prv'[e] = Emit(prv[e], 0, {})
  BY <1>0, <1>1, <1>2, <1>6, <1>7, <1>8 DEF EmitAndFlush
<1>10. prv'[e].ok = FALSE
  <2>1. PICK p : p = prv[e] /\ p \in [set : {p.set}, last : {p.last}, line : {p.line}, ok : {TRUE}]
    BY <1>6 DEF VInv, RowsInv, RowOk
  <2>2. 0 # Null
    BY GraphAssumption
  <2>3. Emit(p, 0, {}).ok = FALSE
    BY <2>1, <2>2 DEF Emit
  <2> QED
    BY <1>9, <2>1, <2>3
<1>11. state' = "error" /\ bay' = Fail(bay)
  BY <1>6, <1>10 DEF EmitAndFlush
<1>12. bay'.last = bay.last /\ bay'.data = bay.data
  BY <1>0, <1>11 DEF Fail, IsBay
<1>13. ZeroShown'
  BY <1>0, <1>1, <1>12 DEF ZeroShown, ChanRead
<1>14. ASSUME NEW x \in SysRow PROVE prv'[x] = prv[x]
  <2>1. x \in SysChan /\ x \in DOMAIN prv
    BY <1>0, <1>14 DEF SysRow, SysChan, ViewRow, ChansOf
  <2> QED
    BY <1>0, <1>8, <2>1 DEF EmitAndFlush
<1> QED
  BY <1>11, <1>12, <1>13, <1>14

\* The end of the propagation.
LEMMA ViewEmit ==
  ASSUME VInv, ~ZeroShown, EmitAndFlush, UNCHANGED <<view, st, at>> PROVE VInv'
<1>0. /\ IInv /\ Sound(ViewValue) /\ BayInv(bay) /\ RowsInv /\ ToSet(bay.list) = bay.flag
      /\ DOMAIN bay.data = ChansOf(view) /\ view \in View
  BY InvListed DEF VInv, IInv, ListedOnce
<1>1. ASSUME NEW e \in DOMAIN prv
      PROVE  RowOk(e, prv'[e], IF e \in bay.flag THEN ChanRead(bay, e) ELSE bay.last[e])
  <2>0. RowOk(e, prv[e], bay.last[e])
    BY <1>0 DEF RowsInv
  <2>1. CASE e \in bay.flag
    <3>1. prv'[e] = Emit(prv[e], ChanRead(bay, e), PrvFlags[e])
      BY <1>0, <2>1 DEF EmitAndFlush
    <3>2. PICK p, q, v, w, F : /\ p = prv[e] /\ q = prv'[e] /\ v = ChanRead(bay, e)
                               /\ w = bay.last[e] /\ F = PrvFlags[e]
      OBVIOUS
    <3>3. /\ F \cap {"emitdup", "skipdup", "skipdupnull"} = {} => v # w
          /\ v # Null /\ "zero" \notin F => RowVal(e, v) # 0
      BY <2>1, <3>2, RowAccepts
    <3>4. RowOk(e, Emit(p, v, F), v)
      BY <2>0, <3>2, <3>3, RowEmits
    <3> QED
      BY <2>1, <3>1, <3>2, <3>4
  <2>2. CASE e \notin bay.flag
    <3>1. prv'[e] = prv[e]
      BY <1>0, <2>2 DEF EmitAndFlush
    <3> QED
      BY <2>0, <2>2, <3>1
  <2> QED
    BY <2>1, <2>2
<1>2. DOMAIN prv' = DOMAIN prv
  BY DEF EmitAndFlush
<1>3. \A e \in DOMAIN prv : prv'[e].ok
  <2> SUFFICES ASSUME NEW e \in DOMAIN prv PROVE prv'[e].ok = TRUE
    OBVIOUS
  <2>1. PICK q, w : q = prv'[e] /\ RowOk(e, q, w)
    BY <1>1
  <2> QED
    BY <2>1 DEF RowOk
<1>4. state' = "ready" /\ bay' = Flush(bay) /\ cbs' = cbs /\ selected' = selected
  BY <1>3 DEF EmitAndFlush, graphVars
<1>5. FlowsOn(ViewValue) /\ IInv'
  BY <1>0, <1>4, FlowEmit, PropagateInv DEF Propagate
<1>6. /\ bay'.data = bay.data /\ bay'.flag = {}
      /\ bay'.last = [c \in DOMAIN bay.data |-> IF c \in bay.flag THEN ChanRead(bay, c)
                                                ELSE bay.last[c]]
  BY <1>0, <1>4 DEF Flush, BayInv, IsBay
<1>7. \A e : ChanRead(bay', e) = ChanRead(bay, e)
  BY <1>6 DEF ChanRead
<1>8. RowsInv'
  <2>1. ASSUME NEW e \in DOMAIN prv PROVE RowOk(e, prv'[e], bay'.last[e])
    <3>1. e \in DOMAIN bay.data
      BY <1>0 DEF RowsInv
    <3>2. bay'.last[e] = IF e \in bay.flag THEN ChanRead(bay, e) ELSE bay.last[e]
      BY <1>6, <3>1
    <3> QED
      BY <1>1, <3>2
  <2> QED
    BY <1>0, <1>2, <2>1 DEF RowsInv
<1>9. ValInv(view, bay') /\ SteepInv(view, bay') /\ Fresh(view, bay')
  BY <1>6 DEF VInv, ValInv, SteepInv, Fresh
<1>10. Follows(bay', st, at)
  <2>1. PICK b : b = bay'
    OBVIOUS
  <2>2. Follows(bay, st, at)
    BY DEF VInv
  <2>3. Follows(b, st, at)
    BY <1>7, <2>1, <2>2, FollowsKeep
  <2> QED
    BY <2>1, <2>3
<1>11. ZeroAlone(view, bay')
  <2> SUFFICES ASSUME view = "xtasks", NEW e \in OfThreads({view}) PROVE ChanRead(bay', e) # 0
    BY DEF ZeroAlone
  <2>1. OfThreads({view}) \subseteq OfThreads(View)
    BY <1>0, Raws
  <2>2. e \in ChansOf(view) \ SysChan
    BY <1>0, <2>1, KindsDiffer DEF ChansOf
  <2> QED
    BY <1>0, <1>7, <2>2, XtasksChans DEF ZeroShown
<1> QED
  BY <1>0, <1>4, <1>5, <1>6, <1>8, <1>9, <1>10, <1>11 DEF VInv, FlowsOn
-----------------------------------------------------------------------------
(* The end of a handler.                                                   *)

\* What a handler that does not fail leaves in the bay, for the states and CPUs of the
\* threads after it.
ViewWrote(b, states, where) ==
    /\ BayInv(b) /\ b.ok /\ DOMAIN b.data = ChansOf(view) /\ b.last = bay.last
    /\ b.flag \subseteq ChansOf(view) \ MuxOf(view)
    /\ ValInv(view, b) /\ SteepInv(view, b) /\ Fresh(view, b) /\ ZeroAlone(view, b)
    /\ Follows(b, states, where)
    /\ states \in [Thread -> DOMAIN Code] /\ where \in [Thread -> Cpu \cup {-1}]

\* The bay as a handler finds it.
LEMMA WroteNone ==
  ASSUME VInv, state = "ready" PROVE ViewWrote(bay, st, at) /\ bay.flag = {}
<1>1. bay.flag = {} /\ BayInv(bay) /\ bay.ok
  BY DEF VInv, IInv, Sound
<1> QED
  BY <1>1 DEF VInv, ViewWrote

\* The event is propagated, or it is refused and the emulator stops.
LEMMA ViewHandled ==
  ASSUME VInv, NEW b, Processed(b), NEW states, NEW where, b.ok => ViewWrote(b, states, where),
         st' = states, at' = where
  PROVE  ViewsInv'
<1>1. CASE ~b.ok
  <2>1. state' = "error" /\ accepted' = FALSE
    BY <1>1 DEF Processed, Handled
  <2> QED
    BY <2>1 DEF ViewsInv
<1>2. CASE b.ok
  <2>0. /\ IInv /\ Sound(ViewValue) /\ view \in View /\ view' = view /\ Handled(b)
        /\ DOMAIN bay.data = ChansOf(view) /\ DOMAIN selected = MuxOf(view) /\ RowsInv
    BY DEF VInv, Processed
  <2>1. /\ BayInv(b) /\ DOMAIN b.data = ChansOf(view) /\ b.last = bay.last
        /\ b.flag \subseteq ChansOf(view) \ MuxOf(view)
        /\ ValInv(view, b) /\ SteepInv(view, b) /\ Fresh(view, b) /\ Follows(b, states, where)
        /\ ZeroAlone(view, b)
        /\ states \in [Thread -> DOMAIN Code] /\ where \in [Thread -> Cpu \cup {-1}]
    BY <1>2 DEF ViewWrote
  <2>2. \A m \in DOMAIN selected : MuxOut[m] \notin b.flag
    <3> SUFFICES ASSUME NEW m \in MuxOf(view) PROVE MuxOut[m] \notin b.flag
      BY <2>0
    <3>1. MuxOut[m] = m
      BY <2>0, MuxGraph
    <3> QED
      BY <2>1, <3>1
  <2>3. Sound(ViewValue)'
    <3>1. DOMAIN b.data = DOMAIN bay.data /\ b.flag \subseteq DOMAIN bay.data
      BY <2>0, <2>1
    <3> QED
      BY <1>2, <2>0, <2>1, <2>2, <3>1, FlowHandled
  <2>4. IInv'
    BY <2>0, <2>1, HandledInv
  <2>5. bay' = b /\ state' = "propagating" /\ selected' = selected /\ prv' = prv
    BY <1>2, <2>0 DEF Handled, graphVars
  <2>6. RowsInv'
    BY <2>0, <2>1, <2>5 DEF RowsInv
  <2>7. VInv'
    BY <2>0, <2>1, <2>3, <2>4, <2>5, <2>6 DEF VInv
  <2> QED
    BY <2>7 DEF ViewsInv
<1> QED
  BY <1>1, <1>2

-----------------------------------------------------------------------------
(* The events of threads and CPUs.                                         *)

\* A bay in which only channels of threads and CPUs were written, if nothing failed.
SysWrote(b) ==
    /\ BayInv(b)
    /\ b.ok => /\ DOMAIN b.data = ChansOf(view) /\ b.last = bay.last /\ b.flag \subseteq SysChan
               /\ \A e \in b.flag : ChanRead(b, e) # b.last[e]
               /\ \A e \in ChansOf(view) \ SysChan : b.data[e] = bay.data[e]

\* The channels of threads and CPUs that change from b to r are in C.
Only(b, r, C) == \A e \in SysChan \ C : ChanRead(r, e) = ChanRead(b, e)

\* chan_set() of a channel of threads and CPUs.
SetDone(b, r, c, v) ==
    /\ SysWrote(r)
    /\ r.ok => b.ok /\ ChanRead(r, c) = v /\ Only(b, r, {c})
LEMMA SysSet ==
  ASSUME VInv, NEW b, SysWrote(b), NEW c \in SysChan, NEW v
  PROVE  SetDone(b, ChanSet(b, c, v), c, v)
<1>1. PICK r : r = ChanSet(b, c, v)
  OBVIOUS
<1>2. BayInv(b) /\ BayInv(r)
  BY <1>1, ChanInv DEF SysWrote
<1>3. CASE ~r.ok
  BY <1>1, <1>2, <1>3 DEF SetDone, SysWrote
<1>4. CASE r.ok
  <2>1. b.ok
    BY <1>1, <1>4 DEF ChanSet
  <2>2. /\ DOMAIN b.data = ChansOf(view) /\ b.last = bay.last /\ b.flag \subseteq SysChan
        /\ \A e \in b.flag : ChanRead(b, e) # b.last[e]
        /\ \A e \in ChansOf(view) \ SysChan : b.data[e] = bay.data[e]
    BY <2>1 DEF SysWrote
  <2>3. c \in DOMAIN b.data /\ SysChan \subseteq DOMAIN b.data
    BY <2>2 DEF ChansOf
  <2>4. PICK d : d = <<v>>
    OBVIOUS
  <2>5. Written(b, r, c, d) /\ (v # b.last[c] => c \in r.flag /\ r.data[c] = d)
    BY <1>1, <1>2, <1>4, <2>3, <2>4, OpWrites
  <2>6. c \notin AllowDup /\ c \notin DirtyWrite /\ c \notin Stack
    <3>1. view \in View
      BY DEF VInv
    <3> QED
      BY <3>1, KindsDiffer
  <2>7. c \notin b.flag
    <3>1. c \in b.flag => ChanSet(b, c, v) = Fail(b)
      BY <2>1, <2>6 DEF ChanSet, DirtyRefused
    <3>2. Fail(b).ok = FALSE
      BY <1>2 DEF Fail, BayInv, IsBay
    <3> QED
      BY <1>1, <1>4, <3>1, <3>2
  <2>8. v = b.last[c] => r = b
    <3>1. v = b.last[c] => r = b \/ r = Fail(b)
      BY <1>1, <2>1, <2>6, <2>7 DEF ChanSet, DirtyRefused, IsDup
    <3>2. Fail(b).ok = FALSE
      BY <1>2 DEF Fail, BayInv, IsBay
    <3> QED
      BY <1>4, <3>1, <3>2
  <2>9. ChanRead(r, c) = v /\ (c \in r.flag => v # b.last[c])
    <3>1. CASE v = b.last[c]
      BY <1>2, <2>3, <2>7, <2>8, <3>1 DEF BayInv, Unchanged
    <3>2. CASE v # b.last[c]
      <4>1. r.data[c] = <<v>>
        BY <2>4, <2>5, <3>2
      <4>2. ChanRead(r, c) = v
        BY <4>1 DEF ChanRead, Last
      <4> QED
        BY <3>2, <4>2
    <3> QED
      BY <3>1, <3>2
  <2>10. \A e \in DOMAIN b.data : e # c => r.data[e] = b.data[e] /\ ChanRead(r, e) = ChanRead(b, e)
    BY <2>5 DEF Written, ChanRead
  <2>11. /\ r.last = b.last /\ DOMAIN r.data = DOMAIN b.data /\ r.flag \subseteq b.flag \cup {c}
    BY <2>5 DEF Written
  <2>12. \A e \in r.flag : ChanRead(r, e) # r.last[e]
    <3> SUFFICES ASSUME NEW e \in r.flag PROVE ChanRead(r, e) # r.last[e]
      OBVIOUS
    <3>1. CASE e = c
      BY <2>9, <2>11, <3>1
    <3>2. CASE e # c
      BY <2>2, <2>3, <2>10, <2>11, <3>2
    <3> QED
      BY <3>1, <3>2
  <2>13. \A e \in ChansOf(view) \ SysChan : r.data[e] = bay.data[e]
    BY <2>2, <2>10
  <2>14. SysWrote(r)
    BY <1>2, <2>2, <2>11, <2>12, <2>13 DEF SysWrote
  <2>15. Only(b, r, {c})
    BY <2>3, <2>10 DEF Only
  <2> QED
    BY <1>1, <2>1, <2>9, <2>14, <2>15 DEF SetDone
<1> QED
  BY <1>3, <1>4

\* Two changes in a row.
LEMMA OnlyBoth ==
  ASSUME NEW a, NEW b, NEW c, NEW X, NEW Y, Only(a, b, X), Only(b, c, Y)
  PROVE  Only(a, c, X \cup Y)
  BY DEF Only

\* thread_set_state()
StateDone(b, r, t, s) ==
    /\ SysWrote(r)
    /\ r.ok => /\ b.ok /\ ChanRead(r, <<"state", t>>) = Code[s]
               /\ ChanRead(r, <<"tid", t>>) = IF s \in Core!ActiveState THEN t + 1 ELSE Null
               /\ Only(b, r, {<<"state", t>>, <<"tid", t>>})
LEMMA StateWrites ==
  ASSUME VInv, NEW b, SysWrote(b), NEW t \in Thread, NEW s
  PROVE  StateDone(b, thread_set_state(b, t, s), t, s)
<1>1. PICK x, y, v : x = <<"state", t>> /\ y = <<"tid", t>> /\ v = IF s \in Core!ActiveState THEN t + 1 ELSE Null
  OBVIOUS
<1>2. x \in SysChan /\ y \in SysChan /\ x # y
  BY <1>1, SysIs
<1>3. PICK a, w : a = ChanSet(b, x, w) /\ w = Code[s]
  OBVIOUS
<1>4. SetDone(b, a, x, w)
  BY <1>2, <1>3, SysSet
<1>5. PICK r : r = ChanSet(a, y, v)
  OBVIOUS
<1>6. SetDone(a, r, y, v)
  <2>1. SysWrote(a)
    BY <1>4 DEF SetDone
  <2> QED
    BY <1>2, <1>5, <2>1, SysSet
<1>7. r = thread_set_state(b, t, s)
  BY <1>1, <1>3, <1>5 DEF thread_set_state
<1>8. ASSUME r.ok
      PROVE  b.ok /\ ChanRead(r, x) = w /\ ChanRead(r, y) = v /\ Only(b, r, {x, y})
  <2>1. /\ a.ok /\ b.ok /\ ChanRead(a, x) = w /\ ChanRead(r, y) = v
        /\ Only(b, a, {x}) /\ Only(a, r, {y})
    BY <1>4, <1>6, <1>8 DEF SetDone
  <2> QED
    BY <1>2, <2>1 DEF Only
<1> QED
  BY <1>1, <1>3, <1>6, <1>7, <1>8 DEF StateDone, SetDone

\* The channels of a CPU.
OfCpu(c) == {<<"nrun", c>>, <<"tidrun", c>>, <<"thrun", c>>, <<"thact", c>>}

\* cpu_update()
CpuDone(b, r, c, states, where) ==
    /\ SysWrote(r)
    /\ r.ok => b.ok /\ CpuShows(r, c, states, where) /\ Only(b, r, OfCpu(c))
LEMMA CpuWrites ==
  ASSUME VInv, NEW b, SysWrote(b), NEW c \in Cpu, NEW states, NEW where
  PROVE  CpuDone(b, cpu_update(b, c, where, states), c, states, where)
<1>1. PICK e1, e2, e3, e4 : /\ e1 = <<"tidrun", c>> /\ e2 = <<"thrun", c>>
                            /\ e3 = <<"nrun", c>> /\ e4 = <<"thact", c>>
  OBVIOUS
<1>2. /\ {e1, e2, e3, e4} \subseteq SysChan /\ OfCpu(c) = {e1, e2, e3, e4}
      /\ e1 # e2 /\ e1 # e3 /\ e1 # e4 /\ e2 # e3 /\ e2 # e4 /\ e3 # e4
  BY <1>1, SysIs DEF OfCpu
<1>3. PICK R, A, run, act : /\ R = RunIn(c, states, where) /\ A = ActIn(c, states, where)
                            /\ run = Core!OnlyOne(R) /\ act = Core!OnlyOne(A)
  OBVIOUS
<1>4. PICK v1, v2, v3, v4 : /\ v1 = IF run = -1 THEN Null ELSE run + 1
                            /\ v2 = OrNull(run) /\ v3 = Cardinality(R) /\ v4 = OrNull(act)
  OBVIOUS
<1>5. PICK b1 : b1 = ChanSet(b, e1, v1)
  OBVIOUS
<1>6. PICK b2 : b2 = ChanSet(b1, e2, v2)
  OBVIOUS
<1>7. PICK b3 : b3 = ChanSet(b2, e3, v3)
  OBVIOUS
<1>8. PICK r : r = ChanSet(b3, e4, v4)
  OBVIOUS
<1>9. r = cpu_update(b, c, where, states)
  BY <1>1, <1>3, <1>4, <1>5, <1>6, <1>7, <1>8 DEF cpu_update, RunIn, ActIn
<1>10. SetDone(b, b1, e1, v1)
  BY <1>2, <1>5, SysSet
<1>11. SetDone(b1, b2, e2, v2)
  <2>1. SysWrote(b1)
    BY <1>10 DEF SetDone
  <2> QED
    BY <1>2, <1>6, <2>1, SysSet
<1>12. SetDone(b2, b3, e3, v3)
  <2>1. SysWrote(b2)
    BY <1>11 DEF SetDone
  <2> QED
    BY <1>2, <1>7, <2>1, SysSet
<1>13. SetDone(b3, r, e4, v4)
  <2>1. SysWrote(b3)
    BY <1>12 DEF SetDone
  <2> QED
    BY <1>2, <1>8, <2>1, SysSet
<1>14. ASSUME r.ok
       PROVE  /\ b.ok /\ ChanRead(r, e1) = v1 /\ ChanRead(r, e2) = v2 /\ ChanRead(r, e3) = v3
              /\ ChanRead(r, e4) = v4 /\ Only(b, r, {e1, e2, e3, e4})
  <2>1. /\ b3.ok /\ ChanRead(r, e4) = v4 /\ Only(b3, r, {e4})
    BY <1>13, <1>14 DEF SetDone
  <2>2. /\ b2.ok /\ ChanRead(b3, e3) = v3 /\ Only(b2, b3, {e3})
    BY <1>12, <2>1 DEF SetDone
  <2>3. /\ b1.ok /\ ChanRead(b2, e2) = v2 /\ Only(b1, b2, {e2})
    BY <1>11, <2>2 DEF SetDone
  <2>4. /\ b.ok /\ ChanRead(b1, e1) = v1 /\ Only(b, b1, {e1})
    BY <1>10, <2>3 DEF SetDone
  <2> QED
    BY <1>2, <2>1, <2>2, <2>3, <2>4 DEF Only
<1>15. v3 # Null
  <2>1. IsFiniteSet(Thread) /\ R \subseteq Thread
    <3>1. IsFiniteSet(0 .. NThreads - 1)
      BY ViewsAssumption, FS_Interval
    <3> QED
      BY <3>1, <1>3 DEF Thread, RunIn, Core!Running
  <2>2. v3 \in Nat
    BY <1>4, <2>1, FS_Subset, FS_CardinalityType
  <2> QED
    BY <2>2, GraphAssumption
<1>16. ASSUME r.ok PROVE CpuShows(r, c, states, where)
  BY <1>1, <1>3, <1>4, <1>14, <1>15, <1>16 DEF CpuShows, Plain
<1> QED
  BY <1>2, <1>9, <1>13, <1>14, <1>16 DEF CpuDone, SetDone

\* A handler that only wrote channels of threads and CPUs.
LEMMA SysResult ==
  ASSUME VInv, state = "ready", NEW r, SysWrote(r), r.ok, NEW states \in [Thread -> DOMAIN Code],
         NEW where \in [Thread -> Cpu \cup {-1}], Follows(r, states, where)
  PROVE  ViewWrote(r, states, where)
<1>0. /\ view \in View /\ ValInv(view, bay) /\ SteepInv(view, bay)
      /\ BayInv(r) /\ DOMAIN r.data = ChansOf(view) /\ r.last = bay.last /\ r.flag \subseteq SysChan
      /\ \A e \in r.flag : ChanRead(r, e) # r.last[e]
      /\ \A e \in ChansOf(view) \ SysChan : r.data[e] = bay.data[e]
  BY DEF VInv, SysWrote
<1>1. r.flag \subseteq ChansOf(view) \ MuxOf(view)
  <2>1. \A e \in SysChan : e \notin ViewMux
    BY <1>0, KindsDiffer
  <2> QED
    BY <1>0, <2>1 DEF ChansOf, MuxOf
<1>2. ValInv(view, r)
  BY <1>0 DEF ValInv
<1>3. SteepInv(view, r)
  <2>1. \A e \in OfThreads({view}) : e \in ChansOf(view) \ SysChan
    <3>1. OfThreads({view}) \subseteq OfThreads(View)
      BY <1>0, Raws
    <3> QED
      BY <1>0, <3>1, KindsDiffer DEF ChansOf
  <2> QED
    BY <1>0, <2>1 DEF SteepInv
<1>4. Fresh(view, r)
  BY <1>0 DEF Fresh
<1>5. ZeroAlone(view, r)
  <2> SUFFICES ASSUME view = "xtasks", NEW e \in OfThreads({view}) PROVE ChanRead(r, e) # 0
    BY DEF ZeroAlone
  <2>1. bay.flag = {} /\ ZeroAlone(view, bay)
    BY WroteNone DEF VInv
  <2>2. ChanRead(bay, e) # 0
    BY <2>1 DEF ZeroAlone
  <2>3. OfThreads({view}) \subseteq OfThreads(View)
    BY <1>0, Raws
  <2>4. e \in ChansOf(view) \ SysChan
    BY <1>0, <2>3, KindsDiffer DEF ChansOf
  <2> QED
    BY <1>0, <2>2, <2>4 DEF ChanRead
<1> QED
  BY <1>0, <1>1, <1>2, <1>3, <1>4, <1>5 DEF ViewWrote

\* The channels that an event of the thread t writes, when it goes from the CPU a to c.
Moved(t, a, c) ==
    {e \in SysChan : \/ e[1] \in {"state", "tid", "cpu"} /\ e[2] = t
                     \/ e[1] \in {"nrun", "tidrun", "thrun", "thact"} /\ e[2] \in {a, c}}

\* The other threads and CPUs show what they did.
LEMMA ThreadMoved ==
  ASSUME VInv, state = "ready", NEW t \in Thread, NEW s \in DOMAIN Code, NEW c \in Cpu \cup {-1},
         NEW r, SysWrote(r), r.ok, Only(bay, r, Moved(t, at[t], c)),
         NEW states, states = [st EXCEPT ![t] = s], NEW where, where = [at EXCEPT ![t] = c],
         ThShows(r, t, states, where),
         \A d \in {at[t], c} \cap Cpu : CpuShows(r, d, states, where)
  PROVE  ViewWrote(r, states, where)
<1>0. /\ Follows(bay, st, at) /\ st \in [Thread -> DOMAIN Code] /\ at \in [Thread -> Cpu \cup {-1}]
  BY DEF VInv
<1>1. states \in [Thread -> DOMAIN Code] /\ where \in [Thread -> Cpu \cup {-1}]
  BY <1>0
<1>2. ASSUME NEW u \in Thread, u # t PROVE ThShows(r, u, states, where)
  <2>1. states[u] = st[u] /\ where[u] = at[u]
    BY <1>0, <1>2
  <2>2. PICK x, y, z : x = <<"state", u>> /\ y = <<"tid", u>> /\ z = <<"cpu", u>>
    OBVIOUS
  <2>3. {x, y, z} \subseteq SysChan \ Moved(t, at[t], c)
    BY <1>2, <2>2, SysIs DEF Moved
  <2>4. ChanRead(r, x) = ChanRead(bay, x) /\ ChanRead(r, y) = ChanRead(bay, y) /\ ChanRead(r, z) = ChanRead(bay, z)
    BY <2>3 DEF Only
  <2>5. ThShows(bay, u, st, at)
    BY <1>0 DEF Follows
  <2> QED
    BY <2>1, <2>2, <2>4, <2>5 DEF ThShows
<1>3. ASSUME NEW d \in Cpu, d \notin {at[t], c} PROVE CpuShows(r, d, states, where)
  <2>1. \A u \in Thread : /\ where[u] = d <=> at[u] = d
                          /\ at[u] = d => states[u] = st[u]
    BY <1>0, <1>3
  <2>2. RunIn(d, states, where) = RunIn(d, st, at) /\ ActIn(d, states, where) = ActIn(d, st, at)
    BY <2>1 DEF RunIn, ActIn, Core!Running, Core!Active
  <2>3. PICK e1, e2, e3, e4 : /\ e1 = <<"tidrun", d>> /\ e2 = <<"thrun", d>>
                              /\ e3 = <<"nrun", d>> /\ e4 = <<"thact", d>>
    OBVIOUS
  <2>4. {e1, e2, e3, e4} \subseteq SysChan \ Moved(t, at[t], c)
    BY <1>3, <2>3, SysIs DEF Moved
  <2>5. /\ ChanRead(r, e1) = ChanRead(bay, e1) /\ ChanRead(r, e2) = ChanRead(bay, e2)
        /\ ChanRead(r, e3) = ChanRead(bay, e3) /\ ChanRead(r, e4) = ChanRead(bay, e4)
    BY <2>4 DEF Only
  <2>6. CpuShows(bay, d, st, at)
    BY <1>0 DEF Follows
  <2> QED
    BY <2>2, <2>3, <2>5, <2>6 DEF CpuShows
<1>4. Follows(r, states, where)
  BY <1>2, <1>3 DEF Follows
<1> QED
  BY <1>1, <1>4, SysResult

\* What a CPU shows does not depend on other channels.
LEMMA CpuKeeps ==
  ASSUME NEW b, NEW r, NEW c \in Cpu, NEW states, NEW where, CpuShows(b, c, states, where),
         NEW C, Only(b, r, C), C \cap OfCpu(c) = {}
  PROVE  CpuShows(r, c, states, where)
<1>1. OfCpu(c) \subseteq SysChan \ C
  BY SysIs DEF OfCpu
<1>2. \A e \in OfCpu(c) : ChanRead(r, e) = ChanRead(b, e)
  BY <1>1 DEF Only
<1> QED
  BY <1>2 DEF OfCpu, CpuShows

\* The bay is ready for the handlers of threads and CPUs.
LEMMA SysNone == ASSUME VInv, state = "ready" PROVE SysWrote(bay)
<1>1. bay.flag = {} /\ BayInv(bay) /\ DOMAIN bay.data = ChansOf(view)
  BY DEF VInv, IInv
<1> QED
  BY <1>1 DEF SysWrote

\* What Moved holds.
LEMMA MovedHas ==
  ASSUME NEW t \in Thread, NEW a, NEW c
  PROVE  /\ {<<"state", t>>, <<"tid", t>>, <<"cpu", t>>} \subseteq Moved(t, a, c)
         /\ \A d \in {a, c} \cap Cpu : OfCpu(d) \subseteq Moved(t, a, c)
         /\ \A d \in Cpu : /\ <<"state", t>> \notin OfCpu(d) /\ <<"tid", t>> \notin OfCpu(d)
                           /\ <<"cpu", t>> \notin OfCpu(d)
         /\ \A d, e \in Cpu : d # e => OfCpu(d) \cap OfCpu(e) = {}
  BY SysIs DEF Moved, OfCpu

\* A wider set of changes.
LEMMA OnlyMore == ASSUME NEW a, NEW b, NEW X, NEW Y, Only(a, b, X), X \subseteq Y PROVE Only(a, b, Y)
  BY DEF Only

\* The codes of the states.
LEMMA Codes ==
  /\ DOMAIN Code = {"unknown", "running", "paused", "dead", "cooling", "warming"}
  /\ Code["unknown"] = 0 /\ Code["running"] = 1 /\ Code["paused"] = 2 /\ Code["dead"] = 3
  /\ Code["cooling"] = 4 /\ Code["warming"] = 5
  BY DEF Code

\* OHx
LEMMA ExecuteView ==
  ASSUME VInv, state = "ready", NEW t \in Thread, NEW c \in Cpu, pre_thread_execute(t, c)
  PROVE  ViewsInv'
<1>0. at[t] = -1 /\ SysWrote(bay) /\ c # -1
  BY SysNone, ViewsAssumption DEF pre_thread_execute, Core!CanExecute, Cpu
<1>1. PICK x, y, z : x = <<"state", t>> /\ y = <<"tid", t>> /\ z = <<"cpu", t>>
  OBVIOUS
<1>2. PICK states, where : states = [st EXCEPT ![t] = "running"] /\ where = [at EXCEPT ![t] = c]
  OBVIOUS
<1>3. PICK b1 : b1 = ChanSet(bay, z, c)
  OBVIOUS
<1>4. PICK b2 : b2 = thread_set_state(b1, t, "running")
  OBVIOUS
<1>5. PICK r : r = cpu_update(b2, c, where, states)
  OBVIOUS
<1>6. Processed(r) /\ st' = states /\ at' = where
  BY <1>1, <1>2, <1>3, <1>4, <1>5 DEF pre_thread_execute
<1>7. SetDone(bay, b1, z, c)
  BY <1>0, <1>1, <1>3, SysSet, SysIs
<1>8. StateDone(b1, b2, t, "running")
  BY <1>4, <1>7, StateWrites DEF SetDone
<1>9. CpuDone(b2, r, c, states, where)
  BY <1>5, <1>8, CpuWrites DEF StateDone
<1>10. ASSUME r.ok PROVE ViewWrote(r, states, where)
  <2>1. SysWrote(r) /\ b2.ok /\ CpuShows(r, c, states, where) /\ Only(b2, r, OfCpu(c))
    BY <1>9, <1>10 DEF CpuDone
  <2>2. /\ b1.ok /\ ChanRead(b2, x) = Code["running"]
        /\ ChanRead(b2, y) = t + 1 /\ Only(b1, b2, {x, y})
    BY <1>1, <1>8, <2>1 DEF StateDone, Core!ActiveState
  <2>3. ChanRead(b1, z) = c /\ Only(bay, b1, {z})
    BY <1>7, <2>2 DEF SetDone
  <2>4. {x, y, z} \subseteq SysChan /\ z \notin {x, y} /\ OfCpu(c) \cap {x, y, z} = {}
    BY <1>1, SysIs, MovedHas
  <2>5. ChanRead(r, x) = Code["running"] /\ ChanRead(r, y) = t + 1 /\ ChanRead(r, z) = c
    BY <2>1, <2>2, <2>3, <2>4 DEF Only
  <2>6. Only(bay, r, Moved(t, at[t], c))
    <3>1. Only(bay, r, {x, y, z} \cup OfCpu(c))
      BY <2>1, <2>2, <2>3 DEF Only
    <3>2. {x, y, z} \cup OfCpu(c) \subseteq Moved(t, at[t], c)
      BY <1>1, MovedHas
    <3> QED
      BY <3>1, <3>2, OnlyMore
  <2>7. states[t] = "running" /\ where[t] = c
    BY <1>2 DEF VInv
  <2>8. ThShows(r, t, states, where)
    BY <1>0, <1>1, <2>5, <2>7 DEF ThShows, OrNull, Core!ActiveState
  <2>9. \A d \in {at[t], c} \cap Cpu : CpuShows(r, d, states, where)
    BY <1>0, <2>1 DEF Cpu
  <2> QED
    BY <1>2, <1>10, <2>1, <2>6, <2>8, <2>9, ThreadMoved, Codes
<1> QED
  BY <1>6, <1>10, ViewHandled

\* OHe
LEMMA EndView ==
  ASSUME VInv, state = "ready", NEW t \in Thread, pre_thread_end(t)
  PROVE  ViewsInv'
<1>0. at[t] \in Cpu /\ SysWrote(bay)
  BY SysNone DEF pre_thread_end, Core!CanEnd, VInv
<1>1. PICK x, y, z, c : x = <<"state", t>> /\ y = <<"tid", t>> /\ z = <<"cpu", t>> /\ c = at[t]
  OBVIOUS
<1>2. PICK states, where : states = [st EXCEPT ![t] = "dead"] /\ where = [at EXCEPT ![t] = -1]
  OBVIOUS
<1>3. PICK b1 : b1 = thread_set_state(bay, t, "dead")
  OBVIOUS
<1>4. PICK b2 : b2 = cpu_update(b1, c, where, states)
  OBVIOUS
<1>5. PICK r : r = ChanSet(b2, z, Null)
  OBVIOUS
<1>6. Processed(r) /\ st' = states /\ at' = where
  BY <1>1, <1>2, <1>3, <1>4, <1>5 DEF pre_thread_end
<1>7. StateDone(bay, b1, t, "dead")
  BY <1>0, <1>3, StateWrites
<1>8. CpuDone(b1, b2, c, states, where)
  BY <1>0, <1>1, <1>4, <1>7, CpuWrites DEF StateDone
<1>9. SetDone(b2, r, z, Null)
  BY <1>1, <1>5, <1>8, SysSet, SysIs DEF CpuDone
<1>10. ASSUME r.ok PROVE ViewWrote(r, states, where)
  <2>1. SysWrote(r) /\ b2.ok /\ ChanRead(r, z) = Null /\ Only(b2, r, {z})
    BY <1>9, <1>10 DEF SetDone
  <2>2. b1.ok /\ CpuShows(b2, c, states, where) /\ Only(b1, b2, OfCpu(c))
    BY <1>8, <2>1 DEF CpuDone
  <2>3. /\ ChanRead(b1, x) = Code["dead"] /\ ChanRead(b1, y) = Null /\ Only(bay, b1, {x, y})
    BY <1>1, <1>7, <2>2 DEF StateDone, Core!ActiveState
  <2>4. {x, y, z} \subseteq SysChan /\ z \notin {x, y} /\ OfCpu(c) \cap {x, y, z} = {}
    BY <1>0, <1>1, SysIs, MovedHas
  <2>5. ChanRead(r, x) = Code["dead"] /\ ChanRead(r, y) = Null /\ ChanRead(r, z) = Null
    BY <2>1, <2>2, <2>3, <2>4 DEF Only
  <2>6. Only(bay, r, Moved(t, at[t], -1))
    <3>1. Only(bay, r, {x, y, z} \cup OfCpu(c))
      BY <2>1, <2>2, <2>3 DEF Only
    <3>2. {x, y, z} \cup OfCpu(c) \subseteq Moved(t, at[t], -1)
      BY <1>0, <1>1, MovedHas
    <3> QED
      BY <3>1, <3>2, OnlyMore
  <2>7. states[t] = "dead" /\ where[t] = -1
    BY <1>2 DEF VInv
  <2>8. ThShows(r, t, states, where)
    BY <1>1, <2>5, <2>7 DEF ThShows, OrNull, Core!ActiveState
  <2>9. CpuShows(r, c, states, where)
    BY <1>0, <1>1, <2>1, <2>2, <2>4, CpuKeeps
  <2>10. \A d \in {at[t], -1} \cap Cpu : CpuShows(r, d, states, where)
    BY <1>1, <2>9 DEF Cpu
  <2> QED
    BY <1>2, <1>10, <2>1, <2>6, <2>8, <2>10, ThreadMoved, Codes
<1> QED
  BY <1>6, <1>10, ViewHandled

\* OHp, OHr, OHc and OHw
LEMMA SwitchView ==
  ASSUME VInv, state = "ready", NEW t \in Thread, NEW from, NEW to \in DOMAIN Code \ {"unknown"},
         Switch(t, from, to)
  PROVE  ViewsInv'
<1>0. at[t] \in Cpu /\ SysWrote(bay)
  BY SysNone DEF Switch, Core!CanSwitch, VInv
<1>1. PICK x, y, z, c : x = <<"state", t>> /\ y = <<"tid", t>> /\ z = <<"cpu", t>> /\ c = at[t]
  OBVIOUS
<1>2. PICK states : states = [st EXCEPT ![t] = to]
  OBVIOUS
<1>3. PICK b1 : b1 = thread_set_state(bay, t, to)
  OBVIOUS
<1>4. PICK r, where : r = cpu_update(b1, c, where, states) /\ where = at
  OBVIOUS
<1>5. where = [at EXCEPT ![t] = c]
  BY <1>1, <1>4 DEF VInv
<1>6. Processed(r) /\ st' = states /\ at' = where
  BY <1>1, <1>2, <1>3, <1>4 DEF Switch
<1>7. StateDone(bay, b1, t, to)
  BY <1>0, <1>3, StateWrites
<1>8. CpuDone(b1, r, c, states, where)
  BY <1>0, <1>1, <1>4, <1>7, CpuWrites DEF StateDone
<1>10. ASSUME r.ok PROVE ViewWrote(r, states, where)
  <2>2. SysWrote(r) /\ b1.ok /\ CpuShows(r, c, states, where) /\ Only(b1, r, OfCpu(c))
    BY <1>8, <1>10 DEF CpuDone
  <2>3. /\ ChanRead(b1, x) = Code[to] /\ Only(bay, b1, {x, y})
        /\ ChanRead(b1, y) = IF to \in Core!ActiveState THEN t + 1 ELSE Null
    BY <1>1, <1>7, <2>2 DEF StateDone
  <2>4. {x, y, z} \subseteq SysChan /\ z \notin {x, y} /\ OfCpu(c) \cap {x, y, z} = {}
    BY <1>0, <1>1, SysIs, MovedHas
  <2>5. /\ ChanRead(r, x) = Code[to] /\ ChanRead(r, z) = ChanRead(bay, z)
        /\ ChanRead(r, y) = IF to \in Core!ActiveState THEN t + 1 ELSE Null
    BY <2>2, <2>3, <2>4 DEF Only
  <2>6. Only(bay, r, Moved(t, at[t], c))
    <3>1. Only(bay, r, {x, y} \cup OfCpu(c))
      BY <2>2, <2>3 DEF Only
    <3>2. {x, y} \cup OfCpu(c) \subseteq Moved(t, at[t], c)
      BY <1>0, <1>1, MovedHas
    <3> QED
      BY <3>1, <3>2, OnlyMore
  <2>7. states[t] = to /\ where[t] = at[t]
    BY <1>2, <1>4 DEF VInv
  <2>8. ChanRead(bay, z) = OrNull(at[t])
    BY <1>1 DEF VInv, Follows, ThShows
  <2>9. ThShows(r, t, states, where)
    BY <1>1, <2>5, <2>7, <2>8 DEF ThShows
  <2>10. \A d \in {at[t], c} \cap Cpu : CpuShows(r, d, states, where)
    BY <1>1, <2>2
  <2>11. to \in DOMAIN Code /\ c \in Cpu \cup {-1}
    BY <1>0, <1>1
  <2> QED
    BY <1>2, <1>5, <1>10, <2>2, <2>6, <2>9, <2>10, <2>11, ThreadMoved
<1> QED
  BY <1>6, <1>10, ViewHandled

\* OAs and OAr
LEMMA MigrateView ==
  ASSUME VInv, state = "ready", NEW t \in Thread, NEW c \in Cpu, Migrate(t, c)
  PROVE  ViewsInv'
<1>0. at[t] \in Cpu /\ at[t] # c /\ SysWrote(bay) /\ c # -1
  BY SysNone, ViewsAssumption DEF Migrate, Core!CanMigrate, VInv, Cpu
<1>1. PICK x, y, z, a : x = <<"state", t>> /\ y = <<"tid", t>> /\ z = <<"cpu", t>> /\ a = at[t]
  OBVIOUS
<1>2. PICK states, where : states = st /\ where = [at EXCEPT ![t] = c]
  OBVIOUS
<1>3. PICK b1 : b1 = cpu_update(bay, a, where, states)
  OBVIOUS
<1>4. PICK b2 : b2 = cpu_update(b1, c, where, states)
  OBVIOUS
<1>5. PICK r : r = ChanSet(b2, z, c)
  OBVIOUS
<1>6. Processed(r) /\ st' = states /\ at' = where
  BY <1>1, <1>2, <1>3, <1>4, <1>5 DEF Migrate
<1>7. CpuDone(bay, b1, a, states, where)
  BY <1>0, <1>1, <1>3, CpuWrites
<1>8. CpuDone(b1, b2, c, states, where)
  BY <1>4, <1>7, CpuWrites DEF CpuDone
<1>9. SetDone(b2, r, z, c)
  BY <1>1, <1>5, <1>8, SysSet, SysIs DEF CpuDone
<1>10. ASSUME r.ok PROVE ViewWrote(r, states, where)
  <2>1. SysWrote(r) /\ b2.ok /\ ChanRead(r, z) = c /\ Only(b2, r, {z})
    BY <1>9, <1>10 DEF SetDone
  <2>2. b1.ok /\ CpuShows(b2, c, states, where) /\ Only(b1, b2, OfCpu(c))
    BY <1>8, <2>1 DEF CpuDone
  <2>3. CpuShows(b1, a, states, where) /\ Only(bay, b1, OfCpu(a))
    BY <1>7, <2>2 DEF CpuDone
  <2>4. /\ {x, y, z} \subseteq SysChan /\ z \notin {x, y} /\ OfCpu(c) \cap {x, y, z} = {}
        /\ OfCpu(a) \cap {x, y, z} = {} /\ OfCpu(a) \cap OfCpu(c) = {} /\ a \in Cpu
    <3>1. a \in Cpu /\ a # c
      BY <1>0, <1>1
    <3>2. OfCpu(a) \cap OfCpu(c) = {}
      BY <3>1, MovedHas
    <3>3. OfCpu(a) \cap {x, y, z} = {} /\ OfCpu(c) \cap {x, y, z} = {}
      BY <1>1, <3>1, MovedHas
    <3>4. {x, y, z} \subseteq SysChan /\ z \notin {x, y}
      BY <1>1, SysIs
    <3> QED
      BY <3>1, <3>2, <3>3, <3>4
  <2>5. ChanRead(r, x) = ChanRead(bay, x) /\ ChanRead(r, y) = ChanRead(bay, y)
    BY <2>1, <2>2, <2>3, <2>4 DEF Only
  <2>6. Only(bay, r, Moved(t, at[t], c))
    <3>1. Only(bay, r, {z} \cup OfCpu(a) \cup OfCpu(c))
      BY <2>1, <2>2, <2>3 DEF Only
    <3>2. {z} \cup OfCpu(a) \cup OfCpu(c) \subseteq Moved(t, at[t], c)
      BY <1>0, <1>1, MovedHas
    <3> QED
      BY <3>1, <3>2, OnlyMore
  <2>7. states[t] = st[t] /\ where[t] = c
    BY <1>2 DEF VInv
  <2>8. ThShows(bay, t, st, at)
    BY DEF VInv, Follows
  <2>9. ThShows(r, t, states, where)
    BY <1>0, <1>1, <2>1, <2>5, <2>7, <2>8 DEF ThShows, OrNull
  <2>10. CpuShows(r, c, states, where)
    BY <2>1, <2>2, <2>4, CpuKeeps
  <2>11. CpuShows(r, a, states, where)
    <3>1. CpuShows(b2, a, states, where)
      BY <2>2, <2>3, <2>4, CpuKeeps
    <3> QED
      BY <2>1, <2>4, <3>1, CpuKeeps
  <2>12. \A d \in {at[t], c} \cap Cpu : CpuShows(r, d, states, where)
    BY <1>1, <2>10, <2>11
  <2>13. st[t] \in DOMAIN Code /\ states = [st EXCEPT ![t] = st[t]]
    BY <1>2 DEF VInv
  <2> QED
    BY <1>2, <1>10, <2>1, <2>6, <2>9, <2>12, <2>13, ThreadMoved
<1> QED
  BY <1>6, <1>10, ViewHandled

\* Every event of threads and CPUs.
LEMMA ThreadEventView ==
  ASSUME VInv, state = "ready", NEW t \in Thread, ThreadEvent(t) PROVE ViewsInv'
<1>1. ASSUME NEW c \in Cpu, pre_affinity_set(t, c) PROVE ViewsInv'
  <2>1. CASE at[t] = c /\ Processed(bay) /\ UNCHANGED <<st, at>>
    <3>1. ViewWrote(bay, st, at)
      BY WroteNone
    <3>2. PICK b, states, where : b = bay /\ states = st /\ where = at
      OBVIOUS
    <3>3. Processed(b) /\ ViewWrote(b, states, where) /\ st' = states /\ at' = where
      BY <2>1, <3>1, <3>2
    <3> QED
      BY <3>3, ViewHandled
  <2>2. CASE Migrate(t, c)
    BY <2>2, MigrateView
  <2> QED
    BY <1>1, <2>1, <2>2 DEF pre_affinity_set
<1>2. ASSUME NEW q \in Thread, NEW c \in Cpu, pre_affinity_remote(t, q, c) PROVE ViewsInv'
  BY <1>2, MigrateView DEF pre_affinity_remote
<1>3. {"paused", "running", "cooling", "warming"} \subseteq DOMAIN Code \ {"unknown"}
  BY Codes
<1> QED
  BY <1>1, <1>2, <1>3, ExecuteView, EndView, SwitchView DEF ThreadEvent
-----------------------------------------------------------------------------
(* The events of the models.                                               *)

\* The channel of a model takes a new content.
LEMMA RawOne ==
  ASSUME VInv, NEW b, ViewWrote(b, st, at), NEW e \in OfThreads({view}), NEW r, NEW d,
         Written(b, r, e, d), BayInv(r), d \in Seq(RawValue(view)),
         view = "xtasks" => Steep(d) /\ ChanRead(r, e) # b.last[e] /\ b.flag = {}
  PROVE  ViewWrote(r, st, at)
<1>0. /\ view \in View /\ DOMAIN b.data = ChansOf(view) /\ b.last = bay.last
      /\ b.flag \subseteq ChansOf(view) \ MuxOf(view)
      /\ ValInv(view, b) /\ SteepInv(view, b) /\ Fresh(view, b) /\ Follows(b, st, at)
      /\ st \in [Thread -> DOMAIN Code] /\ at \in [Thread -> Cpu \cup {-1}] /\ ZeroAlone(view, b)
  BY DEF VInv, ViewWrote
<1>1. /\ r.ok /\ r.last = b.last /\ DOMAIN r.data = DOMAIN b.data
      /\ r.flag \subseteq b.flag \cup {e}
      /\ \A x \in DOMAIN b.data : x # e => r.data[x] = b.data[x]
      /\ r.data[e] = b.data[e] \/ r.data[e] = d
  BY DEF Written
<1>2. e \in ChansOf(view) /\ e \notin SysChan /\ e \notin MuxOf(view)
  <2>1. PICK t \in Thread : \E k \in 1 .. Sp(view).nch : e = Raw(view, t, k)
    BY Raws
  <2>2. PICK k \in 1 .. Sp(view).nch : e = Raw(view, t, k)
    BY <2>1
  <2> QED
    BY <1>0, <2>2, KindsDiffer DEF MuxOf
<1>3. \A x \in DOMAIN b.data : x # e => ChanRead(r, x) = ChanRead(b, x)
  BY <1>1 DEF ChanRead
<1>4. ValInv(view, r)
  <2> SUFFICES ASSUME NEW x \in ChansOf(view) \ SysChan PROVE r.data[x] \in Seq(RawValue(view))
    BY DEF ValInv
  <2>1. b.data[x] \in Seq(RawValue(view))
    BY <1>0 DEF ValInv
  <2> QED
    BY <1>0, <1>1, <2>1
<1>5. SteepInv(view, r)
  <2> SUFFICES ASSUME view = "xtasks", NEW x \in OfThreads({view}) PROVE Steep(r.data[x])
    BY DEF SteepInv
  <2>1. Steep(b.data[x]) /\ x \in ChansOf(view)
    BY <1>0 DEF SteepInv, ChansOf
  <2> QED
    BY <1>0, <1>1, <2>1
<1>6. Fresh(view, r)
  <2> SUFFICES ASSUME NEW x \in r.flag, x \in SysChan \/ view = "xtasks"
               PROVE  ChanRead(r, x) # r.last[x]
    BY DEF Fresh
  <2>1. CASE x = e
    BY <1>1, <1>2, <2>1
  <2>2. CASE x # e
    BY <1>0, <1>1, <1>3, <2>2 DEF Fresh
  <2> QED
    BY <2>1, <2>2
<1>7. Follows(r, st, at)
  <2>1. \A x \in SysChan : ChanRead(r, x) = ChanRead(b, x)
    BY <1>0, <1>2, <1>3 DEF ChansOf
  <2> QED
    BY <1>0, <2>1, FollowsKeep
<1>8. ZeroAlone(view, r)
  <2> SUFFICES ASSUME view = "xtasks", NEW x \in OfThreads({view}), ChanRead(r, x) = 0
               PROVE  x \in r.flag /\ r.flag \cap SysChan = {}
    BY DEF ZeroAlone
  <2>1. x \in DOMAIN b.data
    BY <1>0 DEF ChansOf
  <2>2. ChanRead(b, x) # 0
    BY <1>0 DEF ZeroAlone
  <2>3. x = e
    BY <1>3, <2>1, <2>2
  <2>4. x \in r.flag
    BY <1>0, <1>1, <2>1, <2>3 DEF BayInv, Unchanged
  <2> QED
    BY <1>1, <1>2, <2>4
<1> QED
  BY <1>0, <1>1, <1>2, <1>4, <1>5, <1>6, <1>7, <1>8 DEF ViewWrote

\* chan_set()
LEMMA RawSet ==
  ASSUME VInv, NEW b, ViewWrote(b, st, at), NEW e \in OfThreads({view}), NEW v \in RawValue(view),
         view # "xtasks", ChanSet(b, e, v).ok
  PROVE  ViewWrote(ChanSet(b, e, v), st, at)
<1>0. BayInv(b) /\ e \in DOMAIN b.data
  BY DEF ViewWrote, ChansOf
<1>1. PICK r, d : r = ChanSet(b, e, v) /\ d = <<v>>
  OBVIOUS
<1>2. Written(b, r, e, d)
  BY <1>0, <1>1, OpWrites
<1>3. BayInv(r)
  BY <1>0, <1>1, ChanInv
<1>4. d \in Seq(RawValue(view))
  <2>1. <<v>> \in Seq(RawValue(view))
    OBVIOUS
  <2> QED
    BY <2>1, <1>1
<1> QED
  BY <1>1, <1>2, <1>3, <1>4, RawOne

\* XTasks compares the values of its stack.
LEMMA XtasksRaw ==
  ASSUME view \in View, view = "xtasks", NEW e \in OfThreads({view})
  PROVE  e \notin AllowDup /\ e \notin IgnoreDup
<1>1. PICK t \in Thread : \E k \in 1 .. Sp(view).nch : e = Raw(view, t, k)
  BY Raws
<1>2. PICK k \in 1 .. Sp(view).nch : e = Raw(view, t, k)
  BY <1>1
<1>3. Sp(view).dup = FALSE
  <2>1. Sp("xtasks") = XtasksSpec
    BY DEF Sp
  <2>2. XtasksSpec.dup = FALSE
    BY DEF XtasksSpec, MpiSpec
  <2> QED
    BY <2>1, <2>2
<1>4. e \notin IgnoreDup /\ (e \in AllowDup <=> Sp(view).dup)
  BY <1>2, KindsDiffer
<1> QED
  BY <1>3, <1>4

\* chan_push()
LEMMA RawPush ==
  ASSUME VInv, state = "ready", NEW e \in OfThreads({view}), NEW v \in RawValue(view), v # Null,
         ChanPush(bay, e, v).ok
  PROVE  ViewWrote(ChanPush(bay, e, v), st, at)
<1>0. /\ ViewWrote(bay, st, at) /\ bay.flag = {} /\ BayInv(bay) /\ e \in DOMAIN bay.data
      /\ view \in View /\ bay.data[e] \in Seq(RawValue(view))
  <2>1. ViewWrote(bay, st, at) /\ bay.flag = {}
    BY WroteNone
  <2>2. OfThreads({view}) \subseteq OfThreads(View) /\ view \in View
    BY Raws DEF VInv
  <2>3. e \in ChansOf(view) \ SysChan
    BY <2>2, KindsDiffer DEF ChansOf
  <2> QED
    BY <2>1, <2>2, <2>3 DEF ViewWrote, ValInv
<1>1. PICK r, d : r = ChanPush(bay, e, v) /\ d = Append(bay.data[e], v)
  OBVIOUS
<1>2. Written(bay, r, e, d) /\ (e \in IgnoreDup \/ r.data[e] = d)
  <2>1. PICK b : b = bay
    OBVIOUS
  <2>2. BayInv(b) /\ e \in DOMAIN b.data /\ r = ChanPush(b, e, v) /\ d = Append(b.data[e], v) /\ r.ok
    BY <1>0, <1>1, <2>1
  <2>3. Written(b, ChanPush(b, e, v), e, Append(b.data[e], v))
    BY <2>2, OpWrites, Zenon
  <2>4. ASSUME e \notin IgnoreDup PROVE ChanPush(b, e, v).data[e] = Append(b.data[e], v)
    <3>1. b.ok /\ Fail(b).ok = FALSE
      BY <2>2, <2>3 DEF Written, Fail, BayInv, IsBay
    <3>2. [b EXCEPT !.data[e] = Append(@, v)] = [b EXCEPT !.data[e] = d]
      BY <2>2
    <3>3. r = SetDirty([b EXCEPT !.data[e] = d], e)
      BY <2>2, <2>4, <3>1, <3>2 DEF ChanPush
    <3>0. BayInv(b) /\ e \in DOMAIN b.data /\ b.ok
      BY <2>2, <3>1
    <3>4. Written(b, r, e, d) /\ e \in r.flag /\ r.data[e] = d
      BY <3>0, <3>3, SetDirtyIs
    <3> QED
      BY <2>2, <3>4
  <2> QED
    BY <2>1, <2>2, <2>3, <2>4
<1>3. BayInv(r)
  BY <1>0, <1>1, ChanInv
<1>4. d \in Seq(RawValue(view))
  BY <1>0, <1>1
<1>5. ASSUME view = "xtasks" PROVE Steep(d) /\ ChanRead(r, e) # bay.last[e]
  <2>0. e \notin AllowDup /\ e \notin IgnoreDup
    BY <1>0, <1>5, XtasksRaw
  <2>1. v # bay.last[e]
    <3>1. v = bay.last[e] => (r = bay /\ ~bay.ok) \/ r = Fail(bay)
      BY <1>0, <1>1, <2>0 DEF ChanPush, IsDup
    <3>2. Fail(bay).ok = FALSE
      BY <1>0 DEF Fail, BayInv, IsBay
    <3> QED
      BY <1>1, <3>1, <3>2
  <2>2. bay.last[e] = ChanRead(bay, e)
    BY <1>0 DEF BayInv, Unchanged
  <2>3. Steep(bay.data[e])
    BY <1>5 DEF VInv, SteepInv
  <2>4. PICK s, n : s = bay.data[e] /\ n = Len(s)
    OBVIOUS
  <2>5. /\ s \in Seq(RawValue(view)) /\ n \in Nat /\ DOMAIN s = 1 .. n
        /\ DOMAIN d = 1 .. n + 1 /\ d[n + 1] = v /\ \A i \in 1 .. n : d[i] = s[i]
        /\ Len(d) = n + 1
    BY <1>0, <1>1, <2>4
  <2>6. n > 0 => s[n] # v
    BY <2>1, <2>2, <2>4, <2>5 DEF ChanRead, Last
  <2>7. Steep(d)
    <3> SUFFICES ASSUME NEW i \in 1 .. n + 1 PROVE d[i] # Null /\ (i > 1 => d[i - 1] # d[i])
      BY <2>5 DEF Steep
    <3>1. CASE i = n + 1
      BY <2>5, <2>6, <3>1
    <3>2. CASE i \in 1 .. n
      <4>1. i > 1 => i - 1 \in 1 .. n
        BY <2>5, <3>2
      <4> QED
        BY <2>3, <2>4, <2>5, <3>2, <4>1 DEF Steep
    <3> QED
      BY <2>5, <3>1, <3>2
  <2>8. ChanRead(r, e) = v
    BY <1>2, <2>0, <2>5 DEF ChanRead, Last
  <2> QED
    BY <2>1, <2>7, <2>8
<1> QED
  BY <1>0, <1>1, <1>2, <1>3, <1>4, <1>5, RawOne

\* chan_pop()
LEMMA RawPop ==
  ASSUME VInv, state = "ready", NEW e \in OfThreads({view}), NEW v, ChanPop(bay, e, v).ok
  PROVE  ViewWrote(ChanPop(bay, e, v), st, at)
<1>0. /\ ViewWrote(bay, st, at) /\ bay.flag = {} /\ BayInv(bay) /\ e \in DOMAIN bay.data
      /\ view \in View /\ bay.data[e] \in Seq(RawValue(view))
  <2>1. ViewWrote(bay, st, at) /\ bay.flag = {}
    BY WroteNone
  <2>2. OfThreads({view}) \subseteq OfThreads(View) /\ view \in View
    BY Raws DEF VInv
  <2>3. e \in ChansOf(view) \ SysChan
    BY <2>2, KindsDiffer DEF ChansOf
  <2> QED
    BY <2>1, <2>2, <2>3 DEF ViewWrote, ValInv
<1>1. PICK r, d : r = ChanPop(bay, e, v) /\ d = Front(bay.data[e])
  OBVIOUS
<1>2. Written(bay, r, e, d) /\ bay.data[e] # <<>> /\ r.data[e] = d
  <2>1. PICK b : b = bay
    OBVIOUS
  <2>2. BayInv(b) /\ e \in DOMAIN b.data /\ r = ChanPop(b, e, v) /\ d = Front(b.data[e]) /\ r.ok
    BY <1>0, <1>1, <2>1
  <2>3. ChanPop(b, e, v).ok =>
            /\ Written(b, ChanPop(b, e, v), e, Front(b.data[e])) /\ b.data[e] # <<>>
            /\ e \in ChanPop(b, e, v).flag /\ ChanPop(b, e, v).data[e] = Front(b.data[e])
    BY <2>2, OpWrites, Zenon
  <2> QED
    BY <2>1, <2>2, <2>3
<1>3. BayInv(r)
  BY <1>0, <1>1, ChanInv
<1>4. PICK s, n : s = bay.data[e] /\ n = Len(s)
  OBVIOUS
<1>5. s \in Seq(RawValue(view)) /\ n \in Nat \ {0} /\ DOMAIN s = 1 .. n
  BY <1>0, <1>2, <1>4
<1>6. /\ d \in Seq(RawValue(view)) /\ DOMAIN d = 1 .. n - 1 /\ Len(d) = n - 1
      /\ \A i \in 1 .. n - 1 : d[i] = s[i]
  BY <1>1, <1>4, <1>5 DEF Front
<1>7. ASSUME view = "xtasks" PROVE Steep(d) /\ ChanRead(r, e) # bay.last[e]
  <2>1. bay.last[e] = s[n]
    BY <1>0, <1>2, <1>4, <1>5 DEF BayInv, Unchanged, ChanRead, Last
  <2>2. Steep(s)
    BY <1>4, <1>7 DEF VInv, SteepInv
  <2>3. Steep(d)
    BY <1>5, <1>6, <2>2 DEF Steep
  <2>4. ChanRead(r, e) # s[n]
    <3>1. CASE n = 1
      <4>1. d = <<>>
        BY <1>6, <3>1
      <4>2. ChanRead(r, e) = Null
        BY <1>2, <4>1 DEF ChanRead
      <4>3. n \in DOMAIN s
        BY <1>5
      <4>4. s[n] # Null
        BY <2>2, <4>3 DEF Steep
      <4> QED
        BY <4>2, <4>4
    <3>2. CASE n > 1
      <4>1. n - 1 \in DOMAIN s /\ n \in DOMAIN s /\ n - 1 \in 1 .. n - 1
        BY <1>5, <3>2
      <4>2. d # <<>>
        BY <1>6, <4>1
      <4>3. ChanRead(r, e) = s[n - 1]
        BY <1>2, <1>6, <4>1, <4>2 DEF ChanRead, Last
      <4> QED
        BY <2>2, <3>2, <4>1, <4>3 DEF Steep
    <3> QED
      BY <1>5, <3>1, <3>2
  <2> QED
    BY <2>1, <2>3, <2>4
<1> QED
  BY <1>0, <1>1, <1>2, <1>3, <1>6, <1>7, RawOne

\* The end of an event of a model.
LEMMA ProcessView ==
  ASSUME VInv, state = "ready", NEW t, NEW b, Process(t, b), b.ok => ViewWrote(b, st, at)
  PROVE  ViewsInv'
<1>1. PICK r, states, where : r = (IF Allowed(t) THEN b ELSE Fail(bay)) /\ states = st /\ where = at
  OBVIOUS
<1>2. Processed(r) /\ st' = states /\ at' = where
  BY <1>1 DEF Process
<1>3. Fail(bay).ok = FALSE
  BY DEF Fail, VInv, IInv, BayInv, IsBay
<1>4. r.ok => ViewWrote(r, states, where)
  BY <1>1, <1>3
<1> QED
  BY <1>2, <1>4, ViewHandled

\* The values of the events.
LEMMA EventValues ==
  ASSUME NEW v \in View
  PROVE  /\ {Null, 1, ST_CSOUT} \subseteq RawValue(v)
         /\ Label[v] \subseteq RawValue(v) /\ Null \notin Label[v]
         /\ \A s \in Sample : \A i \in DOMAIN s : v = "hwc" => s[i] \in RawValue(v)
         /\ \A ev \in XtasksEvent :
                v = "xtasks" => idOrVal(ev) \in RawValue(v) /\ idOrVal(ev) # Null
         /\ Null \notin {1, ST_CSOUT}
<1>0. {Null, 1, ST_CSOUT} \subseteq ViewValue /\ Null \notin Int
  BY GraphAssumption DEF ViewValue
<1>1. 0 \notin {1, ST_CSOUT} /\ {1, ST_CSOUT} \subseteq Int
  BY DEF ST_CSOUT
<1>2. Label[v] \subseteq Nat \ {0} /\ Label[v] \subseteq ViewValue
  <2>1. Label[v] \subseteq Nat \ {0}
    BY ViewsAssumption
  <2>2. Label[v] \subseteq ViewValue
    BY Zenon DEF ViewValue
  <2> QED
    BY <2>1, <2>2
<1>3. \A s \in Sample : \A i \in DOMAIN s : s[i] \in ViewValue
  <2> SUFFICES ASSUME NEW s \in Sample, NEW i \in DOMAIN s PROVE s[i] \in ViewValue
    OBVIOUS
  <2>1. s[i] \in ToSet(s)
    BY DEF ToSet
  <2> QED
    BY <2>1, Zenon DEF ViewValue
<1>4. RawValue(v) = IF v \in {"hwc", "xtasks"} THEN ViewValue ELSE ViewValue \ {0}
  BY DEF RawValue
<1>5. \A ev \in XtasksEvent : idOrVal(ev) \in ViewValue /\ idOrVal(ev) # Null
  <2> SUFFICES ASSUME NEW ev \in XtasksEvent PROVE idOrVal(ev) \in ViewValue /\ idOrVal(ev) # Null
    OBVIOUS
  <2>1. idOrVal(ev) \in ViewValue
    BY Zenon DEF ViewValue
  <2> QED
    BY <1>0, <2>1, XtasksInt
<1>6. /\ {Null, 1, ST_CSOUT} \subseteq RawValue(v) /\ Label[v] \subseteq RawValue(v)
      /\ Null \notin Label[v] /\ Null \notin {1, ST_CSOUT}
  BY <1>0, <1>1, <1>2, <1>4
<1> QED
  BY <1>3, <1>4, <1>5, <1>6

\* Every event of the models.
LEMMA ModelEventView ==
  ASSUME VInv, state = "ready", NEW t \in Thread, ModelEvent(t) PROVE ViewsInv'
<1>0. view \in View /\ Fail(bay).ok = FALSE /\ ViewWrote(bay, st, at)
  BY WroteNone DEF Fail, VInv, IInv, BayInv, IsBay
<1>1. Sp(view).nch \in {1, 2} /\ (view = "hwc" => Sp(view).nch = 2)
  <2>1. Sp(view).nch \in {1, 2}
    BY <1>0, SpecIs
  <2>2. Sp("hwc") = HwcSpec /\ HwcSpec.nch = 2
    BY DEF Sp, HwcSpec
  <2> QED
    BY <2>1, <2>2
<1>2. PICK e : e = MyRaw(t)
  OBVIOUS
<1>3. e \in OfThreads({view})
  BY <1>1, <1>2, Raws DEF MyRaw
<1>4. ASSUME Process(t, Fail(bay)) PROVE ViewsInv'
  BY <1>0, <1>4, ProcessView
<1>5. ASSUME NEW v, v \in RawValue(view), v # Null, Push(t, v) PROVE ViewsInv'
  <2>1. PICK r : r = ChanPush(bay, e, v)
    OBVIOUS
  <2>2. Process(t, r)
    BY <1>2, <1>5, <2>1 DEF Push
  <2>3. r.ok => ViewWrote(r, st, at)
    BY <1>3, <1>5, <2>1, RawPush
  <2> QED
    BY <2>2, <2>3, ProcessView
<1>6. ASSUME NEW v, Pop(t, v) PROVE ViewsInv'
  <2>1. PICK r : r = ChanPop(bay, e, v)
    OBVIOUS
  <2>2. Process(t, r)
    BY <1>2, <1>6, <2>1 DEF Pop
  <2>3. r.ok => ViewWrote(r, st, at)
    BY <1>3, <2>1, RawPop
  <2> QED
    BY <2>2, <2>3, ProcessView
<1>7. ASSUME NEW v, v \in RawValue(view), view # "xtasks", Process(t, ChanSet(bay, MyRaw(t), v))
      PROVE  ViewsInv'
  <2>1. PICK r : r = ChanSet(bay, e, v)
    OBVIOUS
  <2>2. Process(t, r)
    BY <1>2, <1>7, <2>1
  <2>3. r.ok => ViewWrote(r, st, at)
    BY <1>0, <1>3, <1>7, <2>1, RawSet
  <2> QED
    BY <2>2, <2>3, ProcessView
<1>8. /\ {Null, 1, ST_CSOUT} \subseteq RawValue(view)
      /\ Label[view] \subseteq RawValue(view) /\ Null \notin Label[view]
      /\ \A s \in Sample : \A i \in DOMAIN s : view = "hwc" => s[i] \in RawValue(view)
      /\ \A ev \in XtasksEvent :
             view = "xtasks" => idOrVal(ev) \in RawValue(view) /\ idOrVal(ev) # Null
      /\ Null \notin {1, ST_CSOUT}
  BY <1>0, EventValues
<1>9. CASE TableEvent(t)
  BY <1>4, <1>5, <1>6, <1>8, <1>9 DEF TableEvent
<1>10. CASE event_s(t)
  <2>1. PICK ev \in XtasksEvent : \/ Push(t, idOrVal(ev))
                                  \/ Pop(t, idOrVal(ev))
                                  \/ Process(t, Fail(bay))
    BY <1>10 DEF event_s
  <2>2. PICK v : v = idOrVal(ev)
    OBVIOUS
  <2>3. v \in RawValue(view) /\ v # Null
    BY <1>8, <1>10, <2>1, <2>2 DEF event_s
  <2> QED
    BY <1>4, <1>5, <1>6, <2>1, <2>2, <2>3
<1>11. CASE context_switch(t)
  BY <1>5, <1>6, <1>8, <1>11 DEF context_switch
<1>12. CASE pre_flush(t)
  BY <1>7, <1>8, <1>12 DEF pre_flush
<1>13. CASE mark_event(t)
  BY <1>4, <1>5, <1>6, <1>7, <1>8, <1>13 DEF mark_event
<1>14. CASE task_type(t)
  BY <1>7, <1>8, <1>14 DEF task_type
<1>15. CASE hwc_event(t)
  <2>0. view = "hwc" /\ HwcSpec.nch = 2
    BY <1>15 DEF hwc_event, HwcSpec
  <2>1. PICK s \in Sample, jumbo \in BOOLEAN :
          Process(t, IF ~jumbo \/ Len(s) # HwcSpec.nch THEN Fail(bay)
                     ELSE ChanSet(ChanSet(bay, Raw("hwc", t, 1), s[1]), Raw("hwc", t, 2), s[2]))
    BY <1>15 DEF hwc_event
  <2>2. CASE ~jumbo \/ Len(s) # 2
    BY <1>4, <2>0, <2>1, <2>2
  <2>3. CASE jumbo /\ Len(s) = 2
    <3>1. PICK x, y : x = Raw("hwc", t, 1) /\ y = Raw("hwc", t, 2)
      OBVIOUS
    <3>2. x \in OfThreads({view}) /\ y \in OfThreads({view})
      BY <1>1, <2>0, <3>1, Raws
    <3>3. s[1] \in RawValue(view) /\ s[2] \in RawValue(view)
      <4>1. s \in Seq(Int)
        BY ViewsAssumption
      <4>2. 1 \in DOMAIN s /\ 2 \in DOMAIN s
        BY <2>3, <4>1
      <4> QED
        BY <1>8, <2>0, <4>2
    <3>4. PICK b : b = ChanSet(bay, x, s[1])
      OBVIOUS
    <3>5. PICK r : r = ChanSet(b, y, s[2])
      OBVIOUS
    <3>6. Process(t, r)
      BY <2>0, <2>1, <2>3, <3>1, <3>4, <3>5
    <3>7. ASSUME r.ok PROVE ViewWrote(r, st, at)
      <4>1. b.ok
        BY <3>5, <3>7 DEF ChanSet
      <4>2. ViewWrote(b, st, at)
        BY <1>0, <2>0, <3>2, <3>3, <3>4, <4>1, RawSet
      <4> QED
        BY <2>0, <3>2, <3>3, <3>5, <3>7, <4>2, RawSet
    <3> QED
      BY <3>6, <3>7, ProcessView
  <2> QED
    BY <2>2, <2>3
<1> QED
  BY <1>9, <1>10, <1>11, <1>12, <1>13, <1>14, <1>15
  DEF ModelEvent, model_mpi_event, model_tampi_event, model_nodes_event
-----------------------------------------------------------------------------
(* The theorems.                                                           *)

\* Nobody runs in a CPU without threads.
LEMMA NobodyRuns ==
  ASSUME NEW c \in Cpu, NEW states, NEW where, where = [t \in Thread |-> -1]
  PROVE  /\ RunIn(c, states, where) = {} /\ ActIn(c, states, where) = {}
         /\ Core!OnlyOne({}) = -1 /\ Cardinality({}) = 0
<1>1. -1 \notin Cpu
  BY DEF Cpu
<1>2. {t \in Thread : where[t] = c} = {}
  BY <1>1
<1>3. Core!OnlyOne({}) = -1
  BY DEF Core!OnlyOne
<1> QED
  BY <1>2, <1>3, FS_EmptySet DEF RunIn, ActIn, Core!Running, Core!Active

\* The start.
LEMMA ViewStart == Init => VInv
<1> SUFFICES ASSUME Init PROVE VInv
  OBVIOUS
<1>0. /\ view \in View /\ BayInit(EmptyBay(ChansOf(view)), ViewCb(view))
      /\ st = [t \in Thread |-> "unknown"] /\ at = [t \in Thread |-> -1]
  BY DEF Init
<1>1. PICK b, cb : b = EmptyBay(ChansOf(view)) /\ cb = ViewCb(view)
  OBVIOUS
<1>2. /\ BayInv(b) /\ b.ok /\ DOMAIN b.data = ChansOf(view) /\ b.flag = {}
      /\ \A e \in ChansOf(view) : /\ b.data[e] \in {<<>>, <<Null>>} /\ b.last[e] = Null
                                  /\ b.data[e] = <<Null>> => e \notin Stack
  BY <1>1, EmptyInv DEF EmptyBay
<1>3. \A e \in ChansOf(view) : ChanRead(b, e) = Null
  <2> SUFFICES ASSUME NEW e \in ChansOf(view) PROVE ChanRead(b, e) = Null
    OBVIOUS
  <2>1. CASE b.data[e] = <<>>
    BY <2>1 DEF ChanRead
  <2>2. CASE b.data[e] = <<Null>>
    BY <2>2 DEF ChanRead, Last
  <2> QED
    BY <1>2, <2>1, <2>2
<1>4. /\ CbLists(cb) /\ DOMAIN cb = ChansOf(view)
      /\ \A c \in ChansOf(view) : \A y \in ToSet(cb[c]) :
             \E m \in MuxOf(view) : y = SelectCb(m) /\ MuxSel[m] = c
      /\ \A m \in MuxOf(view) : SelectCb(m) \in ToSet(cb[MuxSel[m]])
  BY <1>0, <1>1, ViewCbs
<1>5. /\ bay = b /\ state = "propagating"
      /\ DOMAIN selected = {x \in Mux : {MuxSel[x], MuxOut[x]} \subseteq DOMAIN b.data}
      /\ prv = [c \in Row \cap DOMAIN b.data |-> [set |-> FALSE, last |-> Null,
                                                  line |-> 0, ok |-> TRUE]]
  BY <1>0, <1>1 DEF BayInit
<1>6. DOMAIN selected = MuxOf(view)
  BY <1>0, <1>2, <1>5, MuxOfIs
<1>7. Wired(DOMAIN selected, DOMAIN b.data)
  BY <1>0, <1>2, <1>6, ViewWired
<1>8. \A m \in MuxOf(view) : ChanRead(b, MuxSel[m]) = Null /\ ChanRead(b, MuxOut[m]) = Null
  <2> SUFFICES ASSUME NEW m \in MuxOf(view)
               PROVE  MuxSel[m] \in ChansOf(view) /\ MuxOut[m] \in ChansOf(view)
    BY <1>3
  <2> QED
    BY <1>2, <1>6, <1>7 DEF Wired
<1>9. DOMAIN SortIn = {}
  BY ViewsGraph
<1>10. Sound(ViewValue)
  BY <1>0, <1>1, <1>2, <1>4, <1>6, <1>7, <1>8, <1>9, FlowInit
<1>11. IInv
  BY <1>2, <1>5 DEF IInv
<1>12. ValInv(view, bay)
  <2>1. Null \in RawValue(view)
    BY <1>0, Values
  <2>2. <<>> \in Seq(RawValue(view)) /\ <<Null>> \in Seq(RawValue(view))
    BY <2>1
  <2> QED
    BY <1>2, <1>5, <2>2 DEF ValInv
<1>13. SteepInv(view, bay)
  <2> SUFFICES ASSUME view = "xtasks", NEW e \in OfThreads({view}) PROVE Steep(b.data[e])
    BY <1>5 DEF SteepInv
  <2>1. PICK t \in Thread : \E k \in 1 .. Sp(view).nch : e = Raw(view, t, k)
    BY Raws
  <2>2. PICK k \in 1 .. Sp(view).nch : e = Raw(view, t, k)
    BY <2>1
  <2>3. Sp(view).stack = TRUE
    <3>1. Sp("xtasks") = XtasksSpec
      BY DEF Sp
    <3>2. XtasksSpec.stack = TRUE
      BY DEF XtasksSpec, MpiSpec
    <3> QED
      BY <3>1, <3>2
  <2>4. e \in Stack /\ e \in ChansOf(view)
    BY <1>0, <2>2, <2>3, KindsDiffer
  <2>5. b.data[e] = <<>>
    BY <1>2, <2>4
  <2> QED
    BY <2>5 DEF Steep
<1>14. Fresh(view, bay)
  BY <1>2, <1>5 DEF Fresh
<1>15. RowsInv
  <2>1. Row = ViewRow
    BY ViewsGraph
  <2>2. ASSUME NEW c \in ViewRow \cap ChansOf(view) PROVE RowOk(c, prv[c], bay.last[c])
    <3>1. prv[c] = [set |-> FALSE, last |-> Null, line |-> 0, ok |-> TRUE] /\ bay.last[c] = Null
      BY <1>2, <1>5, <2>1
    <3>2. PICK p : p = [set |-> FALSE, last |-> Null, line |-> 0, ok |-> TRUE]
      OBVIOUS
    <3>3. p.set = FALSE /\ p.line = 0
      BY <3>2
    <3>4. p \in [set : {p.set}, last : {p.last}, line : {p.line}, ok : {TRUE}]
      BY <3>2
    <3>5. RowOk(c, p, Null)
      BY <3>3, <3>4 DEF RowOk, RowVal
    <3> QED
      BY <3>1, <3>2, <3>5
  <2> QED
    BY <1>2, <1>5, <2>1, <2>2 DEF RowsInv
<1>16. Follows(bay, st, at)
  <2>1. \A e \in SysChan : ChanRead(b, e) = Null
    BY <1>3 DEF ChansOf
  <2>2. ASSUME NEW t \in Thread PROVE ThShows(b, t, st, at)
    <3>1. /\ ChanRead(b, <<"state", t>>) = Null /\ ChanRead(b, <<"tid", t>>) = Null
          /\ ChanRead(b, <<"cpu", t>>) = Null
      BY <2>1, SysIs
    <3>2. st[t] = "unknown" /\ at[t] = -1
      BY <1>0
    <3> QED
      BY <3>1, <3>2 DEF ThShows, OrNull, Core!ActiveState
  <2>3. ASSUME NEW c \in Cpu PROVE CpuShows(b, c, st, at)
    <3>1. /\ ChanRead(b, <<"nrun", c>>) = Null /\ ChanRead(b, <<"tidrun", c>>) = Null
          /\ ChanRead(b, <<"thrun", c>>) = Null /\ ChanRead(b, <<"thact", c>>) = Null
      BY <2>1, SysIs
    <3>2. /\ RunIn(c, st, at) = {} /\ ActIn(c, st, at) = {}
          /\ Core!OnlyOne({}) = -1 /\ Cardinality({}) = 0
      BY <1>0, NobodyRuns
    <3> QED
      BY <3>1, <3>2 DEF CpuShows, OrNull, Plain
  <2> QED
    BY <1>5, <2>2, <2>3 DEF Follows
<1>17. st \in [Thread -> DOMAIN Code] /\ at \in [Thread -> Cpu \cup {-1}]
  BY <1>0, Codes
<1>18. ZeroAlone(view, bay)
  <2>1. Null # 0
    BY GraphAssumption
  <2> QED
    BY <1>3, <1>5, <2>1 DEF ZeroAlone, ChansOf
<1> QED
  BY <1>0, <1>2, <1>5, <1>6, <1>10, <1>11, <1>12, <1>13, <1>14, <1>15, <1>16, <1>17, <1>18 DEF VInv

\* The invariant of the timelines, in every behaviour: the muxes flow, the channels of
\* threads and CPUs follow their states and no row refuses a value other than a zero of
\* XTasks, with which the emulator stops.
THEOREM ViewsFlow == Spec => []ViewsInv
<1>1. Init => ViewsInv
  BY ViewStart DEF ViewsInv
<1>2. ViewsInv /\ [Next]_viewVars => ViewsInv'
  <2> SUFFICES ASSUME ViewsInv, [Next]_viewVars PROVE ViewsInv'
    OBVIOUS
  <2>1. CASE Event
    <3>1. state = "ready" /\ VInv
      BY <2>1 DEF Event, ViewsInv
    <3> QED
      BY <2>1, <3>1, ThreadEventView, ModelEventView DEF Event
  <2>2. CASE Step
    <3>1. VInv
      BY <2>2 DEF Step, Propagate, RunMux, RunSort, WriteOutput, EmitAndFlush, Walking, ViewsInv
    <3>2. ASSUME EmitAndFlush, ZeroShown PROVE ViewsInv'
      BY <2>2, <3>1, <3>2, ZeroStops DEF Step, ViewsInv
    <3>3. ASSUME RunMux \/ (EmitAndFlush /\ ~ZeroShown) PROVE VInv'
      BY <2>2, <3>1, <3>3, ViewRunMux, ViewEmit DEF Step
    <3> QED
      BY <2>2, <3>1, <3>2, <3>3, NoSort DEF Step, Propagate, ViewsInv
  <2>3. ASSUME NEW linter \in BOOLEAN, Finish(linter) PROVE UNCHANGED <<vars, view, st, at, accepted>>
    BY <2>3 DEF Finish
  <2>4. CASE UNCHANGED <<vars, view, st, at, accepted>>
    <3>1. UNCHANGED vars /\ UNCHANGED <<bay, selected, prv, state, view, st, at, accepted>>
      BY <2>4 DEF vars, graphVars
    <3>2. ASSUME VInv PROVE VInv'
      <4>1. Sound(ViewValue)'
        BY <3>1, <3>2, SoundSame DEF VInv
      <4>2. IInv' /\ RowsInv' /\ Follows(bay, st, at)'
        BY <3>1, <3>2 DEF VInv, IInv, RowsInv
      <4> QED
        BY <3>1, <3>2, <4>1, <4>2 DEF VInv
    <3>3. ZeroShown => ZeroShown'
      BY <3>1 DEF ZeroShown
    <3> QED
      BY <3>1, <3>2, <3>3 DEF ViewsInv
  <2>5. CASE UNCHANGED viewVars
    BY <2>5, <2>4 DEF viewVars
  <2> QED
    BY <2>1, <2>2, <2>3, <2>4, <2>5 DEF Next
<1> QED
  BY <1>1, <1>2, PTL DEF Spec

\* No event that a handler accepts stops the emulator in the propagation: no channel
\* refuses a write of a mux, no select function fails and no row refuses a duplicate or
\* a zero (chan.c, mux.c and prv.c with the tracks of model_thread.c and model_cpu.c),
\* except the zero of an XTasks event, the only one that event_s() lets through.
THEOREM ViewsRun == Spec => []NoPanic
<1>1. ViewsInv => NoPanic
  BY DEF ViewsInv, VInv, NoPanic
<1> QED
  BY <1>1, ViewsFlow, PTL

\* What a mux shows in a state between two events.
LEMMA MuxShows ==
  ASSUME VInv, state = "ready", NEW m \in MuxOf(view), NEW key, key = ChanRead(bay, MuxSel[m]),
         key \in ViewKey
  PROVE  \/ key = Null /\ ChanRead(bay, m) = Null
         \/ \E ins : /\ ViewSelect(m, key, ins) = 0 => ChanRead(bay, m) = Null
                     /\ ViewSelect(m, key, ins) # 0 =>
                            ChanRead(bay, m) = ChanRead(bay, MuxIn[m][ViewSelect(m, key, ins)])
<1>0. /\ view \in View /\ IInv /\ Sound(ViewValue) /\ m \in DOMAIN selected
      /\ MuxOut[m] = m /\ MuxDef[m] = Null
  BY MuxGraph DEF VInv
<1>1. /\ MuxFollows
      /\ Settled(m) => Chosen(m, ViewValue)
      /\ ~Settled(m) => ChanRead(bay, MuxSel[m]) = Null /\ ChanRead(bay, MuxOut[m]) = Null
  BY <1>0, SoundReady
<1>2. CASE ~Settled(m)
  BY <1>0, <1>1, <1>2
<1>3. CASE Settled(m)
  <2>1. PICK ins \in [DOMAIN MuxIn[m] -> ViewValue] : selected[m] = Select(m, key, ins)
    BY <1>1, <1>3 DEF Chosen
  <2>2. m \in ViewMux /\ MuxIn[m] = ViewIn[m]
    BY ViewsGraph DEF MuxOf
  <2>3. selected[m] = ViewSelect(m, key, ins)
    BY <2>1, <2>2, ViewsGraph
  <2>4. ChanRead(bay, MuxOut[m]) =
            IF selected[m] = 0 THEN MuxDef[m] ELSE ChanRead(bay, MuxIn[m][selected[m]])
    BY <1>0, <1>1, <1>3 DEF MuxFollows
  <2> QED
    BY <1>0, <2>3, <2>4
<1> QED
  BY <1>2, <1>3

\* The row of a channel shows it between events.
LEMMA RowShows ==
  ASSUME VInv, state = "ready", NEW e \in DOMAIN prv, e \notin SysRow
  PROVE  prv[e].line = Plain(ChanRead(bay, e))
<1>0. view \in View /\ e \in ViewRow \cap ChansOf(view) /\ RowOk(e, prv[e], bay.last[e])
  BY DEF VInv, RowsInv
<1>1. bay.last[e] = ChanRead(bay, e)
  BY <1>0, InvClean DEF VInv, CleanWhenReady
<1>2. PrvFlags[e] = Sp(view).flags
  BY <1>0, RowFlags
<1>3. "next" \notin Sp(view).flags
  BY <1>0, SpecIs
<1> QED
  BY <1>0, <1>1, <1>2, <1>3 DEF RowOk, RowVal, Plain

\* The row of a thread.
LEMMA ThreadRow ==
  ASSUME VInv, state = "ready", NEW t \in Thread, NEW k \in 1 .. Sp(view).nch
  PROVE  prv[ThRow(view, t, k)].line =
            IF ShownInThread(t) THEN Plain(ChanRead(bay, Raw(view, t, k))) ELSE 0
<1>0. /\ view \in View /\ Follows(bay, st, at) /\ st \in [Thread -> DOMAIN Code]
      /\ DOMAIN prv = ViewRow \cap ChansOf(view) /\ Null \notin Int
      /\ Sp(view).track \in {"run", "act", "any"}
  BY SpecIs, GraphAssumption DEF VInv, RowsInv
<1>1. PICK raw : raw = Raw(view, t, k)
  OBVIOUS
<1>2. CASE Sp(view).track = "any"
  <2>1. ThRow(view, t, k) = raw /\ ShownInThread(t) = TRUE
    <3>1. ThRow(view, t, k) = raw
      BY <1>1, <1>2 DEF ThRow
    <3>2. ShownInThread(t)
      BY <1>2 DEF ShownInThread
    <3> QED
      BY <3>1, <3>2 DEF ShownInThread
  <2>2. raw \in OfThreads({w \in View : Sp(w).track = "any"}) /\ raw \in ChansOf(view) /\ raw \notin SysChan
    <3>1. raw \in OfThreads({w \in View : Sp(w).track = "any"})
      BY <1>0, <1>1, <1>2, Raws
    <3> QED
      BY <1>0, <1>1, <3>1, KindsDiffer
  <2>3. raw \in DOMAIN prv /\ raw \notin SysRow
    BY <1>0, <2>2 DEF ViewRow, SysRow, SysChan
  <2> QED
    BY <1>1, <2>1, <2>3, RowShows
<1>3. CASE Sp(view).track \in {"run", "act"}
  <2>1. PICK m : m = ThOut(view, t, k)
    OBVIOUS
  <2>2. m \in MuxOf(view) /\ m[2] = "thread" /\ m[3] = t /\ m[4] = k /\ m[1] = view
    <3>1. m \in MuxOf(view)
      BY <1>0, <1>3, <2>1, Muxes
    <3> QED
      BY <2>1, <3>1 DEF ThOut
  <2>3. MuxSel[m] = <<"state", t>> /\ MuxIn[m] = <<raw>>
    BY <1>0, <1>1, <2>2, MuxGraph
  <2>4. PICK key : key = ChanRead(bay, <<"state", t>>)
    OBVIOUS
  <2>5. key \in ViewKey /\ key = IF st[t] = "unknown" THEN Null ELSE Code[st[t]]
    BY <1>0, <2>4, Keys DEF Follows, ThShows
  <2>6. ThRow(view, t, k) = m /\ m \in DOMAIN prv /\ m \notin SysRow
    <3>1. ThRow(view, t, k) = m
      BY <1>3, <2>1 DEF ThRow
    <3>2. m \in ViewMux /\ m \in ChansOf(view) /\ m \notin SysChan
      BY <1>0, <2>2, KindsDiffer DEF MuxOf
    <3> QED
      BY <1>0, <3>1, <3>2 DEF ViewRow, SysRow, SysChan
  <2>7. prv[m].line = Plain(ChanRead(bay, m))
    BY <2>6, RowShows
  <2>8. st[t] \in DOMAIN Code
    BY <1>0
  <2>9. \/ key = Null /\ ChanRead(bay, m) = Null
        \/ \E ins : /\ ViewSelect(m, key, ins) = 0 => ChanRead(bay, m) = Null
                    /\ ViewSelect(m, key, ins) # 0 =>
                           ChanRead(bay, m) = ChanRead(bay, MuxIn[m][ViewSelect(m, key, ins)])
    BY <2>2, <2>3, <2>4, <2>5, MuxShows
  <2>10. \A ins : ViewSelect(m, key, ins) = IF ShownInThread(t) THEN 1 ELSE 0
    <3>1. CASE Sp(view).track = "run"
      <4>1. key = Code["running"] <=> st[t] = "running"
        BY <1>0, <2>5, <2>8, Codes
      <4> QED
        BY <2>2, <3>1, <4>1 DEF ViewSelect, thread_select_running, ShownInThread
    <3>2. CASE Sp(view).track = "act"
      <4>1. key \in {Code["running"], Code["cooling"], Code["warming"]} <=>
                st[t] \in {"running", "cooling", "warming"}
        BY <1>0, <2>5, <2>8, Codes
      <4> QED
        BY <2>2, <3>2, <4>1 DEF ViewSelect, thread_select_active, ShownInThread, Core!ActiveState
    <3> QED
      BY <1>3, <3>1, <3>2
  <2>11. key = Null => ~ShownInThread(t)
    <3>1. key = Null => st[t] = "unknown"
      BY <1>0, <2>5, <2>8, Codes
    <3> QED
      BY <1>3, <3>1 DEF ShownInThread, Core!ActiveState
  <2>12. ChanRead(bay, m) = IF ShownInThread(t) THEN ChanRead(bay, raw) ELSE Null
    <3>1. MuxIn[m][1] = raw
      BY <2>3
    <3>2. CASE key = Null /\ ChanRead(bay, m) = Null
      BY <2>11, <3>2
    <3>3. ASSUME NEW ins, /\ ViewSelect(m, key, ins) = 0 => ChanRead(bay, m) = Null
                          /\ ViewSelect(m, key, ins) # 0 =>
                                ChanRead(bay, m) = ChanRead(bay, MuxIn[m][ViewSelect(m, key, ins)])
          PROVE  ChanRead(bay, m) = IF ShownInThread(t) THEN ChanRead(bay, raw) ELSE Null
      <4>1. ViewSelect(m, key, ins) = IF ShownInThread(t) THEN 1 ELSE 0
        BY <2>10
      <4> QED
        BY <3>1, <3>3, <4>1
    <3> QED
      BY <2>9, <3>2, <3>3
  <2> QED
    BY <1>1, <2>6, <2>7, <2>12 DEF Plain
<1> QED
  BY <1>0, <1>2, <1>3

\* The row of a CPU.
LEMMA CpuRow ==
  ASSUME VInv, state = "ready", NEW c \in Cpu, NEW k \in 1 .. Sp(view).nch, Sp(view).cpu,
         NEW r, r = Core!OnlyOne(RunIn(c, st, at))
  PROVE  prv[CpuOut(view, c, k)].line =
            IF r = -1 THEN 0 ELSE Plain(ChanRead(bay, Raw(view, r, k)))
<1>0. /\ view \in View /\ Follows(bay, st, at) /\ st \in [Thread -> DOMAIN Code]
      /\ DOMAIN prv = ViewRow \cap ChansOf(view) /\ Null \notin Int
  BY GraphAssumption DEF VInv, RowsInv
<1>1. PICK m : m = CpuOut(view, c, k)
  OBVIOUS
<1>2. m \in MuxOf(view) /\ m[2] = "cpu" /\ m[3] = c /\ m[4] = k /\ m[1] = view
  <2>1. m \in MuxOf(view)
    BY <1>0, <1>1, Muxes
  <2> QED
    BY <1>1, <2>1 DEF CpuOut
<1>3. MuxSel[m] = <<"thrun", c>> /\ MuxIn[m] = [i \in 1 .. NThreads |-> Raw(view, i - 1, k)]
  <2>1. MuxSel[m] = <<"thrun", m[3]>>
    BY <1>0, <1>2, MuxGraph
  <2>2. MuxIn[m] = [i \in 1 .. NThreads |-> Raw(view, i - 1, m[4])]
    BY <1>0, <1>2, MuxGraph
  <2>3. m[4] = k /\ m[3] = c
    BY <1>2
  <2>4. MuxSel[m] = <<"thrun", c>>
    BY <2>1, <2>3
  <2>5. MuxIn[m] = [i \in 1 .. NThreads |-> Raw(view, i - 1, k)]
    BY <2>2, <2>3
  <2> QED
    BY <2>4, <2>5
<1>4. PICK key : key = ChanRead(bay, <<"thrun", c>>)
  OBVIOUS
<1>5. key \in ViewKey /\ key = OrNull(r)
  <2>1. key \in {Null} \cup Thread /\ {Null} \cup Thread \subseteq ViewKey
    BY <1>0, <1>4, Keys
  <2>2. CpuShows(bay, c, st, at)
    BY <1>0 DEF Follows
  <2>3. key = OrNull(r)
    BY <1>4, <2>2 DEF CpuShows
  <2> QED
    BY <2>1, <2>3, Zenon
<1>6. r \in Thread \cup {-1}
  <2>1. RunIn(c, st, at) \subseteq Thread
    BY DEF RunIn, Core!Running
  <2> QED
    BY <2>1, OnlyOneIs
<1>7. m \in DOMAIN prv /\ m \notin SysRow
  <2>1. m \in ViewMux /\ m \in ChansOf(view) /\ m \notin SysChan
    BY <1>0, <1>2, KindsDiffer DEF MuxOf
  <2> QED
    BY <1>0, <2>1 DEF ViewRow, SysRow, SysChan
<1>8. prv[m].line = Plain(ChanRead(bay, m))
  BY <1>7, RowShows
<1>9. \/ key = Null /\ ChanRead(bay, m) = Null
      \/ \E ins : /\ ViewSelect(m, key, ins) = 0 => ChanRead(bay, m) = Null
                  /\ ViewSelect(m, key, ins) # 0 =>
                         ChanRead(bay, m) = ChanRead(bay, MuxIn[m][ViewSelect(m, key, ins)])
  <2>1. key = ChanRead(bay, MuxSel[m])
    BY <1>3, <1>4
  <2>2. m \in MuxOf(view) /\ key \in ViewKey
    BY <1>2, <1>5
  <2> QED
    BY <2>1, <2>2, MuxShows
<1>10. \A ins : ViewSelect(m, key, ins) = DefaultSelect(m, key)
  BY <1>2 DEF ViewSelect
<1>11. CASE r = -1
  <2>1. key = Null
    BY <1>5, <1>11 DEF OrNull
  <2>2. DefaultSelect(m, key) = 0
    BY <2>1 DEF DefaultSelect
  <2>3. ChanRead(bay, m) = Null
    BY <1>9, <1>10, <2>2
  <2> QED
    BY <1>1, <1>8, <1>11, <2>3 DEF Plain
<1>12. CASE r \in Thread /\ r # -1
  <2>1. key = r /\ key # Null /\ r \in Int /\ r + 1 \in 1 .. NThreads /\ (r + 1) - 1 = r /\ r + 1 # 0
    BY <1>0, <1>5, <1>12, ViewsAssumption DEF OrNull, Thread
  <2>2. DOMAIN MuxIn[m] = 1 .. NThreads /\ MuxIn[m][r + 1] = Raw(view, r, k)
    BY <1>3, <2>1
  <2>3. DefaultSelect(m, key) = r + 1
    BY <2>1, <2>2 DEF DefaultSelect
  <2>4. ChanRead(bay, m) = ChanRead(bay, Raw(view, r, k))
    BY <1>9, <1>10, <2>1, <2>2, <2>3
  <2> QED
    BY <1>1, <1>8, <1>12, <2>4
<1> QED
  BY <1>6, <1>11, <1>12, OnlyOneIs

\* After every event the rows of threads and CPUs show the channel of the model exactly
\* in the states and for the threads that their tracks want, for any number of threads
\* and CPUs (track.c, model_thread.c and model_cpu.c).
THEOREM ViewsShown == Spec => []ViewShows
<1>1. ViewsInv => ViewShows
  <2> SUFFICES ASSUME ViewsInv, state = "ready", NEW k \in 1 .. Sp(view).nch
               PROVE  /\ \A t \in Thread :
                            prv[ThRow(view, t, k)].line =
                              IF ShownInThread(t) THEN Plain(ChanRead(bay, Raw(view, t, k))) ELSE 0
                      /\ Sp(view).cpu => \A c \in Cpu :
                            LET r == Core!OnlyOne(Core!Running({t \in Thread : at[t] = c}, st))
                            IN  prv[CpuOut(view, c, k)].line =
                                  IF r = -1 THEN 0 ELSE Plain(ChanRead(bay, Raw(view, r, k)))
    BY DEF ViewShows
  <2>0. VInv
    BY DEF ViewsInv
  <2>1. \A t \in Thread : prv[ThRow(view, t, k)].line =
            IF ShownInThread(t) THEN Plain(ChanRead(bay, Raw(view, t, k))) ELSE 0
    BY <2>0, ThreadRow
  <2>2. ASSUME Sp(view).cpu, NEW c \in Cpu, NEW r,
               r = Core!OnlyOne(Core!Running({t \in Thread : at[t] = c}, st))
        PROVE  prv[CpuOut(view, c, k)].line =
                  IF r = -1 THEN 0 ELSE Plain(ChanRead(bay, Raw(view, r, k)))
    <3>1. r = Core!OnlyOne(RunIn(c, st, at))
      BY <2>2 DEF RunIn
    <3> QED
      BY <2>0, <2>2, <3>1, CpuRow
  <2> QED
    BY <2>1, <2>2
<1> QED
  BY <1>1, ViewsFlow, PTL
-----------------------------------------------------------------------------
(* The trace is a behaviour of ThreadCpu.                                  *)

\* The threads of a CPU, those that run and those that are active, and the only one.
On(a, c) == {u \in Thread : a[u] = c}
RunSet(s, a, c) == {u \in Thread : a[u] = c /\ s[u] = "running"}
ActSet(s, a, c) == {u \in Thread : a[u] = c /\ s[u] \in {"running", "cooling", "warming"}}
Single(S) == IF \E t \in S : S = {t} THEN CHOOSE t \in S : TRUE ELSE -1

\* What the two instances of ThreadCpu call so.
LEMMA SameSets ==
  ASSUME NEW s, NEW a, NEW c
  PROVE  /\ RunIn(c, s, a) = RunSet(s, a, c) /\ ActIn(c, s, a) = ActSet(s, a, c)
         /\ Trace!Running(On(a, c), s) = RunSet(s, a, c)
         /\ Trace!Active(On(a, c), s) = ActSet(s, a, c)
  BY DEF RunIn, ActIn, RunSet, ActSet, On, Core!Running, Core!Active, Core!ActiveState,
     Trace!Running, Trace!Active, Trace!ActiveState

\* The thread that a CPU shows.
LEMMA SameOne ==
  ASSUME NEW S
  PROVE  Core!OnlyOne(S) = Single(S) /\ Trace!OnlyOne(S) = Single(S)
  BY DEF Core!OnlyOne, Trace!OnlyOne, Single

\* The cardinality that each instance takes from FiniteSets.
LEMMA SameCardinality ==
  ASSUME NEW S
  PROVE  Core!Cardinality(S) = Cardinality(S) /\ Trace!Cardinality(S) = Cardinality(S)
<1>1. Core!Cardinality(S) = Cardinality(S)
  BY DEF Core!Cardinality, Cardinality
<1>2. Trace!Cardinality(S) = Cardinality(S)
  BY DEF Trace!Cardinality, Cardinality
<1> QED
  BY <1>1, <1>2

\* cpu_update() accepts the threads of S in the CPU.
Fits(c, S, s) == c \in VirtualCpu \/ Cardinality({u \in S : s[u] = "running"}) <= 1

\* It is the condition of ThreadCpu.
LEMMA SameFits ==
  ASSUME NEW c, NEW S, NEW s
  PROVE  /\ Core!Schedulable(c, S, s) <=> Fits(c, S, s)
         /\ Trace!Schedulable(c, S, s) <=> Fits(c, S, s)
<1>1. Core!Running(S, s) = {u \in S : s[u] = "running"} /\ Trace!Running(S, s) = {u \in S : s[u] = "running"}
  BY DEF Core!Running, Trace!Running
<1> QED
  BY <1>1, SameCardinality DEF Core!Schedulable, Trace!Schedulable, Fits

-----------------------------------------------------------------------------
\* What an event does to the states s, the CPUs a, and the threads out of their CPU (k)
\* and flushing (f).
Executes(t, c, s, a, s1, a1) ==
    /\ s[t] # "running" /\ a[t] = -1 /\ Fits(c, On(a, c) \cup {t}, s1)
    /\ s1 = [s EXCEPT ![t] = "running"] /\ a1 = [a EXCEPT ![t] = c]
Ends(t, s, a, s1, a1) ==
    /\ s[t] \in {"running", "cooling"} /\ a[t] # -1 /\ Fits(a[t], On(a, a[t]) \ {t}, s1)
    /\ s1 = [s EXCEPT ![t] = "dead"] /\ a1 = [a EXCEPT ![t] = -1]
Switches(t, from, to, s, a, s1, a1) ==
    /\ s[t] \in from /\ a[t] # -1 /\ Fits(a[t], On(a, a[t]), s1)
    /\ s1 = [s EXCEPT ![t] = to] /\ a1 = a
Migrates(t, c, s, a, s1, a1) ==
    /\ a[t] # -1 /\ a[t] # c /\ Fits(a[t], On(a, a[t]) \ {t}, s) /\ Fits(c, On(a, c) \cup {t}, s)
    /\ s1 = s /\ a1 = [a EXCEPT ![t] = c]
Moves(t, s, a, s1, a1) ==
    \/ \E c \in Cpu : Executes(t, c, s, a, s1, a1)
    \/ Ends(t, s, a, s1, a1)
    \/ Switches(t, {"running", "cooling"}, "paused", s, a, s1, a1)
    \/ Switches(t, {"paused", "warming"}, "running", s, a, s1, a1)
    \/ Switches(t, {"running"}, "cooling", s, a, s1, a1)
    \/ Switches(t, {"paused"}, "warming", s, a, s1, a1)
    \/ \E c \in Cpu : s[t] \in {"running", "cooling", "warming"} /\ Migrates(t, c, s, a, s1, a1)
    \/ \E r \in Thread, c \in Cpu : s[r] \notin {"dead", "unknown"} /\ Migrates(r, c, s, a, s1, a1)
Flips(t, x, x1) == \E on \in BOOLEAN : x[t] # on /\ x1 = [x EXCEPT ![t] = on]
Change(s, a, k, f, s1, a1, k1, f1) ==
    \/ s1 = s /\ a1 = a /\ k1 = k /\ f1 = f
    \/ \E t \in Thread : k1 = k /\ f1 = f /\ ~k[t] /\ Moves(t, s, a, s1, a1)
    \/ \E t \in Thread : s1 = s /\ a1 = a /\ k1 = k /\ ~k[t] /\ Flips(t, f, f1)
    \/ \E t \in Thread : s1 = s /\ a1 = a /\ f1 = f /\ Flips(t, k, k1)

Typed(s, a, k, f) ==
    /\ s \in [Thread -> DOMAIN Code] /\ a \in [Thread -> Cpu \cup {-1}]
    /\ k \in [Thread -> BOOLEAN] /\ f \in [Thread -> BOOLEAN]

\* The rows say s, a, k and f.
RowsSay(s, a, k, f) ==
    /\ RowState = s /\ RowCpu = a /\ RowOut = k /\ RowFlush = f
    /\ RowThreads = [c \in Cpu |-> On(a, c)]
    /\ RowNth = [c \in Cpu |-> Cardinality(RunSet(s, a, c))]
    /\ RowRunning = [c \in Cpu |-> Single(RunSet(s, a, c))]
    /\ RowActive = [c \in Cpu |-> Single(ActSet(s, a, c))]

\* The threads of the CPUs out of C.
Elsewhere(s, a, s1, a1, C) ==
    \A d \in Cpu \ C : RunSet(s1, a1, d) = RunSet(s, a, d) /\ ActSet(s1, a1, d) = ActSet(s, a, d)

\* The rows of the CPUs, when the threads only change in those of C.
CpusUpdated(C, ths, s) ==
    /\ RowNth' = [c \in Cpu |-> IF c \in C THEN Trace!Cardinality(Trace!Running(ths[c], s))
                                ELSE RowNth[c]]
    /\ RowRunning' = [c \in Cpu |-> IF c \in C THEN Trace!OnlyOne(Trace!Running(ths[c], s))
                                    ELSE RowRunning[c]]
    /\ RowActive' = [c \in Cpu |-> IF c \in C THEN Trace!OnlyOne(Trace!Active(ths[c], s))
                                   ELSE RowActive[c]]

\* cpu_update() of the CPUs of C explains the rows of all the CPUs.
LEMMA CpusFollow ==
  ASSUME NEW s, NEW a, NEW k, NEW f, NEW s1, NEW a1, NEW k1, NEW f1,
         RowsSay(s, a, k, f), RowsSay(s1, a1, k1, f1)', NEW C,
         Elsewhere(s, a, s1, a1, C), NEW ths, ths = [c \in Cpu |-> On(a1, c)]
  PROVE  CpusUpdated(C, ths, s1)
<1>1. \A c \in Cpu : /\ Trace!Cardinality(Trace!Running(ths[c], s1)) = Cardinality(RunSet(s1, a1, c))
                     /\ Trace!OnlyOne(Trace!Running(ths[c], s1)) = Single(RunSet(s1, a1, c))
                     /\ Trace!OnlyOne(Trace!Active(ths[c], s1)) = Single(ActSet(s1, a1, c))
  BY SameSets, SameOne, SameCardinality
<1>2. /\ RowNth' = [c \in Cpu |-> Cardinality(RunSet(s1, a1, c))]
      /\ RowRunning' = [c \in Cpu |-> Single(RunSet(s1, a1, c))]
      /\ RowActive' = [c \in Cpu |-> Single(ActSet(s1, a1, c))]
  BY DEF RowsSay
<1>3. /\ RowNth = [c \in Cpu |-> Cardinality(RunSet(s, a, c))]
      /\ RowRunning = [c \in Cpu |-> Single(RunSet(s, a, c))]
      /\ RowActive = [c \in Cpu |-> Single(ActSet(s, a, c))]
  BY DEF RowsSay
<1> QED
  BY <1>1, <1>2, <1>3 DEF CpusUpdated, Elsewhere

\* The lists of threads after the thread t leaves its CPU for c.
ListsMoved(a, a1, t, c) ==
    /\ c \in Cpu => On(a1, c) = On(a, c) \cup {t}
    /\ a[t] # c => On(a1, a[t]) = On(a, a[t]) \ {t}
    /\ \A d \in Cpu \ {a[t], c} : On(a1, d) = On(a, d)

\* They are those of the CPU pointers.
LEMMA ListsMove ==
  ASSUME NEW a \in [Thread -> Cpu \cup {-1}], NEW t \in Thread, NEW c, NEW a1,
         a1 = [a EXCEPT ![t] = c]
  PROVE  ListsMoved(a, a1, t, c)
  BY DEF On, ListsMoved

\* They are the same if only one thread moves.
LEMMA OthersStay ==
  ASSUME NEW s, NEW a, NEW s1, NEW a1, NEW t \in Thread,
         \A u \in Thread : u # t => s1[u] = s[u] /\ a1[u] = a[u]
  PROVE  Elsewhere(s, a, s1, a1, {a[t], a1[t]})
  BY DEF RunSet, ActSet, Elsewhere

\* Every index is of the only loom, and every TID of the only process.
LEMMA OneLoom ==
  ASSUME NEW t \in Thread
  PROVE  /\ Trace!LoomCpu(t) = Cpu /\ Core!LoomCpu(t) = Cpu
         /\ \A r \in Thread : r \in Trace!RemoteThread(t, [u \in Thread |-> u + 1][r])
<1>1. Trace!LoomCpu(t) = Cpu /\ Core!LoomCpu(t) = Cpu
  BY DEF Trace!LoomCpu, Core!LoomCpu
<1>2. ASSUME NEW r \in Thread PROVE r \in Trace!RemoteThread(t, [u \in Thread |-> u + 1][r])
  BY DEF Trace!RemoteThread
<1> QED
  BY <1>1, <1>2

\* OHx
LEMMA ExecuteTrace ==
  ASSUME NEW s, NEW a, NEW k, NEW f, NEW s1, NEW a1, NEW k1, NEW f1, Typed(s, a, k, f),
         RowsSay(s, a, k, f), RowsSay(s1, a1, k1, f1)', RowEmu = "run", RowEmu' = "run",
         NEW t \in Thread, NEW c \in Cpu, k1 = k, f1 = f, ~k[t], Executes(t, c, s, a, s1, a1)
  PROVE  Trace!pre_thread_execute(t, c)
<1>0. /\ s \in [Thread -> DOMAIN Code] /\ a \in [Thread -> Cpu \cup {-1}]
      /\ s[t] # "running" /\ a[t] = -1 /\ Fits(c, On(a, c) \cup {t}, s1)
      /\ s1 = [s EXCEPT ![t] = "running"] /\ a1 = [a EXCEPT ![t] = c]
  BY DEF Typed, Executes
<1>1. /\ RowState = s /\ RowCpu = a /\ RowOut = k /\ RowFlush = f
      /\ RowThreads = [d \in Cpu |-> On(a, d)]
      /\ RowState' = s1 /\ RowCpu' = a1 /\ RowOut' = k /\ RowFlush' = f
      /\ RowThreads' = [d \in Cpu |-> On(a1, d)]
  BY DEF RowsSay
<1>2. c # a[t] /\ t \notin On(a, c)
  BY <1>0 DEF On, Cpu
<1>3. Trace!CanExecute(t, c)
  <2>1. Trace!Schedulable(c, RowThreads[c] \cup {t}, [RowState EXCEPT ![t] = "running"])
    BY <1>0, <1>1, SameFits
  <2> QED
    BY <1>0, <1>1, <1>2, <2>1, OneLoom DEF Trace!CanExecute, Trace!CanEmit
<1>4. RowThreads' = [RowThreads EXCEPT ![c] = @ \cup {t}]
  <2>1. /\ On(a1, c) = On(a, c) \cup {t}
        /\ \A d \in Cpu \ {c} : On(a1, d) = On(a, d)
    <3>1. a[t] \notin Cpu
      BY <1>0 DEF Cpu
    <3>2. ListsMoved(a, a1, t, c)
      BY <1>0, ListsMove
    <3> QED
      BY <1>0, <3>1, <3>2 DEF ListsMoved
  <2> QED
    BY <1>1, <2>1
<1>5. CpusUpdated({c}, RowThreads', RowState')
  <2>1. PICK ths : ths = [d \in Cpu |-> On(a1, d)]
    OBVIOUS
  <2>2. Elsewhere(s, a, s1, a1, {c})
    <3>1. a[t] \notin Cpu /\ a1[t] = c
      BY <1>0 DEF Cpu
    <3>2. Elsewhere(s, a, s1, a1, {a[t], a1[t]})
      <4>1. \A u \in Thread : u # t => s1[u] = s[u] /\ a1[u] = a[u]
        BY <1>0
      <4> QED
        BY <4>1, OthersStay
    <3> QED
      BY <3>1, <3>2 DEF Elsewhere
  <2>3. CpusUpdated({c}, ths, s1)
    BY <2>1, <2>2, CpusFollow
  <2> QED
    BY <1>1, <2>1, <2>3 DEF CpusUpdated
<1> QED
  BY <1>0, <1>1, <1>3, <1>4, <1>5 DEF Trace!pre_thread_execute, Trace!CpuUpdate, CpusUpdated, Trace!localVars

\* OHe
LEMMA EndTrace ==
  ASSUME NEW s, NEW a, NEW k, NEW f, NEW s1, NEW a1, NEW k1, NEW f1, Typed(s, a, k, f),
         RowsSay(s, a, k, f), RowsSay(s1, a1, k1, f1)', RowEmu = "run", RowEmu' = "run",
         NEW t \in Thread, k1 = k, f1 = f, ~k[t], Ends(t, s, a, s1, a1)
  PROVE  Trace!pre_thread_end(t)
<1>0. /\ s \in [Thread -> DOMAIN Code] /\ a \in [Thread -> Cpu \cup {-1}]
      /\ s[t] \in {"running", "cooling"} /\ a[t] # -1 /\ Fits(a[t], On(a, a[t]) \ {t}, s1)
      /\ s1 = [s EXCEPT ![t] = "dead"] /\ a1 = [a EXCEPT ![t] = -1]
  BY DEF Typed, Ends
<1>1. /\ RowState = s /\ RowCpu = a /\ RowOut = k /\ RowFlush = f
      /\ RowThreads = [d \in Cpu |-> On(a, d)]
      /\ RowState' = s1 /\ RowCpu' = a1 /\ RowOut' = k /\ RowFlush' = f
      /\ RowThreads' = [d \in Cpu |-> On(a1, d)]
  BY DEF RowsSay
<1>2. a[t] \in Cpu /\ t \in On(a, a[t]) /\ -1 \notin Cpu
  BY <1>0 DEF On, Cpu
<1>3. Trace!CanEnd(t)
  <2>1. Trace!Schedulable(RowCpu[t], RowThreads[RowCpu[t]] \ {t}, [RowState EXCEPT ![t] = "dead"])
    BY <1>0, <1>1, <1>2, SameFits
  <2> QED
    BY <1>0, <1>1, <1>2, <2>1 DEF Trace!CanEnd, Trace!CanEmit
<1>4. RowThreads' = [RowThreads EXCEPT ![RowCpu[t]] = @ \ {t}]
  <2>1. ListsMoved(a, a1, t, -1)
    BY <1>0, ListsMove
  <2>2. /\ On(a1, a[t]) = On(a, a[t]) \ {t}
        /\ \A d \in Cpu \ {a[t]} : On(a1, d) = On(a, d)
    BY <1>0, <1>2, <2>1 DEF ListsMoved
  <2> QED
    BY <1>1, <1>2, <2>2
<1>5. CpusUpdated({RowCpu[t]}, RowThreads', RowState')
  <2>1. PICK ths : ths = [d \in Cpu |-> On(a1, d)]
    OBVIOUS
  <2>2. Elsewhere(s, a, s1, a1, {a[t]})
    <3>1. a1[t] = -1
      BY <1>0
    <3>2. Elsewhere(s, a, s1, a1, {a[t], a1[t]})
      <4>1. \A u \in Thread : u # t => s1[u] = s[u] /\ a1[u] = a[u]
        BY <1>0
      <4> QED
        BY <4>1, OthersStay
    <3> QED
      BY <1>2, <3>1, <3>2 DEF Elsewhere
  <2>3. CpusUpdated({a[t]}, ths, s1)
    BY <2>1, <2>2, CpusFollow
  <2> QED
    BY <1>1, <2>1, <2>3 DEF CpusUpdated
<1> QED
  BY <1>0, <1>1, <1>3, <1>4, <1>5 DEF Trace!pre_thread_end, Trace!CpuUpdate, CpusUpdated, Trace!localVars

\* OHp, OHr, OHc and OHw
LEMMA SwitchTrace ==
  ASSUME NEW s, NEW a, NEW k, NEW f, NEW s1, NEW a1, NEW k1, NEW f1, Typed(s, a, k, f),
         RowsSay(s, a, k, f), RowsSay(s1, a1, k1, f1)', RowEmu = "run", RowEmu' = "run",
         NEW t \in Thread, k1 = k, f1 = f, ~k[t], NEW from, NEW to,
         Switches(t, from, to, s, a, s1, a1)
  PROVE  Trace!Switch(t, from, to)
<1>0. /\ s \in [Thread -> DOMAIN Code] /\ a \in [Thread -> Cpu \cup {-1}]
      /\ s[t] \in from /\ a[t] # -1 /\ Fits(a[t], On(a, a[t]), s1)
      /\ s1 = [s EXCEPT ![t] = to] /\ a1 = a
  BY DEF Typed, Switches
<1>1. /\ RowState = s /\ RowCpu = a /\ RowOut = k /\ RowFlush = f
      /\ RowThreads = [d \in Cpu |-> On(a, d)]
      /\ RowState' = s1 /\ RowCpu' = a1 /\ RowOut' = k /\ RowFlush' = f
      /\ RowThreads' = [d \in Cpu |-> On(a1, d)]
  BY DEF RowsSay
<1>2. a[t] \in Cpu
  BY <1>0
<1>3. Trace!CanSwitch(t, from, to)
  <2>1. Trace!Schedulable(RowCpu[t], RowThreads[RowCpu[t]], [RowState EXCEPT ![t] = to])
    BY <1>0, <1>1, <1>2, SameFits
  <2> QED
    BY <1>0, <1>1, <1>2, <2>1 DEF Trace!CanSwitch, Trace!CanEmit
<1>5. CpusUpdated({RowCpu[t]}, RowThreads, RowState')
  <2>1. PICK ths : ths = [d \in Cpu |-> On(a1, d)]
    OBVIOUS
  <2>2. Elsewhere(s, a, s1, a1, {a[t]})
    <3>1. Elsewhere(s, a, s1, a1, {a[t], a1[t]})
      <4>1. \A u \in Thread : u # t => s1[u] = s[u] /\ a1[u] = a[u]
        BY <1>0
      <4> QED
        BY <4>1, OthersStay
    <3> QED
      BY <1>0, <3>1 DEF Elsewhere
  <2>3. CpusUpdated({a[t]}, ths, s1)
    BY <2>1, <2>2, CpusFollow
  <2> QED
    BY <1>0, <1>1, <2>1, <2>3 DEF CpusUpdated
<1> QED
  BY <1>0, <1>1, <1>3, <1>5 DEF Trace!Switch, Trace!CpuUpdate, CpusUpdated, Trace!localVars

\* OAs and OAr
LEMMA MigrateTrace ==
  ASSUME NEW s, NEW a, NEW k, NEW f, NEW s1, NEW a1, NEW k1, NEW f1, Typed(s, a, k, f),
         RowsSay(s, a, k, f), RowsSay(s1, a1, k1, f1)', RowEmu' = RowEmu,
         NEW t \in Thread, NEW c \in Cpu, k1 = k, f1 = f, Migrates(t, c, s, a, s1, a1)
  PROVE  Trace!Migrate(t, c)
<1>0. /\ s \in [Thread -> DOMAIN Code] /\ a \in [Thread -> Cpu \cup {-1}]
      /\ a[t] # -1 /\ a[t] # c /\ Fits(a[t], On(a, a[t]) \ {t}, s) /\ Fits(c, On(a, c) \cup {t}, s)
      /\ s1 = s /\ a1 = [a EXCEPT ![t] = c]
  BY DEF Typed, Migrates
<1>1. /\ RowState = s /\ RowCpu = a /\ RowOut = k /\ RowFlush = f
      /\ RowThreads = [d \in Cpu |-> On(a, d)]
      /\ RowState' = s1 /\ RowCpu' = a1 /\ RowOut' = k /\ RowFlush' = f
      /\ RowThreads' = [d \in Cpu |-> On(a1, d)]
  BY DEF RowsSay
<1>2. a[t] \in Cpu /\ t \in On(a, a[t]) /\ t \notin On(a, c)
  BY <1>0 DEF On
<1>3. Trace!CanMigrate(t, c)
  <2>1. /\ Trace!Schedulable(RowCpu[t], RowThreads[RowCpu[t]] \ {t}, RowState)
        /\ Trace!Schedulable(c, RowThreads[c] \cup {t}, RowState)
    BY <1>0, <1>1, <1>2, SameFits
  <2> QED
    BY <1>0, <1>1, <1>2, <2>1 DEF Trace!CanMigrate
<1>4. RowThreads' = [RowThreads EXCEPT ![RowCpu[t]] = @ \ {t}, ![c] = @ \cup {t}]
  <2>1. ListsMoved(a, a1, t, c)
    BY <1>0, ListsMove
  <2>2. /\ On(a1, a[t]) = On(a, a[t]) \ {t} /\ On(a1, c) = On(a, c) \cup {t}
        /\ \A d \in Cpu \ {a[t], c} : On(a1, d) = On(a, d)
    BY <1>0, <1>2, <2>1 DEF ListsMoved
  <2> QED
    BY <1>0, <1>1, <1>2, <2>2
<1>5. CpusUpdated({RowCpu[t], c}, RowThreads', RowState)
  <2>1. PICK ths : ths = [d \in Cpu |-> On(a1, d)]
    OBVIOUS
  <2>2. Elsewhere(s, a, s1, a1, {a[t], c})
    <3>1. a1[t] = c
      BY <1>0
    <3>2. Elsewhere(s, a, s1, a1, {a[t], a1[t]})
      <4>1. \A u \in Thread : u # t => s1[u] = s[u] /\ a1[u] = a[u]
        BY <1>0
      <4> QED
        BY <4>1, OthersStay
    <3> QED
      BY <3>1, <3>2
  <2>3. CpusUpdated({a[t], c}, ths, s1)
    BY <2>1, <2>2, CpusFollow
  <2> QED
    BY <1>0, <1>1, <2>1, <2>3 DEF CpusUpdated
<1> QED
  BY <1>0, <1>1, <1>3, <1>4, <1>5 DEF Trace!Migrate, Trace!CpuUpdate, CpusUpdated, Trace!localVars

\* Two readings of the rows that say the same.
LEMMA SameTrace ==
  ASSUME NEW s, NEW a, NEW k, NEW f, RowsSay(s, a, k, f), RowsSay(s, a, k, f)', RowEmu' = RowEmu
  PROVE  UNCHANGED Trace!vars
  BY DEF RowsSay, Trace!vars

\* OF[ and OF]
LEMMA FlushTrace ==
  ASSUME NEW s, NEW a, NEW k, NEW f, NEW f1, RowsSay(s, a, k, f), RowsSay(s, a, k, f1)',
         RowEmu = "run", RowEmu' = "run", NEW t \in Thread, ~k[t], Flips(t, f, f1)
  PROVE  \E on \in BOOLEAN : Trace!pre_flush(t, on)
<1>1. PICK on \in BOOLEAN : f[t] # on /\ f1 = [f EXCEPT ![t] = on]
  BY DEF Flips
<1>2. /\ RowState' = RowState /\ RowCpu' = RowCpu /\ RowOut' = RowOut /\ RowThreads' = RowThreads
      /\ RowNth' = RowNth /\ RowRunning' = RowRunning /\ RowActive' = RowActive
      /\ RowOut = k /\ RowFlush = f /\ RowFlush' = f1
  BY DEF RowsSay
<1>3. Trace!pre_flush(t, on)
  BY <1>1, <1>2 DEF Trace!pre_flush, Trace!CanEmit, Trace!cpuVars
<1> QED
  BY <1>3

\* KCO and KCI
LEMMA SwitchedOutTrace ==
  ASSUME NEW s, NEW a, NEW k, NEW f, NEW k1, RowsSay(s, a, k, f), RowsSay(s, a, k1, f)',
         RowEmu = "run", RowEmu' = "run", NEW t \in Thread, Flips(t, k, k1)
  PROVE  \E on \in BOOLEAN : Trace!context_switch(t, on)
<1>1. PICK on \in BOOLEAN : k[t] # on /\ k1 = [k EXCEPT ![t] = on]
  BY DEF Flips
<1>2. /\ RowState' = RowState /\ RowCpu' = RowCpu /\ RowFlush' = RowFlush /\ RowThreads' = RowThreads
      /\ RowNth' = RowNth /\ RowRunning' = RowRunning /\ RowActive' = RowActive
      /\ RowOut = k /\ RowOut' = k1
  BY DEF RowsSay
<1>3. Trace!context_switch(t, on)
  BY <1>1, <1>2 DEF Trace!context_switch, Trace!cpuVars
<1> QED
  BY <1>3

\* The events of the ovni model.
LEMMA MoveTrace ==
  ASSUME NEW s, NEW a, NEW k, NEW f, NEW s1, NEW a1, Typed(s, a, k, f),
         RowsSay(s, a, k, f), RowsSay(s1, a1, k, f)', RowEmu = "run", RowEmu' = "run",
         NEW t \in Thread, ~k[t], Moves(t, s, a, s1, a1)
  PROVE  Trace!model_ovni_event(t)
<1>0. RowState = s /\ RowCpu = a /\ RowOut = k /\ a \in [Thread -> Cpu \cup {-1}]
  BY DEF RowsSay, Typed
<1>1. ASSUME NEW c \in Cpu, Executes(t, c, s, a, s1, a1) PROVE Trace!pre_thread_execute(t, c)
  BY <1>1, ExecuteTrace
<1>2. ASSUME Ends(t, s, a, s1, a1) PROVE Trace!pre_thread_end(t)
  BY <1>2, EndTrace
<1>3. ASSUME NEW from, NEW to, Switches(t, from, to, s, a, s1, a1) PROVE Trace!Switch(t, from, to)
  BY <1>3, SwitchTrace
<1>4. ASSUME NEW c \in Cpu, s[t] \in {"running", "cooling", "warming"}, Migrates(t, c, s, a, s1, a1)
      PROVE  Trace!pre_affinity_set(t, c)
  <2>1. Trace!Migrate(t, c)
    BY <1>4, MigrateTrace
  <2>2. a[t] # -1 /\ a[t] # c
    BY <1>4 DEF Migrates
  <2> QED
    BY <1>0, <1>4, <2>1, <2>2, OneLoom
    DEF Trace!pre_affinity_set, Trace!CanAffinitySet, Trace!CanEmit, Trace!ActiveState
<1>5. ASSUME NEW r \in Thread, NEW c \in Cpu, s[r] \notin {"dead", "unknown"}, Migrates(r, c, s, a, s1, a1)
      PROVE  Trace!pre_affinity_remote(t, r, c)
  <2>1. Trace!Migrate(r, c)
    BY <1>5, MigrateTrace
  <2>2. a[r] # -1
    BY <1>5 DEF Migrates
  <2> QED
    BY <1>0, <1>5, <2>1, <2>2, OneLoom
    DEF Trace!pre_affinity_remote, Trace!CanAffinityRemote, Trace!CanEmit
<1> QED
  BY <1>1, <1>2, <1>3, <1>4, <1>5
  DEF Moves, Trace!model_ovni_event, Trace!pre_thread_pause, Trace!pre_thread_resume,
      Trace!pre_thread_cool, Trace!pre_thread_warm

\* Rows that change as an event does are a step of ThreadCpu.
LEMMA TraceStep ==
  ASSUME NEW s, NEW a, NEW k, NEW f, NEW s1, NEW a1, NEW k1, NEW f1, Typed(s, a, k, f),
         RowsSay(s, a, k, f), RowsSay(s1, a1, k1, f1)', RowEmu = "run", RowEmu' = "run",
         Change(s, a, k, f, s1, a1, k1, f1)
  PROVE  Trace!Next \/ UNCHANGED Trace!vars
<1>1. CASE s1 = s /\ a1 = a /\ k1 = k /\ f1 = f
  BY <1>1, SameTrace
<1>2. ASSUME NEW t \in Thread, k1 = k, f1 = f, ~k[t], Moves(t, s, a, s1, a1)
      PROVE  Trace!Next
  BY <1>2, MoveTrace DEF Trace!Next
<1>3. ASSUME NEW t \in Thread, s1 = s, a1 = a, k1 = k, ~k[t], Flips(t, f, f1)
      PROVE  Trace!Next
  BY <1>3, FlushTrace DEF Trace!Next, Trace!model_ovni_event
<1>4. ASSUME NEW t \in Thread, s1 = s, a1 = a, f1 = f, Flips(t, k, k1)
      PROVE  Trace!Next
  BY <1>4, SwitchedOutTrace DEF Trace!Next, Trace!model_kernel_event
<1> QED
  BY <1>1, <1>2, <1>3, <1>4 DEF Change

\* The threads that are out of their CPU and those that flush.
Outs == [t \in Thread |-> Holds("kernel", t)]
Flushes == [t \in Thread |-> Holds("flush", t)]

\* The state that a code is of.
LEMMA StateCodes == ASSUME NEW s \in DOMAIN Code PROVE StateOf[Code[s]] = s
<1>1. Code[s] \in 0 .. 5 /\ \A q \in DOMAIN Code : Code[q] = Code[s] => q = s
  BY Codes
<1>2. StateOf[Code[s]] = CHOOSE q \in DOMAIN Code : Code[q] = Code[s]
  BY <1>1 DEF StateOf
<1> QED
  BY <1>1, <1>2

\* When the channels have the values of the last flush the rows show them.
Flushed == \A e \in DOMAIN bay.data : bay.last[e] = ChanRead(bay, e)

\* A row has the value of its channel.
LEMMA FlushedLine ==
  ASSUME VInv, Flushed, NEW e \in DOMAIN prv
  PROVE  Line[e] = RowVal(e, ChanRead(bay, e))
  BY DEF VInv, RowsInv, RowOk, Flushed, Line

\* The rows of a thread.
LEMMA ThreadLines ==
  ASSUME VInv, Flushed, NEW t \in Thread
  PROVE  Line[<<"state", t>>] = Code[st[t]] /\ Line[<<"cpu", t>>] = at[t] + 1
<1>0. /\ st \in [Thread -> DOMAIN Code] /\ at \in [Thread -> Cpu \cup {-1}] /\ view \in View
      /\ DOMAIN prv = ViewRow \cap ChansOf(view) /\ ThShows(bay, t, st, at) /\ Null \notin Int
  BY GraphAssumption DEF VInv, RowsInv, Follows
<1>1. PICK x, z : x = <<"state", t>> /\ z = <<"cpu", t>>
  OBVIOUS
<1>2. x \in DOMAIN prv /\ z \in DOMAIN prv
  BY <1>0, <1>1, SysIs DEF ViewRow, SysRow, ChansOf
<1>3. PrvFlags[x] = {"skipdup"} /\ PrvFlags[z] = {"next"}
  BY <1>0, <1>1, RowFlags
<1>4. /\ ChanRead(bay, x) = IF st[t] = "unknown" THEN Null ELSE Code[st[t]]
      /\ ChanRead(bay, z) = OrNull(at[t])
  BY <1>0, <1>1 DEF ThShows
<1>5. Line[x] = Code[st[t]]
  <2>1. Line[x] = RowVal(x, ChanRead(bay, x))
    BY <1>2, FlushedLine
  <2> QED
    BY <1>0, <1>3, <1>4, <2>1, Codes DEF RowVal
<1>6. Line[z] = at[t] + 1
  <2>1. Line[z] = RowVal(z, ChanRead(bay, z))
    BY <1>2, FlushedLine
  <2>2. at[t] \in Int
    BY <1>0 DEF Cpu
  <2> QED
    BY <1>0, <1>3, <1>4, <2>1, <2>2 DEF RowVal, OrNull
<1> QED
  BY <1>1, <1>5, <1>6

\* The rows of a CPU, and the channel of its active thread.
LEMMA CpuLines ==
  ASSUME VInv, Flushed, NEW c \in Cpu
  PROVE  /\ Line[<<"nrun", c>>] = Cardinality(RunSet(st, at, c))
         /\ Line[<<"tidrun", c>>] = Single(RunSet(st, at, c)) + 1
         /\ bay.last[<<"thact", c>>] = OrNull(Single(ActSet(st, at, c)))
         /\ Single(RunSet(st, at, c)) \in Int /\ Single(ActSet(st, at, c)) \in Int
<1>0. /\ view \in View /\ DOMAIN bay.data = ChansOf(view)
      /\ DOMAIN prv = ViewRow \cap ChansOf(view) /\ CpuShows(bay, c, st, at) /\ Null \notin Int
  BY GraphAssumption DEF VInv, RowsInv, Follows
<1>1. PICK x, y, z, r, q : /\ x = <<"nrun", c>> /\ y = <<"tidrun", c>> /\ z = <<"thact", c>>
                           /\ r = Single(RunSet(st, at, c)) /\ q = Single(ActSet(st, at, c))
  OBVIOUS
<1>2. x \in DOMAIN prv /\ y \in DOMAIN prv /\ z \in DOMAIN bay.data
  BY <1>0, <1>1, SysIs DEF ViewRow, SysRow, ChansOf
<1>3. PrvFlags[x] = {"zero"} /\ PrvFlags[y] = {}
  BY <1>0, <1>1, RowFlags
<1>4. /\ ChanRead(bay, y) = IF r = -1 THEN Null ELSE r + 1
      /\ Plain(ChanRead(bay, x)) = Cardinality(RunSet(st, at, c))
      /\ ChanRead(bay, z) = OrNull(q)
  BY <1>0, <1>1, SameSets, SameOne DEF CpuShows
<1>5. r \in Thread \cup {-1} /\ q \in Thread \cup {-1}
  <2>1. RunSet(st, at, c) \in SUBSET Thread /\ ActSet(st, at, c) \in SUBSET Thread
    BY DEF RunSet, ActSet
  <2> QED
    BY <1>1, <2>1, OnlyOneIs, SameOne
<1>6. r \in Int /\ q \in Int
  BY <1>5 DEF Thread
<1>7. Line[x] = Plain(ChanRead(bay, x))
  BY <1>2, <1>3, FlushedLine DEF RowVal, Plain
<1>8. Line[y] = r + 1
  <2>1. Line[y] = RowVal(y, ChanRead(bay, y))
    BY <1>2, FlushedLine
  <2>2. CASE r = -1
    BY <1>4, <2>1, <2>2 DEF RowVal
  <2>3. CASE r # -1
    <3>1. ChanRead(bay, y) = r + 1 /\ r + 1 \in Int /\ "next" \notin PrvFlags[y]
      BY <1>3, <1>4, <1>6, <2>3
    <3> QED
      BY <1>0, <2>1, <3>1 DEF RowVal
  <2> QED
    BY <2>2, <2>3
<1>9. bay.last[z] = OrNull(q)
  BY <1>2, <1>4 DEF Flushed
<1> QED
  BY <1>1, <1>4, <1>6, <1>7, <1>8, <1>9

\* The row of a stack of the kernel, or of a flush.
LEMMA HeldLines ==
  ASSUME VInv, Flushed, NEW t \in Thread, view \in {"kernel", "flush"}
  PROVE  Line[Raw(view, t, 1)] # 0 <=> ChanRead(bay, Raw(view, t, 1)) # Null
<1>0. /\ view \in View /\ DOMAIN bay.data = ChansOf(view) /\ ValInv(view, bay)
      /\ DOMAIN prv = ViewRow \cap ChansOf(view) /\ Null \notin Int
  BY GraphAssumption DEF VInv, RowsInv
<1>1. Sp(view).nch = 1 /\ Sp(view).track = "any" /\ "next" \notin Sp(view).flags
  <2>1. Sp("kernel") = KernelSpec /\ Sp("flush") = FlushSpec
    BY DEF Sp
  <2>2. KernelSpec.track = "any" /\ FlushSpec.track = "any"
    BY DEF KernelSpec, FlushSpec, MpiSpec
  <2>3. Sp(view).track = "any"
    BY <2>1, <2>2
  <2> QED
    BY <1>0, <2>3, SpecIs
<1>2. PICK e : e = Raw(view, t, 1)
  OBVIOUS
<1>3. e \in ChansOf(view) \ SysChan
  BY <1>0, <1>1, <1>2, KindsDiffer
<1>4. e \in OfThreads({v \in View : Sp(v).track = "any"})
  BY <1>0, <1>1, <1>2, Raws
<1>5. e \in DOMAIN prv /\ e \notin SysRow
  BY <1>0, <1>3, <1>4 DEF ViewRow, SysRow, SysChan
<1>6. PrvFlags[e] = Sp(view).flags
  BY <1>0, <1>5, RowFlags
<1>7. Line[e] = Plain(ChanRead(bay, e))
  BY <1>1, <1>5, <1>6, FlushedLine DEF RowVal, Plain
<1>8. ChanRead(bay, e) \in RawValue(view) /\ 0 \notin RawValue(view)
  BY <1>0, <1>3, ValRead, Values
<1> QED
  BY <1>2, <1>7, <1>8, <1>0 DEF Plain

\* The rows say the states, the CPUs and the channels.
LEMMA FlushedRows == ASSUME VInv, Flushed PROVE RowsSay(st, at, Outs, Flushes)
<1>0. st \in [Thread -> DOMAIN Code] /\ at \in [Thread -> Cpu \cup {-1}] /\ Cpu \subseteq Int
  BY DEF VInv, Cpu
<1>1. RowState = st
  <2>1. \A t \in Thread : StateOf[Line[<<"state", t>>]] = st[t]
    <3> SUFFICES ASSUME NEW t \in Thread PROVE StateOf[Line[<<"state", t>>]] = st[t]
      OBVIOUS
    <3>1. Line[<<"state", t>>] = Code[st[t]] /\ st[t] \in DOMAIN Code
      BY <1>0, ThreadLines
    <3>2. StateOf[Code[st[t]]] = st[t]
      BY <3>1, StateCodes
    <3> QED
      BY <3>1, <3>2, Zenon
  <2> QED
    BY <1>0, <2>1 DEF RowState
<1>2. RowCpu = at /\ RowThreads = [c \in Cpu |-> On(at, c)]
  <2>0. \A t \in Thread : at[t] \in Int
    BY <1>0 DEF Cpu
  <2>1. \A t \in Thread : Line[<<"cpu", t>>] = at[t] + 1
    BY ThreadLines
  <2>2. \A t \in Thread : Line[<<"cpu", t>>] - 1 = at[t]
    <3> TAKE t \in Thread
    <3>1. PICK x : x = Line[<<"cpu", t>>]
      OBVIOUS
    <3>2. x = at[t] + 1 /\ at[t] \in Int
      BY <2>0, <2>1, <3>1
    <3>3. x - 1 = at[t]
      BY <3>2
    <3> QED
      BY <3>1, <3>3
  <2>3. \A t \in Thread : \A c \in Cpu : Line[<<"cpu", t>>] = c + 1 <=> at[t] = c
    <3> TAKE t \in Thread
    <3> TAKE c \in Cpu
    <3>1. PICK x : x = Line[<<"cpu", t>>]
      OBVIOUS
    <3>2. x = at[t] + 1 /\ at[t] \in Int /\ c \in Int
      BY <1>0, <2>0, <2>1, <3>1
    <3>3. x = c + 1 <=> at[t] = c
      BY <3>2
    <3> QED
      BY <3>1, <3>3
  <2> QED
    BY <1>0, <2>2, <2>3 DEF RowCpu, RowThreads, On
<1>3. RowOut = Outs /\ RowFlush = Flushes
  BY HeldLines DEF RowOut, RowFlush, Outs, Flushes, Holds
<1>4. \A c \in Cpu : /\ Line[<<"nrun", c>>] = Cardinality(RunSet(st, at, c))
                     /\ Line[<<"tidrun", c>>] = Single(RunSet(st, at, c)) + 1
                     /\ bay.last[<<"thact", c>>] = OrNull(Single(ActSet(st, at, c)))
                     /\ Single(RunSet(st, at, c)) \in Int /\ Single(ActSet(st, at, c)) \in Int
  BY CpuLines
<1>5. RowNth = [c \in Cpu |-> Cardinality(RunSet(st, at, c))]
  BY <1>4 DEF RowNth
<1>6. RowRunning = [c \in Cpu |-> Single(RunSet(st, at, c))]
  <2>1. \A c \in Cpu : Line[<<"tidrun", c>>] - 1 = Single(RunSet(st, at, c))
    <3> TAKE c \in Cpu
    <3>1. PICK x, y : x = Line[<<"tidrun", c>>] /\ y = Single(RunSet(st, at, c))
      OBVIOUS
    <3>2. x = y + 1 /\ y \in Int
      BY <1>4, <3>1
    <3>3. x - 1 = y
      BY <3>2
    <3> QED
      BY <3>1, <3>3
  <2> QED
    BY <2>1 DEF RowRunning
<1>7. RowActive = [c \in Cpu |-> Single(ActSet(st, at, c))]
  BY <1>4, GraphAssumption DEF RowActive, OrNull
<1> QED
  BY <1>1, <1>2, <1>3, <1>5, <1>6, <1>7 DEF RowsSay

\* Operations of chan.c on the channels of C, which never change what the last flush left.
Touches(b, r, C) ==
    /\ BayInv(r) /\ r.last = b.last /\ DOMAIN r.data = DOMAIN b.data
    /\ \A e \in DOMAIN b.data \ C : r.data[e] = b.data[e]

\* A channel that is written and queued.
LEMMA DirtyTouches ==
  ASSUME NEW b, BayInv(b), NEW c, NEW d
  PROVE  LET r == SetDirty([b EXCEPT !.data[c] = d], c)
         IN  /\ r.last = b.last /\ DOMAIN r.data = DOMAIN b.data
             /\ \A e \in DOMAIN b.data : e # c => r.data[e] = b.data[e]
<1> DEFINE b1 == [b EXCEPT !.data[c] = d]
           r == SetDirty(b1, c)
<1>1. IsBay(b)
  BY DEF BayInv
<1>2. /\ b1 \in [data : {b1.data}, last : {b1.last}, flag : {b1.flag}, list : {b1.list}, ok : {b1.ok}]
      /\ b1.last = b.last /\ DOMAIN b1.data = DOMAIN b.data
      /\ \A e \in DOMAIN b.data : e # c => b1.data[e] = b.data[e]
  BY <1>1 DEF IsBay
<1> HIDE DEF b1
<1>3. r.last = b1.last /\ r.data = b1.data
  BY <1>2 DEF SetDirty
<1> QED
  BY <1>2, <1>3 DEF b1

\* chan_set(), chan_push() and chan_pop(), whether they fail or not.
LEMMA OpTouches ==
  ASSUME NEW b, BayInv(b), NEW c, NEW v
  PROVE  /\ Touches(b, ChanSet(b, c, v), {c})
         /\ Touches(b, ChanPush(b, c, v), {c})
         /\ Touches(b, ChanPop(b, c, v), {c})
<1>1. Fail(b).last = b.last /\ Fail(b).data = b.data
  BY DEF Fail, BayInv, IsBay
<1>2. ASSUME NEW d
      PROVE  LET r == SetDirty([b EXCEPT !.data[c] = d], c)
             IN  /\ r.last = b.last /\ DOMAIN r.data = DOMAIN b.data
                 /\ \A e \in DOMAIN b.data : e # c => r.data[e] = b.data[e]
  BY DirtyTouches
<1>3. Touches(b, ChanSet(b, c, v), {c})
  <2>1. PICK r : r = ChanSet(b, c, v)
    OBVIOUS
  <2>2. BayInv(r)
    BY <2>1, ChanInv
  <2>3. r = b \/ r = Fail(b) \/ r = SetDirty([b EXCEPT !.data[c] = <<v>>], c)
    BY <2>1 DEF ChanSet
  <2> QED
    BY <1>1, <1>2, <2>1, <2>2, <2>3 DEF Touches
<1>4. Touches(b, ChanPush(b, c, v), {c})
  <2>1. PICK r : r = ChanPush(b, c, v)
    OBVIOUS
  <2>2. BayInv(r)
    BY <2>1, ChanInv
  <2>3. PICK d : d = Append(b.data[c], v)
    OBVIOUS
  <2>4. r = b \/ r = Fail(b) \/ r = SetDirty([b EXCEPT !.data[c] = d], c)
    BY <2>1, <2>3 DEF ChanPush
  <2> QED
    BY <1>1, <1>2, <2>1, <2>2, <2>4 DEF Touches
<1>5. Touches(b, ChanPop(b, c, v), {c})
  <2>1. PICK r : r = ChanPop(b, c, v)
    OBVIOUS
  <2>2. BayInv(r)
    BY <2>1, ChanInv
  <2>3. PICK d : d = Front(b.data[c])
    OBVIOUS
  <2>4. r = b \/ r = Fail(b) \/ r = SetDirty([b EXCEPT !.data[c] = d], c)
    BY <2>1, <2>3 DEF ChanPop
  <2> QED
    BY <1>1, <1>2, <2>1, <2>2, <2>4 DEF Touches
<1> QED
  BY <1>3, <1>4, <1>5

\* One after the other.
LEMMA TouchesMore ==
  ASSUME NEW a, NEW b, NEW r, NEW X, NEW Y, NEW Z, Touches(a, b, X), Touches(b, r, Y),
         X \subseteq Z, Y \subseteq Z
  PROVE  Touches(a, r, Z)
  BY DEF Touches

\* thread_set_state()
LEMMA StateTouches ==
  ASSUME NEW b, BayInv(b), NEW t \in Thread, NEW s
  PROVE  Touches(b, thread_set_state(b, t, s), SysChan)
<1>1. PICK x, y, v : x = <<"state", t>> /\ y = <<"tid", t>> /\ v = IF s \in Core!ActiveState THEN t + 1 ELSE Null
  OBVIOUS
<1>2. PICK a, w : a = ChanSet(b, x, w) /\ w = Code[s]
  OBVIOUS
<1>3. PICK r : r = ChanSet(a, y, v)
  OBVIOUS
<1>4. thread_set_state(b, t, s) = r
  BY <1>1, <1>2, <1>3 DEF thread_set_state
<1>5. Touches(b, a, {x}) /\ Touches(a, r, {y})
  <2>1. Touches(b, a, {x})
    BY <1>2, OpTouches
  <2> QED
    BY <2>1, <1>3, OpTouches DEF Touches
<1>6. {x} \subseteq SysChan /\ {y} \subseteq SysChan
  BY <1>1, SysIs
<1> QED
  BY <1>4, <1>5, <1>6, TouchesMore

\* cpu_update()
LEMMA CpuTouches ==
  ASSUME NEW b, BayInv(b), NEW c \in Cpu, NEW where, NEW states
  PROVE  Touches(b, cpu_update(b, c, where, states), SysChan)
<1>1. PICK e1, e2, e3, e4 : /\ e1 = <<"tidrun", c>> /\ e2 = <<"thrun", c>>
                            /\ e3 = <<"nrun", c>> /\ e4 = <<"thact", c>>
  OBVIOUS
<1>2. {e1} \subseteq SysChan /\ {e2} \subseteq SysChan /\ {e3} \subseteq SysChan /\ {e4} \subseteq SysChan
  BY <1>1, SysIs
<1>3. PICK ths, run, act : /\ ths = {t \in Thread : where[t] = c}
                           /\ run = Core!OnlyOne(Core!Running(ths, states))
                           /\ act = Core!OnlyOne(Core!Active(ths, states))
  OBVIOUS
<1>4. PICK v1, v2, v3, v4 : /\ v1 = (IF run = -1 THEN Null ELSE run + 1) /\ v2 = OrNull(run)
                            /\ v3 = Cardinality(Core!Running(ths, states)) /\ v4 = OrNull(act)
  OBVIOUS
<1>5. PICK b1 : b1 = ChanSet(b, e1, v1)
  OBVIOUS
<1>6. PICK b2 : b2 = ChanSet(b1, e2, v2)
  OBVIOUS
<1>7. PICK b3 : b3 = ChanSet(b2, e3, v3)
  OBVIOUS
<1>8. PICK r : r = ChanSet(b3, e4, v4)
  OBVIOUS
<1>9. cpu_update(b, c, where, states) = r
  BY <1>1, <1>3, <1>4, <1>5, <1>6, <1>7, <1>8 DEF cpu_update
<1>10. Touches(b, b1, {e1}) /\ BayInv(b1)
  BY <1>5, OpTouches DEF Touches
<1>11. Touches(b1, b2, {e2}) /\ BayInv(b2)
  BY <1>6, <1>10, OpTouches DEF Touches
<1>12. Touches(b2, b3, {e3}) /\ BayInv(b3)
  BY <1>7, <1>11, OpTouches DEF Touches
<1>13. Touches(b3, r, {e4})
  BY <1>8, <1>12, OpTouches
<1>14. Touches(b, b2, SysChan)
  BY <1>2, <1>10, <1>11, TouchesMore
<1>15. Touches(b, b3, SysChan)
  BY <1>2, <1>12, <1>14, TouchesMore
<1>16. Touches(b, r, SysChan)
  BY <1>2, <1>13, <1>15, TouchesMore
<1> QED
  BY <1>9, <1>16

\* What a reader of the rows knows does not change in an event, and neither do the
\* channels that it does not touch.
LEMMA EventSeen ==
  ASSUME NEW r, NEW C, Touches(bay, r, C), Processed(r)
  PROVE  /\ prv' = prv /\ bay'.last = bay.last /\ end' = end /\ view' = view
         /\ \A e \in DOMAIN bay.data \ C : ChanRead(bay', e) = ChanRead(bay, e)
<1>1. bay' = r /\ prv' = prv /\ end' = end /\ view' = view
  BY DEF Processed, Handled
<1> QED
  BY <1>1 DEF Touches, ChanRead

\* The rows say the same while nothing is emitted.
LEMMA SameSeen ==
  ASSUME prv' = prv, bay'.last = bay.last, end' = end, view' = view
  PROVE  /\ RowEmu' = RowEmu
         /\ \A s, a, k, f : RowsSay(s, a, k, f) => RowsSay(s, a, k, f)'
<1>1. RowEmu' = RowEmu
  BY DEF RowEmu
<1>2. Line' = Line
  BY DEF Line
<1>3. /\ RowState' = RowState /\ RowCpu' = RowCpu /\ RowOut' = RowOut /\ RowFlush' = RowFlush
      /\ RowThreads' = RowThreads /\ RowNth' = RowNth /\ RowRunning' = RowRunning
      /\ RowActive' = RowActive
  BY <1>2 DEF RowState, RowCpu, RowOut, RowFlush, RowThreads, RowNth, RowRunning, RowActive
<1> QED
  BY <1>1, <1>3 DEF RowsSay

\* The channel of the kernel or of the flush is not of threads and CPUs.
LEMMA HeldChan ==
  ASSUME VInv, NEW t \in Thread
  PROVE  Raw(view, t, 1) \in DOMAIN bay.data \ SysChan
<1>1. view \in View /\ DOMAIN bay.data = ChansOf(view) /\ 1 \in 1 .. Sp(view).nch
  <2>1. view \in View /\ DOMAIN bay.data = ChansOf(view)
    BY DEF VInv
  <2>2. Sp(view).nch \in {1, 2}
    BY <2>1, SpecIs
  <2> QED
    BY <2>1, <2>2
<1> QED
  BY <1>1, KindsDiffer

\* The threads out of their CPU and those that flush are the same if no channel of a model changes.
LEMMA HeldKept ==
  ASSUME VInv, view' = view, \A e \in DOMAIN bay.data \ SysChan : ChanRead(bay', e) = ChanRead(bay, e)
  PROVE  Outs' = Outs /\ Flushes' = Flushes
<1>1. \A t \in Thread : ChanRead(bay', Raw(view, t, 1)) = ChanRead(bay, Raw(view, t, 1))
  BY HeldChan
<1> QED
  BY <1>1 DEF Outs, Flushes, Holds

\* What an event does, when it is not refused.
Changed ==
    /\ prv' = prv /\ bay'.last = bay.last /\ end' = end /\ view' = view
    /\ Change(st, at, Outs, Flushes, st', at', Outs', Flushes')

\* A handler of the ovni model that moves threads.
LEMMA MoveChanges ==
  ASSUME VInv, NEW t \in Thread, Core!CanEmit(t), NEW r, Touches(bay, r, SysChan), Processed(r),
         Moves(t, st, at, st', at')
  PROVE  Changed
<1>1. Outs' = Outs /\ Flushes' = Flushes
  BY EventSeen, HeldKept
<1>2. ~Outs[t]
  BY DEF Core!CanEmit, Outs
<1> QED
  BY <1>1, <1>2, EventSeen DEF Changed, Change

\* The conditions of ThreadCpu on the threads and CPUs.
LEMMA CanLists ==
  ASSUME NEW t \in Thread, NEW c \in Cpu, at \in [Thread -> Cpu \cup {-1}]
  PROVE  /\ Core!CanExecute(t, c) =>
                /\ Core!CanEmit(t) /\ st[t] # "running" /\ at[t] = -1
                /\ Fits(c, On(at, c) \cup {t}, [st EXCEPT ![t] = "running"])
         /\ Core!CanEnd(t) =>
                /\ Core!CanEmit(t) /\ st[t] \in {"running", "cooling"} /\ at[t] # -1 /\ at[t] \in Cpu
                /\ Fits(at[t], On(at, at[t]) \ {t}, [st EXCEPT ![t] = "dead"])
         /\ Core!CanMigrate(t, c) =>
                /\ at[t] # -1 /\ at[t] # c /\ at[t] \in Cpu /\ Fits(at[t], On(at, at[t]) \ {t}, st)
                /\ Fits(c, On(at, c) \cup {t}, st)
<1>0. \A d \in Cpu : [e \in Cpu |-> {u \in Thread : at[u] = e}][d] = On(at, d)
  BY DEF On
<1>1. ASSUME Core!CanExecute(t, c)
      PROVE  /\ Core!CanEmit(t) /\ st[t] # "running" /\ at[t] = -1
             /\ Fits(c, On(at, c) \cup {t}, [st EXCEPT ![t] = "running"])
  <2>1. /\ Core!CanEmit(t) /\ st[t] # "running" /\ at[t] = -1
        /\ Core!Schedulable(c, [e \in Cpu |-> {u \in Thread : at[u] = e}][c] \cup {t}, [st EXCEPT ![t] = "running"])
    BY <1>1 DEF Core!CanExecute
  <2> QED
    BY <1>0, <2>1, SameFits
<1>2. ASSUME Core!CanEnd(t)
      PROVE  /\ Core!CanEmit(t) /\ st[t] \in {"running", "cooling"} /\ at[t] # -1 /\ at[t] \in Cpu
             /\ Fits(at[t], On(at, at[t]) \ {t}, [st EXCEPT ![t] = "dead"])
  <2>1. /\ Core!CanEmit(t) /\ st[t] \in {"running", "cooling"} /\ at[t] # -1
        /\ Core!Schedulable(at[t], [e \in Cpu |-> {u \in Thread : at[u] = e}][at[t]] \ {t}, [st EXCEPT ![t] = "dead"])
    BY <1>2 DEF Core!CanEnd
  <2> QED
    BY <1>0, <2>1, SameFits
<1>3. ASSUME Core!CanMigrate(t, c)
      PROVE  /\ at[t] # -1 /\ at[t] # c /\ at[t] \in Cpu /\ Fits(at[t], On(at, at[t]) \ {t}, st)
             /\ Fits(c, On(at, c) \cup {t}, st)
  <2>1. /\ at[t] # -1 /\ at[t] # c
        /\ Core!Schedulable(at[t], [e \in Cpu |-> {u \in Thread : at[u] = e}][at[t]] \ {t}, st)
        /\ Core!Schedulable(c, [e \in Cpu |-> {u \in Thread : at[u] = e}][c] \cup {t}, st)
    BY <1>3 DEF Core!CanMigrate
  <2> QED
    BY <1>0, <2>1, SameFits
<1> QED
  BY <1>1, <1>2, <1>3

\* The condition of OHp, OHr, OHc and OHw.
LEMMA CanSwitches ==
  ASSUME NEW t \in Thread, NEW from, NEW to, at \in [Thread -> Cpu \cup {-1}], Core!CanSwitch(t, from, to)
  PROVE  /\ Core!CanEmit(t) /\ st[t] \in from /\ at[t] # -1 /\ at[t] \in Cpu
         /\ Fits(at[t], On(at, at[t]), [st EXCEPT ![t] = to])
<1>0. \A d \in Cpu : [e \in Cpu |-> {u \in Thread : at[u] = e}][d] = On(at, d)
  BY DEF On
<1>1. /\ Core!CanEmit(t) /\ st[t] \in from /\ at[t] # -1
      /\ Core!Schedulable(at[t], [e \in Cpu |-> {u \in Thread : at[u] = e}][at[t]], [st EXCEPT ![t] = to])
  BY DEF Core!CanSwitch
<1> QED
  BY <1>0, <1>1, SameFits

\* OHx
LEMMA ExecuteChange ==
  ASSUME VInv, NEW t \in Thread, NEW c \in Cpu, pre_thread_execute(t, c) PROVE Changed
<1>0. at \in [Thread -> Cpu \cup {-1}] /\ BayInv(bay)
  BY DEF VInv, IInv
<1>1. PICK states, where, z : states = [st EXCEPT ![t] = "running"] /\ where = [at EXCEPT ![t] = c] /\ z = <<"cpu", t>>
  OBVIOUS
<1>2. PICK b1 : b1 = ChanSet(bay, z, c)
  OBVIOUS
<1>3. PICK b2 : b2 = thread_set_state(b1, t, "running")
  OBVIOUS
<1>4. PICK r : r = cpu_update(b2, c, where, states)
  OBVIOUS
<1>5. Core!CanExecute(t, c) /\ Processed(r) /\ st' = states /\ at' = where
  BY <1>1, <1>2, <1>3, <1>4 DEF pre_thread_execute
<1>6. Touches(bay, b1, {z}) /\ BayInv(b1) /\ {z} \subseteq SysChan
  <2>1. Touches(bay, b1, {z})
    BY <1>0, <1>2, OpTouches
  <2>2. {z} \subseteq SysChan
    BY <1>1, SysIs
  <2> QED
    BY <2>1, <2>2 DEF Touches
<1>7. Touches(b1, b2, SysChan) /\ BayInv(b2)
  BY <1>3, <1>6, StateTouches DEF Touches
<1>8. Touches(b2, r, SysChan)
  BY <1>4, <1>7, CpuTouches
<1>9. Touches(bay, b2, SysChan)
  BY <1>6, <1>7, TouchesMore
<1>10. Touches(bay, r, SysChan)
  BY <1>8, <1>9, TouchesMore
<1>11. Core!CanEmit(t) /\ Executes(t, c, st, at, st', at')
  BY <1>0, <1>1, <1>5, CanLists DEF Executes
<1> QED
  BY <1>5, <1>10, <1>11, MoveChanges DEF Moves

\* OHe
LEMMA EndChange ==
  ASSUME VInv, NEW t \in Thread, pre_thread_end(t) PROVE Changed
<1>0. at \in [Thread -> Cpu \cup {-1}] /\ BayInv(bay)
  BY DEF VInv, IInv
<1>1. PICK states, where, z, c : /\ states = [st EXCEPT ![t] = "dead"] /\ where = [at EXCEPT ![t] = -1]
                                 /\ z = <<"cpu", t>> /\ c = at[t]
  OBVIOUS
<1>2. PICK b1 : b1 = thread_set_state(bay, t, "dead")
  OBVIOUS
<1>3. PICK b2 : b2 = cpu_update(b1, c, where, states)
  OBVIOUS
<1>4. PICK r : r = ChanSet(b2, z, Null)
  OBVIOUS
<1>5. Core!CanEnd(t) /\ Processed(r) /\ st' = states /\ at' = where
  BY <1>1, <1>2, <1>3, <1>4 DEF pre_thread_end
<1>6. Core!CanEmit(t) /\ Ends(t, st, at, st', at') /\ c \in Cpu
  <2>1. 0 \in Cpu
    BY ViewsAssumption DEF Cpu
  <2> QED
    BY <1>0, <1>1, <1>5, <2>1, CanLists DEF Ends
<1>7. Touches(bay, b1, SysChan) /\ BayInv(b1)
  BY <1>0, <1>2, StateTouches DEF Touches
<1>8. Touches(b1, b2, SysChan) /\ BayInv(b2)
  BY <1>3, <1>6, <1>7, CpuTouches DEF Touches
<1>9. Touches(b2, r, {z}) /\ {z} \subseteq SysChan
  BY <1>1, <1>4, <1>8, OpTouches, SysIs
<1>10. Touches(bay, b2, SysChan)
  BY <1>7, <1>8, TouchesMore
<1>11. Touches(bay, r, SysChan)
  BY <1>9, <1>10, TouchesMore
<1> QED
  BY <1>5, <1>6, <1>11, MoveChanges DEF Moves

\* OHp, OHr, OHc and OHw
LEMMA SwitchChange ==
  ASSUME VInv, NEW t \in Thread, NEW from, NEW to, Switch(t, from, to)
  PROVE  /\ Core!CanEmit(t) /\ Switches(t, from, to, st, at, st', at')
         /\ \E r : Touches(bay, r, SysChan) /\ Processed(r)
<1>0. at \in [Thread -> Cpu \cup {-1}] /\ BayInv(bay)
  BY DEF VInv, IInv
<1>1. PICK states, where, c : states = [st EXCEPT ![t] = to] /\ where = at /\ c = at[t]
  OBVIOUS
<1>2. PICK b1 : b1 = thread_set_state(bay, t, to)
  OBVIOUS
<1>3. PICK r : r = cpu_update(b1, c, where, states)
  OBVIOUS
<1>4. Core!CanSwitch(t, from, to) /\ Processed(r) /\ st' = states /\ at' = at
  BY <1>1, <1>2, <1>3 DEF Switch
<1>5. Core!CanEmit(t) /\ Switches(t, from, to, st, at, st', at') /\ c \in Cpu
  BY <1>0, <1>1, <1>4, CanSwitches DEF Switches
<1>6. Touches(bay, b1, SysChan) /\ BayInv(b1)
  BY <1>0, <1>2, StateTouches DEF Touches
<1>7. Touches(b1, r, SysChan)
  BY <1>3, <1>5, <1>6, CpuTouches
<1>8. Touches(bay, r, SysChan)
  BY <1>6, <1>7, TouchesMore
<1> QED
  BY <1>4, <1>5, <1>8

\* OAs and OAr
LEMMA MigrateChange ==
  ASSUME VInv, NEW t \in Thread, NEW c \in Cpu, Migrate(t, c)
  PROVE  /\ Migrates(t, c, st, at, st', at')
         /\ \E r : Touches(bay, r, SysChan) /\ Processed(r)
<1>0. at \in [Thread -> Cpu \cup {-1}] /\ BayInv(bay)
  BY DEF VInv, IInv
<1>1. PICK states, where, z, a : states = st /\ where = [at EXCEPT ![t] = c] /\ z = <<"cpu", t>> /\ a = at[t]
  OBVIOUS
<1>2. PICK b1 : b1 = cpu_update(bay, a, where, states)
  OBVIOUS
<1>3. PICK b2 : b2 = cpu_update(b1, c, where, states)
  OBVIOUS
<1>4. PICK r : r = ChanSet(b2, z, c)
  OBVIOUS
<1>5. Core!CanMigrate(t, c) /\ Processed(r) /\ st' = st /\ at' = where
  BY <1>1, <1>2, <1>3, <1>4 DEF Migrate
<1>6. Migrates(t, c, st, at, st', at') /\ a \in Cpu
  BY <1>0, <1>1, <1>5, CanLists DEF Migrates
<1>7. Touches(bay, b1, SysChan) /\ BayInv(b1)
  BY <1>0, <1>2, <1>6, CpuTouches DEF Touches
<1>8. Touches(b1, b2, SysChan) /\ BayInv(b2)
  BY <1>3, <1>7, CpuTouches DEF Touches
<1>9. Touches(b2, r, {z}) /\ {z} \subseteq SysChan
  BY <1>1, <1>4, <1>8, OpTouches, SysIs
<1>10. Touches(bay, b2, SysChan)
  BY <1>7, <1>8, TouchesMore
<1>11. Touches(bay, r, SysChan)
  BY <1>9, <1>10, TouchesMore
<1> QED
  BY <1>5, <1>6, <1>11

\* Every event of threads and CPUs.
LEMMA ThreadChange ==
  ASSUME VInv, NEW t \in Thread, ThreadEvent(t) PROVE Changed
<1>0. BayInv(bay)
  BY DEF VInv, IInv
<1>1. ASSUME NEW from, NEW to, Switch(t, from, to),
             Switches(t, from, to, st, at, st', at') => Moves(t, st, at, st', at')
      PROVE  Changed
  <2>1. Core!CanEmit(t) /\ Switches(t, from, to, st, at, st', at')
    BY <1>1, SwitchChange
  <2>2. PICK r : Touches(bay, r, SysChan) /\ Processed(r)
    BY <1>1, SwitchChange
  <2> QED
    BY <1>1, <2>1, <2>2, MoveChanges
<1>2. ASSUME NEW from, NEW to,
             \/ from = {"running", "cooling"} /\ to = "paused"
             \/ from = {"paused", "warming"} /\ to = "running"
             \/ from = {"running"} /\ to = "cooling"
             \/ from = {"paused"} /\ to = "warming"
      PROVE  Switches(t, from, to, st, at, st', at') => Moves(t, st, at, st', at')
  BY <1>2 DEF Moves
<1>3. ASSUME NEW c \in Cpu, pre_affinity_set(t, c) PROVE Changed
  <2>0. Core!CanEmit(t) /\ st[t] \in {"running", "cooling", "warming"}
    BY <1>3 DEF pre_affinity_set, Core!CanAffinitySet, Core!ActiveState
  <2>1. CASE at[t] = c /\ Processed(bay) /\ UNCHANGED <<st, at>>
    <3>1. PICK r : r = bay
      OBVIOUS
    <3>2. Touches(bay, r, SysChan) /\ Processed(r)
      BY <1>0, <2>1, <3>1 DEF Touches
    <3>3. Outs' = Outs /\ Flushes' = Flushes
      BY <3>2, EventSeen, HeldKept
    <3> QED
      BY <2>1, <3>2, <3>3, EventSeen DEF Changed, Change
  <2>2. CASE Migrate(t, c)
    <3>1. Migrates(t, c, st, at, st', at')
      BY <2>2, MigrateChange
    <3>2. PICK r : Touches(bay, r, SysChan) /\ Processed(r)
      BY <2>2, MigrateChange
    <3>3. Moves(t, st, at, st', at')
      BY <2>0, <3>1 DEF Moves
    <3> QED
      BY <2>0, <3>2, <3>3, MoveChanges
  <2> QED
    BY <1>3, <2>1, <2>2 DEF pre_affinity_set
<1>4. ASSUME NEW q \in Thread, NEW c \in Cpu, pre_affinity_remote(t, q, c) PROVE Changed
  <2>0. Core!CanEmit(t) /\ st[q] \notin {"dead", "unknown"} /\ Migrate(q, c)
    BY <1>4 DEF pre_affinity_remote, Core!CanAffinityRemote
  <2>1. Migrates(q, c, st, at, st', at')
    BY <2>0, MigrateChange
  <2>2. PICK r : Touches(bay, r, SysChan) /\ Processed(r)
    BY <2>0, MigrateChange
  <2>3. Moves(t, st, at, st', at')
    BY <2>0, <2>1 DEF Moves
  <2> QED
    BY <2>0, <2>2, <2>3, MoveChanges
<1> QED
  BY <1>1, <1>2, <1>3, <1>4, ExecuteChange, EndChange DEF ThreadEvent

\* The channels of a model in the thread t.
RawsOf(t) == {Raw(view, t, k) : k \in 1 .. 2}

\* An event of the thread t leaves the channels of the others alone.
LEMMA ProcessChanges ==
  ASSUME VInv, NEW t \in Thread, NEW b, Touches(bay, b, RawsOf(t)), Process(t, b)
  PROVE  Changed
<1>0. BayInv(bay) /\ st' = st /\ at' = at
  BY DEF VInv, IInv, Process
<1>1. PICK r : r = (IF Allowed(t) THEN b ELSE Fail(bay))
  OBVIOUS
<1>2. Touches(bay, r, RawsOf(t)) /\ Processed(r)
  <2>1. Processed(r)
    BY <1>1 DEF Process
  <2>2. BayInv(Fail(bay)) /\ Fail(bay).last = bay.last /\ Fail(bay).data = bay.data
    BY <1>0, FailInv DEF Fail, BayInv, IsBay
  <2> QED
    BY <1>1, <2>1, <2>2 DEF Touches
<1>3. /\ prv' = prv /\ bay'.last = bay.last /\ end' = end /\ view' = view
      /\ \A e \in DOMAIN bay.data \ RawsOf(t) : ChanRead(bay', e) = ChanRead(bay, e)
  BY <1>2, EventSeen
<1>4. \A u \in Thread : u # t => ChanRead(bay', Raw(view, u, 1)) = ChanRead(bay, Raw(view, u, 1))
  <2> SUFFICES ASSUME NEW u \in Thread, u # t
               PROVE  Raw(view, u, 1) \in DOMAIN bay.data \ RawsOf(t)
    BY <1>3
  <2>1. Raw(view, u, 1) \in DOMAIN bay.data
    BY HeldChan
  <2>2. \A k \in 1 .. 2 : Raw(view, u, 1) # Raw(view, t, k)
    BY DEF Raw
  <2> QED
    BY <2>1, <2>2 DEF RawsOf
<1>5. \A v, u : Holds(v, u) \in BOOLEAN
  BY DEF Holds
<1>6. CASE view = "kernel"
  <2>1. Flushes' = Flushes
    BY <1>3, <1>6 DEF Flushes, Holds
  <2>2. Outs' = Outs \/ Flips(t, Outs, Outs')
    <3>1. PICK k, k1, x : k = Outs /\ k1 = Outs' /\ x = k1[t]
      OBVIOUS
    <3>2. \A u \in Thread : u # t => k1[u] = k[u]
      BY <1>3, <1>4, <1>6, <3>1 DEF Outs, Holds
    <3>3. x \in BOOLEAN
      BY <3>1 DEF Outs, Holds
    <3>4. k = [u \in Thread |-> k[u]] /\ k1 = [u \in Thread |-> k1[u]]
      BY <3>1 DEF Outs
    <3>5. CASE k[t] = x
      BY <3>1, <3>2, <3>4, <3>5
    <3>6. CASE k[t] # x
      <4>1. k1 = [k EXCEPT ![t] = x]
        BY <3>1, <3>2, <3>4
      <4>2. Flips(t, k, k1)
        BY <3>3, <3>6, <4>1 DEF Flips
      <4> QED
        BY <3>1, <4>2
    <3> QED
      BY <3>5, <3>6
  <2> QED
    BY <1>0, <1>3, <2>1, <2>2 DEF Changed, Change
<1>7. CASE view = "flush"
  <2>1. Outs' = Outs /\ ~Outs[t]
    BY <1>3, <1>7 DEF Outs, Holds
  <2>2. Flushes' = Flushes \/ Flips(t, Flushes, Flushes')
    <3>1. PICK k, k1, x : k = Flushes /\ k1 = Flushes' /\ x = k1[t]
      OBVIOUS
    <3>2. \A u \in Thread : u # t => k1[u] = k[u]
      BY <1>3, <1>4, <1>7, <3>1 DEF Flushes, Holds
    <3>3. x \in BOOLEAN
      BY <3>1 DEF Flushes, Holds
    <3>4. k = [u \in Thread |-> k[u]] /\ k1 = [u \in Thread |-> k1[u]]
      BY <3>1 DEF Flushes
    <3>5. CASE k[t] = x
      BY <3>1, <3>2, <3>4, <3>5
    <3>6. CASE k[t] # x
      <4>1. k1 = [k EXCEPT ![t] = x]
        BY <3>1, <3>2, <3>4
      <4>2. Flips(t, k, k1)
        BY <3>3, <3>6, <4>1 DEF Flips
      <4> QED
        BY <3>1, <4>2
    <3> QED
      BY <3>5, <3>6
  <2> QED
    BY <1>0, <1>3, <2>1, <2>2 DEF Changed, Change
<1>8. CASE view \notin {"kernel", "flush"}
  <2>1. Outs' = Outs /\ Flushes' = Flushes
    BY <1>3, <1>8 DEF Outs, Flushes, Holds
  <2> QED
    BY <1>0, <1>3, <2>1 DEF Changed, Change
<1> QED
  BY <1>6, <1>7, <1>8

\* Every event of the models.
LEMMA ModelChange ==
  ASSUME VInv, NEW t \in Thread, ModelEvent(t) PROVE Changed
<1>0. BayInv(bay)
  BY DEF VInv, IInv
<1>1. PICK e : e = MyRaw(t)
  OBVIOUS
<1>2. {e} \subseteq RawsOf(t)
  BY <1>1 DEF MyRaw, RawsOf
<1>3. ASSUME NEW b, Touches(bay, b, {e}) PROVE Touches(bay, b, RawsOf(t))
  BY <1>2, <1>3 DEF Touches
<1>4. ASSUME Process(t, Fail(bay)) PROVE Changed
  <2>1. BayInv(Fail(bay)) /\ Fail(bay).last = bay.last /\ Fail(bay).data = bay.data
    BY <1>0, FailInv DEF Fail, BayInv, IsBay
  <2>2. PICK b : b = Fail(bay)
    OBVIOUS
  <2>3. Touches(bay, b, RawsOf(t))
    BY <2>1, <2>2 DEF Touches
  <2> QED
    BY <1>4, <2>2, <2>3, ProcessChanges
<1>5. ASSUME NEW v, Push(t, v) PROVE Changed
  <2>1. PICK b : b = ChanPush(bay, e, v)
    OBVIOUS
  <2>2. Touches(bay, b, RawsOf(t))
    BY <1>0, <1>3, <2>1, OpTouches
  <2> QED
    BY <1>1, <1>5, <2>1, <2>2, ProcessChanges DEF Push
<1>6. ASSUME NEW v, Pop(t, v) PROVE Changed
  <2>1. PICK b : b = ChanPop(bay, e, v)
    OBVIOUS
  <2>2. Touches(bay, b, RawsOf(t))
    BY <1>0, <1>3, <2>1, OpTouches
  <2> QED
    BY <1>1, <1>6, <2>1, <2>2, ProcessChanges DEF Pop
<1>7. ASSUME NEW v, Process(t, ChanSet(bay, MyRaw(t), v)) PROVE Changed
  <2>1. PICK b : b = ChanSet(bay, e, v)
    OBVIOUS
  <2>2. Touches(bay, b, RawsOf(t))
    BY <1>0, <1>3, <2>1, OpTouches
  <2> QED
    BY <1>1, <1>7, <2>1, <2>2, ProcessChanges
<1>8. CASE TableEvent(t)
  BY <1>4, <1>5, <1>6, <1>8 DEF TableEvent
<1>9. CASE event_s(t)
  <2>1. PICK ev \in XtasksEvent : \/ Push(t, idOrVal(ev))
                                  \/ Pop(t, idOrVal(ev))
                                  \/ Process(t, Fail(bay))
    BY <1>9 DEF event_s
  <2>2. PICK v : v = idOrVal(ev)
    OBVIOUS
  <2> QED
    BY <1>4, <1>5, <1>6, <2>1, <2>2
<1>10. CASE context_switch(t)
  BY <1>5, <1>6, <1>10 DEF context_switch
<1>11. CASE pre_flush(t)
  BY <1>7, <1>11 DEF pre_flush
<1>12. CASE mark_event(t)
  BY <1>4, <1>5, <1>6, <1>7, <1>12 DEF mark_event
<1>13. CASE task_type(t)
  BY <1>7, <1>13 DEF task_type
<1>14. CASE hwc_event(t)
  <2>0. view = "hwc"
    BY <1>14 DEF hwc_event
  <2>1. PICK s, jumbo :
          Process(t, IF ~jumbo \/ Len(s) # HwcSpec.nch THEN Fail(bay)
                     ELSE ChanSet(ChanSet(bay, Raw("hwc", t, 1), s[1]), Raw("hwc", t, 2), s[2]))
    BY <1>14 DEF hwc_event
  <2>2. PICK x, y, v, w : x = Raw("hwc", t, 1) /\ y = Raw("hwc", t, 2) /\ v = s[1] /\ w = s[2]
    OBVIOUS
  <2>3. {x} \subseteq RawsOf(t) /\ {y} \subseteq RawsOf(t)
    BY <2>0, <2>2 DEF RawsOf
  <2>4. PICK b : b = ChanSet(bay, x, v)
    OBVIOUS
  <2>5. PICK r : r = ChanSet(b, y, w)
    OBVIOUS
  <2>6. Touches(bay, b, {x}) /\ BayInv(b)
    BY <1>0, <2>4, OpTouches DEF Touches
  <2>7. Touches(b, r, {y})
    BY <2>5, <2>6, OpTouches
  <2>8. Touches(bay, r, RawsOf(t))
    BY <2>3, <2>6, <2>7, TouchesMore
  <2>9. Process(t, Fail(bay)) \/ Process(t, r)
    BY <2>1, <2>2, <2>4, <2>5
  <2> QED
    BY <1>4, <2>8, <2>9, ProcessChanges
<1> QED
  BY <1>8, <1>9, <1>10, <1>11, <1>12, <1>13, <1>14
  DEF ModelEvent, model_mpi_event, model_tampi_event, model_nodes_event

\* The rows say the state before the event that is being propagated, and the one of now
\* is what the event made of it.
TraceInv ==
    state = "propagating" =>
        /\ end = "no"
        /\ \E s, a, k, f : /\ Typed(s, a, k, f) /\ RowsSay(s, a, k, f)
                           /\ Change(s, a, k, f, st, at, Outs, Flushes)

\* The state of now has its type.
LEMMA NowTyped == ASSUME VInv PROVE Typed(st, at, Outs, Flushes)
  BY DEF VInv, Typed, Outs, Flushes, Holds

\* Between events the rows say the state of now.
NowReady == VInv /\ state = "ready"
NowShown == RowsSay(st, at, Outs, Flushes)

\* It is what the rows say after a propagation.
LEMMA ReadyRows == NowReady => NowShown
<1> SUFFICES ASSUME VInv, state = "ready" PROVE NowShown
  BY DEF NowReady
<1>1. Flushed
  BY InvClean DEF VInv, CleanWhenReady, Flushed
<1> QED
  BY <1>1, FlushedRows DEF NowShown

\* An event leaves the rows for the propagation to change.
LEMMA EventTrace ==
  ASSUME VInv, state = "ready", end = "no", Changed
  PROVE  UNCHANGED Trace!vars /\ TraceInv'
<1>1. PICK s, a, k, f : s = st /\ a = at /\ k = Outs /\ f = Flushes
  OBVIOUS
<1>2. Typed(s, a, k, f) /\ RowsSay(s, a, k, f)
  BY <1>1, NowTyped, ReadyRows DEF NowReady, NowShown
<1>3. RowsSay(s, a, k, f)' /\ RowEmu' = RowEmu
  BY <1>2, SameSeen DEF Changed
<1>4. UNCHANGED Trace!vars
  BY <1>2, <1>3, SameTrace
<1>5. Change(s, a, k, f, st', at', Outs', Flushes') /\ end' = "no"
  BY <1>1 DEF Changed
<1>6. TraceInv'
  BY <1>2, <1>3, <1>5 DEF TraceInv
<1> QED
  BY <1>4, <1>6

\* A callback of a mux does not touch what the rows say.
LEMMA MuxTrace ==
  ASSUME VInv, TraceInv, RunMux, UNCHANGED <<view, st, at, accepted, end>>
  PROVE  UNCHANGED Trace!vars /\ TraceInv'
<1>0. /\ IInv /\ Sound(ViewValue) /\ Sane(ViewValue) /\ view \in View /\ Walking /\ prv' = prv
      /\ DOMAIN selected = MuxOf(view) /\ DOMAIN bay.data = ChansOf(view) /\ BayInv(bay)
  BY ViewSane DEF VInv, RunMux, IInv
<1>1. PICK m \in DOMAIN selected : \E v : bay' = ChanSet(bay, MuxOut[m], v)
  BY <1>0, RunMuxIs
<1>2. PICK v : bay' = ChanSet(bay, MuxOut[m], v)
  BY <1>1
<1>3. MuxOut[m] = m /\ m \notin OfThreads(View)
  BY <1>0, <1>1, MuxGraph, KindsDiffer
<1>4. Touches(bay, bay', {m})
  <2>1. PICK b, r : b = bay /\ r = ChanSet(b, m, v)
    OBVIOUS
  <2>2. Touches(b, r, {m})
    BY <1>0, <2>1, OpTouches
  <2>3. r = bay'
    BY <1>2, <1>3, <2>1
  <2> QED
    BY <2>1, <2>2, <2>3
<1>5. bay'.last = bay.last /\ \A e \in DOMAIN bay.data : e # m => ChanRead(bay', e) = ChanRead(bay, e)
  BY <1>4 DEF Touches, ChanRead
<1>6. \A t \in Thread : ChanRead(bay', Raw(view, t, 1)) = ChanRead(bay, Raw(view, t, 1))
  <2> SUFFICES ASSUME NEW t \in Thread
               PROVE  Raw(view, t, 1) \in DOMAIN bay.data /\ Raw(view, t, 1) # m
    BY <1>5
  <2>1. Sp(view).nch \in {1, 2}
    BY <1>0, SpecIs
  <2>2. Raw(view, t, 1) \in OfThreads(View)
    BY <1>0, <2>1, Raws
  <2> QED
    BY <1>3, <2>2, HeldChan
<1>7. Outs' = Outs /\ Flushes' = Flushes
  BY <1>6 DEF Outs, Flushes, Holds
<1>8. state = "propagating"
  BY DEF RunMux, Walking
<1>9. PICK s, a, k, f : /\ Typed(s, a, k, f) /\ RowsSay(s, a, k, f)
                        /\ Change(s, a, k, f, st, at, Outs, Flushes) /\ end = "no"
  BY <1>8 DEF TraceInv
<1>10. RowsSay(s, a, k, f)' /\ RowEmu' = RowEmu
  BY <1>0, <1>5, <1>9, SameSeen
<1>11. UNCHANGED Trace!vars
  BY <1>9, <1>10, SameTrace
<1>12. TraceInv'
  BY <1>7, <1>9, <1>10 DEF TraceInv
<1> QED
  BY <1>11, <1>12

\* A zero of XTasks is refused and the rows of threads and CPUs stay.
LEMMA ZeroTrace ==
  ASSUME VInv, TraceInv, ZeroShown, EmitAndFlush, UNCHANGED <<view, st, at, accepted, end>>
  PROVE  UNCHANGED Trace!vars /\ TraceInv'
<1>0. /\ view = "xtasks" /\ state' = "error" /\ bay'.last = bay.last
      /\ \A e \in SysRow : prv'[e] = prv[e]
  BY ZeroStops DEF ZeroShown
<1>1. ASSUME NEW e \in SysRow PROVE Line'[e] = Line[e]
  <2>1. e \in DOMAIN prv /\ DOMAIN prv' = DOMAIN prv
    BY <1>1 DEF EmitAndFlush, VInv, RowsInv, SysRow, SysChan, ViewRow, ChansOf
  <2> QED
    BY <1>0, <1>1, <2>1 DEF Line
<1>2. ASSUME NEW t \in Thread
      PROVE  Line'[<<"state", t>>] = Line[<<"state", t>>] /\ Line'[<<"cpu", t>>] = Line[<<"cpu", t>>]
  BY <1>1 DEF SysRow
<1>3. ASSUME NEW c \in Cpu
      PROVE  Line'[<<"nrun", c>>] = Line[<<"nrun", c>>] /\ Line'[<<"tidrun", c>>] = Line[<<"tidrun", c>>]
  BY <1>1 DEF SysRow
<1>4. RowState' = RowState /\ RowCpu' = RowCpu
  BY <1>2 DEF RowState, RowCpu
<1>5. RowThreads' = RowThreads
  BY <1>2 DEF RowThreads
<1>6. RowNth' = RowNth /\ RowRunning' = RowRunning
  BY <1>3 DEF RowNth, RowRunning
<1>7. RowOut' = RowOut /\ RowFlush' = RowFlush /\ RowActive' = RowActive /\ RowEmu' = RowEmu
  BY <1>0 DEF RowOut, RowFlush, RowActive, RowEmu
<1>8. UNCHANGED Trace!vars
  BY <1>4, <1>5, <1>6, <1>7 DEF Trace!vars
<1>9. TraceInv'
  BY <1>0 DEF TraceInv
<1> QED
  BY <1>8, <1>9

\* The end of a propagation shows the whole event in the rows.
LEMMA EmitTrace ==
  ASSUME VInv, TraceInv, ~ZeroShown, EmitAndFlush, UNCHANGED <<view, st, at, accepted, end>>
  PROVE  (Trace!Next \/ UNCHANGED Trace!vars) /\ TraceInv'
<1>0. VInv' /\ state = "propagating"
  BY ViewEmit DEF EmitAndFlush
<1>1. state' = "ready" /\ bay' = Flush(bay)
  BY <1>0 DEF EmitAndFlush, VInv
<1>2. bay'.data = bay.data
  <2>1. IsBay(bay)
    BY DEF VInv, IInv, BayInv
  <2> QED
    BY <1>1, <2>1 DEF Flush, IsBay
<1>3. Outs' = Outs /\ Flushes' = Flushes
  <2>1. \A e : ChanRead(bay', e) = ChanRead(bay, e)
    BY <1>2 DEF ChanRead
  <2> QED
    BY <2>1 DEF Outs, Flushes, Holds
<1>4. PICK s, a, k, f : /\ Typed(s, a, k, f) /\ RowsSay(s, a, k, f)
                        /\ Change(s, a, k, f, st, at, Outs, Flushes) /\ end = "no"
  BY <1>0 DEF TraceInv
<1>5. PICK s1, a1, k1, f1 : s1 = st /\ a1 = at /\ k1 = Outs /\ f1 = Flushes
  OBVIOUS
<1>6. NowShown'
  <2>1. NowReady'
    BY <1>0, <1>1 DEF NowReady
  <2> QED
    BY <2>1, ReadyRows, PTL
<1>7. RowsSay(s1, a1, k1, f1)'
  BY <1>3, <1>5, <1>6 DEF NowShown, RowsSay
<1>8. RowEmu = "run" /\ RowEmu' = "run"
  BY <1>4 DEF RowEmu
<1>9. Trace!Next \/ UNCHANGED Trace!vars
  BY <1>4, <1>5, <1>7, <1>8, TraceStep
<1>10. TraceInv'
  BY <1>1 DEF TraceInv
<1> QED
  BY <1>9, <1>10

\* emu_finish(): the ovni model wants every thread dead, and another model may refuse.
LEMMA FinishTrace ==
  ASSUME VInv, NEW linter \in BOOLEAN, Finish(linter)
  PROVE  Trace!Next /\ TraceInv'
<1>0. /\ state = "ready" /\ end = "no" /\ end' \in {"finished", "error"}
      /\ end' = "finished" => \A t \in Thread : st[t] = "dead"
      /\ UNCHANGED <<vars, view, st, at, accepted>>
  BY DEF Finish
<1>1. bay' = bay /\ prv' = prv /\ view' = view /\ state' = state
  BY <1>0 DEF vars
<1>2. /\ RowState' = RowState /\ RowCpu' = RowCpu /\ RowOut' = RowOut /\ RowFlush' = RowFlush
      /\ RowThreads' = RowThreads /\ RowNth' = RowNth /\ RowRunning' = RowRunning
      /\ RowActive' = RowActive
  <2>1. Line' = Line
    BY <1>1 DEF Line
  <2> QED
    BY <1>1, <2>1 DEF RowState, RowCpu, RowOut, RowFlush, RowThreads, RowNth, RowRunning, RowActive
<1>3. RowState = st /\ RowEmu = "run" /\ RowEmu' = end'
  BY <1>0, ReadyRows DEF NowReady, NowShown, RowsSay, RowEmu
<1>4. UNCHANGED <<RowState, RowCpu, Trace!localVars, Trace!cpuVars>>
  BY <1>2 DEF Trace!localVars, Trace!cpuVars
<1>5. CASE end' = "finished"
  <2>1. Trace!model_ovni_finish
    BY <1>0, <1>3, <1>4, <1>5 DEF Trace!model_ovni_finish
  <2> QED
    BY <1>0, <1>1, <2>1 DEF Trace!Next, TraceInv
<1>6. CASE end' = "error" /\ \E t \in Thread : st[t] # "dead"
  <2>1. Trace!model_ovni_finish
    BY <1>3, <1>4, <1>6 DEF Trace!model_ovni_finish
  <2> QED
    BY <1>0, <1>1, <2>1 DEF Trace!Next, TraceInv
<1>7. CASE end' = "error" /\ \A t \in Thread : st[t] = "dead"
  <2>1. 0 \in Thread
    BY ViewsAssumption DEF Thread
  <2>2. ~Trace!CanEnd(0)
    BY <1>3, <1>7, <2>1 DEF Trace!CanEnd
  <2>3. ~Trace!AcceptsAll
    BY <2>1, <2>2 DEF Trace!AcceptsAll
  <2>4. Trace!Reject
    BY <1>3, <1>4, <1>7, <2>3 DEF Trace!Reject
  <2> QED
    BY <1>0, <1>1, <2>4 DEF Trace!Next, TraceInv
<1> QED
  BY <1>0, <1>5, <1>6, <1>7

\* The rows before the first event.
LEMMA TraceStart == Init => Trace!Init /\ TraceInv
<1> SUFFICES ASSUME Init PROVE Trace!Init /\ TraceInv
  OBVIOUS
<1>0. VInv /\ end = "no"
  BY ViewStart DEF Init
<1>1. bay = EmptyBay(ChansOf(view)) /\ st = [t \in Thread |-> "unknown"] /\ at = [t \in Thread |-> -1]
  BY DEF Init, BayInit
<1>2. /\ DOMAIN bay.data = ChansOf(view)
      /\ \A e \in DOMAIN bay.data : bay.last[e] = Null /\ ChanRead(bay, e) = Null
  <2>1. /\ bay.data = [c \in ChansOf(view) |-> IF c \in Stack THEN <<>> ELSE <<Null>>]
        /\ bay.last = [c \in ChansOf(view) |-> Null]
    BY <1>1 DEF EmptyBay
  <2> QED
    BY <2>1 DEF ChanRead, Last
<1>3. RowsSay(st, at, Outs, Flushes)
  <2>1. Flushed
    BY <1>2 DEF Flushed
  <2> QED
    BY <1>0, <2>1, FlushedRows
<1>4. Outs = [t \in Thread |-> FALSE] /\ Flushes = [t \in Thread |-> FALSE]
  BY <1>0, <1>2, HeldChan DEF Outs, Flushes, Holds
<1>5. \A c \in Cpu : /\ On(at, c) = {} /\ RunSet(st, at, c) = {} /\ ActSet(st, at, c) = {}
                     /\ Cardinality({}) = 0 /\ Single({}) = -1
  <2>1. -1 \notin Cpu
    BY DEF Cpu
  <2>2. Cardinality({}) = 0
    BY FS_EmptySet
  <2> QED
    BY <1>1, <2>1, <2>2 DEF On, RunSet, ActSet, Single
<1>6. RowEmu = "run"
  BY <1>0 DEF RowEmu
<1>7. Trace!Init
  BY <1>1, <1>3, <1>4, <1>5, <1>6 DEF RowsSay, Trace!Init
<1>8. TraceInv
  <2>1. PICK s, a, k, f : s = st /\ a = at /\ k = Outs /\ f = Flushes
    OBVIOUS
  <2>2. Typed(s, a, k, f) /\ RowsSay(s, a, k, f)
    BY <1>0, <1>3, <2>1, NowTyped
  <2>3. Change(s, a, k, f, st, at, Outs, Flushes)
    BY <2>1 DEF Change
  <2> QED
    BY <1>0, <2>2, <2>3 DEF TraceInv
<1> QED
  BY <1>7, <1>8

\* Every step is one of ThreadCpu, or leaves the rows alone.
LEMMA StepTrace ==
  ASSUME ViewsInv, TraceInv, [Next]_viewVars
  PROVE  (Trace!Next \/ UNCHANGED Trace!vars) /\ TraceInv'
<1>1. CASE Event
  <2>1. VInv /\ state = "ready" /\ end = "no"
    BY <1>1 DEF Event, ViewsInv
  <2>2. Changed
    BY <1>1, <2>1, ThreadChange, ModelChange DEF Event
  <2> QED
    BY <2>1, <2>2, EventTrace
<1>2. CASE Step
  <2>1. VInv
    BY <1>2 DEF Step, Propagate, RunMux, RunSort, WriteOutput, EmitAndFlush, Walking, ViewsInv
  <2> QED
    BY <1>2, <2>1, MuxTrace, NoSort, EmitTrace, ZeroTrace DEF Step, Propagate
<1>3. ASSUME NEW linter \in BOOLEAN, Finish(linter) PROVE Trace!Next /\ TraceInv'
  <2>1. VInv
    BY <1>3 DEF Finish, ViewsInv
  <2> QED
    BY <1>3, <2>1, FinishTrace
<1>4. CASE UNCHANGED viewVars
  <2>1. /\ bay' = bay /\ prv' = prv /\ view' = view /\ state' = state /\ end' = end /\ st' = st /\ at' = at
    BY <1>4 DEF viewVars, vars
  <2>2. /\ RowState' = RowState /\ RowCpu' = RowCpu /\ RowOut' = RowOut /\ RowFlush' = RowFlush
        /\ RowThreads' = RowThreads /\ RowNth' = RowNth /\ RowRunning' = RowRunning
        /\ RowActive' = RowActive /\ RowEmu' = RowEmu
    <3>1. Line' = Line
      BY <2>1 DEF Line
    <3> QED
      BY <2>1, <3>1 DEF RowState, RowCpu, RowOut, RowFlush, RowThreads, RowNth, RowRunning, RowActive, RowEmu
  <2>3. Outs' = Outs /\ Flushes' = Flushes
    BY <2>1 DEF Outs, Flushes, Holds
  <2>4. \A s, a, k, f : RowsSay(s, a, k, f) => RowsSay(s, a, k, f)'
    BY <2>2 DEF RowsSay
  <2>5. UNCHANGED Trace!vars
    BY <2>2 DEF Trace!vars
  <2>6. TraceInv'
    BY <2>1, <2>3, <2>4 DEF TraceInv
  <2> QED
    BY <2>5, <2>6
<1> QED
  BY <1>1, <1>2, <1>3, <1>4 DEF Next

\* The trace is a behaviour of ThreadCpu: the rows of threads and CPUs, as a reader finds
\* them at any time, only change in steps of ThreadCpu, whole events at a time
\* (pre_thread() and pre_affinity() of emu/ovni/event.c, cpu_update() and prv.c).
THEOREM TraceRefines == Spec => Trace!Spec
<1>1. Init => Trace!Init /\ TraceInv
  BY TraceStart
<1>2. ViewsInv /\ TraceInv /\ [Next]_viewVars => TraceInv' /\ [Trace!Next]_Trace!vars
  BY StepTrace
<1> QED
  BY <1>1, <1>2, ViewsFlow, PTL DEF Spec, Trace!Spec

\* The same, of the steps that change what a reader sees.
THEOREM TraceImplements == Spec => TraceFollows
<1>1. Init => Trace!Init /\ TraceInv
  BY TraceStart
<1>2. ViewsInv /\ TraceInv /\ [Next]_viewVars =>
          /\ TraceInv'
          /\ [Seen' # Seen /\ Trace!vars' # Trace!vars => Trace!Next]_Seen
  BY StepTrace
<1> QED
  BY <1>1, <1>2, ViewsFlow, PTL DEF Spec, TraceFollows
=============================================================================

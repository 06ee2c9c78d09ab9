--------------------------- MODULE BreakdownProofs --------------------------
(***************************************************************************)
(* The breakdown views are right in every behaviour, for any number of     *)
(* threads and CPUs.                                                       *)
(*                                                                         *)
(* The dirty list stays exact although the muxes and the sort module write *)
(* the same outputs several times in a propagation (Bookkeeping, from the  *)
(* lemmas of PatchbayProofs).  BdInv adds the graph: the channels come in  *)
(* levels (thread channels, tracks, tr, tri, outputs), a mux writes above  *)
(* the channels it reads, and the walk of the dirty list never comes to a  *)
(* channel that a mux ahead of it is still to write.  From it no event that*)
(* is accepted makes the propagation fail, every mux follows its input, and*)
(* each CPU shows the state of its thread.  SortInv is the same for the    *)
(* sort module: between its first change and the flush the outputs already *)
(* written agree with the array, and the array arranges the inputs.        *)
(***************************************************************************)
EXTENDS Breakdown, PatchbayProofs

\* The end of every handler: propagate what it wrote.
LEMMA AcceptedInv == ASSUME NEW b, BayInv(b), IInv, Accepted(b) PROVE IInv'
  BY HandledInv DEF Accepted

\* The start: the channels of the progress of the threads are the dirty ones.
LEMMA ConnectedInv == ASSUME NEW m \in Model PROVE BayInv(Connected(m))
<1> DEFINE n    == IF m \in HasIdle THEN NThreads ELSE 0
           idle == [i \in 1 .. n |-> Progress(m, i - 1)]
           b    == EmptyBay(ChansOf(m))
           r    == Connected(m)
<1>0. n \in Nat
  BY BreakdownAssumption
<1>1. /\ \A i \in 1 .. n : idle[i] = Progress(m, i - 1)
      /\ DOMAIN idle = 1 .. n
  OBVIOUS
<1>2. /\ idle \in Seq(ToSet(idle))
      /\ \A i, j \in DOMAIN idle : idle[i] = idle[j] => i = j
      /\ ToSet(idle) = {idle[i] : i \in DOMAIN idle}
  <2>1. ToSet(idle) = {idle[i] : i \in DOMAIN idle}
    BY DEF ToSet
  <2>2. idle \in Seq(ToSet(idle))
    BY <1>0, <2>1
  <2>3. \A i, j \in DOMAIN idle : idle[i] = idle[j] => i = j
    BY <1>0, <1>1 DEF Progress
  <2> QED
    BY <2>1, <2>2, <2>3
<1>3. \A i \in 1 .. n : idle[i] \in ChansOf(m)
  <2> SUFFICES ASSUME NEW i \in 1 .. n PROVE Progress(m, i - 1) \in ChansOf(m)
    BY <1>1
  <2>1. m \in HasIdle /\ i - 1 \in Thread
    BY <1>0, BreakdownAssumption DEF Thread
  <2> QED
    BY <2>1 DEF Progress, ChansOf, BdChan, RawChan
<1>4. BayInv(b) /\ b.flag = {}
  BY EmptyInv DEF EmptyBay
<1> HIDE DEF idle, b
<1> DEFINE D == [c \in DOMAIN b.data |-> IF c \in ToSet(idle)
                                        THEN <<ST_PROGRESSING>> ELSE b.data[c]]
<1>5. r = [b EXCEPT !.data = D, !.flag = ToSet(idle), !.list = idle]
  BY Zenon DEF Connected, idle, b
<1> HIDE DEF r
<1>6. /\ r.data = D
      /\ r.flag = ToSet(idle) /\ r.list = idle /\ r.last = b.last
      /\ IsBay(r)
  <2> HIDE DEF D
  <2>1. /\ r \in [data : {r.data}, last : {r.last}, flag : {r.flag}, list : {r.list}, ok : {r.ok}]
        /\ r.data = D /\ r.flag = ToSet(idle) /\ r.list = idle /\ r.last = b.last
    BY <1>5, <1>4 DEF BayInv, IsBay
  <2>2. /\ D = [c \in DOMAIN D |-> D[c]]
        /\ b.last = [c \in DOMAIN D |-> b.last[c]]
    BY <1>4 DEF BayInv, IsBay, D
  <2> QED
    BY <2>1, <2>2 DEF IsBay
<1>7. Listed(r)
  BY <1>6, <1>2 DEF Listed
<1>8. Unchanged(r)
  <2> SUFFICES ASSUME NEW c \in DOMAIN b.data, c \notin ToSet(idle)
               PROVE  b.last[c] = ChanRead(r, c)
    BY <1>6 DEF Unchanged
  <2>1. r.data[c] = b.data[c] /\ b.last[c] = ChanRead(b, c)
    BY <1>6, <1>4 DEF Unchanged, BayInv
  <2> QED
    BY <2>1 DEF ChanRead
<1> QED
  BY <1>6, <1>7, <1>8 DEF BayInv, r

\* Every event writes with the operations of chan.c.
LEMMA EventInv == ASSUME IInv, Event PROVE IInv'
<1>0. BayInv(bay)
  BY DEF IInv
<1>1. ASSUME NEW t, NEW c, ThreadRuns(t, c) PROVE IInv'
  BY <1>0, <1>1, ChanInv, AcceptedInv DEF ThreadRuns
<1>2. ASSUME NEW c, ThreadStops(c) PROVE IInv'
  BY <1>0, <1>2, ChanInv, AcceptedInv DEF ThreadStops
<1>3. ASSUME NEW c, NEW d, ThreadMigrates(c, d) PROVE IInv'
  BY <1>0, <1>3, ChanInv, AcceptedInv DEF ThreadMigrates
<1>4. ASSUME NEW t, NEW v, SetIdle(t, v) PROVE IInv'
  BY <1>0, <1>4, ChanInv, AcceptedInv DEF SetIdle
<1>5. ASSUME NEW t, PushSubsystem(t) \/ PopSubsystem(t) PROVE IInv'
  BY <1>0, <1>5, ChanInv, AcceptedInv DEF PushSubsystem, PopSubsystem
<1>6. ASSUME NEW t, TaskExecute(t) \/ TaskPause(t) \/ TaskResume(t) \/ TaskEnd(t) PROVE IInv'
  <2>1. CASE TaskExecute(t)
    BY <1>0, <2>1, ChanInv, AcceptedInv DEF TaskExecute
  <2>2. CASE TaskPause(t)
    BY <1>0, <2>2, ChanInv, AcceptedInv DEF TaskPause
  <2>3. CASE TaskResume(t)
    BY <1>0, <2>3, ChanInv, AcceptedInv DEF TaskResume
  <2>4. CASE TaskEnd(t)
    BY <1>0, <2>4, ChanInv, AcceptedInv DEF TaskEnd
  <2> QED
    BY <1>6, <2>1, <2>2, <2>3, <2>4
<1>7. ASSUME NEW t, BeginLabel(t) \/ EndLabel(t) PROVE IInv'
  BY <1>0, <1>7, ChanInv, AcceptedInv DEF BeginLabel, EndLabel
<1> QED
  BY <1>1, <1>2, <1>3, <1>4, <1>5, <1>6, <1>7 DEF Event

-----------------------------------------------------------------------------

\* The bookkeeping of the bay is an invariant of the breakdown views.
THEOREM Bookkeeping == Spec => []IInv
<1>1. Init => IInv
  BY ConnectedInv DEF Init, BayInit, IInv
<1>2. IInv /\ [Next]_bdVars => IInv'
  <2> SUFFICES ASSUME IInv, [Next]_bdVars PROVE IInv'
    OBVIOUS
  <2>1. CASE Event
    BY <2>1, EventInv
  <2>2. CASE Step
    BY <2>2, PropagateInv DEF Step
  <2>3. CASE UNCHANGED bdVars
    BY <2>3 DEF bdVars, vars, IInv
  <2> QED
    BY <2>1, <2>2, <2>3 DEF Next
<1> QED
  BY <1>1, <1>2, PTL DEF Spec

\* The dirty list holds each dirty channel once although the muxes of a CPU and the
\* sort module write the same channel again and again (chan.c and bay.c).
THEOREM DirtyListExact == Spec => []ListedOnce
  BY InvListed, Bookkeeping, PTL
-----------------------------------------------------------------------------
(* The graph of a model.                                                   *)

Lvl0 == {"thrun", "type", "subsystem", "progress"}
Lvl1 == {"tt", "ss", "idle"}

\* The muxes of the model o.
MuxOf(o) == {m \in BdMux : m[1] = o}

\* Their names.
LEMMA MuxNames ==
  ASSUME NEW m \in BdMux
  PROVE  /\ m = <<m[1], m[2], m[3]>> /\ m[1] \in Model /\ m[3] \in Cpu
         /\ m[2] \in Lvl1 \cup {"tr", "tri"} /\ (m \in Track <=> m[2] \in Lvl1)
         /\ m[2] \in {"idle", "tr"} => m[1] \in HasIdle
  BY DEF BdMux, Track, HasIdle, Lvl1

\* Every track has a mux in each CPU.
LEMMA TrackMux ==
  ASSUME NEW o \in Model, NEW c \in Cpu, NEW k \in Lvl1, k = "idle" => o \in HasIdle
  PROVE  LET m == <<o, k, c>>
         IN  /\ m \in MuxOf(o) /\ m \in Mux /\ MuxSel[m] = ThRun(c) /\ MuxOut[m] = m
             /\ MuxIn[m] = [i \in 1 .. NThreads |-> <<o, Followed(k), i - 1>>]
             /\ MuxDef[m] = IF k = "idle" THEN ST_RESTING ELSE Null
<1> DEFINE m == <<o, k, c>>
<1>1. m \in Track /\ m \in BdMux
  BY DEF BdMux, Track, HasIdle, Lvl1
<1>2. m[1] = o /\ m[2] = k /\ m[3] = c
  OBVIOUS
<1> HIDE DEF m
<1>3. m[2] # "tri" /\ m[2] # "tr"
  BY <1>2 DEF Lvl1
<1>4. BdSel[m] = ThRun(c) /\ BdMuxOut[m] = m
  BY <1>1, <1>2, <1>3 DEF BdSel, BdMuxOut
<1>5. BdIn[m] = [i \in 1 .. NThreads |-> <<o, Followed(k), i - 1>>]
  BY <1>1, <1>2, <1>3 DEF BdIn
<1>6. BdDef[m] = IF k = "idle" THEN ST_RESTING ELSE Null
  BY <1>1, <1>2, <1>3 DEF BdDef
<1>7. m \in MuxOf(o)
  BY <1>1, <1>2 DEF MuxOf
<1> QED
  BY <1>1, <1>4, <1>5, <1>6, <1>7, BreakdownGraph DEF m

\* mux0 of nOS-V and Nanos6.
LEMMA TrMux ==
  ASSUME NEW o \in HasIdle, NEW c \in Cpu
  PROVE  LET m == <<o, "tr", c>>
         IN  /\ m \in MuxOf(o) /\ m \in Mux /\ MuxSel[m] = <<o, "ss", c>> /\ MuxOut[m] = m
             /\ MuxIn[m] = <<<<o, "ss", c>>, <<o, "tt", c>>>> /\ MuxDef[m] = ST_UNKNOWN_SS
<1> DEFINE m == <<o, "tr", c>>
<1>1. m \notin Track /\ m \in BdMux
  BY DEF BdMux, Track, HasIdle, Lvl1
<1>2. m[1] = o /\ m[2] = "tr" /\ m[3] = c
  OBVIOUS
<1> HIDE DEF m
<1>3. BdSel[m] = <<o, "ss", c>> /\ BdMuxOut[m] = m
  BY <1>1, <1>2 DEF BdSel, BdMuxOut
<1>4. BdIn[m] = <<<<o, "ss", c>>, <<o, "tt", c>>>>
  BY <1>1, <1>2 DEF BdIn
<1>5. BdDef[m] = ST_UNKNOWN_SS
  BY <1>1, <1>2 DEF BdDef
<1>6. m \in MuxOf(o)
  BY <1>1, <1>2 DEF MuxOf
<1> QED
  BY <1>1, <1>3, <1>4, <1>5, <1>6, BreakdownGraph DEF m

\* The mux that writes tri.
LEMMA TriMux ==
  ASSUME NEW o \in Model, NEW c \in Cpu
  PROVE  LET m == <<o, "tri", c>>
         IN  /\ m \in MuxOf(o) /\ m \in Mux /\ MuxSel[m] = <<o, TriSelect(o), c>> /\ MuxOut[m] = Tri(c)
             /\ MuxIn[m] = IF o = "openmp" THEN <<<<o, "tt", c>>, <<o, "ss", c>>>>
                                           ELSE <<<<o, "tr", c>>, <<o, "idle", c>>>>
             /\ MuxDef[m] = Null
<1> DEFINE m == <<o, "tri", c>>
<1>1. m \notin Track /\ m \in BdMux
  BY DEF BdMux, Track, HasIdle, Lvl1
<1>2. m[1] = o /\ m[2] = "tri" /\ m[3] = c
  OBVIOUS
<1> HIDE DEF m
<1>3. BdSel[m] = <<o, TriSelect(o), c>> /\ BdMuxOut[m] = Tri(c)
  BY <1>1, <1>2 DEF BdSel, BdMuxOut
<1>4. BdIn[m] = IF o = "openmp" THEN <<<<o, "tt", c>>, <<o, "ss", c>>>>
                                ELSE <<<<o, "tr", c>>, <<o, "idle", c>>>>
  BY <1>1, <1>2 DEF BdIn
<1>5. BdDef[m] = Null
  BY <1>1, <1>2 DEF BdDef
<1>6. m \in MuxOf(o)
  BY <1>1, <1>2 DEF MuxOf
<1> QED
  BY <1>1, <1>3, <1>4, <1>5, <1>6, BreakdownGraph DEF m

\* The channels of a model.
LEMMA ChanNames ==
  ASSUME NEW o \in Model
  PROVE  /\ \A c \in Cpu : {ThRun(c), Tri(c), Out(c), <<o, "tt", c>>, <<o, "ss", c>>} \subseteq ChansOf(o)
         /\ o \in HasIdle => \A c \in Cpu : {<<o, "idle", c>>, <<o, "tr", c>>} \subseteq ChansOf(o)
         /\ \A t \in Thread : {<<o, "type", t>>, <<o, "subsystem", t>>} \subseteq ChansOf(o)
         /\ o \in HasIdle => \A t \in Thread : <<o, "progress", t>> \in ChansOf(o)
<1>1. ASSUME NEW c \in Cpu
      PROVE  {ThRun(c), Tri(c), Out(c), <<o, "tt", c>>, <<o, "ss", c>>} \subseteq ChansOf(o)
  <2>1. {ThRun(c), Out(c)} \subseteq ChansOf(o)
    BY DEF ThRun, Out, ChansOf, BdChan, BdOut
  <2>2. Tri(c) \in ChansOf(o)
    <3>1. <<o, "tri", c>> \in BdMux /\ BdMuxOut[<<o, "tri", c>>] = Tri(c)
      BY TriMux, BreakdownGraph
    <3>2. Tri(c) \in BdChan
      BY <3>1 DEF BdChan, MuxOuts
    <3> QED
      BY <3>2 DEF ChansOf, Tri
  <2>3. ASSUME NEW k \in {"tt", "ss"} PROVE <<o, k, c>> \in ChansOf(o)
    <3>1. <<o, k, c>> \in BdMux /\ BdMuxOut[<<o, k, c>>] = <<o, k, c>>
      <4>1. k \in Lvl1 /\ k # "idle"
        BY DEF Lvl1
      <4> QED
        BY <4>1, TrackMux, BreakdownGraph
    <3>2. <<o, k, c>> \in BdChan
      BY <3>1 DEF BdChan, MuxOuts
    <3> QED
      BY <3>2 DEF ChansOf
  <2> QED
    BY <2>1, <2>2, <2>3
<1>2. ASSUME o \in HasIdle, NEW c \in Cpu
      PROVE  {<<o, "idle", c>>, <<o, "tr", c>>} \subseteq ChansOf(o)
  <2>1. <<o, "tr", c>> \in BdMux /\ BdMuxOut[<<o, "tr", c>>] = <<o, "tr", c>>
    BY <1>2, TrMux, BreakdownGraph
  <2>2. <<o, "idle", c>> \in BdMux /\ BdMuxOut[<<o, "idle", c>>] = <<o, "idle", c>>
    BY <1>2, TrackMux, BreakdownGraph DEF Lvl1
  <2>3. <<o, "tr", c>> \in BdChan /\ <<o, "idle", c>> \in BdChan
    BY <2>1, <2>2 DEF BdChan, MuxOuts
  <2> QED
    BY <2>3 DEF ChansOf
<1>3. \A t \in Thread : {<<o, "type", t>>, <<o, "subsystem", t>>} \subseteq ChansOf(o)
  BY DEF ChansOf, BdChan, RawChan
<1>4. o \in HasIdle => \A t \in Thread : <<o, "progress", t>> \in ChansOf(o)
  BY DEF ChansOf, BdChan, RawChan
<1> QED
  BY <1>1, <1>2, <1>3, <1>4

\* A mux is that of a track, mux0 or mux1.
LEMMA MuxCases ==
  ASSUME NEW o \in Model, NEW m \in MuxOf(o)
  PROVE  \E c \in Cpu :
            \/ \E k \in Lvl1 : (k = "idle" => o \in HasIdle) /\ m = <<o, k, c>>
            \/ o \in HasIdle /\ m = <<o, "tr", c>>
            \/ m = <<o, "tri", c>>
<1>1. m \in BdMux /\ m[1] = o
  BY DEF MuxOf
<1>2. /\ m = <<o, m[2], m[3]>> /\ m[3] \in Cpu
      /\ m[2] \in Lvl1 \cup {"tr", "tri"} /\ (m[2] \in {"idle", "tr"} => o \in HasIdle)
  BY <1>1, MuxNames
<1>3. CASE m[2] \in Lvl1
  BY <1>2, <1>3
<1>4. CASE m[2] = "tr"
  BY <1>2, <1>4
<1>5. CASE m[2] = "tri"
  BY <1>2, <1>5
<1> QED
  BY <1>2, <1>3, <1>4, <1>5

\* The kind of the channels that the mux m of the model o reads and writes.
Kind(o, m) ==
    /\ m \in Mux
    /\ MuxSel[m] \in ChansOf(o) /\ MuxOut[m] \in ChansOf(o)
    /\ \A i \in DOMAIN MuxIn[m] : MuxIn[m][i] \in ChansOf(o)
    /\ MuxOut[m][2] = m[2] /\ MuxOut[m][3] = m[3]
    /\ m[2] \in Lvl1 => /\ MuxSel[m] = ThRun(m[3]) /\ MuxOut[m] = m
                        /\ \A i \in DOMAIN MuxIn[m] : MuxIn[m][i][2] = Followed(m[2])
    /\ m[2] = "tr" => /\ MuxSel[m] = <<o, "ss", m[3]>> /\ MuxOut[m] = m
                      /\ \A i \in DOMAIN MuxIn[m] :
                             MuxIn[m][i] \in {<<o, "ss", m[3]>>, <<o, "tt", m[3]>>}
    /\ m[2] = "tri" =>
           /\ MuxSel[m] = <<o, TriSelect(o), m[3]>> /\ MuxOut[m] = Tri(m[3])
           /\ \A i \in DOMAIN MuxIn[m] :
                  MuxIn[m][i] \in IF o = "openmp" THEN {<<o, "tt", m[3]>>, <<o, "ss", m[3]>>}
                                  ELSE {<<o, "tr", m[3]>>, <<o, "idle", m[3]>>}

\* So it is.
LEMMA MuxKinds == ASSUME NEW o \in Model, NEW m \in MuxOf(o) PROVE Kind(o, m)
<1>0. o = "openmp" <=> o \notin HasIdle
  BY DEF HasIdle
<1>1. PICK c \in Cpu :
            \/ \E k \in Lvl1 : (k = "idle" => o \in HasIdle) /\ m = <<o, k, c>>
            \/ o \in HasIdle /\ m = <<o, "tr", c>>
            \/ m = <<o, "tri", c>>
  BY MuxCases
<1>2. CASE \E k \in Lvl1 : (k = "idle" => o \in HasIdle) /\ m = <<o, k, c>>
  <2>1. PICK k \in Lvl1 : (k = "idle" => o \in HasIdle) /\ m = <<o, k, c>>
    BY <1>2
  <2>2. /\ m \in Mux /\ MuxSel[m] = ThRun(c) /\ MuxOut[m] = m
        /\ MuxIn[m] = [i \in 1 .. NThreads |-> <<o, Followed(k), i - 1>>]
    BY <2>1, TrackMux
  <2>3. m[1] = o /\ m[2] = k /\ m[3] = c /\ k # "tr" /\ k # "tri"
    BY <2>1 DEF Lvl1
  <2>4. m \in ChansOf(o) /\ ThRun(c) \in ChansOf(o)
    BY <2>1, ChanNames DEF Lvl1
  <2>5. \A i \in DOMAIN MuxIn[m] : /\ MuxIn[m][i] \in ChansOf(o)
                                   /\ MuxIn[m][i][2] = Followed(k)
    <3> SUFFICES ASSUME NEW i \in 1 .. NThreads PROVE <<o, Followed(k), i - 1>> \in ChansOf(o)
      BY <2>2
    <3>1. i - 1 \in Thread
      BY BreakdownAssumption DEF Thread
    <3>2. CASE k = "tt"
      BY <3>1, <3>2, ChanNames DEF Followed
    <3>3. CASE k = "ss"
      BY <3>1, <3>3, ChanNames DEF Followed
    <3>4. CASE k = "idle"
      BY <2>1, <3>1, <3>4, ChanNames DEF Followed
    <3> QED
      BY <3>2, <3>3, <3>4 DEF Lvl1
  <2> QED
    BY <2>2, <2>3, <2>4, <2>5 DEF Kind
<1>3. CASE o \in HasIdle /\ m = <<o, "tr", c>>
  <2>1. /\ m \in Mux /\ MuxSel[m] = <<o, "ss", c>> /\ MuxOut[m] = m
        /\ MuxIn[m] = <<<<o, "ss", c>>, <<o, "tt", c>>>>
    BY <1>3, TrMux
  <2>2. m[1] = o /\ m[2] = "tr" /\ m[3] = c
    BY <1>3
  <2>3. {m, <<o, "ss", c>>, <<o, "tt", c>>} \subseteq ChansOf(o)
    BY <1>3, ChanNames
  <2>4. \A i \in DOMAIN MuxIn[m] : MuxIn[m][i] \in {<<o, "ss", c>>, <<o, "tt", c>>}
    BY <2>1
  <2> QED
    BY <2>1, <2>2, <2>3, <2>4 DEF Lvl1, Kind
<1>4. CASE m = <<o, "tri", c>>
  <2>1. /\ m \in Mux /\ MuxSel[m] = <<o, TriSelect(o), c>> /\ MuxOut[m] = Tri(c)
        /\ MuxIn[m] = IF o = "openmp" THEN <<<<o, "tt", c>>, <<o, "ss", c>>>>
                                      ELSE <<<<o, "tr", c>>, <<o, "idle", c>>>>
    BY <1>4, TriMux
  <2>2. m[1] = o /\ m[2] = "tri" /\ m[3] = c
    BY <1>4
  <2>3. {Tri(c), <<o, TriSelect(o), c>>} \subseteq ChansOf(o)
    BY <1>0, ChanNames DEF TriSelect
  <2>4. \A i \in DOMAIN MuxIn[m] :
                       MuxIn[m][i] \in IF o = "openmp" THEN {<<o, "tt", c>>, <<o, "ss", c>>}
                                       ELSE {<<o, "tr", c>>, <<o, "idle", c>>}
    BY <2>1
  <2>5. \A i \in DOMAIN MuxIn[m] : MuxIn[m][i] \in ChansOf(o)
    BY <2>4, <1>0, ChanNames
  <2>6. MuxOut[m][2] = m[2] /\ MuxOut[m][3] = m[3] /\ m[2] \notin Lvl1 /\ m[2] # "tr"
    BY <2>1, <2>2 DEF Lvl1, Tri
  <2>7. MuxSel[m] \in ChansOf(o) /\ MuxOut[m] \in ChansOf(o)
    BY <2>1, <2>3
  <2>8. MuxSel[m] = <<o, TriSelect(o), m[3]>> /\ MuxOut[m] = Tri(m[3])
    BY <2>1, <2>2
  <2> QED
    BY <2>1, <2>2, <2>4, <2>5, <2>6, <2>7, <2>8 DEF Kind
<1> QED
  BY <1>1, <1>2, <1>3, <1>4

\* The inputs and outputs of the sort module.
LEMMA SortChans ==
  /\ DOMAIN SortIn = Cpu /\ DOMAIN SortOut = Cpu /\ Len(SortIn) = NCpus /\ Len(SortOut) = NCpus
  /\ \A c \in Cpu : SortIn[c] = Tri(c) /\ SortOut[c] = Out(c)
  /\ ToSet(SortIn) = {Tri(c) : c \in Cpu} /\ ToSet(SortOut) = {Out(c) : c \in Cpu}
<1>1. /\ SortIn = [c \in Cpu |-> Tri(c)] /\ SortOut = [c \in Cpu |-> Out(c)]
  BY BreakdownGraph DEF BdSortIn, BdSortOut
<1>2. NCpus \in Nat
  BY BreakdownAssumption
<1>3. Len(SortIn) = NCpus /\ Len(SortOut) = NCpus
  BY <1>1, <1>2, GraphAssumption DEF Cpu
<1> QED
  BY <1>1, <1>3 DEF ToSet

\* The graph of each model is wired.
LEMMA BdWired == ASSUME NEW o \in Model PROVE Wired(MuxOf(o), ChansOf(o))
<1>0. o # "cpu" /\ o \in {"nosv", "nanos6", "openmp"}
  BY BreakdownAssumption
<1>1. ASSUME NEW m \in MuxOf(o)
      PROVE  /\ m \in Mux /\ {MuxSel[m], MuxOut[m]} \cup ToSet(MuxIn[m]) \subseteq ChansOf(o)
             /\ MuxOut[m] \in DirtyWrite \cap AllowDup
             /\ MuxOut[m][2] = m[2] /\ MuxOut[m][3] = m[3]
  <2>1. m \in BdMux /\ MuxOut[m] \in MuxOuts
    BY BreakdownGraph DEF MuxOf, MuxOuts
  <2>2. MuxOut[m] \in DirtyWrite \cap AllowDup
    BY <2>1, BreakdownGraph DEF BdDirtyWrite, BdAllowDup
  <2>3. Kind(o, m)
    BY MuxKinds
  <2> QED
    BY <2>2, <2>3 DEF ToSet, Kind
<1>2. ASSUME NEW m \in MuxOf(o) PROVE MuxOut[m] \notin {MuxSel[m]} \cup ToSet(MuxIn[m])
  <2>0. Kind(o, m)
    BY MuxKinds
  <2>1. m[2] \in Lvl1 \cup {"tr", "tri"}
    BY MuxNames DEF MuxOf
  <2>2. CASE m[2] \in Lvl1
    BY <2>0, <2>2 DEF Kind, Lvl1, ThRun, ToSet, Followed
  <2>3. CASE m[2] = "tr"
    BY <2>0, <2>3 DEF Kind, ToSet
  <2>4. CASE m[2] = "tri"
    BY <2>0, <2>4 DEF Kind, ToSet, TriSelect, Tri
  <2> QED
    BY <2>1, <2>2, <2>3, <2>4
<1>3. ASSUME NEW m \in MuxOf(o), NEW n \in MuxOf(o), MuxOut[m] = MuxOut[n] PROVE m = n
  <2>1. m[2] = n[2] /\ m[3] = n[3]
    BY <1>1, <1>3
  <2>2. m = <<o, m[2], m[3]>> /\ n = <<o, n[2], n[3]>>
    BY MuxNames DEF MuxOf
  <2> QED
    BY <2>1, <2>2
<1>4. /\ ToSet(SortIn) \cup ToSet(SortOut) \subseteq ChansOf(o)
      /\ ToSet(SortOut) \subseteq DirtyWrite \cap AllowDup
      /\ \A i, j \in DOMAIN SortOut : SortOut[i] = SortOut[j] => i = j
      /\ ToSet(SortOut) \cap ToSet(SortIn) = {}
  <2>1. ToSet(SortIn) \cup ToSet(SortOut) \subseteq ChansOf(o)
    BY SortChans, ChanNames
  <2>2. ToSet(SortOut) \subseteq DirtyWrite \cap AllowDup
    BY SortChans, BreakdownGraph DEF BdDirtyWrite, BdAllowDup, BdOut
  <2>3. \A i, j \in DOMAIN SortOut : SortOut[i] = SortOut[j] => i = j
    BY SortChans DEF Out
  <2>4. ToSet(SortOut) \cap ToSet(SortIn) = {}
    BY SortChans DEF Out, Tri
  <2> QED
    BY <2>1, <2>2, <2>3, <2>4
<1>5. ASSUME NEW m \in MuxOf(o)
      PROVE  ToSet(SortOut) \cap ({MuxSel[m], MuxOut[m]} \cup ToSet(MuxIn[m])) = {}
  <2>0. Kind(o, m)
    BY MuxKinds
  <2>1. \A x \in ToSet(SortOut) : x[2] = "out"
    BY SortChans DEF Out
  <2>2. m[2] \in Lvl1 \cup {"tr", "tri"} /\ MuxOut[m][2] # "out"
    BY MuxNames, <1>1 DEF MuxOf, Lvl1
  <2>3. MuxSel[m][2] # "out" /\ \A i \in DOMAIN MuxIn[m] : MuxIn[m][i][2] # "out"
    <3>1. CASE m[2] \in Lvl1
      BY <2>0, <3>1 DEF Kind, Lvl1, ThRun, Followed
    <3>2. CASE m[2] = "tr"
      BY <2>0, <3>2 DEF Kind
    <3>3. CASE m[2] = "tri"
      BY <2>0, <3>3 DEF Kind, TriSelect
    <3> QED
      BY <2>2, <3>1, <3>2, <3>3
  <2> QED
    BY <2>1, <2>2, <2>3 DEF ToSet
<1> QED
  BY <1>1, <1>2, <1>3, <1>4, <1>5 DEF Wired

\* The muxes whose channels a model registers are its own.
LEMMA MuxOfIs ==
  ASSUME NEW o \in Model
  PROVE  {x \in Mux : {MuxSel[x], MuxOut[x]} \subseteq ChansOf(o)} = MuxOf(o)
<1>1. ASSUME NEW x \in Mux, {MuxSel[x], MuxOut[x]} \subseteq ChansOf(o) PROVE x \in MuxOf(o)
  <2>1. x \in BdMux /\ x[1] \in Model /\ x[1] # "cpu" /\ x \in MuxOf(x[1]) /\ x = <<x[1], x[2], x[3]>>
    BY MuxNames, BreakdownGraph, BreakdownAssumption DEF MuxOf
  <2>2. MuxSel[x][1] = x[1] \/ MuxOut[x][1] = x[1]
    <3>0. Kind(x[1], x)
      BY <2>1, MuxKinds
    <3>1. x[2] \in Lvl1 \cup {"tr", "tri"}
      BY <2>1, MuxNames
    <3>2. CASE x[2] = "tri"
      BY <2>1, <3>0, <3>2 DEF Kind
    <3>3. CASE x[2] # "tri"
      BY <2>1, <3>0, <3>1, <3>3 DEF Kind
    <3> QED
      BY <3>2, <3>3
  <2>3. x[1] = o
    BY <1>1, <2>1, <2>2 DEF ChansOf
  <2> QED
    BY <2>1, <2>3
<1>2. ASSUME NEW x \in MuxOf(o) PROVE x \in Mux /\ {MuxSel[x], MuxOut[x]} \subseteq ChansOf(o)
  BY MuxKinds DEF Kind
<1> QED
  BY <1>1, <1>2

\* Every channel is the running thread of a CPU, one of a thread, the output of a mux or
\* one of the sort module.
LEMMA ChanCases ==
  ASSUME NEW c \in BdChan
  PROVE  \/ \E d \in Cpu : c = ThRun(d)
         \/ c \in RawChan /\ c[2] \in Lvl0 \ {"thrun"}
         \/ c \in BdMux /\ c[2] \in Lvl1 \cup {"tr"}
         \/ \E d \in Cpu : c = Tri(d)
         \/ \E d \in Cpu : c = Out(d)
<1>1. CASE c \in RawChan
  BY <1>1 DEF RawChan, Lvl0
<1>2. CASE c \in MuxOuts
  <2>1. PICK m \in BdMux : c = BdMuxOut[m]
    BY <1>2 DEF MuxOuts
  <2>2. m[3] \in Cpu /\ m[2] \in Lvl1 \cup {"tr", "tri"}
    BY MuxNames
  <2> QED
    BY <2>1, <2>2 DEF BdMuxOut
<1>3. CASE c \in BdOut
  BY <1>3 DEF BdOut
<1> QED
  BY <1>1, <1>2, <1>3 DEF BdChan

\* The callbacks that a model connects.
LEMMA OneCb == ASSUME NEW y PROVE CbList(<<y>>) /\ ToSet(<<y>>) = {y} /\ CbList(<<>>) /\ ToSet(<<>>) = {}
  BY DEF CbList, NoRepeat, ToSet

\* Those of the running thread of a CPU, in the order of the tracks.
LEMMA ThRunCbs ==
  ASSUME NEW o \in Model, NEW c \in Cpu
  PROVE  LET l == BdCb(o)[ThRun(c)]
         IN  /\ l = [i \in DOMAIN TrackOrder(o) |-> SelectCb(<<o, TrackOrder(o)[i], c>>)]
             /\ CbList(l) /\ Len(l) = Len(TrackOrder(o))
             /\ ToSet(l) = {SelectCb(<<o, k, c>>) : k \in ToSet(TrackOrder(o))}
<1> DEFINE l == [i \in DOMAIN TrackOrder(o) |-> SelectCb(<<o, TrackOrder(o)[i], c>>)]
           n == Len(TrackOrder(o))
<1>1. BdCb(o)[ThRun(c)] = l
  <2>1. ThRun(c) \in ChansOf(o)
    BY ChanNames
  <2> QED
    BY <2>1 DEF BdCb, ThRun
<1>2. /\ n \in Nat /\ DOMAIN TrackOrder(o) = 1 .. n
      /\ \A i, j \in 1 .. n : TrackOrder(o)[i] = TrackOrder(o)[j] => i = j
  <2>1. CASE o = "openmp"
    <3>1. TrackOrder(o) = <<"ss", "tt">>
      BY <2>1 DEF TrackOrder
    <3> QED
      BY <3>1
  <2>2. CASE o # "openmp"
    <3>1. TrackOrder(o) = <<"tt", "ss", "idle">>
      BY <2>2 DEF TrackOrder
    <3> QED
      BY <3>1
  <2> QED
    BY <2>1, <2>2
<1>3. ToSet(l) = {SelectCb(<<o, k, c>>) : k \in ToSet(TrackOrder(o))}
  BY DEF ToSet
<1>4. l \in Seq(ToSet(l)) /\ Len(l) = n
  BY <1>2 DEF ToSet
<1>5. NoRepeat(l)
  <2> SUFFICES ASSUME NEW i \in 1 .. n, NEW j \in 1 .. n, l[i] = l[j] PROVE i = j
    BY <1>2 DEF NoRepeat
  <2>1. <<o, TrackOrder(o)[i], c>> = <<o, TrackOrder(o)[j], c>>
    BY <1>2 DEF SelectCb
  <2> QED
    BY <2>1, <1>2
<1> QED
  BY <1>1, <1>3, <1>4, <1>5 DEF CbList

\* The tracks of a model.
LEMMA Tracks ==
  ASSUME NEW o \in Model
  PROVE  ToSet(TrackOrder(o)) = {k \in Lvl1 : k = "idle" => o \in HasIdle}
<1>1. CASE o = "openmp"
  <2>1. TrackOrder(o) = <<"ss", "tt">> /\ o \notin HasIdle
    BY <1>1 DEF TrackOrder, HasIdle
  <2>2. ToSet(TrackOrder(o)) = {"ss", "tt"}
    BY <2>1 DEF ToSet
  <2> QED
    BY <2>1, <2>2 DEF Lvl1
<1>2. CASE o # "openmp"
  <2>1. TrackOrder(o) = <<"tt", "ss", "idle">> /\ o \in HasIdle
    BY <1>2 DEF TrackOrder, HasIdle
  <2>2. ToSet(TrackOrder(o)) = {"tt", "ss", "idle"}
    BY <2>1 DEF ToSet
  <2> QED
    BY <2>1, <2>2 DEF Lvl1
<1> QED
  BY <1>1, <1>2

\* Each channel has the select callbacks of the muxes it selects, and tri that of the
\* sort module.
LEMMA BdCbs ==
  ASSUME NEW o \in Model
  PROVE  /\ CbLists(BdCb(o)) /\ DOMAIN BdCb(o) = ChansOf(o)
         /\ \A c \in ChansOf(o) : \A y \in ToSet(BdCb(o)[c]) :
                \/ \E m \in MuxOf(o) : y = SelectCb(m) /\ MuxSel[m] = c
                \/ \E i \in DOMAIN SortIn : y = SortCb(i) /\ SortIn[i] = c
         /\ \A m \in MuxOf(o) : SelectCb(m) \in ToSet(BdCb(o)[MuxSel[m]])
         /\ \A i \in DOMAIN SortIn : SortCb(i) \in ToSet(BdCb(o)[SortIn[i]])
<1> DEFINE B == BdCb(o)
<1>0. DOMAIN B = ChansOf(o) /\ B = [c \in DOMAIN B |-> B[c]] /\ (o = "openmp" <=> o \notin HasIdle)
  BY DEF BdCb, HasIdle
<1>1. ASSUME NEW c \in ChansOf(o), c[2] = "thrun"
      PROVE  /\ CbList(B[c])
             /\ \A y \in ToSet(B[c]) : \E m \in MuxOf(o) : y = SelectCb(m) /\ MuxSel[m] = c
  <2>1. PICK d \in Cpu : c = ThRun(d)
    BY <1>1, ChanCases DEF ChansOf, Lvl0, Lvl1, Tri, Out
  <2>2. CbList(B[c]) /\ ToSet(B[c]) = {SelectCb(<<o, k, d>>) : k \in ToSet(TrackOrder(o))}
    BY <2>1, ThRunCbs
  <2>3. \A k \in ToSet(TrackOrder(o)) : <<o, k, d>> \in MuxOf(o) /\ MuxSel[<<o, k, d>>] = ThRun(d)
    <3> SUFFICES ASSUME NEW k \in ToSet(TrackOrder(o))
                 PROVE  <<o, k, d>> \in MuxOf(o) /\ MuxSel[<<o, k, d>>] = ThRun(d)
      OBVIOUS
    <3>1. k \in Lvl1 /\ (k = "idle" => o \in HasIdle)
      BY Tracks
    <3> QED
      BY <3>1, TrackMux
  <2> QED
    BY <2>1, <2>2, <2>3
<1>2. ASSUME NEW c \in ChansOf(o), c[2] = "tri"
      PROVE  /\ CbList(B[c]) /\ ToSet(B[c]) = {SortCb(c[3])}
             /\ c[3] \in DOMAIN SortIn /\ SortIn[c[3]] = c
  <2>1. PICK d \in Cpu : c = Tri(d)
    BY <1>2, ChanCases DEF ChansOf, Lvl0, Lvl1, ThRun, Out
  <2>2. B[c] = <<SortCb(d)>> /\ c[3] = d
    BY <2>1 DEF BdCb, Tri
  <2> QED
    BY <2>1, <2>2, OneCb, SortChans
<1>3. ASSUME NEW c \in ChansOf(o), c[2] \in {"ss", "tt", "idle"}
      PROVE  c[3] \in Cpu /\ c = <<o, c[2], c[3]>> /\ (c[2] = "idle" => o \in HasIdle)
  <2>1. PICK m \in BdMux : c = BdMuxOut[m]
    BY <1>3 DEF ChansOf, BdChan, ThRun, RawChan, MuxOuts, BdOut, Out
  <2>2. c = m
    BY <1>3, <2>1 DEF BdMuxOut, Tri
  <2>3. c[1] = o
    <3>1. c[1] \in Model /\ c[1] # "cpu"
      BY <2>2, MuxNames, BreakdownAssumption
    <3> QED
      BY <3>1 DEF ChansOf
  <2> QED
    BY <2>2, <2>3, MuxNames
<1>4. ASSUME NEW c \in ChansOf(o), c[2] = "ss", o # "openmp"
      PROVE  /\ B[c] = <<SelectCb(<<o, "tr", c[3]>>)>>
             /\ <<o, "tr", c[3]>> \in MuxOf(o) /\ MuxSel[<<o, "tr", c[3]>>] = c
  <2>1. c[3] \in Cpu /\ c = <<o, "ss", c[3]>>
    BY <1>3, <1>4
  <2>2. B[c] = <<SelectCb(<<o, "tr", c[3]>>)>>
    BY <1>4 DEF BdCb
  <2> QED
    BY <2>1, <2>2, <1>0, <1>4, TrMux
<1>5. ASSUME NEW c \in ChansOf(o), c[2] = TriSelect(o)
      PROVE  /\ B[c] = <<SelectCb(<<o, "tri", c[3]>>)>>
             /\ <<o, "tri", c[3]>> \in MuxOf(o) /\ MuxSel[<<o, "tri", c[3]>>] = c
  <2>0. c[2] \in {"ss", "tt", "idle"} /\ (c[2] # "ss")
    BY <1>5 DEF TriSelect
  <2>1. c[3] \in Cpu /\ c = <<o, TriSelect(o), c[3]>>
    BY <1>3, <1>5, <2>0
  <2>2. B[c] = <<SelectCb(<<o, "tri", c[3]>>)>>
    BY <2>0, <1>5 DEF BdCb
  <2> QED
    BY <2>1, <2>2, TriMux
<1>6. ASSUME NEW c \in ChansOf(o), c[2] \notin {"thrun", "tri"}, ~(c[2] = "ss" /\ o # "openmp"),
             c[2] # TriSelect(o)
      PROVE  B[c] = <<>>
  BY <1>6 DEF BdCb
<1>7. ASSUME NEW c \in ChansOf(o)
      PROVE  /\ CbList(B[c])
             /\ \A y \in ToSet(B[c]) :
                   \/ \E m \in MuxOf(o) : y = SelectCb(m) /\ MuxSel[m] = c
                   \/ \E i \in DOMAIN SortIn : y = SortCb(i) /\ SortIn[i] = c
  <2>1. CASE c[2] = "thrun"
    BY <2>1, <1>1
  <2>2. CASE c[2] = "tri"
    BY <2>2, <1>2
  <2>3. CASE c[2] = "ss" /\ o # "openmp"
    <3>1. PICK m : m = <<o, "tr", c[3]>>
      OBVIOUS
    <3>2. B[c] = <<SelectCb(m)>> /\ m \in MuxOf(o) /\ MuxSel[m] = c
      BY <2>3, <3>1, <1>4
    <3> QED
      BY <3>2, OneCb
  <2>4. CASE c[2] = TriSelect(o)
    <3>1. PICK m : m = <<o, "tri", c[3]>>
      OBVIOUS
    <3>2. B[c] = <<SelectCb(m)>> /\ m \in MuxOf(o) /\ MuxSel[m] = c
      BY <2>4, <3>1, <1>5
    <3> QED
      BY <3>2, OneCb
  <2>5. CASE c[2] \notin {"thrun", "tri"} /\ ~(c[2] = "ss" /\ o # "openmp") /\ c[2] # TriSelect(o)
    BY <2>5, <1>6, OneCb
  <2> QED
    BY <2>1, <2>2, <2>3, <2>4, <2>5
<1>8. ASSUME NEW m \in MuxOf(o) PROVE SelectCb(m) \in ToSet(B[MuxSel[m]])
  <2>1. PICK c \in Cpu :
            \/ \E k \in Lvl1 : (k = "idle" => o \in HasIdle) /\ m = <<o, k, c>>
            \/ o \in HasIdle /\ m = <<o, "tr", c>>
            \/ m = <<o, "tri", c>>
    BY MuxCases
  <2>2. CASE \E k \in Lvl1 : (k = "idle" => o \in HasIdle) /\ m = <<o, k, c>>
    <3>1. PICK k \in Lvl1 : (k = "idle" => o \in HasIdle) /\ m = <<o, k, c>>
      BY <2>2
    <3>2. MuxSel[m] = ThRun(c) /\ k \in ToSet(TrackOrder(o))
      BY <3>1, TrackMux, Tracks
    <3>3. ToSet(B[ThRun(c)]) = {SelectCb(<<o, x, c>>) : x \in ToSet(TrackOrder(o))}
      BY ThRunCbs
    <3> QED
      BY <3>1, <3>2, <3>3
  <2>3. CASE o \in HasIdle /\ m = <<o, "tr", c>>
    <3>1. MuxSel[m] = <<o, "ss", c>> /\ <<o, "ss", c>> \in ChansOf(o)
      BY <2>3, TrMux, ChanNames
    <3>2. B[<<o, "ss", c>>] = <<SelectCb(<<o, "tr", c>>)>>
      BY <3>1, <1>0, <1>4, <2>3
    <3> QED
      BY <3>1, <3>2, <2>3, OneCb
  <2>4. CASE m = <<o, "tri", c>>
    <3>1. MuxSel[m] = <<o, TriSelect(o), c>> /\ <<o, TriSelect(o), c>> \in ChansOf(o)
      BY <2>4, TriMux, MuxKinds DEF Kind
    <3>2. B[<<o, TriSelect(o), c>>] = <<SelectCb(<<o, "tri", c>>)>>
      BY <3>1, <1>5
    <3> QED
      BY <3>1, <3>2, <2>4, OneCb
  <2> QED
    BY <2>1, <2>2, <2>3, <2>4
<1>9. ASSUME NEW i \in DOMAIN SortIn PROVE SortCb(i) \in ToSet(B[SortIn[i]])
  <2>1. SortIn[i] = Tri(i) /\ Tri(i) \in ChansOf(o) /\ i \in Cpu
    BY SortChans, ChanNames
  <2>2. Tri(i)[2] = "tri" /\ Tri(i)[3] = i
    BY DEF Tri
  <2> QED
    BY <2>1, <2>2, <1>2
<1> HIDE DEF B
<1>10. CbLists(B)
  BY <1>0, <1>7 DEF CbLists
<1> QED
  BY <1>0, <1>7, <1>8, <1>9, <1>10 DEF B
-----------------------------------------------------------------------------
(* The order of the dirty list of the model o while the walk is at the     *)
(* callback n of the channel p.                                            *)

InList(L, x) == \E i \in DOMAIN L : L[i] = x

\* First the channels that the handler wrote, then the tracks.
O1(L) == \A i, j \in DOMAIN L : i < j /\ L[j][2] \in Lvl0 => L[i][2] \in Lvl0
O2(L) == \A i, j \in DOMAIN L : i < j /\ L[j][2] \in Lvl1 => L[i][2] \in Lvl0 \cup Lvl1

\* Nothing is written after the tracks until the walk is past the first ones.
O3(L, p) ==
    \A j \in DOMAIN L : L[j][2] \notin Lvl0 \cup Lvl1 /\ p \in DOMAIN L => L[p][2] \notin Lvl0

\* When tri is written the walk is past the type and the subsystem of the CPU, that come
\* before its idle track.
O4(o, L, p) ==
    \A c \in Cpu, k \in DOMAIN L : L[k] \in {<<o, "tt", c>>, <<o, "ss", c>>} =>
        /\ InList(L, Tri(c)) => k < p
        /\ \A i \in DOMAIN L : L[i] = <<o, "idle", c>> => k < i

\* The idle track is written after the other two, or only the progress of threads was.
O5(o, L) ==
    \A c \in Cpu : InList(L, <<o, "idle", c>>) =>
        \/ InList(L, <<o, "tt", c>>) /\ InList(L, <<o, "ss", c>>)
        \/ \A i \in DOMAIN L : L[i][2] \in Lvl0 => L[i][2] = "progress"

\* The tracks whose select callback has run in this CPU are written.
O6(o, L, p, n) ==
    \A c \in Cpu : p \in DOMAIN L /\ L[p] = ThRun(c) =>
        /\ n >= 2 => InList(L, <<o, "tt", c>>)
        /\ n >= 3 => InList(L, <<o, "ss", c>>)

\* A handler that writes the progress of a thread writes nothing else.
O7(L) == \A i, j \in DOMAIN L : L[i][2] = "progress" /\ L[j][2] \in Lvl0 => L[j][2] = "progress"

\* tr comes before tri.
O8(o, L) == \A c \in Cpu : \A i, j \in DOMAIN L : L[i] = <<o, "tr", c>> /\ L[j] = Tri(c) => i < j

Ordered(o, L, p, n) ==
    /\ O1(L) /\ O2(L) /\ O3(L, p)
    /\ o \in HasIdle => O4(o, L, p) /\ O5(o, L) /\ O6(o, L, p, n) /\ O7(L) /\ O8(o, L)

\* Which channel x may be written by a callback of the channel e, that is its callback n.
Writes(o, e, n, x) ==
    /\ x[2] \notin Lvl0
    /\ x[2] \in Lvl1 => e[2] \in Lvl0
    /\ x[2] \notin Lvl1 => e[2] \notin Lvl0
    /\ o \in HasIdle => \A c \in Cpu :
           /\ x = Tri(c) => e \in {<<o, "idle", c>>, <<o, "tr", c>>}
           /\ x \in {<<o, "tt", c>>, <<o, "ss", c>>} => e[2] # "progress"
           /\ x = <<o, "tr", c>> => e \in {<<o, "tt", c>>, <<o, "ss", c>>}
           /\ x = <<o, "idle", c>> => e[2] = "progress" \/ (e = ThRun(c) /\ n = 3)
           /\ e = ThRun(c) => /\ n = 1 => x = <<o, "tt", c>>
                              /\ n = 2 => x = <<o, "ss", c>>

\* M is L with x at the end unless it was there.
Extends(L, M, x) ==
    /\ DOMAIN L = 1 .. Len(L) /\ DOMAIN M = 1 .. Len(M) /\ Len(L) \in Nat /\ Len(M) \in Nat
    /\ Len(L) <= Len(M)
    /\ \A i \in DOMAIN L : M[i] = L[i]
    /\ \A i \in DOMAIN M : i \notin DOMAIN L => M[i] = x /\ ~InList(L, x)

\* A callback that writes what it may keeps the order.
LEMMA OrderedWrite ==
  ASSUME NEW o \in Model, NEW L, NEW M, NEW x, NEW p \in DOMAIN L, NEW n \in Nat,
         NEW q \in Nat, NEW l \in Nat,
         Ordered(o, L, p, n), Extends(L, M, x), Writes(o, L[p], n, x),
         L[p][2] = "thrun" => InList(M, x),
         (q = p /\ (L[p][2] = "thrun" => l \in {n, n + 1})) \/ (q > p /\ l = 1)
  PROVE  Ordered(o, M, q, l)
<1> DEFINE e == L[p]
<1>0. /\ DOMAIN L = 1 .. Len(L) /\ DOMAIN M = 1 .. Len(M) /\ Len(L) \in Nat /\ Len(M) \in Nat
      /\ Len(L) <= Len(M) /\ \A i \in DOMAIN L : M[i] = L[i] /\ i \in DOMAIN M
      /\ \A i \in DOMAIN M : i \notin DOMAIN L => M[i] = x /\ ~InList(L, x) /\ i > p
                                                 /\ \A j \in DOMAIN L : j < i
      /\ p \in Nat /\ p <= q
  BY DEF Extends
<1>1. \A y : InList(L, y) => InList(M, y)
  BY <1>0 DEF InList
<1>2. \A y : InList(M, y) => InList(L, y) \/ y = x
  BY <1>0 DEF InList
<1>3. /\ x[2] \notin Lvl0
      /\ x[2] \in Lvl1 => e[2] \in Lvl0
      /\ x[2] \notin Lvl1 => e[2] \notin Lvl0
  BY DEF Writes
<1>4. O1(M)
  <2> SUFFICES ASSUME NEW i \in DOMAIN M, NEW j \in DOMAIN M, i < j, M[j][2] \in Lvl0
               PROVE  M[i][2] \in Lvl0
    BY DEF O1
  <2>1. j \in DOMAIN L
    BY <1>0, <1>3
  <2>2. i \in DOMAIN L
    BY <2>1, <1>0
  <2> QED
    BY <2>1, <2>2, <1>0 DEF Ordered, O1
<1>5. O2(M)
  <2> SUFFICES ASSUME NEW i \in DOMAIN M, NEW j \in DOMAIN M, i < j, M[j][2] \in Lvl1
               PROVE  M[i][2] \in Lvl0 \cup Lvl1
    BY DEF O2
  <2>1. CASE j \in DOMAIN L
    <3>1. i \in DOMAIN L
      BY <2>1, <1>0
    <3> QED
      BY <2>1, <3>1, <1>0 DEF Ordered, O2
  <2>2. CASE j \notin DOMAIN L /\ i \in DOMAIN L
    <3>1. e[2] \in Lvl0
      BY <2>2, <1>0, <1>3
    <3> QED
      BY <2>2, <3>1, <1>0 DEF Ordered, O3
  <2>3. CASE j \notin DOMAIN L /\ i \notin DOMAIN L
    BY <2>3, <1>0
  <2> QED
    BY <2>1, <2>2, <2>3
<1>6. O3(M, q)
  <2> SUFFICES ASSUME NEW j \in DOMAIN M, M[j][2] \notin Lvl0 \cup Lvl1, q \in DOMAIN M
               PROVE  M[q][2] \notin Lvl0
    BY DEF O3
  <2>1. e[2] \notin Lvl0
    <3>1. CASE j \in DOMAIN L
      BY <3>1, <1>0 DEF Ordered, O3
    <3>2. CASE j \notin DOMAIN L
      BY <3>2, <1>0, <1>3
    <3> QED
      BY <3>1, <3>2
  <2>2. CASE q \notin DOMAIN L
    BY <2>2, <1>0, <1>3
  <2>3. CASE q \in DOMAIN L
    <3>1. q = p \/ p < q
      BY <1>0
    <3> QED
      BY <2>1, <2>3, <3>1, <1>0 DEF Ordered, O1
  <2> QED
    BY <2>2, <2>3
<1>7. ASSUME o \in HasIdle PROVE O4(o, M, q)
  <2>0. O2(L) /\ O3(L, p) /\ O4(o, L, p) /\ O5(o, L)
    BY <1>7 DEF Ordered
  <2>00. \A c \in Cpu :
           /\ x = Tri(c) => e \in {<<o, "idle", c>>, <<o, "tr", c>>}
           /\ x \in {<<o, "tt", c>>, <<o, "ss", c>>} => e[2] # "progress"
    BY <1>7 DEF Writes
  <2> SUFFICES ASSUME NEW c \in Cpu, NEW k \in DOMAIN M, M[k] \in {<<o, "tt", c>>, <<o, "ss", c>>}
               PROVE  /\ InList(M, Tri(c)) => k < q
                      /\ \A i \in DOMAIN M : M[i] = <<o, "idle", c>> => k < i
    BY DEF O4
  <2>1. M[k][2] \in Lvl1
    BY DEF Lvl1
  <2>2. CASE k \in DOMAIN L
    <3>1. ASSUME InList(L, Tri(c)) PROVE k < q
      BY <2>0, <2>2, <3>1, <1>0 DEF O4
    <3>2. ASSUME x = Tri(c) PROVE k < q
      <4>1. CASE e = <<o, "idle", c>>
        <5>1. k < p
          BY <2>0, <2>2, <4>1, <1>0 DEF O4
        <5> QED
          BY <5>1, <1>0
      <4>2. CASE e = <<o, "tr", c>>
        <5>1. e[2] \notin Lvl0 \cup Lvl1
          BY <4>2 DEF Lvl0, Lvl1
        <5>2. ~(p < k)
          BY <5>1, <2>0, <2>1, <2>2, <1>0 DEF O2
        <5>3. p # k
          BY <5>1, <2>1, <2>2, <1>0
        <5> QED
          BY <5>2, <5>3, <2>2, <1>0
      <4> QED
        BY <3>2, <4>1, <4>2, <2>00
    <3>3. ASSUME NEW i \in DOMAIN M, M[i] = <<o, "idle", c>> PROVE k < i
      <4>1. CASE i \in DOMAIN L
        BY <2>0, <2>2, <3>3, <4>1, <1>0 DEF O4
      <4>2. CASE i \notin DOMAIN L
        BY <2>2, <4>2, <1>0
      <4> QED
        BY <4>1, <4>2
    <3> QED
      BY <3>1, <3>2, <3>3, <1>2
  <2>3. CASE k \notin DOMAIN L
    <3>1. x = M[k] /\ e[2] \in Lvl0 /\ ~InList(L, x) /\ e[2] # "progress"
      BY <2>1, <2>3, <2>00, <1>0, <1>3
    <3>2. ~InList(M, Tri(c))
      <4>1. Tri(c)[2] \notin Lvl0 \cup Lvl1
        BY DEF Tri, Lvl0, Lvl1
      <4>2. ~InList(L, Tri(c))
        BY <4>1, <3>1, <2>0 DEF InList, O3
      <4>3. x # Tri(c)
        BY <3>1, <2>1, <4>1
      <4> QED
        BY <4>2, <4>3, <1>2
    <3>3. ~InList(M, <<o, "idle", c>>)
      <4>1. ~InList(L, <<o, "idle", c>>)
        BY <3>1, <2>0 DEF O5
      <4>2. x # <<o, "idle", c>>
        BY <3>1
      <4> QED
        BY <4>1, <4>2, <1>2
    <3> QED
      BY <3>2, <3>3 DEF InList
  <2> QED
    BY <2>2, <2>3
<1>8. ASSUME o \in HasIdle PROVE O5(o, M)
  <2>0. O5(o, L) /\ O6(o, L, p, n) /\ O7(L)
    BY <1>8 DEF Ordered
  <2> SUFFICES ASSUME NEW c \in Cpu, InList(M, <<o, "idle", c>>)
               PROVE  \/ InList(M, <<o, "tt", c>>) /\ InList(M, <<o, "ss", c>>)
                      \/ \A i \in DOMAIN M : M[i][2] \in Lvl0 => M[i][2] = "progress"
    BY DEF O5
  <2>1. ASSUME \A i \in DOMAIN L : L[i][2] \in Lvl0 => L[i][2] = "progress"
        PROVE  \A i \in DOMAIN M : M[i][2] \in Lvl0 => M[i][2] = "progress"
    BY <2>1, <1>0, <1>3
  <2>2. CASE InList(L, <<o, "idle", c>>)
    BY <2>0, <2>1, <2>2, <1>1 DEF O5
  <2>3. CASE x = <<o, "idle", c>>
    <3>1. e[2] = "progress" \/ (e = ThRun(c) /\ n = 3)
      BY <2>3, <1>8 DEF Writes
    <3>2. CASE e[2] = "progress"
      BY <3>2, <2>0, <2>1 DEF O7
    <3>3. CASE e = ThRun(c) /\ n = 3
      BY <3>3, <2>0, <1>1 DEF O6
    <3> QED
      BY <3>1, <3>2, <3>3
  <2> QED
    BY <2>2, <2>3, <1>2
<1>9. ASSUME o \in HasIdle PROVE O6(o, M, q, l)
  <2>0. O6(o, L, p, n)
    BY <1>9 DEF Ordered
  <2> SUFFICES ASSUME NEW c \in Cpu, q \in DOMAIN M, M[q] = ThRun(c), q = p
               PROVE  /\ l >= 2 => InList(M, <<o, "tt", c>>)
                      /\ l >= 3 => InList(M, <<o, "ss", c>>)
    BY <1>0 DEF O6
  <2>1. e = ThRun(c) /\ e[2] = "thrun" /\ InList(M, x) /\ l \in {n, n + 1}
    BY <1>0 DEF ThRun
  <2>2. (n = 1 => x = <<o, "tt", c>>) /\ (n = 2 => x = <<o, "ss", c>>)
    BY <2>1, <1>9 DEF Writes
  <2>3. (n >= 2 => InList(L, <<o, "tt", c>>)) /\ (n >= 3 => InList(L, <<o, "ss", c>>))
    BY <2>0, <2>1 DEF O6
  <2> QED
    BY <2>1, <2>2, <2>3, <1>0, <1>1
<1>10. ASSUME o \in HasIdle PROVE O7(M)
  <2>1. O7(L)
    BY <1>10 DEF Ordered
  <2>2. x[2] # "progress"
    BY <1>3 DEF Lvl0
  <2> QED
    BY <2>1, <2>2, <1>0, <1>3 DEF O7
<1>11. ASSUME o \in HasIdle PROVE O8(o, M)
  <2>0. O8(o, L) /\ O4(o, L, p)
    BY <1>11 DEF Ordered
  <2> SUFFICES ASSUME NEW c \in Cpu, NEW i \in DOMAIN M, NEW j \in DOMAIN M,
                      M[i] = <<o, "tr", c>>, M[j] = Tri(c)
               PROVE  i < j
    BY DEF O8
  <2>1. <<o, "tr", c>> # Tri(c)
    BY BreakdownAssumption DEF Tri
  <2>2. CASE i \in DOMAIN L /\ j \in DOMAIN L
    BY <2>0, <2>2, <1>0 DEF O8
  <2>3. CASE i \in DOMAIN L /\ j \notin DOMAIN L
    BY <2>3, <1>0
  <2>4. CASE i \notin DOMAIN L /\ j \in DOMAIN L
    <3>1. x = <<o, "tr", c>> /\ e \in {<<o, "tt", c>>, <<o, "ss", c>>}
      BY <2>4, <1>0, <1>11 DEF Writes
    <3>2. InList(L, Tri(c))
      BY <2>4, <1>0 DEF InList
    <3> QED
      BY <3>1, <3>2, <2>0, <1>0 DEF O4
  <2>5. CASE i \notin DOMAIN L /\ j \notin DOMAIN L
    BY <2>1, <2>5, <1>0
  <2> QED
    BY <2>2, <2>3, <2>4, <2>5
<1> QED
  BY <1>4, <1>5, <1>6, <1>7, <1>8, <1>9, <1>10, <1>11 DEF Ordered
-----------------------------------------------------------------------------
(* The invariant of the breakdown views.                                   *)

\* The values of the channels that somebody reads.
ValInv(o, b) ==
    /\ \A e \in ChansOf(o) : e[2] # "out" => b.data[e] \in Seq(BdValue)
    /\ \A c \in Cpu : ChanRead(b, ThRun(c)) \in {Null} \cup Thread

\* No track reads the running thread as an input, so its callbacks stay in order.
ThCbs == \A c \in Cpu : cbs[ThRun(c)] = BdCb(model)[ThRun(c)]

\* No row has refused a value.
RowOk(p) == p \in [set : {p.set}, last : {p.last}, line : {p.line}, ok : {TRUE}]
RowsOk == DOMAIN prv = BdOut /\ \A c \in DOMAIN prv : RowOk(prv[c])

\* The tracks of the CPUs that were used have selected, or will.
UsedLive ==
    /\ used \subseteq Cpu
    /\ \A c \in used : \A k \in ToSet(TrackOrder(model)) : Live(<<model, k, c>>)

BdInv ==
    /\ model \in Model /\ state \in {"ready", "propagating"}
    /\ IInv /\ Sound(BdValue)
    /\ DOMAIN bay.data = ChansOf(model) /\ DOMAIN selected = MuxOf(model)
    /\ ValInv(model, bay) /\ ThCbs /\ RowsOk /\ UsedLive
    /\ state = "propagating" => Ordered(model, bay.list, pos, cbi)

\* A channel that somebody reads shows one of the values.
LEMMA ValRead ==
  ASSUME NEW o, NEW b, ValInv(o, b), NEW e \in ChansOf(o), e[2] # "out"
  PROVE  ChanRead(b, e) \in BdValue
<1>1. b.data[e] \in Seq(BdValue)
  BY DEF ValInv
<1>2. Null \in BdValue
  BY DEF BdValue
<1>3. CASE b.data[e] # <<>>
  <2>1. Len(b.data[e]) \in 1 .. Len(b.data[e])
    BY <1>1, <1>3
  <2> QED
    BY <1>1, <1>3, <2>1 DEF ChanRead, Last
<1> QED
  BY <1>2, <1>3 DEF ChanRead

\* What a mux reads.
LEMMA MuxReads ==
  ASSUME NEW o \in Model, NEW m \in MuxOf(o), NEW b, ValInv(o, b)
  PROVE  /\ ChanRead(b, MuxSel[m]) \in BdValue /\ MuxDef[m] \in BdValue
         /\ \A i \in DOMAIN MuxIn[m] : ChanRead(b, MuxIn[m][i]) \in BdValue
         /\ MuxOut[m][2] \notin {"out", "thrun"}
<1>0. Kind(o, m)
  BY MuxKinds
<1>1. m \in BdMux /\ m[2] \in Lvl1 \cup {"tr", "tri"}
  BY MuxNames DEF MuxOf
<1>2. MuxSel[m][2] # "out" /\ (\A i \in DOMAIN MuxIn[m] : MuxIn[m][i][2] # "out")
  <2>1. CASE m[2] \in Lvl1
    BY <1>0, <2>1 DEF Kind, Lvl1, ThRun, Followed
  <2>2. CASE m[2] = "tr"
    BY <1>0, <2>2 DEF Kind
  <2>3. CASE m[2] = "tri"
    BY <1>0, <2>3 DEF Kind, TriSelect
  <2> QED
    BY <1>1, <2>1, <2>2, <2>3
<1>3. MuxOut[m][2] \notin {"out", "thrun"}
  BY <1>0, <1>1 DEF Kind, Lvl1
<1>4. BdDef[m] \in {Null, ST_RESTING, ST_UNKNOWN_SS}
  BY <1>1 DEF BdDef
<1>5. MuxDef[m] \in BdValue
  BY <1>4, BreakdownGraph DEF BdValue
<1> QED
  BY <1>0, <1>2, <1>3, <1>5, ValRead DEF Kind

\* What the select function of a mux says.
LEMMA SelectIs ==
  ASSUME NEW o \in Model, NEW m \in MuxOf(o), NEW key \in BdValue,
         NEW ins \in [DOMAIN MuxIn[m] -> BdValue]
  PROVE  /\ m[2] \in Lvl1 => Select(m, key, ins) = DefaultSelect(m, key)
         /\ m[2] = "tr" => Select(m, key, ins) = SelectTr(key, ins)
         /\ m[2] = "tri" => Select(m, key, ins) = IF o = "openmp" THEN SelectLabel(key)
                                                  ELSE SelectIdle(key)
<1>1. m \in BdMux /\ m[1] = o
  BY DEF MuxOf
<1>2. Select(m, key, ins) = BdSelect(m, key, ins)
  BY <1>1, BreakdownGraph
<1> QED
  BY <1>1, <1>2 DEF BdSelect, Lvl1

\* The values are those of the select functions, that never fail.
LEMMA BdSane == ASSUME BdInv PROVE Sane(BdValue)
<1> SUFFICES ASSUME NEW m \in DOMAIN selected
             PROVE  /\ \A i \in DOMAIN MuxIn[m] : ChanRead(bay, MuxIn[m][i]) \in BdValue
                    /\ Selection(m) \in {0} \cup DOMAIN MuxIn[m]
  BY DEF Sane
<1>0. model \in Model /\ m \in MuxOf(model) /\ ValInv(model, bay)
  BY DEF BdInv
<1>1. Kind(model, m)
  BY <1>0, MuxKinds
<1>2. /\ ChanRead(bay, MuxSel[m]) \in BdValue
      /\ \A i \in DOMAIN MuxIn[m] : ChanRead(bay, MuxIn[m][i]) \in BdValue
  BY <1>0, MuxReads
<1>3. PICK key : key = ChanRead(bay, MuxSel[m])
  OBVIOUS
<1>4. PICK ins : ins = [i \in DOMAIN MuxIn[m] |-> ChanRead(bay, MuxIn[m][i])]
  OBVIOUS
<1>5. ins \in [DOMAIN MuxIn[m] -> BdValue] /\ key \in BdValue
  BY <1>2, <1>3, <1>4
<1>6. Selection(m) = Select(m, key, ins)
  BY <1>3, <1>4 DEF Selection
<1>7. m[2] \in Lvl1 \cup {"tr", "tri"} /\ m[3] \in Cpu
  BY <1>0, MuxNames DEF MuxOf
<1>8. PICK c \in Cpu :
            \/ \E k \in Lvl1 : (k = "idle" => model \in HasIdle) /\ m = <<model, k, c>>
            \/ model \in HasIdle /\ m = <<model, "tr", c>>
            \/ m = <<model, "tri", c>>
  BY <1>0, MuxCases
<1>9. CASE \E k \in Lvl1 : (k = "idle" => model \in HasIdle) /\ m = <<model, k, c>>
  <2>1. PICK k \in Lvl1 : (k = "idle" => model \in HasIdle) /\ m = <<model, k, c>>
    BY <1>9
  <2>2. DOMAIN MuxIn[m] = 1 .. NThreads /\ MuxSel[m] = ThRun(c)
    <3>1. /\ MuxIn[m] = [i \in 1 .. NThreads |-> <<model, Followed(k), i - 1>>]
          /\ MuxSel[m] = ThRun(c)
      BY <2>1, <1>0, TrackMux
    <3> QED
      BY <3>1
  <2>3. key \in {Null} \cup Thread
    BY <2>2, <1>3, <1>0 DEF ValInv
  <2>4. Selection(m) = DefaultSelect(m, key)
    BY <2>1, <1>0, <1>5, <1>6, SelectIs
  <2>5. NThreads \in Nat
    BY BreakdownAssumption
  <2> QED
    BY <2>2, <2>3, <2>4, <2>5, <1>2 DEF DefaultSelect, Thread
<1>10. CASE model \in HasIdle /\ m = <<model, "tr", c>>
  <2>1. DOMAIN MuxIn[m] = 1 .. 2
    BY <1>10, <1>0, TrMux
  <2>2. Selection(m) = SelectTr(key, ins)
    BY <1>10, <1>0, <1>5, <1>6, SelectIs
  <2> QED
    BY <2>1, <2>2, <1>2 DEF SelectTr
<1>11. CASE m = <<model, "tri", c>>
  <2>1. DOMAIN MuxIn[m] = 1 .. 2
    <3>1. MuxIn[m] = IF model = "openmp" THEN <<<<model, "tt", c>>, <<model, "ss", c>>>>
                                         ELSE <<<<model, "tr", c>>, <<model, "idle", c>>>>
      BY <1>11, <1>0, TriMux
    <3> QED
      BY <3>1
  <2>2. Selection(m) = IF model = "openmp" THEN SelectLabel(key) ELSE SelectIdle(key)
    BY <1>11, <1>0, <1>5, <1>6, SelectIs
  <2> QED
    BY <2>1, <2>2, <1>2 DEF SelectLabel, SelectIdle
<1> QED
  BY <1>8, <1>9, <1>10, <1>11

\* A callback of a mux is one of the channel it reads, and the channel that it writes has
\* not been visited.
LEMMA BdAhead ==
  ASSUME BdInv, Walking, NEW m \in MuxOf(model), 
         CurChan = MuxSel[m] \/ \E i \in DOMAIN MuxIn[m] : CurChan = MuxIn[m][i]
  PROVE  \A j \in 1 .. pos : bay.list[j] # MuxOut[m]
<1> DEFINE L == bay.list
<1>0. model \in Model /\ Kind(model, m) /\ Ordered(model, L, pos, cbi)
  BY MuxKinds DEF BdInv, Walking
<1>1. m[2] \in Lvl1 \cup {"tr", "tri"} /\ (m[2] = "tr" => model \in HasIdle) /\ m[3] \in Cpu
  BY <1>0, MuxNames DEF MuxOf
<1>2. L \in Seq(bay.flag) /\ pos \in 1 .. Len(L) /\ DOMAIN L = 1 .. Len(L)
  BY DEF BdInv, IInv, BayInv, Listed, Sound, WalkInv, Walking
<1> SUFFICES ASSUME NEW j \in 1 .. pos, L[j] = MuxOut[m] PROVE FALSE
  OBVIOUS
<1>3. j \in DOMAIN L /\ pos \in DOMAIN L /\ (j = pos \/ j < pos)
  BY <1>2
<1>4. model = "openmp" <=> model \notin HasIdle
  BY <1>0 DEF HasIdle
<1>5. CASE m[2] \in Lvl1
  <2>1. L[pos][2] \in Lvl0
    BY <1>0, <1>5 DEF Kind, CurChan, ThRun, Followed, Lvl0, Lvl1
  <2>2. L[j][2] \in Lvl0
    BY <2>1, <1>0, <1>3 DEF Ordered, O1
  <2> QED
    BY <2>2, <1>0, <1>5 DEF Kind, Lvl0, Lvl1
<1>6. CASE m[2] = "tr"
  <2>1. L[pos][2] \in Lvl1
    BY <1>0, <1>6 DEF Kind, CurChan, Lvl1
  <2>2. L[j][2] \in Lvl0 \cup Lvl1
    BY <2>1, <1>0, <1>3 DEF Ordered, O2
  <2> QED
    BY <2>2, <1>0, <1>6 DEF Kind, Lvl0, Lvl1
<1>7. CASE m[2] = "tri"
  <2>1. L[j] = Tri(m[3])
    BY <1>0, <1>7 DEF Kind
  <2>2. L[pos][2] \in Lvl1 \/ (model \in HasIdle /\ L[pos] = <<model, "tr", m[3]>>)
    BY <1>0, <1>4, <1>7 DEF Kind, CurChan, Lvl1, TriSelect
  <2>3. CASE L[pos][2] \in Lvl1
    <3>1. L[j][2] \in Lvl0 \cup Lvl1
      BY <2>3, <1>0, <1>3 DEF Ordered, O2
    <3> QED
      BY <3>1, <2>1 DEF Tri, Lvl0, Lvl1
  <2>4. CASE model \in HasIdle /\ L[pos] = <<model, "tr", m[3]>>
    <3>1. pos < j
      BY <2>1, <2>4, <1>0, <1>1, <1>3 DEF Ordered, O8
    <3> QED
      BY <3>1, <1>2
  <2> QED
    BY <2>2, <2>3, <2>4
<1> QED
  BY <1>1, <1>5, <1>6, <1>7

\* A write of x at most queues it.
LEMMA ListExtends ==
  ASSUME NEW b, NEW r, Listed(b), Listed(r), NEW x,
         r.list = b.list \/ (r.list = Append(b.list, x) /\ x \notin b.flag)
  PROVE  Extends(b.list, r.list, x)
<1>1. /\ b.list \in Seq(b.flag) /\ r.list \in Seq(r.flag)
      /\ DOMAIN b.list = 1 .. Len(b.list) /\ DOMAIN r.list = 1 .. Len(r.list)
      /\ Len(b.list) \in Nat /\ Len(r.list) \in Nat
  BY DEF Listed
<1>2. CASE r.list = b.list
  BY <1>1, <1>2 DEF Extends
<1>3. CASE r.list = Append(b.list, x) /\ x \notin b.flag
  <2>1. ~InList(b.list, x)
    BY <1>1, <1>3 DEF InList
  <2>2. /\ Len(r.list) = Len(b.list) + 1 /\ r.list[Len(b.list) + 1] = x
        /\ \A i \in 1 .. Len(b.list) : r.list[i] = b.list[i]
    <3>1. b.list \in Seq(b.flag \cup {x})
      BY <1>1
    <3> QED
      BY <1>3, <3>1, AppendProperties
  <2> QED
    BY <1>1, <2>1, <2>2 DEF Extends
<1> QED
  BY <1>2, <1>3

\* The dirty list stays in order when a callback writes what it may and the walk goes on,
\* or stays in the loop of the sort module.
LEMMA BdOrdered ==
  ASSUME BdInv, Walking, NEW x, BayInv(bay'), bay'.flag \subseteq DOMAIN cbs',
         bay'.list = bay.list \/ (bay'.list = Append(bay.list, x) /\ x \notin bay.flag),
         Writes(model, CurChan, cbi, x),
         CurChan[2] = "thrun" => x \in bay'.flag /\ cbs'[CurChan] = cbs[CurChan],
         CbLists(cbs'), KeepsAfter(cbs[CurChan], cbs'[CurChan], CurCb),
         Advance(CurChan, CurCb) \/ UNCHANGED <<pos, cbi>>
  PROVE  Ordered(model, bay'.list, pos', cbi')
<1>0. /\ model \in Model /\ Listed(bay) /\ Listed(bay') /\ CbLists(cbs)
      /\ Ordered(model, bay.list, pos, cbi)
      /\ bay.flag \subseteq DOMAIN cbs /\ pos \in Nat \ {0} /\ cbi \in DOMAIN cbs[CurChan]
  BY DEF BdInv, IInv, BayInv, Sound, CbsInv, WalkInv, Walking, CurChan
<1>1. Extends(bay.list, bay'.list, x)
  BY <1>0, ListExtends
<1>2. /\ Len(bay.list) <= Len(bay'.list)
      /\ \A i \in 1 .. Len(bay.list) : bay'.list[i] = bay.list[i]
      /\ pos \in DOMAIN bay.list /\ Len(bay'.list) \in Nat
  BY <1>0, <1>1 DEF Extends, Walking
<1>3. CurChan \in DOMAIN cbs /\ CbList(cbs[CurChan])
  BY <1>0, <1>2 DEF CurChan, Listed, CbLists
<1>4. cbs[CurChan] \in Seq(ToSet(cbs[CurChan])) /\ NoRepeat(cbs[CurChan]) /\ cbi \in Nat
  BY <1>0, <1>3 DEF CbList
<1>5. CurChan[2] = "thrun" => InList(bay'.list, x)
  BY <1>0 DEF Listed, InList
<1>6. /\ pos' \in Nat /\ cbi' \in Nat
      /\ \/ pos' = pos /\ (CurChan[2] = "thrun" => cbi' \in {cbi, cbi + 1})
         \/ pos' > pos /\ cbi' = 1
  <2>1. CASE Advance(CurChan, CurCb)
    <3>1. /\ pos' \in pos .. Len(bay'.list) + 1
          /\ \/ /\ pos' = pos /\ cbi' \in Nat /\ cbi' > 1 /\ cbi' - 1 \in DOMAIN cbs'[CurChan]
                /\ cbs'[CurChan][cbi' - 1] = CurCb
             \/ pos' > pos /\ cbi' = 1
      BY <1>0, <1>2, <2>1, AdvanceIs
    <3>2. pos' \in Nat
      BY <3>1, <1>0, <1>2
    <3>3. CASE pos' = pos /\ cbi' \in Nat /\ cbi' > 1 /\ cbi' - 1 \in DOMAIN cbs'[CurChan]
                /\ cbs'[CurChan][cbi' - 1] = CurCb
      <4>1. ASSUME CurChan[2] = "thrun" PROVE cbi' - 1 = cbi
        BY <3>3, <4>1, <1>0, <1>4 DEF NoRepeat, CurCb
      <4> QED
        BY <3>2, <3>3, <4>1, <1>4
    <3> QED
      BY <3>1, <3>2, <3>3
  <2>2. CASE UNCHANGED <<pos, cbi>>
    BY <2>2, <1>0, <1>4
  <2> QED
    BY <2>1, <2>2
<1>7. PICK L, M, p, n, q, l : /\ L = bay.list /\ M = bay'.list /\ p = pos /\ n = cbi
                              /\ q = pos' /\ l = cbi'
  OBVIOUS
<1>8. CurChan = L[p] /\ p \in DOMAIN L /\ n \in Nat /\ q \in Nat /\ l \in Nat
  BY <1>2, <1>4, <1>6, <1>7 DEF CurChan
<1>9. /\ Ordered(model, L, p, n) /\ Extends(L, M, x) /\ Writes(model, L[p], n, x)
      /\ (L[p][2] = "thrun" => InList(M, x))
      /\ (q = p /\ (L[p][2] = "thrun" => l \in {n, n + 1})) \/ (q > p /\ l = 1)
  BY <1>0, <1>1, <1>5, <1>6, <1>7, <1>8
<1>10. Ordered(model, M, q, l)
  BY <1>0, <1>8, <1>9, OrderedWrite
<1> QED
  BY <1>7, <1>10

\* What a mux writes when one of its callbacks runs.
LEMMA MuxWrites ==
  ASSUME BdInv, Walking, NEW m \in MuxOf(model),
         \/ CurCb = SelectCb(m) /\ CurChan = MuxSel[m]
         \/ \E i \in DOMAIN MuxIn[m] : CurCb = InputCb(m, i) /\ CurChan = MuxIn[m][i]
  PROVE  Writes(model, CurChan, cbi, MuxOut[m])
<1> DEFINE e == CurChan
           x == MuxOut[m]
<1>0. model \in Model /\ Kind(model, m)
  BY MuxKinds DEF BdInv
<1>1. /\ m[2] \in Lvl1 \cup {"tr", "tri"} /\ (m[2] \in {"idle", "tr"} => model \in HasIdle)
      /\ m[3] \in Cpu /\ m = <<model, m[2], m[3]>> /\ model # "cpu"
  BY <1>0, MuxNames, BreakdownAssumption DEF MuxOf
<1>2. e = MuxSel[m] \/ \E i \in DOMAIN MuxIn[m] : e = MuxIn[m][i]
  OBVIOUS
<1>3. x[2] = m[2] /\ x[3] = m[3]
  BY <1>0 DEF Kind
<1>4. CASE m[2] \in Lvl1
  <2>1. x = m /\ x[2] \in Lvl1
    BY <1>0, <1>4 DEF Kind
  <2>2. \/ e = ThRun(m[3]) /\ CurCb = SelectCb(m)
        \/ e[2] = Followed(m[2])
    BY <1>0, <1>4 DEF Kind
  <2>3. e[2] \in Lvl0 /\ x[2] \notin Lvl0
    BY <2>1, <2>2, <1>4 DEF Lvl0, Lvl1, ThRun, Followed
  <2>4. ASSUME model \in HasIdle, NEW c \in Cpu, e = ThRun(c)
        PROVE  c = m[3] /\ cbi \in 1 .. 3 /\ m[2] = <<"tt", "ss", "idle">>[cbi]
    <3>1. CurCb = SelectCb(m) /\ c = m[3]
      BY <2>2, <2>4, <1>4 DEF ThRun, Followed, Lvl1
    <3>2. cbs[e] = BdCb(model)[ThRun(c)]
      BY <2>4 DEF BdInv, ThCbs
    <3>3. cbi \in DOMAIN cbs[e]
      BY DEF BdInv, Sound, WalkInv, Walking, CurChan
    <3>4. TrackOrder(model) = <<"tt", "ss", "idle">>
      BY <2>4 DEF TrackOrder, HasIdle
    <3>5. cbs[e] = [i \in DOMAIN TrackOrder(model) |-> SelectCb(<<model, TrackOrder(model)[i], c>>)]
      BY <3>2, <1>0, ThRunCbs
    <3>6. cbi \in 1 .. 3 /\ CurCb = SelectCb(<<model, TrackOrder(model)[cbi], c>>)
      BY <3>3, <3>4, <3>5 DEF CurCb
    <3>7. m = <<model, TrackOrder(model)[cbi], c>>
      BY <3>1, <3>6 DEF SelectCb
    <3> QED
      BY <3>1, <3>4, <3>6, <3>7
  <2>5. ASSUME model \in HasIdle, NEW c \in Cpu
        PROVE  /\ x = Tri(c) => e \in {<<model, "idle", c>>, <<model, "tr", c>>}
               /\ x \in {<<model, "tt", c>>, <<model, "ss", c>>} => e[2] # "progress"
               /\ x = <<model, "tr", c>> => e \in {<<model, "tt", c>>, <<model, "ss", c>>}
               /\ x = <<model, "idle", c>> => e[2] = "progress" \/ (e = ThRun(c) /\ cbi = 3)
               /\ e = ThRun(c) => /\ cbi = 1 => x = <<model, "tt", c>>
                                  /\ cbi = 2 => x = <<model, "ss", c>>
    <3>1. x # Tri(c) /\ x # <<model, "tr", c>>
      BY <2>1 DEF Tri, Lvl1
    <3>2. x \in {<<model, "tt", c>>, <<model, "ss", c>>} => e[2] # "progress"
      BY <2>1, <2>2 DEF ThRun, Followed
    <3>3. ASSUME x = <<model, "idle", c>> PROVE e[2] = "progress" \/ (e = ThRun(c) /\ cbi = 3)
      <4>1. m[2] = "idle" /\ m[3] = c
        BY <3>3, <1>3
      <4>2. CASE e[2] = Followed(m[2])
        BY <4>1, <4>2 DEF Followed
      <4>3. CASE e = ThRun(c)
        BY <4>1, <4>3, <2>4, <2>5
      <4> QED
        BY <4>1, <4>2, <4>3, <2>2
    <3>4. ASSUME e = ThRun(c) PROVE /\ cbi = 1 => x = <<model, "tt", c>>
                                    /\ cbi = 2 => x = <<model, "ss", c>>
      BY <3>4, <2>1, <2>4, <2>5, <1>1
    <3> QED
      BY <3>1, <3>2, <3>3, <3>4
  <2> QED
    BY <2>1, <2>3, <2>5 DEF Writes
<1>5. CASE m[2] = "tr"
  <2>1. x = <<model, "tr", m[3]>> /\ e \in {<<model, "ss", m[3]>>, <<model, "tt", m[3]>>}
    BY <1>0, <1>1, <1>2, <1>5 DEF Kind
  <2> QED
    BY <2>1, <1>1 DEF Writes, Lvl0, Lvl1, Tri, ThRun
<1>6. CASE m[2] = "tri"
  <2>1. /\ x = Tri(m[3])
        /\ e \in IF model = "openmp" THEN {<<model, "tt", m[3]>>, <<model, "ss", m[3]>>}
                 ELSE {<<model, "tr", m[3]>>, <<model, "idle", m[3]>>}
    BY <1>0, <1>2, <1>6 DEF Kind, TriSelect
  <2>2. model = "openmp" <=> model \notin HasIdle
    BY <1>0 DEF HasIdle
  <2>3. e[2] \in {"tt", "ss", "tr", "idle"} /\ e[1] = model
    BY <2>1
  <2>4. /\ x[2] \notin Lvl0 /\ x[2] \notin Lvl1 /\ e[2] \notin Lvl0
    BY <2>1, <2>3 DEF Tri, Lvl0, Lvl1
  <2>5. ASSUME model \in HasIdle, NEW c \in Cpu
        PROVE  /\ x = Tri(c) => e \in {<<model, "idle", c>>, <<model, "tr", c>>}
               /\ x \notin {<<model, "tt", c>>, <<model, "ss", c>>, <<model, "tr", c>>, <<model, "idle", c>>}
               /\ e # ThRun(c)
    <3>1. x = Tri(c) => c = m[3]
      BY <2>1 DEF Tri
    <3>2. e # ThRun(c)
      BY <2>3 DEF ThRun
    <3> QED
      BY <2>1, <2>2, <2>5, <3>1, <3>2, <1>1 DEF Tri
  <2> QED
    BY <2>4, <2>5 DEF Writes
<1> QED
  BY <1>1, <1>4, <1>5, <1>6

\* The parts of the invariant that a step of the propagation keeps when the muxes flow on.
LEMMA BdStepKeeps ==
  ASSUME BdInv, UNCHANGED <<model, tasks, used>>, IInv', FlowsOn(BdValue),
         state' \in {"ready", "propagating"}, DOMAIN bay'.data = DOMAIN bay.data,
         DOMAIN selected' = DOMAIN selected, ValInv(model, bay'), ThCbs', RowsOk',
         state' = "propagating" => Ordered(model, bay'.list, pos', cbi')
  PROVE  BdInv'
<1>1. ASSUME NEW c \in used, NEW k \in ToSet(TrackOrder(model)) PROVE Live(<<model, k, c>>)'
  <2>1. model \in Model /\ c \in Cpu /\ DOMAIN selected = MuxOf(model) /\ Live(<<model, k, c>>)
    BY DEF BdInv, UsedLive
  <2>2. <<model, k, c>> \in DOMAIN selected
    <3>1. k \in Lvl1 /\ (k = "idle" => model \in HasIdle)
      BY <2>1, Tracks
    <3> QED
      BY <2>1, <3>1, TrackMux
  <2>3. PICK m : m = <<model, k, c>>
    OBVIOUS
  <2>4. Live(m)'
    BY <2>1, <2>2, <2>3 DEF FlowsOn, StaysLive
  <2> QED
    BY <2>3, <2>4
<1>2. UsedLive'
  BY <1>1 DEF BdInv, UsedLive
<1> QED
  BY <1>2 DEF BdInv, FlowsOn

\* One callback of a mux.
LEMMA BdRunMux == ASSUME BdInv, RunMux, UNCHANGED <<model, tasks, used>> PROVE BdInv'
<1>0. /\ IInv /\ Sound(BdValue) /\ Sane(BdValue) /\ model \in Model /\ Walking
      /\ DOMAIN selected = MuxOf(model) /\ DOMAIN bay.data = ChansOf(model)
      /\ ValInv(model, bay) /\ BayInv(bay) /\ bay.ok /\ CbsInv
  BY BdSane DEF BdInv, RunMux, IInv, Sound
<1>1. /\ state' = state /\ bay'.ok
      /\ CbLists(cbs') /\ DOMAIN cbs' = DOMAIN cbs /\ DOMAIN selected' = DOMAIN selected
      /\ KeepsAfter(cbs[CurChan], cbs'[CurChan], CurCb)
  BY <1>0, RunMuxIs
<1>2. PICK m \in DOMAIN selected : \E v :
          /\ \/ CurCb = SelectCb(m) /\ CurChan = MuxSel[m]
             \/ \E i \in DOMAIN MuxIn[m] : CurCb = InputCb(m, i) /\ CurChan = MuxIn[m][i]
          /\ v = MuxDef[m] \/ \E i \in DOMAIN MuxIn[m] : v = ChanRead(bay, MuxIn[m][i])
          /\ bay' = ChanSet(bay, MuxOut[m], v)
          /\ \A e \in DOMAIN cbs : e \notin ToSet(MuxIn[m]) => cbs'[e] = cbs[e]
  BY <1>0, RunMuxIs
<1>3. PICK v :
          /\ \/ CurCb = SelectCb(m) /\ CurChan = MuxSel[m]
             \/ \E i \in DOMAIN MuxIn[m] : CurCb = InputCb(m, i) /\ CurChan = MuxIn[m][i]
          /\ v = MuxDef[m] \/ \E i \in DOMAIN MuxIn[m] : v = ChanRead(bay, MuxIn[m][i])
          /\ bay' = ChanSet(bay, MuxOut[m], v)
          /\ \A e \in DOMAIN cbs : e \notin ToSet(MuxIn[m]) => cbs'[e] = cbs[e]
  BY <1>2
<1>4. m \in MuxOf(model) /\ m \in Mux /\ Kind(model, m)
  <2>1. m \in MuxOf(model)
    BY <1>0
  <2>2. Kind(model, m)
    BY <1>0, <2>1, MuxKinds
  <2> QED
    BY <2>1, <2>2 DEF Kind
<1>5. \A j \in 1 .. pos : bay.list[j] # MuxOut[m]
  BY <1>0, <1>3, <1>4, BdAhead
<1>6. AheadInv
  BY <1>3, <1>5 DEF AheadInv, Ahead, SelectCb, InputCb
<1>7. FlowsOn(BdValue) /\ IInv'
  BY <1>0, <1>6, FlowRunMux, PropagateInv DEF Propagate
<1>8. /\ MuxOut[m] \in DOMAIN bay.data /\ MuxOut[m] \notin Stack
      /\ MuxOut[m] \in DirtyWrite \cap AllowDup
  BY <1>0, <1>4, GraphAssumption DEF Sound, Wired
<1>9. /\ BayInv(bay') /\ bay'.flag = bay.flag \cup {MuxOut[m]}
      /\ DOMAIN bay'.data = DOMAIN bay.data
      /\ bay'.data[MuxOut[m]] = <<v>>
      /\ \A e \in DOMAIN bay.data : e # MuxOut[m] =>
             bay'.data[e] = bay.data[e] /\ ChanRead(bay', e) = ChanRead(bay, e)
      /\ bay'.list = IF MuxOut[m] \in bay.flag THEN bay.list ELSE Append(bay.list, MuxOut[m])
  BY <1>0, <1>3, <1>8, SetOutput
<1>10. v \in BdValue /\ MuxOut[m][2] \notin {"out", "thrun"}
  BY <1>0, <1>3, <1>4, MuxReads
<1>11. ValInv(model, bay')
  <2>1. ASSUME NEW e \in ChansOf(model), e[2] # "out" PROVE bay'.data[e] \in Seq(BdValue)
    <3>1. CASE e = MuxOut[m]
      <4>1. <<v>> \in Seq(BdValue)
        BY <1>10
      <4> QED
        BY <1>9, <3>1, <4>1
    <3>2. CASE e # MuxOut[m]
      BY <1>0, <1>9, <2>1, <3>2 DEF ValInv
    <3> QED
      BY <3>1, <3>2
  <2>2. ASSUME NEW c \in Cpu PROVE ChanRead(bay', ThRun(c)) \in {Null} \cup Thread
    <3>1. ThRun(c) \in ChansOf(model) /\ ThRun(c) # MuxOut[m]
      <4>1. ThRun(c)[2] = "thrun"
        BY DEF ThRun
      <4> QED
        BY <1>0, <1>10, <4>1, ChanNames
    <3> QED
      BY <1>0, <1>9, <3>1 DEF ValInv
  <2> QED
    BY <2>1, <2>2 DEF ValInv
<1>12. \A c \in Cpu : ThRun(c) \in DOMAIN cbs /\ cbs'[ThRun(c)] = cbs[ThRun(c)]
  <2> SUFFICES ASSUME NEW c \in Cpu PROVE ThRun(c) \in DOMAIN cbs /\ ThRun(c) \notin ToSet(MuxIn[m])
    BY <1>3
  <2>1. ThRun(c) \in DOMAIN cbs
    BY <1>0, ChanNames DEF CbsInv
  <2>2. m[2] \in Lvl1 \cup {"tr", "tri"}
    BY <1>4, MuxNames DEF MuxOf
  <2>3. \A i \in DOMAIN MuxIn[m] : MuxIn[m][i][2] # "thrun"
    <3>1. CASE m[2] \in Lvl1
      BY <1>4, <3>1 DEF Kind, Lvl1, Followed
    <3>2. CASE m[2] = "tr"
      BY <1>4, <3>2 DEF Kind
    <3>3. CASE m[2] = "tri"
      BY <1>4, <3>3 DEF Kind
    <3> QED
      BY <2>2, <3>1, <3>2, <3>3
  <2> QED
    BY <2>1, <2>3 DEF ThRun, ToSet
<1>13. ThCbs'
  BY <1>12 DEF BdInv, ThCbs
<1>14. RowsOk'
  <2>1. prv' = prv
    BY DEF RunMux
  <2> QED
    BY <2>1 DEF BdInv, RowsOk
<1>15. Ordered(model, bay'.list, pos', cbi')
  <2>1. Writes(model, CurChan, cbi, MuxOut[m])
    BY <1>0, <1>3, <1>4, MuxWrites
  <2>2. bay'.flag \subseteq DOMAIN cbs'
    BY <1>0, <1>1, <1>8, <1>9 DEF Sound, WalkInv, CbsInv
  <2>3. ASSUME CurChan[2] = "thrun" PROVE cbs'[CurChan] = cbs[CurChan]
    <3>1. CurChan \in ChansOf(model)
      BY <1>0, <1>3, <1>4 DEF Kind
    <3>2. PICK c \in Cpu : CurChan = ThRun(c)
      BY <3>1, <2>3, ChanCases DEF ChansOf, Lvl0, Lvl1, Tri, Out
    <3> QED
      BY <3>2, <1>12
  <2>4. Advance(CurChan, CurCb)
    BY DEF RunMux
  <2> QED
    BY <1>0, <1>1, <1>9, <2>1, <2>2, <2>3, <2>4, BdOrdered
<1> QED
  BY <1>0, <1>1, <1>7, <1>9, <1>11, <1>13, <1>14, <1>15, BdStepKeeps DEF Walking

\* An input of the sort module is tri of a CPU, and its callbacks write only outputs.
LEMMA SortWrites ==
  ASSUME BdInv, Walking, CurCb[1] = "sort", NEW c \in Cpu
  PROVE  Writes(model, CurChan, cbi, Out(c)) /\ CurChan[2] # "thrun"
<1>0. model \in Model /\ model # "cpu"
  BY BreakdownAssumption DEF BdInv
<1>1. PICK e, y : e = CurChan /\ y = CurCb
  OBVIOUS
<1>2. e \in DOMAIN cbs /\ y \in ToSet(cbs[e])
  <2>1. /\ bay.list \in Seq(bay.flag) /\ bay.flag \subseteq DOMAIN cbs /\ pos \in 1 .. Len(bay.list)
        /\ cbi \in DOMAIN cbs[bay.list[pos]]
    BY DEF BdInv, IInv, BayInv, Listed, Sound, WalkInv, Walking
  <2> QED
    BY <2>1, <1>1 DEF CurChan, CurCb, ToSet
<1>3. OfChan(e, y)
  BY <1>2 DEF BdInv, Sound, CbsInv
<1>4. \E i \in DOMAIN SortIn : e = SortIn[i]
  BY <1>1, <1>3 DEF OfChan, SelectCb, InputCb
<1>5. PICK d \in Cpu : CurChan = Tri(d)
  BY <1>1, <1>4, SortChans
<1> QED
  BY <1>0, <1>5 DEF Writes, Out, Tri, ThRun, Lvl0, Lvl1

\* The sort module takes its input.
LEMMA BdRunSort == ASSUME BdInv, RunSort, UNCHANGED <<model, tasks, used>> PROVE BdInv'
<1>0. /\ IInv /\ Sound(BdValue) /\ model \in Model /\ Walking /\ CurCb[1] = "sort" /\ CbsInv
      /\ bay' = bay /\ cbs' = cbs /\ selected' = selected /\ prv' = prv /\ state' = state
      /\ Advance(CurChan, CurCb) \/ UNCHANGED <<pos, cbi>>
  BY DEF BdInv, RunSort, Sound, sort_cb_input
<1>1. FlowsOn(BdValue) /\ IInv'
  BY <1>0, FlowRunSort, PropagateInv DEF Propagate
<1>2. 1 \in Cpu
  BY BreakdownAssumption DEF Cpu
<1>3. KeepsAfter(cbs[CurChan], cbs'[CurChan], CurCb)
  BY <1>0 DEF KeepsAfter
<1>4. Ordered(model, bay'.list, pos', cbi')
  <2>1. BayInv(bay') /\ bay'.flag \subseteq DOMAIN cbs' /\ CbLists(cbs') /\ bay'.list = bay.list
    BY <1>0 DEF IInv, Sound, WalkInv, CbsInv
  <2> QED
    BY <1>0, <1>2, <1>3, <2>1, SortWrites, BdOrdered
<1>5. ThCbs' /\ RowsOk' /\ ValInv(model, bay')
  BY <1>0 DEF BdInv, ThCbs, RowsOk, ValInv
<1> QED
  BY <1>0, <1>1, <1>4, <1>5, BdStepKeeps DEF Walking

\* ... and writes an output.
LEMMA BdWriteOutput == ASSUME BdInv, WriteOutput, UNCHANGED <<model, tasks, used>> PROVE BdInv'
<1>0. /\ IInv /\ Sound(BdValue) /\ model \in Model /\ Walking /\ CbsInv /\ bay.ok
      /\ cbs' = cbs /\ selected' = selected /\ prv' = prv
      /\ Advance(CurChan, CurCb) \/ UNCHANGED <<pos, cbi>>
      /\ DOMAIN bay.data = ChansOf(model) /\ BayInv(bay)
  BY DEF BdInv, WriteOutput, Sound, IInv
<1>1. FlowsOn(BdValue) /\ IInv' /\ state' = state
  BY <1>0, FlowWriteOutput, PropagateInv DEF Propagate
<1>2. out \in Cpu /\ SortOut[out] = Out(out) /\ CurCb[1] = "sort"
  <2>1. out # 0
    BY DEF WriteOutput
  <2>2. out \in DOMAIN SortOut /\ CurCb[1] = "sort"
    BY <2>1, <1>0 DEF Sound, Sorting, SortCb
  <2> QED
    BY <2>2, SortChans
<1>3. PICK x : x = Out(out)
  OBVIOUS
<1>4. x \in DOMAIN bay.data /\ x \notin Stack /\ x \in DirtyWrite \cap AllowDup
  <2>1. x \in BdOut /\ x[2] = "out"
    BY <1>2, <1>3 DEF BdOut, Out
  <2>2. x \in ChansOf(model)
    BY <1>0, <1>2, <1>3, ChanNames
  <2> QED
    BY <1>0, <2>1, <2>2, BreakdownGraph DEF BdDirtyWrite, BdAllowDup, BdStack
<1>5. /\ BayInv(bay') /\ bay'.flag \subseteq bay.flag \cup {x}
      /\ DOMAIN bay'.data = DOMAIN bay.data
      /\ \A e \in DOMAIN bay.data : e # x =>
             bay'.data[e] = bay.data[e] /\ ChanRead(bay', e) = ChanRead(bay, e)
      /\ bay'.list = bay.list \/ (bay'.list = Append(bay.list, x) /\ x \notin bay.flag)
  <2>1. bay' = bay \/ bay' = ChanSet(bay, x, sorted[out])
    BY <1>2, <1>3 DEF WriteOutput
  <2>2. CASE bay' = bay
    BY <1>0, <2>2
  <2>3. CASE bay' = ChanSet(bay, x, sorted[out])
    <3>1. PICK v : v = sorted[out]
      OBVIOUS
    <3>2. bay' = ChanSet(bay, x, v)
      BY <2>3, <3>1
    <3>3. /\ BayInv(bay') /\ bay'.flag = bay.flag \cup {x}
          /\ DOMAIN bay'.data = DOMAIN bay.data
          /\ \A e \in DOMAIN bay.data : e # x =>
                 bay'.data[e] = bay.data[e] /\ ChanRead(bay', e) = ChanRead(bay, e)
          /\ bay'.list = IF x \in bay.flag THEN bay.list ELSE Append(bay.list, x)
      BY <1>0, <1>4, <3>2, SetOutput
    <3> QED
      BY <3>3
  <2> QED
    BY <2>1, <2>2, <2>3
<1>6. x[2] = "out" /\ \A c \in Cpu : ThRun(c) # x /\ ThRun(c) \in ChansOf(model)
  BY <1>0, <1>3, ChanNames DEF Out, ThRun
<1>7. ValInv(model, bay')
  BY <1>0, <1>5, <1>6 DEF BdInv, ValInv
<1>8. KeepsAfter(cbs[CurChan], cbs'[CurChan], CurCb)
  BY <1>0 DEF KeepsAfter
<1>9. Ordered(model, bay'.list, pos', cbi')
  <2>1. bay'.flag \subseteq DOMAIN cbs' /\ CbLists(cbs')
    BY <1>0, <1>4, <1>5 DEF Sound, WalkInv, CbsInv
  <2>2. Writes(model, CurChan, cbi, x) /\ CurChan[2] # "thrun"
    BY <1>0, <1>2, <1>3, SortWrites
  <2> QED
    BY <1>0, <1>5, <1>8, <2>1, <2>2, BdOrdered
<1>10. ThCbs' /\ RowsOk'
  BY <1>0 DEF BdInv, ThCbs, RowsOk
<1> QED
  BY <1>0, <1>1, <1>5, <1>7, <1>9, <1>10, BdStepKeeps DEF Walking

\* The rows of the breakdown accept every value.
LEMMA RowEmits ==
  ASSUME NEW p, RowOk(p), NEW v
  PROVE  RowOk(Emit(p, v, {"skipdup", "zero"}))
<1> USE DEF RowOk
<1> DEFINE F == {"skipdup", "zero"}
           kept == [p EXCEPT !.last = v, !.set = TRUE]
           q == Emit(p, v, F)
<1>1. "skipdup" \in F /\ "zero" \in F /\ "emitdup" \notin F
  OBVIOUS
<1>2. q = p \/ \E w : q = [kept EXCEPT !.line = w]
  BY <1>1 DEF Emit
<1>3. CASE q = p
  BY <1>3
<1>4. ASSUME NEW w, q = [kept EXCEPT !.line = w]
      PROVE  q \in [set : {q.set}, last : {q.last}, line : {q.line}, ok : {TRUE}]
  BY <1>4
<1> QED
  BY <1>2, <1>3, <1>4

\* The end of the propagation.
LEMMA BdEmit == ASSUME BdInv, EmitAndFlush, UNCHANGED <<model, tasks, used>> PROVE BdInv'
<1>0. IInv /\ Sound(BdValue) /\ BayInv(bay) /\ DOMAIN prv = BdOut
  BY DEF BdInv, IInv, RowsOk
<1>1. RowsOk'
  <2>1. ASSUME NEW c \in DOMAIN prv
        PROVE  RowOk(prv[c])'
    <3>1. prv'[c] = prv[c] \/ prv'[c] = Emit(prv[c], ChanRead(bay, c), PrvFlags[c])
      BY DEF EmitAndFlush
    <3>2. PrvFlags[c] = {"skipdup", "zero"}
      BY <1>0, BreakdownGraph DEF BdPrvFlags
    <3>3. RowOk(prv[c])
      BY DEF BdInv, RowsOk
    <3> QED
      <4>1. PICK p, q, v : p = prv[c] /\ q = prv'[c] /\ v = ChanRead(bay, c)
        OBVIOUS
      <4>2. q = p \/ q = Emit(p, v, {"skipdup", "zero"})
        BY <3>1, <3>2, <4>1
      <4>3. RowOk(q)
        BY <3>3, <4>1, <4>2, RowEmits
      <4> QED
        BY <4>1, <4>3
  <2>2. DOMAIN prv' = DOMAIN prv
    BY DEF EmitAndFlush
  <2> QED
    BY <1>0, <2>1, <2>2 DEF RowsOk
<1>2. \A c \in DOMAIN prv : prv'[c].ok
  BY <1>0, <1>1 DEF RowsOk, RowOk
<1>3. state' = "ready" /\ bay' = Flush(bay) /\ cbs' = cbs /\ selected' = selected
  BY <1>2 DEF EmitAndFlush, graphVars
<1>4. FlowsOn(BdValue) /\ IInv'
  BY <1>0, <1>3, FlowEmit, PropagateInv DEF Propagate
<1>5. bay'.data = bay.data
  BY <1>0, <1>3 DEF Flush, BayInv, IsBay
<1>6. ThCbs' /\ ValInv(model, bay')
  BY <1>3, <1>5 DEF BdInv, ThCbs, ValInv, ChanRead
<1> QED
  BY <1>1, <1>3, <1>4, <1>5, <1>6, BdStepKeeps
-----------------------------------------------------------------------------
(* The events.                                                             *)

\* The channels that a handler may write together.
Together == {{"progress"}, Lvl0 \ {"progress"}}

\* A handler has written channels of the kinds of K, and left b.
Wrote(b, K) ==
    /\ BayInv(b) /\ b.ok /\ DOMAIN b.data = ChansOf(model) /\ b.last = bay.last
    /\ ValInv(model, b) /\ b.flag \subseteq ChansOf(model)
    /\ \A e \in b.flag : e[2] \in K

\* It begins with nothing dirty.
LEMMA WroteNone == ASSUME BdInv, state = "ready", NEW K PROVE Wrote(bay, K)
  BY DEF BdInv, IInv, Sound, Wrote

\* It writes a channel.
LEMMA WroteOne ==
  ASSUME BdInv, NEW b, NEW K \in Together, Wrote(b, K), NEW c \in ChansOf(model), c[2] \in K,
         NEW r, NEW d, Written(b, r, c, d), BayInv(r), d \in Seq(BdValue),
         c[2] = "thrun" => \E v \in {Null} \cup Thread : d = <<v>>
  PROVE  Wrote(r, K)
<1>0. c[2] \in Lvl0
  BY DEF Together, Lvl0
<1>1. /\ r.ok /\ r.last = bay.last /\ DOMAIN r.data = ChansOf(model)
      /\ r.flag \subseteq b.flag \cup {c} /\ DOMAIN b.data = ChansOf(model)
      /\ \A e \in ChansOf(model) : e # c => r.data[e] = b.data[e]
      /\ r.data[c] = b.data[c] \/ r.data[c] = d
  BY DEF Wrote, Written
<1>2. \A e \in ChansOf(model) : e[2] # "out" => r.data[e] \in Seq(BdValue)
  <2> SUFFICES ASSUME NEW e \in ChansOf(model), e[2] # "out" PROVE r.data[e] \in Seq(BdValue)
    OBVIOUS
  <2>1. b.data[e] \in Seq(BdValue)
    BY DEF Wrote, ValInv
  <2> QED
    BY <2>1, <1>1
<1>3. \A x \in Cpu : ChanRead(r, ThRun(x)) \in {Null} \cup Thread
  <2> SUFFICES ASSUME NEW x \in Cpu PROVE ChanRead(r, ThRun(x)) \in {Null} \cup Thread
    OBVIOUS
  <2>0. PICK e : e = ThRun(x)
    OBVIOUS
  <2>1. e \in ChansOf(model) /\ e[2] = "thrun" /\ ChanRead(b, e) \in {Null} \cup Thread
    BY <2>0, ChanNames DEF BdInv, Wrote, ValInv, ThRun
  <2>2. CASE r.data[e] = b.data[e]
    BY <2>0, <2>1, <2>2 DEF ChanRead
  <2>3. CASE r.data[e] # b.data[e]
    <3>1. e = c /\ r.data[e] = d
      BY <2>1, <2>3, <1>1
    <3>2. PICK v \in {Null} \cup Thread : d = <<v>>
      BY <2>1, <3>1
    <3> QED
      BY <2>0, <3>1, <3>2 DEF ChanRead, Last
  <2> QED
    BY <2>2, <2>3
<1> QED
  BY <1>1, <1>2, <1>3 DEF Wrote, ValInv

\* chan_set()
LEMMA WroteSet ==
  ASSUME BdInv, NEW b, NEW K \in Together, Wrote(b, K), NEW c \in ChansOf(model), c[2] \in K,
         NEW v \in BdValue, c[2] = "thrun" => v \in {Null} \cup Thread, ChanSet(b, c, v).ok
  PROVE  /\ Wrote(ChanSet(b, c, v), K) /\ b.flag \subseteq ChanSet(b, c, v).flag
         /\ v # bay.last[c] => c \in ChanSet(b, c, v).flag
<1>0. BayInv(b) /\ c \in DOMAIN b.data /\ b.last = bay.last
  BY DEF Wrote
<1>1. PICK r, d : r = ChanSet(b, c, v) /\ d = <<v>>
  OBVIOUS
<1>2. Written(b, r, c, d) /\ (v # b.last[c] => c \in r.flag)
  BY <1>0, <1>1, OpWrites
<1>3. BayInv(r)
  BY <1>0, <1>1, ChanInv
<1>4. d \in Seq(BdValue) /\ (c[2] = "thrun" => \E w \in {Null} \cup Thread : d = <<w>>)
  <2>1. <<v>> \in Seq(BdValue)
    OBVIOUS
  <2> QED
    BY <2>1, <1>1
<1>5. Wrote(r, K)
  BY <1>2, <1>3, <1>4, WroteOne
<1> QED
  BY <1>0, <1>1, <1>2, <1>5 DEF Written

\* chan_push()
LEMMA WrotePush ==
  ASSUME BdInv, NEW b, NEW K \in Together, Wrote(b, K), NEW c \in ChansOf(model), c[2] \in K,
         NEW v \in BdValue, c[2] # "thrun", ChanPush(b, c, v).ok
  PROVE  Wrote(ChanPush(b, c, v), K)
<1>0. BayInv(b) /\ c \in DOMAIN b.data /\ c[2] # "out"
  BY DEF Wrote, Together, Lvl0
<1>1. PICK r, d : r = ChanPush(b, c, v) /\ d = Append(b.data[c], v)
  OBVIOUS
<1>2. Written(b, r, c, d)
  BY <1>0, <1>1, OpWrites
<1>3. BayInv(r)
  BY <1>0, <1>1, ChanInv
<1>4. d \in Seq(BdValue)
  <2>1. b.data[c] \in Seq(BdValue)
    BY <1>0 DEF Wrote, ValInv
  <2> QED
    BY <2>1, <1>1
<1>5. Wrote(r, K)
  BY <1>2, <1>3, <1>4, WroteOne
<1> QED
  BY <1>1, <1>5

\* chan_pop()
LEMMA WrotePop ==
  ASSUME BdInv, NEW b, NEW K \in Together, Wrote(b, K), NEW c \in ChansOf(model), c[2] \in K,
         NEW v, c[2] # "thrun", ChanPop(b, c, v).ok
  PROVE  Wrote(ChanPop(b, c, v), K)
<1>0. BayInv(b) /\ c \in DOMAIN b.data /\ c[2] # "out"
  BY DEF Wrote, Together, Lvl0
<1>1. PICK r, d : r = ChanPop(b, c, v) /\ d = Front(b.data[c])
  OBVIOUS
<1>2. Written(b, r, c, d) /\ b.data[c] # <<>>
  BY <1>0, <1>1, OpWrites
<1>3. BayInv(r)
  BY <1>0, <1>1, ChanInv
<1>4. d \in Seq(BdValue)
  <2>1. b.data[c] \in Seq(BdValue)
    BY <1>0 DEF Wrote, ValInv
  <2> QED
    BY <2>1, <1>1, <1>2 DEF Front
<1>5. Wrote(r, K)
  BY <1>2, <1>3, <1>4, WroteOne
<1> QED
  BY <1>1, <1>5

\* What the handler wrote is in order.
LEMMA OrderedStart ==
  ASSUME NEW o, NEW L, NEW p, NEW K \in Together, \A i \in DOMAIN L : L[i][2] \in K
  PROVE  Ordered(o, L, p, 1)
<1>1. /\ \A i \in DOMAIN L : L[i][2] \in Lvl0
      /\ \A i, j \in DOMAIN L : L[i][2] = "progress" => L[j][2] = "progress"
  BY DEF Together, Lvl0
<1>2. \A i \in DOMAIN L : L[i][2] \notin Lvl1 /\ L[i][2] # "tr" /\ L[i][2] # "tri"
  BY <1>1 DEF Lvl0, Lvl1
<1>3. O1(L) /\ O2(L) /\ O3(L, p)
  BY <1>1, <1>2 DEF O1, O2, O3
<1>4. \A c \in Cpu : ~InList(L, <<o, "tt", c>>) /\ ~InList(L, <<o, "ss", c>>)
                     /\ ~InList(L, <<o, "idle", c>>) /\ ~InList(L, <<o, "tr", c>>)
  BY <1>2 DEF InList, Lvl1
<1>5. O4(o, L, p) /\ O5(o, L) /\ O8(o, L)
  BY <1>4 DEF O4, O5, O8, InList
<1>6. O6(o, L, p, 1) /\ O7(L)
  BY <1>1 DEF O6, O7
<1> QED
  BY <1>3, <1>5, <1>6 DEF Ordered

\* An event keeps the invariant, and the sort module as it is.
Heard ==
    /\ BdInv' /\ UNCHANGED <<values, sorted, copied, out>>
    /\ \A c \in Cpu : ChanRead(bay', Out(c)) = ChanRead(bay, Out(c))

\* The handler ends and the walk begins.  The tracks of a CPU whose running thread was
\* written will select.
LEMMA BdHandled ==
  ASSUME BdInv, NEW b, NEW K \in Together, Wrote(b, K), Accepted(b),
         NEW U \in SUBSET Cpu, used' = used \cup U, \A c \in U : ThRun(c) \in b.flag
  PROVE  Heard
<1>0. /\ IInv /\ Sound(BdValue) /\ model \in Model /\ model' = model /\ Handled(b)
      /\ BayInv(b) /\ b.ok /\ DOMAIN b.data = ChansOf(model) /\ b.last = bay.last
      /\ DOMAIN bay.data = ChansOf(model) /\ DOMAIN selected = MuxOf(model)
      /\ b.flag \subseteq ChansOf(model) /\ CbsInv
  BY DEF BdInv, Accepted, Wrote, Sound
<1>1. \A m \in DOMAIN selected : MuxOut[m] \notin b.flag
  <2> SUFFICES ASSUME NEW m \in MuxOf(model) PROVE MuxOut[m][2] \notin K
    BY <1>0 DEF Wrote
  <2>1. Kind(model, m) /\ m[2] \in Lvl1 \cup {"tr", "tri"}
    BY <1>0, MuxKinds, MuxNames DEF MuxOf
  <2> QED
    BY <2>1 DEF Kind, Together, Lvl0, Lvl1
<1>2. /\ Sound(BdValue)'
      /\ \A n \in DOMAIN selected : Live(n) \/ MuxSel[n] \in b.flag => Live(n)'
  <2>1. DOMAIN b.data = DOMAIN bay.data /\ b.flag \subseteq DOMAIN bay.data
    BY <1>0
  <2> QED
    BY <1>0, <1>1, <2>1, FlowHandled
<1>3. IInv'
  BY <1>0, HandledInv
<1>4. /\ bay' = b /\ state' = "propagating" /\ cbs' = cbs /\ selected' = selected /\ prv' = prv
      /\ cbi' = 1
  BY <1>0 DEF Handled, graphVars
<1>5. ThCbs' /\ RowsOk' /\ ValInv(model, bay)'
  BY <1>0, <1>4 DEF BdInv, ThCbs, RowsOk, ValInv, Wrote
<1>6. Ordered(model, bay.list, pos, cbi)'
  <2>1. \A i \in DOMAIN b.list : b.list[i][2] \in K
    BY <1>0 DEF BayInv, Listed, Wrote
  <2>2. Ordered(model, b.list, pos', 1)
    BY <2>1, OrderedStart
  <2> QED
    BY <1>0, <1>4, <2>2
<1>7. UsedLive'
  <2>1. ASSUME NEW c \in used', NEW k \in ToSet(TrackOrder(model)) PROVE Live(<<model, k, c>>)'
    <3>0. k \in Lvl1 /\ (k = "idle" => model \in HasIdle) /\ c \in Cpu
      BY <1>0, Tracks DEF BdInv, UsedLive
    <3>1. PICK m : m = <<model, k, c>>
      OBVIOUS
    <3>2. m \in MuxOf(model) /\ MuxSel[m] = ThRun(c)
      BY <1>0, <3>0, <3>1, TrackMux
    <3>3. Live(m) \/ MuxSel[m] \in b.flag
      BY <3>1, <3>2 DEF BdInv, UsedLive
    <3>4. Live(m)'
      BY <1>0, <1>2, <3>2, <3>3
    <3> QED
      BY <3>1, <3>4, <1>0
  <2> QED
    BY <1>0, <2>1 DEF BdInv, UsedLive
<1>8. ASSUME NEW c \in Cpu PROVE ChanRead(b, Out(c)) = ChanRead(bay, Out(c))
  <2>0. PICK e : e = Out(c)
    OBVIOUS
  <2>1. e \in ChansOf(model) /\ e[2] = "out"
    BY <1>0, <2>0, ChanNames DEF Out
  <2>2. e \notin b.flag /\ e \notin bay.flag
    BY <1>0, <2>1 DEF Wrote, Together, Lvl0, IInv, Handled
  <2>3. ChanRead(b, e) = b.last[e] /\ ChanRead(bay, e) = bay.last[e]
    BY <1>0, <2>1, <2>2 DEF IInv, BayInv, Unchanged
  <2> QED
    BY <1>0, <2>0, <2>3
<1>9. BdInv'
  BY <1>0, <1>2, <1>3, <1>4, <1>5, <1>6, <1>7 DEF BdInv
<1>10. UNCHANGED <<values, sorted, copied, out>>
  BY <1>0 DEF Handled, graphVars
<1> QED
  BY <1>4, <1>8, <1>9, <1>10 DEF Heard

\* The values that the events write.
LEMMA EventValues ==
  /\ {Null, ST_SCHED_HUNGRY, ST_TASK_BODY, ST_PROGRESSING, ST_RESTING, TypeGid} \subseteq BdValue
  /\ Thread \subseteq BdValue /\ \A t \in Thread : t # Null
<1>1. NThreads \in Nat
  BY BreakdownAssumption
<1> QED
  BY <1>1, GraphAssumption DEF BdValue, Thread

\* Every event keeps the invariant.
LEMMA BdEvent == ASSUME BdInv, Event PROVE Heard
<1>0. state = "ready" /\ model \in Model
  BY DEF Event, BdInv
<1> DEFINE K == Lvl0 \ {"progress"}
           P == {"progress"}
<1>1. /\ K \in Together /\ P \in Together
      /\ "thrun" \in K /\ "type" \in K /\ "subsystem" \in K /\ "progress" \in P
  BY DEF Together, Lvl0
<1> HIDE DEF K, P
<1>2. Wrote(bay, K) /\ Wrote(bay, P)
  BY <1>0, WroteNone
<1>3. \A c \in Cpu : ThRun(c) \in ChansOf(model) /\ ThRun(c)[2] = "thrun"
  BY <1>0, ChanNames DEF ThRun
<1>4. \A t \in Thread : /\ Type(model, t) \in ChansOf(model) /\ Type(model, t)[2] = "type"
                        /\ MySubsystem(t) \in ChansOf(model) /\ MySubsystem(t)[2] = "subsystem"
  BY <1>0, ChanNames DEF Type, MySubsystem, Subsystem
<1>5. \A c \in Cpu : bay.last[ThRun(c)] = Running(c) /\ Running(c) \in {Null} \cup Thread
  BY <1>0, <1>3 DEF BdInv, IInv, BayInv, Unchanged, Running, ValInv
<1>6. {} \in SUBSET Cpu /\ used \cup {} = used
  OBVIOUS
<1>7. ASSUME NEW b, NEW Q \in Together, Wrote(b, Q), Accepted(b), used' = used PROVE Heard
  BY <1>6, <1>7, BdHandled
<1>8. ASSUME NEW c \in Cpu, NEW t \in Thread, ThreadRuns(t, c) PROVE Heard
  <2>1. /\ Running(c) = Null /\ Accepted(ChanSet(bay, ThRun(c), t)) /\ used' = used \cup {c}
        /\ ChanSet(bay, ThRun(c), t).ok
    BY <1>8 DEF ThreadRuns, Accepted
  <2>2. t \in BdValue /\ t # bay.last[ThRun(c)]
    BY <2>1, <1>5, EventValues
  <2>3. Wrote(ChanSet(bay, ThRun(c), t), K) /\ ThRun(c) \in ChanSet(bay, ThRun(c), t).flag
    BY <1>1, <1>2, <1>3, <2>1, <2>2, WroteSet
  <2>4. PICK b : b = ChanSet(bay, ThRun(c), t)
    OBVIOUS
  <2>5. PICK U : U = {c}
    OBVIOUS
  <2> QED
    BY <1>1, <2>1, <2>3, <2>4, <2>5, BdHandled
<1>9. ASSUME NEW c \in Cpu, ThreadStops(c) PROVE Heard
  <2>1. Accepted(ChanSet(bay, ThRun(c), Null)) /\ used' = used /\ ChanSet(bay, ThRun(c), Null).ok
    BY <1>9 DEF ThreadStops, Accepted
  <2>2. Wrote(ChanSet(bay, ThRun(c), Null), K)
    BY <1>1, <1>2, <1>3, <2>1, WroteSet, EventValues
  <2> QED
    BY <1>1, <2>1, <2>2, <1>7
<1>10. ASSUME NEW c \in Cpu, NEW d \in Cpu, ThreadMigrates(c, d) PROVE Heard
  <2>0. PICK t, a, b : /\ t = Running(c) /\ a = ChanSet(bay, ThRun(c), Null)
                       /\ b = ChanSet(a, ThRun(d), t)
    OBVIOUS
  <2>1. t # Null /\ Running(d) = Null /\ Accepted(b) /\ b.ok /\ used' = used \cup {d}
    BY <1>10, <2>0 DEF ThreadMigrates, Accepted
  <2>2. t \in Thread /\ t \in BdValue /\ t # bay.last[ThRun(d)]
    BY <1>5, <2>0, <2>1, EventValues
  <2>3. a.ok
    BY <2>0, <2>1 DEF ChanSet
  <2>4. Wrote(a, K)
    BY <1>1, <1>2, <1>3, <2>0, <2>3, WroteSet, EventValues
  <2>5. Wrote(b, K) /\ ThRun(d) \in b.flag
    BY <1>1, <1>3, <2>0, <2>1, <2>2, <2>4, WroteSet
  <2>6. PICK U : U = {d}
    OBVIOUS
  <2> QED
    BY <1>1, <2>1, <2>5, <2>6, BdHandled
<1>11. ASSUME NEW t \in Thread, NEW v \in {ST_PROGRESSING, ST_RESTING}, SetIdle(t, v) PROVE Heard
  <2>1. /\ model \in HasIdle /\ Accepted(ChanSet(bay, Progress(model, t), v)) /\ used' = used
        /\ ChanSet(bay, Progress(model, t), v).ok
    BY <1>11 DEF SetIdle, Accepted
  <2>2. Progress(model, t) \in ChansOf(model) /\ Progress(model, t)[2] = "progress"
    BY <1>0, <2>1, ChanNames DEF Progress
  <2>3. v \in BdValue
    BY EventValues
  <2>4. Wrote(ChanSet(bay, Progress(model, t), v), P)
    BY <1>1, <1>2, <2>1, <2>2, <2>3, WroteSet
  <2> QED
    BY <1>1, <2>1, <2>4, <1>7
<1>12. ASSUME NEW t \in Thread, PushSubsystem(t) PROVE Heard
  <2>1. /\ Accepted(ChanPush(bay, MySubsystem(t), ST_SCHED_HUNGRY)) /\ used' = used
        /\ ChanPush(bay, MySubsystem(t), ST_SCHED_HUNGRY).ok
    BY <1>12 DEF PushSubsystem, Accepted
  <2>2. Wrote(ChanPush(bay, MySubsystem(t), ST_SCHED_HUNGRY), K)
    BY <1>1, <1>2, <1>4, <2>1, WrotePush, EventValues
  <2> QED
    BY <1>1, <2>1, <2>2, <1>7
<1>13. ASSUME NEW t \in Thread, PopSubsystem(t) PROVE Heard
  <2>1. /\ Accepted(ChanPop(bay, MySubsystem(t), ST_SCHED_HUNGRY)) /\ used' = used
        /\ ChanPop(bay, MySubsystem(t), ST_SCHED_HUNGRY).ok
    BY <1>13 DEF PopSubsystem, Accepted
  <2>2. Wrote(ChanPop(bay, MySubsystem(t), ST_SCHED_HUNGRY), K)
    BY <1>1, <1>2, <1>4, <2>1, WrotePop
  <2> QED
    BY <1>1, <2>1, <2>2, <1>7
<1>14. ASSUME NEW t \in Thread, TaskExecute(t) PROVE Heard
  <2>0. PICK a, b : /\ a = ChanPush(bay, MySubsystem(t), ST_TASK_BODY)
                    /\ b = ChanSet(a, Type(model, t), TypeGid)
    OBVIOUS
  <2>1. Accepted(b) /\ b.ok /\ used' = used
    BY <1>14, <2>0 DEF TaskExecute, Accepted
  <2>2. a.ok
    BY <2>0, <2>1 DEF ChanSet
  <2>3. Wrote(a, K)
    BY <1>1, <1>2, <1>4, <2>0, <2>2, WrotePush, EventValues
  <2>4. Wrote(b, K)
    BY <1>1, <1>4, <2>0, <2>1, <2>3, WroteSet, EventValues
  <2> QED
    BY <1>1, <2>1, <2>4, <1>7
<1>15. ASSUME NEW t \in Thread, TaskPause(t) \/ TaskResume(t) PROVE Heard
  <2>1. PICK v \in {Null, TypeGid} : /\ Accepted(ChanSet(bay, Type(model, t), v)) /\ used' = used
                                     /\ ChanSet(bay, Type(model, t), v).ok
    BY <1>15 DEF TaskPause, TaskResume, Accepted
  <2>2. Wrote(ChanSet(bay, Type(model, t), v), K)
    BY <1>1, <1>2, <1>4, <2>1, WroteSet, EventValues
  <2> QED
    BY <1>1, <2>1, <2>2, <1>7
<1>16. ASSUME NEW t \in Thread, TaskEnd(t) PROVE Heard
  <2>0. PICK a, b, v : /\ a = ChanPop(bay, MySubsystem(t), ST_TASK_BODY)
                       /\ v = IF RunsUnder(t) THEN TypeGid ELSE Null
                       /\ b = ChanSet(a, Type(model, t), v)
    OBVIOUS
  <2>1. Accepted(b) /\ b.ok /\ used' = used
    BY <1>16, <2>0 DEF TaskEnd, Accepted
  <2>2. a.ok
    BY <2>0, <2>1 DEF ChanSet
  <2>3. Wrote(a, K)
    BY <1>1, <1>2, <1>4, <2>0, <2>2, WrotePop
  <2>4. v \in {Null, TypeGid}
    BY <2>0
  <2>5. Wrote(b, K)
    BY <1>1, <1>4, <2>0, <2>1, <2>3, <2>4, WroteSet, EventValues
  <2> QED
    BY <1>1, <2>1, <2>5, <1>7
<1>17. ASSUME NEW t \in Thread, BeginLabel(t) PROVE Heard
  <2>1. /\ Accepted(ChanPush(bay, Type(model, t), TypeGid)) /\ used' = used
        /\ ChanPush(bay, Type(model, t), TypeGid).ok
    BY <1>17 DEF BeginLabel, Accepted
  <2>2. Wrote(ChanPush(bay, Type(model, t), TypeGid), K)
    BY <1>1, <1>2, <1>4, <2>1, WrotePush, EventValues
  <2> QED
    BY <1>1, <2>1, <2>2, <1>7
<1>18. ASSUME NEW t \in Thread, EndLabel(t) PROVE Heard
  <2>1. /\ Accepted(ChanPop(bay, Type(model, t), TypeGid)) /\ used' = used
        /\ ChanPop(bay, Type(model, t), TypeGid).ok
    BY <1>18 DEF EndLabel, Accepted
  <2>2. Wrote(ChanPop(bay, Type(model, t), TypeGid), K)
    BY <1>1, <1>2, <1>4, <2>1, WrotePop
  <2> QED
    BY <1>1, <2>1, <2>2, <1>7
<1> QED
  BY <1>8, <1>9, <1>10, <1>11, <1>12, <1>13, <1>14, <1>15, <1>16, <1>17, <1>18 DEF Event

\* What the models leave at the start.
LEMMA ConnectedIs ==
  ASSUME NEW m \in Model
  PROVE  /\ Connected(m).ok /\ DOMAIN Connected(m).data = ChansOf(m)
         /\ Connected(m).flag \subseteq ChansOf(m)
         /\ \A e \in Connected(m).flag : e[2] = "progress"
         /\ \A e \in ChansOf(m) :
                /\ Connected(m).data[e] \in {<<>>, <<Null>>, <<ST_PROGRESSING>>}
                /\ e[2] # "progress" => ChanRead(Connected(m), e) = Null
<1> DEFINE n    == IF m \in HasIdle THEN NThreads ELSE 0
           idle == [i \in 1 .. n |-> Progress(m, i - 1)]
           b    == EmptyBay(ChansOf(m))
           r    == Connected(m)
           D    == [c \in DOMAIN b.data |-> IF c \in ToSet(idle)
                                            THEN <<ST_PROGRESSING>> ELSE b.data[c]]
<1>0. n \in Nat /\ (n # 0 => m \in HasIdle /\ n = NThreads)
  BY BreakdownAssumption
<1>1. \A c \in ToSet(idle) : c \in ChansOf(m) /\ c[2] = "progress"
  <2>1. \A c \in ToSet(idle) : \E i \in 1 .. n : c = Progress(m, i - 1)
    BY DEF ToSet
  <2>2. \A i \in 1 .. n : Progress(m, i - 1) \in ChansOf(m) /\ Progress(m, i - 1)[2] = "progress"
    <3> SUFFICES ASSUME NEW i \in 1 .. n
                 PROVE  Progress(m, i - 1) \in ChansOf(m) /\ Progress(m, i - 1)[2] = "progress"
      OBVIOUS
    <3>1. m \in HasIdle /\ i - 1 \in Thread
      BY <1>0 DEF Thread
    <3> QED
      BY <3>1, ChanNames DEF Progress
  <2> QED
    BY <2>1, <2>2
<1>2. /\ b.data = [c \in ChansOf(m) |-> IF c \in Stack THEN <<>> ELSE <<Null>>] /\ b.ok
      /\ b \in [data : {b.data}, last : {b.last}, flag : {b.flag}, list : {b.list}, ok : {b.ok}]
  BY DEF EmptyBay
<1> HIDE DEF idle, b, D
<1>3. r = [b EXCEPT !.data = D, !.flag = ToSet(idle), !.list = idle]
  BY Zenon DEF Connected, idle, b, D
<1>4. r.data = D /\ r.flag = ToSet(idle) /\ r.ok
  BY <1>2, <1>3
<1> HIDE DEF r
<1>5. D = [c \in ChansOf(m) |-> IF c \in ToSet(idle) THEN <<ST_PROGRESSING>>
                                ELSE IF c \in Stack THEN <<>> ELSE <<Null>>]
  BY <1>2 DEF D
<1>6. ASSUME NEW e \in ChansOf(m)
      PROVE  /\ r.data[e] \in {<<>>, <<Null>>, <<ST_PROGRESSING>>}
             /\ e[2] # "progress" => ChanRead(r, e) = Null
  <2>1. r.data[e] = IF e \in ToSet(idle) THEN <<ST_PROGRESSING>>
                    ELSE IF e \in Stack THEN <<>> ELSE <<Null>>
    BY <1>4, <1>5
  <2>2. e[2] # "progress" => r.data[e] = <<>> \/ r.data[e] = <<Null>>
    BY <2>1, <1>1
  <2> QED
    BY <2>1, <2>2 DEF ChanRead, Last
<1> QED
  BY <1>1, <1>4, <1>5, <1>6 DEF r

\* The invariant holds at the start.
LEMMA BdStart == Init => BdInv
<1> SUFFICES ASSUME Init PROVE BdInv
  OBVIOUS
<1>0. model \in Model /\ BayInit(Connected(model), BdCb(model)) /\ used = {}
  BY DEF Init
<1>1. PICK b, cb : b = Connected(model) /\ cb = BdCb(model)
  OBVIOUS
<1>2. /\ BayInv(b) /\ b.ok /\ DOMAIN b.data = ChansOf(model)
      /\ b.flag \subseteq ChansOf(model) /\ \A e \in b.flag : e[2] = "progress"
      /\ \A e \in ChansOf(model) : /\ b.data[e] \in {<<>>, <<Null>>, <<ST_PROGRESSING>>}
                                   /\ e[2] # "progress" => ChanRead(b, e) = Null
  BY <1>0, <1>1, ConnectedInv, ConnectedIs
<1>3. /\ CbLists(cb) /\ DOMAIN cb = ChansOf(model)
      /\ \A c \in ChansOf(model) : \A y \in ToSet(cb[c]) :
             \/ \E m \in MuxOf(model) : y = SelectCb(m) /\ MuxSel[m] = c
             \/ \E i \in DOMAIN SortIn : y = SortCb(i) /\ SortIn[i] = c
      /\ \A m \in MuxOf(model) : SelectCb(m) \in ToSet(cb[MuxSel[m]])
      /\ \A i \in DOMAIN SortIn : SortCb(i) \in ToSet(cb[SortIn[i]])
  BY <1>0, <1>1, BdCbs
<1>4. /\ bay = b /\ cbs = cb /\ state = "propagating" /\ cbi = 1
      /\ DOMAIN selected = {x \in Mux : {MuxSel[x], MuxOut[x]} \subseteq DOMAIN b.data}
      /\ prv = [c \in Row \cap DOMAIN b.data |-> [set |-> FALSE, last |-> Null,
                                                  line |-> 0, ok |-> TRUE]]
  BY <1>0, <1>1 DEF BayInit
<1>5. DOMAIN selected = MuxOf(model)
  BY <1>0, <1>2, <1>4, MuxOfIs
<1>6. Wired(DOMAIN selected, DOMAIN b.data)
  BY <1>0, <1>2, <1>5, BdWired
<1>7. \A m \in MuxOf(model) : ChanRead(b, MuxSel[m]) = Null /\ ChanRead(b, MuxOut[m]) = Null
  <2> SUFFICES ASSUME NEW m \in MuxOf(model)
               PROVE  ChanRead(b, MuxSel[m]) = Null /\ ChanRead(b, MuxOut[m]) = Null
    OBVIOUS
  <2>1. Kind(model, m) /\ m[2] \in Lvl1 \cup {"tr", "tri"}
    BY <1>0, MuxKinds, MuxNames DEF MuxOf
  <2>2. MuxSel[m][2] # "progress" /\ MuxOut[m][2] # "progress"
    BY <2>1 DEF Kind, Lvl1, ThRun, TriSelect
  <2> QED
    BY <2>1, <2>2, <1>2 DEF Kind
<1>8. \A i \in DOMAIN SortIn : ChanRead(b, SortIn[i]) = Null
  <2> SUFFICES ASSUME NEW i \in Cpu PROVE ChanRead(b, Tri(i)) = Null
    BY SortChans
  <2> QED
    BY <1>0, <1>2, ChanNames DEF Tri
<1>9. Sound(BdValue)
  BY <1>0, <1>1, <1>2, <1>3, <1>5, <1>6, <1>7, <1>8, FlowInit
<1>10. IInv
  BY <1>2, <1>4 DEF IInv
<1>11. ValInv(model, bay)
  <2>1. \A e \in ChansOf(model) : b.data[e] \in Seq(BdValue)
    <3>1. Null \in BdValue /\ ST_PROGRESSING \in BdValue
      BY EventValues
    <3>2. <<>> \in Seq(BdValue) /\ <<Null>> \in Seq(BdValue) /\ <<ST_PROGRESSING>> \in Seq(BdValue)
      BY <3>1
    <3> QED
      BY <1>2, <3>2
  <2>2. \A c \in Cpu : ChanRead(b, ThRun(c)) = Null
    <3>1. \A c \in Cpu : ThRun(c) \in ChansOf(model) /\ ThRun(c)[2] = "thrun"
      BY <1>0, ChanNames DEF ThRun
    <3> QED
      BY <1>2, <3>1
  <2> QED
    BY <1>4, <2>1, <2>2 DEF ValInv
<1>12. ThCbs
  BY <1>1, <1>4 DEF ThCbs
<1>13. RowsOk
  <2>1. Row \cap DOMAIN b.data = BdOut
    BY <1>0, <1>2, ChanNames, BreakdownGraph DEF BdOut
  <2> QED
    BY <1>4, <2>1 DEF RowsOk, RowOk
<1>14. UsedLive
  BY <1>0 DEF UsedLive
<1>15. Ordered(model, bay.list, pos, cbi)
  <2>1. {"progress"} \in Together /\ \A i \in DOMAIN b.list : b.list[i][2] \in {"progress"}
    BY <1>2 DEF BayInv, Listed, Together
  <2>2. Ordered(model, b.list, pos, 1)
    BY <2>1, OrderedStart
  <2> QED
    BY <1>4, <2>2
<1> QED
  BY <1>0, <1>2, <1>4, <1>5, <1>9, <1>10, <1>11, <1>12, <1>13, <1>14, <1>15 DEF BdInv

\* The muxes flow in every behaviour of the breakdown views.
THEOREM BreakdownFlows == Spec => []BdInv
<1>1. BdInv /\ [Next]_bdVars => BdInv'
  <2> SUFFICES ASSUME BdInv, [Next]_bdVars PROVE BdInv'
    OBVIOUS
  <2>1. CASE Event
    BY <2>1, BdEvent DEF Heard
  <2>2. CASE Step
    BY <2>2, BdRunMux, BdRunSort, BdWriteOutput, BdEmit DEF Step, Propagate
  <2>3. CASE UNCHANGED bdVars
    <3>1. UNCHANGED vars /\ UNCHANGED <<bay, cbs, selected, prv, state, pos, cbi, model, used>>
      BY <2>3 DEF bdVars, vars, graphVars
    <3>2. Sound(BdValue)'
      BY <3>1, SoundSame DEF BdInv
    <3>3. UsedLive'
      BY <3>1 DEF BdInv, UsedLive, Live, Settled, Enabled, Pending
    <3>4. ThCbs' /\ RowsOk' /\ IInv' /\ ValInv(model, bay)'
      BY <3>1 DEF BdInv, ThCbs, RowsOk, IInv
    <3> QED
      BY <3>1, <3>2, <3>3, <3>4 DEF BdInv
  <2> QED
    BY <2>1, <2>2, <2>3 DEF Next
<1> QED
  BY <1>1, BdStart, PTL DEF Spec

\* No event that the handlers accept stops the emulator in the propagation: no channel
\* refuses a write of a mux or of the sort module, no select function fails and no row
\* refuses a value (chan.c, mux.c, prv.c with the graph of breakdown.c).
THEOREM BreakdownRuns == Spec => []NoPanic
<1>1. BdInv => NoPanic
  BY DEF BdInv, NoPanic
<1> QED
  BY <1>1, BreakdownFlows, PTL

\* Whatever the order of the dirty list, no mux is left behind: after a propagation each
\* one that selected shows its input, or its default (cb_select and cb_input, mux.c).
THEOREM BreakdownFollows == Spec => []MuxFollows
<1>1. BdInv => MuxFollows
  <2>1. ASSUME BdInv, state = "ready" PROVE MuxFollows
    BY <2>1, SoundReady DEF BdInv
  <2> QED
    BY <2>1 DEF MuxFollows
<1> QED
  BY <1>1, BreakdownFlows, PTL

\* Between events a mux that selected shows the input that its function says, for its
\* select channel of now.
LEMMA ReadyShows ==
  ASSUME BdInv, state = "ready", NEW m \in MuxOf(model), Settled(m)
  PROVE  \E ins \in [DOMAIN MuxIn[m] -> BdValue] :
            /\ \A i \in DOMAIN MuxIn[m] :
                    MuxIn[m][i] = MuxSel[m] => ins[i] = ChanRead(bay, MuxSel[m])
            /\ selected[m] = Select(m, ChanRead(bay, MuxSel[m]), ins)
            /\ ChanRead(bay, MuxOut[m]) =
                   IF selected[m] = 0 THEN MuxDef[m] ELSE ChanRead(bay, MuxIn[m][selected[m]])
<1>1. IInv /\ Sound(BdValue) /\ m \in DOMAIN selected
  BY DEF BdInv
<1>2. MuxFollows /\ Chosen(m, BdValue)
  BY <1>1, SoundReady
<1> QED
  BY <1>1, <1>2 DEF MuxFollows, Chosen

\* The tracks of a CPU that was used show the channels of the running thread.
LEMMA TrackShows ==
  ASSUME BdInv, state = "ready", NEW c \in used, NEW k \in ToSet(TrackOrder(model))
  PROVE  /\ Settled(<<model, k, c>>)
         /\ Running(c) = Null =>
                ChanRead(bay, <<model, k, c>>) = IF k = "idle" THEN ST_RESTING ELSE Null
         /\ \A t \in Thread : Running(c) = t =>
                ChanRead(bay, <<model, k, c>>) = ChanRead(bay, <<model, Followed(k), t>>)
<1>0. /\ model \in Model /\ c \in Cpu /\ IInv /\ Sound(BdValue) /\ Live(<<model, k, c>>)
      /\ ValInv(model, bay)
  BY DEF BdInv, UsedLive
<1>1. k \in Lvl1 /\ (k = "idle" => model \in HasIdle)
  BY <1>0, Tracks
<1>2. PICK m : m = <<model, k, c>>
  OBVIOUS
<1>3. /\ m \in MuxOf(model) /\ MuxSel[m] = ThRun(c) /\ MuxOut[m] = m
      /\ MuxIn[m] = [i \in 1 .. NThreads |-> <<model, Followed(k), i - 1>>]
      /\ MuxDef[m] = IF k = "idle" THEN ST_RESTING ELSE Null
  BY <1>0, <1>1, <1>2, TrackMux
<1>4. Settled(m)
  <2>1. \A e, y : ~Pending(e, y)
    BY <1>0, SoundReady
  <2> QED
    BY <2>1, <1>0, <1>2 DEF Live
<1>5. PICK ins \in [DOMAIN MuxIn[m] -> BdValue] :
            /\ selected[m] = Select(m, ChanRead(bay, MuxSel[m]), ins)
            /\ ChanRead(bay, MuxOut[m]) =
                   IF selected[m] = 0 THEN MuxDef[m] ELSE ChanRead(bay, MuxIn[m][selected[m]])
  BY <1>3, <1>4, ReadyShows
<1>6. Running(c) \in BdValue /\ Running(c) = ChanRead(bay, MuxSel[m])
  BY <1>0, <1>3, MuxReads DEF Running
<1>7. selected[m] = DefaultSelect(m, Running(c))
  <2>1. m[2] \in Lvl1
    BY <1>1, <1>2
  <2>2. Select(m, Running(c), ins) = DefaultSelect(m, Running(c))
    BY <1>0, <1>3, <1>6, <2>1, SelectIs
  <2> QED
    BY <1>5, <1>6, <2>2, Zenon
<1>8. ASSUME Running(c) = Null
      PROVE  ChanRead(bay, m) = IF k = "idle" THEN ST_RESTING ELSE Null
  BY <1>3, <1>5, <1>7, <1>8 DEF DefaultSelect
<1>9. ASSUME NEW t \in Thread, Running(c) = t
      PROVE  ChanRead(bay, m) = ChanRead(bay, <<model, Followed(k), t>>)
  <2>1. t # Null /\ t + 1 \in 1 .. NThreads /\ (t + 1) - 1 = t /\ t + 1 # 0
    BY EventValues, BreakdownAssumption DEF Thread
  <2>2. DOMAIN MuxIn[m] = 1 .. NThreads /\ MuxIn[m][t + 1] = <<model, Followed(k), t>>
    BY <1>3, <2>1
  <2>3. selected[m] = t + 1
    BY <1>7, <1>9, <2>1, <2>2 DEF DefaultSelect
  <2> QED
    BY <1>3, <1>5, <2>1, <2>2, <2>3
<1> QED
  BY <1>2, <1>4, <1>8, <1>9

\* A mux selected by the output of another that has selected, has selected too.
LEMMA ChainSettled ==
  ASSUME BdInv, state = "ready", NEW m \in MuxOf(model), NEW n \in MuxOf(model),
         MuxSel[n] = MuxOut[m], Settled(m)
  PROVE  Settled(n)
<1>1. IInv /\ Sound(BdValue) /\ m \in DOMAIN selected /\ n \in DOMAIN selected
  BY DEF BdInv
<1>2. \A e, y : ~Pending(e, y)
  BY <1>1, SoundReady
<1> QED
  BY <1>1, <1>2 DEF Sound, Chained

\* What mux0 and mux1 of nOS-V and Nanos6 show.
LEMMA IdleShows ==
  ASSUME BdInv, state = "ready", NEW c \in used, model \in HasIdle
  PROVE  LET ss   == ChanRead(bay, <<model, "ss", c>>)
             tt   == ChanRead(bay, <<model, "tt", c>>)
             tr   == ChanRead(bay, <<model, "tr", c>>)
             idle == ChanRead(bay, <<model, "idle", c>>)
         IN  /\ ss = Null => tr = ST_UNKNOWN_SS
             /\ ss # Null /\ ss # ST_TASK_BODY => tr = ss
             /\ ss = ST_TASK_BODY => tr \in {ss, tt}
             /\ Shown(c) = IF idle = ST_PROGRESSING THEN tr ELSE idle
<1>0. model \in Model /\ c \in Cpu /\ ValInv(model, bay) /\ model # "openmp"
  BY DEF BdInv, UsedLive, HasIdle
<1>1. "ss" \in ToSet(TrackOrder(model)) /\ "idle" \in ToSet(TrackOrder(model))
  BY <1>0, Tracks DEF Lvl1
<1>2. PICK s, i, r, x : /\ s = <<model, "ss", c>> /\ i = <<model, "idle", c>>
                        /\ r = <<model, "tr", c>> /\ x = <<model, "tri", c>>
  OBVIOUS
<1>3. Settled(s) /\ Settled(i)
  BY <1>1, <1>2, TrackShows
<1>4. s \in MuxOf(model) /\ MuxOut[s] = s /\ i \in MuxOf(model) /\ MuxOut[i] = i
  BY <1>0, <1>2, TrackMux DEF Lvl1
<1>5. /\ r \in MuxOf(model) /\ MuxSel[r] = s /\ MuxOut[r] = r /\ MuxDef[r] = ST_UNKNOWN_SS
      /\ MuxIn[r] = <<s, <<model, "tt", c>>>>
  BY <1>0, <1>2, TrMux
<1>6. /\ x \in MuxOf(model) /\ MuxSel[x] = i /\ MuxOut[x] = Tri(c)
      /\ MuxIn[x] = <<r, i>>
  BY <1>0, <1>2, TriMux DEF TriSelect
<1>7. Settled(r) /\ Settled(x)
  BY <1>3, <1>4, <1>5, <1>6, ChainSettled
<1>8. PICK ins \in [DOMAIN MuxIn[r] -> BdValue] :
            /\ \A j \in DOMAIN MuxIn[r] :
                    MuxIn[r][j] = MuxSel[r] => ins[j] = ChanRead(bay, MuxSel[r])
            /\ selected[r] = Select(r, ChanRead(bay, MuxSel[r]), ins)
            /\ ChanRead(bay, MuxOut[r]) =
                   IF selected[r] = 0 THEN MuxDef[r] ELSE ChanRead(bay, MuxIn[r][selected[r]])
  BY <1>5, <1>7, ReadyShows
<1>9. selected[r] = SelectTr(ChanRead(bay, s), ins)
  <2>1. r[2] = "tr" /\ ChanRead(bay, s) \in BdValue
    BY <1>0, <1>2, <1>5, MuxReads
  <2> QED
    BY <1>0, <1>5, <1>8, <2>1, SelectIs
<1>10. ins[1] = ChanRead(bay, s)
  BY <1>5, <1>8
<1>11. /\ ChanRead(bay, s) = Null => ChanRead(bay, r) = ST_UNKNOWN_SS
       /\ ChanRead(bay, s) # Null /\ ChanRead(bay, s) # ST_TASK_BODY => ChanRead(bay, r) = ChanRead(bay, s)
       /\ ChanRead(bay, s) = ST_TASK_BODY => ChanRead(bay, r) \in {ChanRead(bay, s), ChanRead(bay, <<model, "tt", c>>)}
  <2>1. Null # ST_TASK_BODY
    BY GraphAssumption DEF ST_TASK_BODY
  <2>2. ChanRead(bay, r) = IF selected[r] = 0 THEN ST_UNKNOWN_SS ELSE ChanRead(bay, MuxIn[r][selected[r]])
    BY <1>5, <1>8
  <2>3. MuxIn[r][1] = s /\ MuxIn[r][2] = <<model, "tt", c>>
    BY <1>5
  <2>4. CASE ChanRead(bay, s) = Null
    BY <1>9, <1>10, <2>1, <2>2, <2>4 DEF SelectTr
  <2>5. CASE ChanRead(bay, s) # Null /\ ChanRead(bay, s) # ST_TASK_BODY
    BY <1>9, <1>10, <2>1, <2>2, <2>3, <2>5 DEF SelectTr
  <2>6. CASE ChanRead(bay, s) = ST_TASK_BODY
    BY <1>9, <1>10, <2>1, <2>2, <2>3, <2>6 DEF SelectTr
  <2> QED
    BY <2>1, <2>4, <2>5, <2>6
<1>12. PICK jns \in [DOMAIN MuxIn[x] -> BdValue] :
            /\ selected[x] = Select(x, ChanRead(bay, MuxSel[x]), jns)
            /\ ChanRead(bay, MuxOut[x]) =
                   IF selected[x] = 0 THEN MuxDef[x] ELSE ChanRead(bay, MuxIn[x][selected[x]])
  BY <1>6, <1>7, ReadyShows
<1>13. selected[x] = SelectIdle(ChanRead(bay, i))
  <2>1. x[2] = "tri" /\ ChanRead(bay, i) \in BdValue
    BY <1>0, <1>2, <1>6, MuxReads
  <2> QED
    BY <1>0, <1>6, <1>12, <2>1, SelectIs
<1>14. Shown(c) = IF ChanRead(bay, i) = ST_PROGRESSING THEN ChanRead(bay, r) ELSE ChanRead(bay, i)
  <2>1. MuxIn[x][1] = r /\ MuxIn[x][2] = i
    BY <1>6
  <2> QED
    BY <1>6, <1>12, <1>13, <2>1 DEF SelectIdle, Shown
<1> QED
  BY <1>2, <1>11, <1>14

\* What mux0 of OpenMP shows.
LEMMA LabelShows ==
  ASSUME BdInv, state = "ready", NEW c \in used, model = "openmp"
  PROVE  LET ss == ChanRead(bay, <<model, "ss", c>>)
             tt == ChanRead(bay, <<model, "tt", c>>)
         IN  Shown(c) = IF tt # Null THEN tt ELSE ss
<1>0. model \in Model /\ c \in Cpu /\ ValInv(model, bay)
  BY DEF BdInv, UsedLive
<1>1. "tt" \in ToSet(TrackOrder(model))
  BY <1>0, Tracks DEF Lvl1
<1>2. PICK s, l, x : /\ s = <<model, "ss", c>> /\ l = <<model, "tt", c>> /\ x = <<model, "tri", c>>
  OBVIOUS
<1>3. Settled(l)
  BY <1>1, <1>2, TrackShows
<1>4. l \in MuxOf(model) /\ MuxOut[l] = l
  BY <1>0, <1>2, TrackMux DEF Lvl1
<1>5. /\ x \in MuxOf(model) /\ MuxSel[x] = l /\ MuxOut[x] = Tri(c)
      /\ MuxIn[x] = <<l, s>>
  BY <1>0, <1>2, TriMux DEF TriSelect
<1>6. Settled(x)
  BY <1>3, <1>4, <1>5, ChainSettled
<1>7. PICK ins \in [DOMAIN MuxIn[x] -> BdValue] :
            /\ selected[x] = Select(x, ChanRead(bay, MuxSel[x]), ins)
            /\ ChanRead(bay, MuxOut[x]) =
                   IF selected[x] = 0 THEN MuxDef[x] ELSE ChanRead(bay, MuxIn[x][selected[x]])
  BY <1>5, <1>6, ReadyShows
<1>8. selected[x] = SelectLabel(ChanRead(bay, l))
  <2>1. x[2] = "tri" /\ ChanRead(bay, l) \in BdValue
    BY <1>0, <1>2, <1>5, MuxReads
  <2> QED
    BY <1>0, <1>5, <1>7, <2>1, SelectIs
<1>9. MuxIn[x][1] = l /\ MuxIn[x][2] = s
  BY <1>5
<1> QED
  BY <1>2, <1>5, <1>7, <1>8, <1>9 DEF SelectLabel, Shown

\* Between events each CPU that was used shows the state of the thread that runs in it
\* now, or Resting when none does, whatever ran there before: the graphs of the
\* breakdown.c of nOS-V, Nanos6 and OpenMP.
THEOREM BreakdownViews == Spec => []BreakdownShows
<1>1. ASSUME BdInv, state = "ready", NEW c \in used
      PROVE  \/ /\ Running(c) = Null
                /\ Shown(c) = IF model = "openmp" THEN Null ELSE ST_RESTING
             \/ \E t \in Thread : Running(c) = t /\
                   IF InBody(t) THEN Shown(c) \in {ST_TASK_BODY, Tt(t)}
                                ELSE Shown(c) = OutOfBody(t)
  <2>0. /\ model \in Model /\ c \in Cpu /\ Running(c) \in {Null} \cup Thread
        /\ (model = "openmp" <=> model \notin HasIdle)
    BY <1>1 DEF BdInv, UsedLive, ValInv, Running, HasIdle
  <2>1. /\ "tt" \in ToSet(TrackOrder(model)) /\ "ss" \in ToSet(TrackOrder(model))
        /\ model \in HasIdle => "idle" \in ToSet(TrackOrder(model))
    BY <2>0, Tracks DEF Lvl1
  <2>2. PICK ss, tt, tr, idle : /\ ss = ChanRead(bay, <<model, "ss", c>>)
                                /\ tt = ChanRead(bay, <<model, "tt", c>>)
                                /\ tr = ChanRead(bay, <<model, "tr", c>>)
                                /\ idle = ChanRead(bay, <<model, "idle", c>>)
    OBVIOUS
  <2>3. CASE Running(c) = Null
    <3>1. ss = Null /\ tt = Null /\ (model \in HasIdle => idle = ST_RESTING)
      BY <1>1, <2>1, <2>2, <2>3, TrackShows
    <3>2. CASE model = "openmp"
      BY <1>1, <2>2, <2>3, <3>1, <3>2, LabelShows
    <3>3. CASE model # "openmp"
      <4>1. Shown(c) = IF idle = ST_PROGRESSING THEN tr ELSE idle
        BY <1>1, <2>0, <2>2, <3>3, IdleShows
      <4> QED
        BY <2>0, <2>3, <3>1, <3>3, <4>1 DEF ST_RESTING, ST_PROGRESSING
    <3> QED
      BY <3>2, <3>3
  <2>4. ASSUME NEW t \in Thread, Running(c) = t
        PROVE  IF InBody(t) THEN Shown(c) \in {ST_TASK_BODY, Tt(t)}
                            ELSE Shown(c) = OutOfBody(t)
    <3>1. ss = Ss(t) /\ tt = Tt(t)
      BY <1>1, <2>1, <2>2, <2>4, TrackShows DEF Ss, Tt, MySubsystem, Subsystem, Type, Followed
    <3>2. CASE model = "openmp"
      <4>1. Shown(c) = IF tt # Null THEN tt ELSE ss
        BY <1>1, <2>2, <3>2, LabelShows
      <4> QED
        BY <3>1, <3>2, <4>1 DEF InBody, OutOfBody
    <3>3. CASE model # "openmp"
      <4>1. /\ ss = Null => tr = ST_UNKNOWN_SS
            /\ ss # Null /\ ss # ST_TASK_BODY => tr = ss
            /\ ss = ST_TASK_BODY => tr \in {ss, tt}
            /\ Shown(c) = IF idle = ST_PROGRESSING THEN tr ELSE idle
        BY <1>1, <2>0, <2>2, <3>3, IdleShows
      <4>2. idle = Idle(t)
        BY <1>1, <2>0, <2>1, <2>2, <2>4, <3>3, TrackShows DEF Idle, Progress, Followed
      <4> QED
        BY <3>1, <3>3, <4>1, <4>2 DEF InBody, OutOfBody
    <3> QED
      BY <3>2, <3>3
  <2> QED
    BY <2>0, <2>3, <2>4
<1>2. BdInv => BreakdownShows
  BY <1>1 DEF BreakdownShows
<1> QED
  BY <1>2, BreakdownFlows, PTL
-----------------------------------------------------------------------------
(* The sort module of the breakdown views.                                 *)

\* The arrays are in order, and the outputs show them up to where the loop is.
SortInv ==
    /\ values \in [Cpu -> Int]
    /\ ~copied => values = [i \in Cpu |-> 0]
    /\ Arranged(sorted, values, NCpus)
    /\ \A j \in Cpu : out = 0 \/ j < out => Plain(ChanRead(bay, SortOut[j])) = sorted[j]

\* What the sort module reads are numbers.
LEMMA SortNumbers ==
  ASSUME BdInv, NEW i \in Cpu
  PROVE  Plain(ChanRead(bay, SortIn[i])) \in Int
<1>1. /\ model \in Model /\ ValInv(model, bay) /\ SortIn[i] = Tri(i)
      /\ Tri(i) \in ChansOf(model) /\ Tri(i)[2] = "tri"
  BY SortChans, ChanNames DEF BdInv, Tri
<1>2. ChanRead(bay, SortIn[i]) \in BdValue
  BY <1>1, ValRead
<1>3. NThreads \in Nat
  BY BreakdownAssumption
<1>4. BdValue \subseteq Int \cup {Null}
  BY <1>3 DEF BdValue, Thread, ST_UNKNOWN_SS, ST_SCHED_HUNGRY, ST_TASK_BODY, ST_PROGRESSING, ST_RESTING, TypeGid
<1>5. PICK v : v = ChanRead(bay, SortIn[i])
  OBVIOUS
<1>6. v = Null \/ v \in Int
  BY <1>2, <1>4, <1>5
<1>7. Plain(v) \in Int
  BY <1>6 DEF Plain
<1> QED
  BY <1>5, <1>7

\* A step that writes no output.
LEMMA SortKeep ==
  ASSUME SortInv, UNCHANGED <<values, sorted, copied, out>>,
         \A c \in Cpu : ChanRead(bay', Out(c)) = ChanRead(bay, Out(c))
  PROVE  SortInv'
<1>1. \A j \in Cpu : SortOut[j] = Out(j)
  BY SortChans
<1> QED
  BY <1>1 DEF SortInv, Plain

\* sort_cb_input() takes a new value.
LEMMA SortRunSort == ASSUME BdInv, SortInv, RunSort PROVE SortInv'
<1>0. PICK i : i = CurCb[3]
  OBVIOUS
<1>1. i \in Cpu
  <2>1. PICK e, y : e = CurChan /\ y = CurCb
    OBVIOUS
  <2>2. e \in DOMAIN cbs /\ y \in ToSet(cbs[e])
    <3>1. /\ bay.list \in Seq(bay.flag) /\ bay.flag \subseteq DOMAIN cbs /\ pos \in 1 .. Len(bay.list)
          /\ cbi \in DOMAIN cbs[bay.list[pos]]
      BY DEF BdInv, IInv, BayInv, Listed, Sound, WalkInv, Walking, RunSort
    <3> QED
      BY <3>1, <2>1 DEF CurChan, CurCb, ToSet
  <2>3. OfChan(e, y) /\ y[1] = "sort"
    BY <2>1, <2>2 DEF BdInv, Sound, CbsInv, RunSort
  <2>4. PICK k \in DOMAIN SortIn : y = SortCb(k)
    BY <2>3 DEF OfChan, SelectCb, InputCb
  <2>5. y[3] = k
    BY <2>4 DEF SortCb
  <2> QED
    BY <1>0, <2>1, <2>4, <2>5, SortChans
<1>2. PICK new : new = Plain(ChanRead(bay, SortIn[i]))
  OBVIOUS
<1>3. new \in Int
  BY <1>1, <1>2, SortNumbers
<1>4. /\ bay' = bay /\ out = 0
      /\ IF new = values[i] THEN UNCHANGED <<values, sorted, copied>> /\ out' = 0
                            ELSE Arr!SortInput(i, new) /\ out' = 1
  BY <1>0, <1>2 DEF RunSort, sort_cb_input
<1>5. CASE new = values[i]
  BY <1>4, <1>5, SortKeep
<1>6. CASE new # values[i]
  <2>0. /\ NCpus \in Nat /\ Len(SortIn) = NCpus /\ Cpu = 1 .. NCpus
        /\ values \in [Cpu -> Int] /\ Arranged(sorted, values, NCpus)
        /\ (~copied => values = [j \in Cpu |-> 0])
    BY BreakdownAssumption, SortChans DEF SortInv, Cpu
  <2>1. /\ values' = [values EXCEPT ![i] = new] /\ copied' = TRUE /\ out' = 1
        /\ sorted' = IF copied THEN Arr!SortReplace(sorted, values[i], new) ELSE Arr!Qsort(values')
    BY <1>4, <1>6 DEF Arr!SortInput
  <2>2. values' \in [Cpu -> Int]
    BY <2>0, <2>1, <1>3
  <2>3. Arranged(sorted', values', NCpus)
    <3>1. CASE copied
      BY <2>0, <2>1, <3>1, <1>1, <1>3, <1>6, ReplaceArranges
    <3>2. CASE ~copied
      <4>1. PICK vs : vs = [[j \in 1 .. Len(SortIn) |-> 0] EXCEPT ![i] = new]
        OBVIOUS
      <4>2. values' = vs
        BY <2>0, <2>1, <3>2, <4>1
      <4>3. Arranged(Arr!Qsort(vs), vs, Len(SortIn))
        BY <2>0, <4>1, <1>1, <1>3, QsortArranges
      <4>4. sorted' = Arr!Qsort(vs)
        BY <2>1, <3>2, <4>2
      <4> QED
        BY <2>0, <4>2, <4>3, <4>4
    <3> QED
      BY <3>1, <3>2
  <2>4. \A j \in Cpu : ~(out' = 0 \/ j < out')
    BY <2>0, <2>1
  <2> QED
    BY <2>1, <2>2, <2>3, <2>4 DEF SortInv
<1> QED
  BY <1>5, <1>6

\* The loop of sort_cb_input() writes an output.
LEMMA SortWriteOutput == ASSUME BdInv, SortInv, WriteOutput PROVE SortInv'
<1>0. /\ IInv /\ Sound(BdValue) /\ BayInv(bay) /\ bay.ok /\ model \in Model
      /\ DOMAIN bay.data = ChansOf(model) /\ NCpus \in Nat /\ Cpu = 1 .. NCpus
  BY BreakdownAssumption DEF BdInv, IInv, Sound, Cpu
<1>1. /\ out \in Cpu /\ UNCHANGED <<values, sorted, copied>>
      /\ out' = IF out < NCpus THEN out + 1 ELSE 0
      /\ \/ bay' = bay /\ ChanRead(bay, SortOut[out]) = sorted[out]
         \/ bay' = ChanSet(bay, SortOut[out], sorted[out])
  BY <1>0, SortChans DEF WriteOutput, Sound, Sorting
<1>2. PICK x, v : x = SortOut[out] /\ v = sorted[out]
  OBVIOUS
<1>3. v \in Int
  <2>1. PICK f \in Bijection(1 .. NCpus, 1 .. NCpus) : \A i \in 1 .. NCpus : sorted[i] = values[f[i]]
    BY DEF SortInv, Arranged, Permuted
  <2>2. f \in [1 .. NCpus -> 1 .. NCpus]
    BY <1>0, Permutes
  <2> QED
    BY <1>0, <1>1, <1>2, <2>1, <2>2 DEF SortInv
<1>4. x \in DOMAIN bay.data /\ x \notin Stack /\ x \in DirtyWrite \cap AllowDup
  <2>0. x = Out(out)
    BY <1>1, <1>2, SortChans
  <2>1. x = Out(out) /\ x \in BdOut /\ x[2] = "out"
    BY <1>1, <2>0 DEF BdOut, Out
  <2>2. x \in ChansOf(model)
    BY <1>0, <1>1, <2>1, ChanNames
  <2> QED
    BY <1>0, <2>1, <2>2, BreakdownGraph DEF BdDirtyWrite, BdAllowDup, BdStack
<1>5. /\ ChanRead(bay', x) = v
      /\ \A e \in DOMAIN bay.data : e # x => ChanRead(bay', e) = ChanRead(bay, e)
  <2>1. CASE bay' = bay /\ ChanRead(bay, SortOut[out]) = sorted[out]
    BY <1>2, <2>1
  <2>2. CASE bay' = ChanSet(bay, SortOut[out], sorted[out])
    <3>1. bay' = ChanSet(bay, x, v)
      BY <1>2, <2>2
    <3> QED
      BY <1>0, <1>4, <3>1, SetOutput
  <2> QED
    BY <1>1, <2>1, <2>2
<1>6. Plain(v) = v
  BY <1>3, GraphAssumption DEF Plain
<1>7. ASSUME NEW j \in Cpu, out' = 0 \/ j < out'
      PROVE  Plain(ChanRead(bay', SortOut[j])) = sorted[j]
  <2>1. CASE j = out
    BY <1>2, <1>5, <1>6, <2>1
  <2>2. CASE j # out
    <3>1. j < out /\ out # 0
      BY <1>0, <1>1, <1>7, <2>2
    <3>2. SortOut[j] # x /\ SortOut[j] \in DOMAIN bay.data
      <4>1. SortOut[j] = Out(j) /\ x = Out(out) /\ Out(j) \in ChansOf(model)
        BY <1>0, <1>1, <1>2, SortChans, ChanNames
      <4> QED
        BY <1>0, <4>1, <2>2 DEF Out
    <3>3. ChanRead(bay', SortOut[j]) = ChanRead(bay, SortOut[j])
      BY <1>5, <3>2
    <3>4. Plain(ChanRead(bay, SortOut[j])) = sorted[j]
      BY <3>1 DEF SortInv
    <3> QED
      BY <3>3, <3>4
  <2> QED
    BY <2>1, <2>2
<1>8. values' = values /\ sorted' = sorted /\ copied' = copied
  BY <1>1
<1> QED
  BY <1>7, <1>8 DEF SortInv

\* A mux writes none of the outputs of the sort module.
LEMMA SortRunMux == ASSUME BdInv, SortInv, RunMux PROVE SortInv'
<1>0. /\ IInv /\ Sound(BdValue) /\ Sane(BdValue) /\ model \in Model /\ BayInv(bay) /\ bay.ok
      /\ DOMAIN selected = MuxOf(model) /\ DOMAIN bay.data = ChansOf(model)
      /\ Wired(DOMAIN selected, DOMAIN bay.data)
  BY BdSane DEF BdInv, IInv, Sound
<1>1. PICK m \in DOMAIN selected : \E v : bay' = ChanSet(bay, MuxOut[m], v)
  BY <1>0, RunMuxIs
<1>2. PICK v : bay' = ChanSet(bay, MuxOut[m], v)
  BY <1>1
<1>3. /\ MuxOut[m] \in DOMAIN bay.data /\ MuxOut[m] \notin Stack /\ m \in Mux
      /\ MuxOut[m] \in DirtyWrite \cap AllowDup /\ MuxOut[m] \notin ToSet(SortOut)
  BY <1>0, <1>1, GraphAssumption DEF Wired
<1>4. \A e \in DOMAIN bay.data : e # MuxOut[m] => ChanRead(bay', e) = ChanRead(bay, e)
  <2>1. PICK x : x = MuxOut[m]
    OBVIOUS
  <2> QED
    BY <1>0, <1>2, <1>3, <2>1, SetOutput
<1>5. \A c \in Cpu : Out(c) \in DOMAIN bay.data /\ Out(c) # MuxOut[m]
  BY <1>0, <1>3, ChanNames, SortChans
<1> QED
  BY <1>4, <1>5, SortKeep DEF RunMux

\* The sort module keeps its arrays and its outputs in order in every behaviour.
THEOREM SortKept == Spec => []SortInv
<1>1. Init => SortInv
  <2> SUFFICES ASSUME Init PROVE SortInv
    OBVIOUS
  <2>0. /\ NCpus \in Nat /\ Cpu = 1 .. NCpus /\ Len(SortIn) = NCpus
        /\ model \in Model /\ bay = Connected(model) /\ Arr!SortInit
    BY BreakdownAssumption, SortChans DEF Init, BayInit, Cpu
  <2>1. /\ values = [i \in Cpu |-> 0] /\ sorted = [i \in Cpu |-> 0] /\ copied = FALSE
    BY <2>0 DEF Arr!SortInit
  <2>2. Arranged(sorted, values, NCpus)
    BY <2>0, <2>1, ZerosArranged
  <2>3. \A j \in Cpu : Plain(ChanRead(bay, SortOut[j])) = sorted[j]
    <3> SUFFICES ASSUME NEW j \in Cpu PROVE Plain(ChanRead(bay, Out(j))) = 0
      BY <2>1, SortChans
    <3>1. Out(j) \in ChansOf(model) /\ Out(j)[2] = "out"
      BY <2>0, ChanNames DEF Out
    <3>2. ChanRead(bay, Out(j)) = Null
      BY <2>0, <3>1, ConnectedIs
    <3> QED
      BY <3>2 DEF Plain
  <2> QED
    BY <2>1, <2>2, <2>3 DEF SortInv
<1>2. BdInv /\ SortInv /\ [Next]_bdVars => SortInv'
  <2> SUFFICES ASSUME BdInv, SortInv, [Next]_bdVars PROVE SortInv'
    OBVIOUS
  <2>1. CASE Event
    BY <2>1, BdEvent, SortKeep DEF Heard
  <2>2. CASE EmitAndFlush
    <3>1. bay'.data = bay.data
      BY <2>2 DEF EmitAndFlush, BdInv, IInv, BayInv, IsBay, Flush, Fail
    <3> QED
      BY <2>2, <3>1, SortKeep DEF EmitAndFlush, graphVars, ChanRead
  <2>3. CASE RunMux \/ RunSort \/ WriteOutput
    BY <2>3, SortRunMux, SortRunSort, SortWriteOutput
  <2>4. CASE UNCHANGED bdVars
    BY <2>4, SortKeep DEF bdVars, vars, graphVars
  <2> QED
    BY <2>1, <2>2, <2>3, <2>4 DEF Next, Step, Propagate
<1> QED
  BY <1>1, <1>2, BreakdownFlows, PTL DEF Spec

\* Whatever the order in which the inputs change, the rows of the breakdown hold the
\* values of all the CPUs, each as many times as there are CPUs with it, in increasing
\* order: sort_replace() loses none and repeats none (sort.c).
THEOREM BreakdownSorted == Spec => []SortedOutputs
<1>1. BdInv /\ SortInv => SortedOutputs
  <2> SUFFICES ASSUME BdInv, SortInv, state = "ready" PROVE SortedOutputs
    BY DEF SortedOutputs
  <2> DEFINE ins  == [i \in DOMAIN SortIn |-> Plain(ChanRead(bay, SortIn[i]))]
             outs == [i \in DOMAIN SortOut |-> Plain(ChanRead(bay, SortOut[i]))]
  <2>0. /\ NCpus \in Nat /\ Cpu = 1 .. NCpus /\ DOMAIN SortIn = Cpu /\ DOMAIN SortOut = Cpu
    BY BreakdownAssumption, SortChans DEF Cpu
  <2>1. out = 0 /\ \A i \in Cpu : values[i] = Plain(ChanRead(bay, SortIn[i]))
    BY <2>0, SoundReady DEF BdInv
  <2>2. /\ ins = [i \in Cpu |-> values[i]] /\ outs = [i \in Cpu |-> sorted[i]]
    BY <2>0, <2>1 DEF SortInv
  <2> HIDE DEF ins, outs
  <2>3. /\ DOMAIN ins = Cpu /\ DOMAIN outs = Cpu
        /\ \A i \in Cpu : ins[i] = values[i] /\ outs[i] = sorted[i]
    BY <2>2
  <2>4. Len(outs) = NCpus
    BY <2>0, <2>2
  <2>5. \A i \in 1 .. Len(outs) - 1 : outs[i] <= outs[i + 1]
    <3> SUFFICES ASSUME NEW i \in 1 .. NCpus - 1 PROVE sorted[i] <= sorted[i + 1]
      BY <2>0, <2>3, <2>4
    <3>1. i \in 1 .. NCpus /\ i + 1 \in 1 .. NCpus /\ i < i + 1
      BY <2>0
    <3> QED
      BY <3>1 DEF SortInv, Arranged, InOrder
  <2>6. PICK f \in Bijection(1 .. NCpus, 1 .. NCpus) : \A i \in 1 .. NCpus : sorted[i] = values[f[i]]
    BY DEF SortInv, Arranged, Permuted
  <2>7. /\ f \in [Cpu -> Cpu]
        /\ \A i, j \in Cpu : f[i] = f[j] => i = j
        /\ \A k \in Cpu : \E i \in Cpu : f[i] = k
    <3>1. /\ f \in [1 .. NCpus -> 1 .. NCpus]
          /\ \A i, j \in 1 .. NCpus : f[i] = f[j] => i = j
          /\ \A k \in 1 .. NCpus : \E i \in 1 .. NCpus : f[i] = k
      BY <2>0, Permutes
    <3> QED
      BY <2>0, <3>1
  <2>8. ASSUME NEW v PROVE Occurrences(ins, v) = Occurrences(outs, v)
    <3> DEFINE A == {i \in Cpu : ins[i] = v}
               B == {i \in Cpu : outs[i] = v}
               g == [i \in B |-> f[i]]
    <3>1. g \in Bijection(B, A)
      <4>1. g \in [B -> A]
        BY <2>0, <2>3, <2>6, <2>7
      <4>2. \A i, j \in B : g[i] = g[j] => i = j
        BY <2>7
      <4>3. \A k \in A : \E i \in B : g[i] = k
        <5> SUFFICES ASSUME NEW k \in A PROVE \E i \in B : g[i] = k
          OBVIOUS
        <5>1. PICK i \in Cpu : f[i] = k
          BY <2>7
        <5>2. outs[i] = v
          BY <2>0, <2>3, <2>6, <5>1
        <5> QED
          BY <5>1, <5>2
      <4> HIDE DEF g, A, B
      <4> QED
        BY <4>1, <4>2, <4>3 DEF Bijection, Injection, Surjection, IsInjective
    <3>2. IsFiniteSet(A) /\ IsFiniteSet(B)
      BY <2>0, FS_Interval, FS_Subset
    <3>3. Cardinality(B) = Cardinality(A)
      <4> HIDE DEF A, B, g
      <4>1. ExistsBijection(B, A)
        BY <3>1 DEF ExistsBijection
      <4> QED
        BY <3>2, <4>1, FS_Bijection
    <3> QED
      <4>1. DOMAIN ins = Cpu /\ DOMAIN outs = Cpu
        BY <2>3
      <4>2. /\ Occurrences(ins, v) = Cardinality({i \in DOMAIN ins : ins[i] = v})
            /\ Occurrences(outs, v) = Cardinality({i \in DOMAIN outs : outs[i] = v})
        BY DEF Occurrences
      <4> QED
        BY <3>3, <4>1, <4>2
  <2>9. /\ \A i \in 1 .. Len(outs) - 1 : outs[i] <= outs[i + 1]
        /\ \A v \in ToSet(ins) \cup ToSet(outs) : Occurrences(ins, v) = Occurrences(outs, v)
    BY <2>5, <2>8
  <2> QED
    BY <2>9 DEF SortedOutputs, ins, outs
<1> QED
  BY <1>1, BreakdownFlows, SortKept, PTL
=============================================================================

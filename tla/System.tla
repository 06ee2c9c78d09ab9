------------------------------- MODULE System -------------------------------
(***************************************************************************)
(* How the emulator learns the parts of the system from the metadata of    *)
(* the streams (src/src/emu/stream.c, system.c, loom.c, proc.c, clkoff.c,  *)
(* model.c, ovni/mark.c, nosv/hwc.c).  No stream has it all: the CPUs of a loom,    *)
(* the rank and application of a process, the types of marks and the       *)
(* hardware counters are merged from what the streams say, in the order of *)
(* their paths, and any contradiction makes the emulator fail.             *)
(***************************************************************************)
EXTENDS Integers, Sequences, FiniteSets, FiniteSetsExt, SequencesExt

CONSTANTS
    Inputs,     \* what may be given to the emulator: trace, offsets, args
    Host,       \* Host[l], the name of the loom l up to the first dot
    Have,       \* Have[m], the version of the model m
    IntSize     \* 2^32: the labels of values are stored with an int

\* A stream has the keys of its metadata in keys, and their values.  A version
\* is <<major, minor>>.
Keys == {"version", "part", "loom", "loom_cpus", "pid", "tid", "app_id", "rank", "nranks",
         "lib", "require", "finished", "mark", "hwc"}

ASSUME InputAssumption ==
    /\ IntSize \in Nat \ {0}
    /\ \A inp \in Inputs : \A i \in DOMAIN inp.trace : LET s == inp.trace[i] IN
           s.keys \subseteq Keys /\ s.loom \in DOMAIN Host
           /\ DOMAIN s.require \subseteq DOMAIN Have

VARIABLES
    input,      \* the input, which never changes
    status,     \* the step of emu_init() and emu_connect(), "ok" or "failed"
    next,       \* the next stream, or thread, of the loop of that step
    looms,      \* sys->looms, as they were found and then sorted
    cpus,       \* the physical CPUs of the looms
    procs,      \* the processes of the looms, as they were found
    threads,    \* sys->threads: a set and, once sorted, the rows
    rows,
    cpuRows,    \* sys->cpus, with phyid -1 for the virtual CPU
    offset,     \* offset[l], loom->clock_offset
    clkoff,     \* clkoff[i], the clock_offset of stream i
    enabled,    \* model->enabled
    types,      \* the mark types, in the order of their index
    counters    \* hwc_emu->name, the hardware counters by their index from 0

sysVars == <<looms, cpus, procs, threads, rows, cpuRows, offset, clkoff, enabled, types,
             counters>>
vars == <<input, status, next, sysVars>>

Trace == input.trace
Stream == Trace[next]

Init ==
    /\ input \in Inputs
    /\ status = "load" /\ next = 1
    /\ looms = <<>> /\ cpus = {} /\ procs = <<>> /\ threads = {}
    /\ rows = <<>> /\ cpuRows = <<>>
    /\ offset = [l \in DOMAIN Host |-> 0]
    /\ clkoff = [i \in DOMAIN input.trace |-> 0]
    /\ enabled = {} /\ types = <<>> /\ counters = <<>>

\* Every error ends the emulator.
Fail == status' = "failed" /\ UNCHANGED <<input, next, sysVars>>

\* check_version(), in every stream that trace_load() finds.
OVNI_METADATA_VERSION == 3
VersionOk(s) == "version" \in s.keys /\ s.version = OVNI_METADATA_VERSION

\* trace_load()
LoadTrace ==
    /\ status = "load"
    /\ IF \A i \in DOMAIN Trace : VersionOk(Trace[i])
       THEN status' = "create" /\ UNCHANGED <<input, next, sysVars>>
       ELSE Fail

-----------------------------------------------------------------------------
(* create_system(): one stream after the other.                            *)

\* load_cpus(): entry k of the array agrees with the CPUs known by then.
CpuKnown(s, k) ==
    {c \in cpus : c.loom = s.loom} \cup
    {[loom |-> s.loom, index |-> s.cpus[j][1], phyid |-> s.cpus[j][2]] : j \in 1..k - 1}

CpusOk(s) ==
    "loom_cpus" \in s.keys =>
        /\ s.cpus # <<>>
        /\ \A k \in DOMAIN s.cpus :
               /\ s.cpus[k][1] >= 0 /\ s.cpus[k][2] >= 0
               /\ \A c \in CpuKnown(s, k) : c.phyid = s.cpus[k][2] => c.index = s.cpus[k][1]

LoadCpus(s) ==
    IF "loom_cpus" \notin s.keys THEN cpus
    ELSE cpus \cup {[loom |-> s.loom, index |-> s.cpus[k][1], phyid |-> s.cpus[k][2]] :
            k \in {j \in DOMAIN s.cpus : \A c \in CpuKnown(s, j) : c.phyid # s.cpus[j][2]}}

\* loom_find_proc(), or what proc_init_begin() makes.
ProcOf(s) ==
    LET found == {p \in ToSet(procs) : p.loom = s.loom /\ p.pid = s.pid}
    IN  IF found # {} THEN CHOOSE p \in found : TRUE
        ELSE [loom |-> s.loom, pid |-> s.pid, appid |-> 0, rank |-> -1, nranks |-> 0]

\* load_appid()
AppidOk(s, p) ==
    "app_id" \in s.keys => s.app_id > 0 /\ p.appid \in {0, s.app_id}


\* load_rank(): with a rank, the number of ranks is needed.
RankOk(s, p) ==
    "rank" \in s.keys =>
        /\ "nranks" \in s.keys /\ s.nranks > 0
        /\ s.rank \in 0..s.nranks - 1
        /\ p.rank \in {-1, s.rank}
        /\ p.nranks \in {0, s.nranks}

LoadProc(s, p) ==
    [p EXCEPT !.appid = IF "app_id" \in s.keys THEN s.app_id ELSE @,
              !.rank = IF "rank" \in s.keys THEN s.rank ELSE @,
              !.nranks = IF "rank" \in s.keys THEN s.nranks ELSE @]

\* The list of processes after p is loaded: the one it was, or a new one.
PutProc(p) ==
    IF \E q \in ToSet(procs) : q.loom = p.loom /\ q.pid = p.pid
    THEN [i \in DOMAIN procs |->
             IF procs[i].loom = p.loom /\ procs[i].pid = p.pid THEN p ELSE procs[i]]
    ELSE Append(procs, p)

\* loom_init_begin(), for a loom that is not known.
AddLoom(l) == IF l \in ToSet(looms) THEN looms ELSE Append(looms, l)

\* proc_stream_get_pid() and thread_stream_get_tid(): zero is no number.
PidOk(s) == "pid" \in s.keys /\ s.pid > 0
TidOk(s) == "tid" \in s.keys /\ s.tid > 0

\* create_thread(): a tid cannot be twice in a process, and thread_load_metadata()
\* wants streams that are finished.
Finished(s) == "finished" \in s.keys
ThreadOk(s) ==
    /\ TidOk(s) /\ Finished(s)
    /\ ~\E t \in threads : t.loom = s.loom /\ t.pid = s.pid /\ t.tid = s.tid

\* proc_add_thread() and the lpt of the stream i.
AddThread(s, i) ==
    threads \cup {[loom |-> s.loom, pid |-> s.pid, tid |-> s.tid, stream |-> i]}

StreamOk(s) ==
    /\ "loom" \in s.keys /\ CpusOk(s)
    /\ PidOk(s) /\ AppidOk(s, ProcOf(s)) /\ RankOk(s, ProcOf(s))
    /\ ThreadOk(s)

\* create_loom(), create_proc() and create_thread() for the next stream; those
\* that are not of a thread are ignored.
CreateStream ==
    /\ status = "create" /\ next <= Len(Trace)
    /\ IF "part" \in Stream.keys /\ (Stream.part = "thread" => StreamOk(Stream))
       THEN /\ next' = next + 1
            /\ IF Stream.part = "thread"
               THEN /\ looms' = AddLoom(Stream.loom)
                    /\ cpus' = LoadCpus(Stream)
                    /\ procs' = PutProc(LoadProc(Stream, ProcOf(Stream)))
                    /\ threads' = AddThread(Stream, next)
               ELSE UNCHANGED <<looms, cpus, procs, threads>>
            /\ UNCHANGED <<input, status, rows, cpuRows, offset, clkoff, enabled, types, counters>>
       ELSE Fail

-----------------------------------------------------------------------------
(* The order of the rows.                                                  *)

ProcsOf(l) == SelectSeq(procs, LAMBDA p : p.loom = l)
RankEnabled(l) == \E p \in ToSet(ProcsOf(l)) : p.rank >= 0

\* Mistake: the rank of a loom is the one of its first process.
RankMinFirst(l) == ProcsOf(l)[1].rank

\* loom_set_rank_min()
RankMin(l) == Min({p.rank : p \in ToSet(ProcsOf(l))})

\* set_sort_criteria()
SortByRank == \A l \in ToSet(looms) : RankEnabled(l)

\* The elements of q by key, key[i] for q[i]; equal keys stay as they were.
Stable(q, key) ==
    LET order == SetToSortSeq(DOMAIN q, LAMBDA i, j :
                     key[i] < key[j] \/ (key[i] = key[j] /\ i < j))
    IN  [i \in DOMAIN q |-> q[order[i]]]

\* sort_lpt() and loom_sort()
SortedLooms == Stable(looms, [i \in DOMAIN looms |->
                                  IF SortByRank THEN RankMin(looms[i]) ELSE looms[i]])
SortedProcs(l) ==
    LET ps == ProcsOf(l)
    IN  Stable(ps, [i \in DOMAIN ps |-> IF RankEnabled(l) THEN ps[i].rank ELSE ps[i].pid])
SortedThreads(p) == SetToSortSeq({t \in threads : t.loom = p.loom /\ t.pid = p.pid},
                                 LAMBDA t, u : t.tid < u.tid)
SortedCpus(l) == SetToSortSeq({c \in cpus : c.loom = l}, LAMBDA c, d : c.phyid < d.phyid)
VirtualCpu(l) == [loom |-> l, index |-> -1, phyid |-> -1]

\* set_sort_criteria(), sort_lpt(), init_global_lists(), init_global_indices():
\* the global index of a thread or CPU is its place in its list.
SortSystem ==
    /\ status = "create" /\ next > Len(Trace)
    /\ IF \E l \in ToSet(looms) : RankEnabled(l) /\ \E p \in ToSet(ProcsOf(l)) : p.rank < 0
       THEN Fail
       ELSE /\ looms' = SortedLooms
            /\ rows' = FlattenSeq([i \in DOMAIN looms |-> LET ps == SortedProcs(looms'[i]) IN
                           FlattenSeq([j \in DOMAIN ps |-> SortedThreads(ps[j])])])
            /\ cpuRows' = FlattenSeq([i \in DOMAIN looms |->
                              Append(SortedCpus(looms'[i]), VirtualCpu(looms'[i]))])
            /\ status' = "init_end"
            /\ UNCHANGED <<input, next, cpus, procs, threads, offset, clkoff, enabled, types, counters>>

\* loom_init_end(): the indices of the CPUs fill cpus_array.
LoomInitEnd(l) ==
    LET n == Cardinality({c \in cpus : c.loom = l})
    IN  n > 0 /\ {c.index : c \in {d \in cpus : d.loom = l}} = 0..n - 1

\* proc_init_end()
ProcInitEnd(p) == p.appid > 0

\* report_libovni_version(): mixed versions are only a warning.
LibKnown(t) == "lib" \in Trace[t.stream].keys

\* init_end_system() and report_libovni_version()
InitEnd ==
    /\ status = "init_end"
    /\ IF /\ \A p \in ToSet(procs) : ProcInitEnd(p)
          /\ \A l \in ToSet(looms) : LoomInitEnd(l)
          /\ \A t \in threads : LibKnown(t)
       THEN status' = "offsets" /\ UNCHANGED <<input, next, sysVars>>
       ELSE Fail

-----------------------------------------------------------------------------
(* The clocks.                                                             *)

Table == input.offsets
\* load_clock_offsets(): only the default file may not exist.  In a file each
\* name is once, and there is one at least.
TableOk ==
    IF Table.exists
    THEN Table.entries # <<>> /\ \A i, j \in DOMAIN Table.entries :
             i # j => Table.entries[i].name # Table.entries[j].name
    ELSE ~Table.given
Entries == IF Table.exists THEN Table.entries ELSE <<>>

\* The cast of a median to int64_t.  The medians of the table are given in halves,
\* so that they can have a fraction.
Whole(halves) == IF halves >= 0 THEN halves \div 2 ELSE -((-halves) \div 2)

\* Mistake: only the first loom of the host gets the offset.
OffsetOfFirst(l) ==
    LET e == {i \in DOMAIN Entries : Entries[i].name = Host[l]}
    IN  IF e = {} \/ \E i, j \in DOMAIN looms : i < j /\ looms[j] = l /\ Host[looms[i]] = Host[l]
        THEN 0 ELSE Whole(Entries[CHOOSE i \in e : TRUE].median)

\* parse_clkoff_entry(): every loom of the host.
OffsetOf(l) ==
    LET e == {i \in DOMAIN Entries : Entries[i].name = Host[l]}
    IN  IF e = {} THEN 0 ELSE Whole(Entries[CHOOSE i \in e : TRUE].median)

\* load_clock_offsets() and init_offsets(), that gives the offset to the streams
\* of threads.
InitOffsets ==
    /\ status = "offsets"
    /\ IF TableOk /\ \A i \in DOMAIN Entries : \E l \in ToSet(looms) : Host[l] = Entries[i].name
       THEN /\ offset' = [l \in DOMAIN Host |-> IF l \in ToSet(looms) THEN OffsetOf(l) ELSE 0]
            /\ clkoff' = [i \in DOMAIN Trace |->
                   IF \E t \in threads : t.stream = i THEN offset'[Trace[i].loom] ELSE 0]
            /\ status' = "connect"
            /\ UNCHANGED <<input, next, looms, cpus, procs, threads, rows, cpuRows, enabled, types, counters>>
       ELSE Fail

-----------------------------------------------------------------------------
(* The rest of emu_init(): system_connect(), the models, their marks and   *)
(* counters.                                                               *)

\* system_connect(): with a file of accelerators the test of prf_add() is the
\* contrary, so the first row that is named is taken as an error.
Connect ==
    /\ status = "connect"
    /\ IF input.args.xtasks /\ rows # <<>> THEN Fail
       ELSE status' = "probe" /\ UNCHANGED <<input, next, sysVars>>

\* version_is_compatible()
Compatible(want, have) == want[1] = have[1] /\ want[2] <= have[2]

\* should_enable() for every model: what a thread requires the emulator has.
Supported(s) ==
    "require" \in s.keys /\ \A m \in DOMAIN s.require : Compatible(s.require[m], Have[m])

\* model_probe(): a model is enabled by any thread that requires it, but all the
\* threads are looked at; ovni is always enabled.
Probe ==
    /\ status = "probe"
    /\ IF \A t \in threads : Supported(Trace[t.stream])
       THEN /\ enabled' = IF input.args.all THEN DOMAIN Have
                          ELSE {"ovni"} \cup UNION {DOMAIN Trace[t.stream].require : t \in threads}
            /\ next' = 1
            /\ status' = "marks"
            /\ UNCHANGED <<input, looms, cpus, procs, threads, rows, cpuRows, offset, clkoff, types,
                           counters>>
       ELSE Fail

\* parse_mark(): m is a mark type of the thread; known is the one with its
\* number, if there is one.
Known(ts, m) == {i \in DOMAIN ts : ts[i].type = m.type}
LabelsAgree(a, b) == \A v \in DOMAIN a \cap DOMAIN b : a[v] = b[v]
MarkOk(ts, m) ==
    /\ m.type \in 0..99 /\ m.ctype \in {"single", "stack"}
    /\ \A i \in Known(ts, m) :
           /\ ts[i].title = m.title /\ ts[i].ctype = m.ctype
           /\ LabelsAgree(ts[i].labels, m.labels)

\* The types after m: a new one, or the labels of a known one completed.
PutMark(ts, m) ==
    IF Known(ts, m) = {} THEN Append(ts, m)
    ELSE [i \in DOMAIN ts |-> IF ts[i].type # m.type THEN ts[i]
             ELSE [ts[i] EXCEPT !.labels = [v \in DOMAIN @ \cup DOMAIN m.labels |->
                      IF v \in DOMAIN @ THEN @[v] ELSE m.labels[v]]]]

Marks(s) == IF "mark" \in s.keys THEN s.mark ELSE <<>>

\* scan_thread(), in the order of the rows.
ScanThread ==
    /\ status = "marks" /\ next <= Len(rows)
    /\ LET ms == Marks(Trace[rows[next].stream])
       IN  IF \A i \in DOMAIN ms : MarkOk(types, ms[i])
           THEN /\ types' = FoldLeft(PutMark, types, ms)
                /\ next' = next + 1
                /\ UNCHANGED <<input, status, looms, cpus, procs, threads, rows, cpuRows,
                               offset, clkoff, enabled, counters>>
           ELSE Fail

\* When all the marks are known nOS-V looks for its counters, if it is enabled.
ScannedMarks ==
    /\ status = "marks" /\ next > Len(rows)
    /\ status' = IF "nosv" \in enabled THEN "counters" ELSE "create done"
    /\ next' = 1
    /\ UNCHANGED <<input, sysVars>>

Counters(s) == IF "hwc" \in s.keys THEN s.hwc ELSE <<>>

\* parse_hwc(): h has the names of the counters of a thread by their index, as
\* many as the other threads have.
CounterOk(h, i) ==
    /\ i \in 0..99 /\ i < Cardinality(DOMAIN h)
    /\ i \in DOMAIN counters => counters[i] = h[i]

\* scan_thread() of hwc.c: a thread without counters is ignored.
ScanCounters ==
    /\ status = "counters" /\ next <= Len(rows)
    /\ LET h == Counters(Trace[rows[next].stream])
       IN  IF /\ DOMAIN counters # {} /\ DOMAIN h # {} =>
                     Cardinality(DOMAIN h) = Cardinality(DOMAIN counters)
              /\ \A i \in DOMAIN h : CounterOk(h, i)
           THEN /\ counters' = IF DOMAIN h = {} THEN counters ELSE h
                /\ next' = next + 1
                /\ UNCHANGED <<input, status, looms, cpus, procs, threads, rows, cpuRows,
                               offset, clkoff, enabled, types>>
           ELSE Fail

\* hwc_create() goes on with the channels of the counters.
ScannedCounters ==
    /\ status = "counters" /\ next > Len(rows)
    /\ status' = "create done"
    /\ UNCHANGED <<input, next, sysVars>>

\* mark_connect(): the labels go to the PCF with their value cut to an int.
MarkConnect ==
    /\ status = "create done"
    /\ IF \A i \in DOMAIN types : \A v, w \in DOMAIN types[i].labels :
              v % IntSize = w % IntSize => v = w
       THEN status' = "ok" /\ UNCHANGED <<input, next, sysVars>>
       ELSE Fail

Next ==
    \/ LoadTrace \/ CreateStream \/ SortSystem \/ InitEnd \/ InitOffsets
    \/ Connect \/ Probe \/ ScanThread \/ ScannedMarks
    \/ ScanCounters \/ ScannedCounters \/ MarkConnect

Spec == Init /\ [][Next]_vars

-----------------------------------------------------------------------------
(* Properties.                                                             *)

\* The streams of threads, with no order.
Streams == {i \in DOMAIN Trace : "part" \in Trace[i].keys /\ Trace[i].part = "thread"}
OfLoom(l) == {i \in Streams : Trace[i].loom = l}
OfProc(i) == {j \in OfLoom(Trace[i].loom) : Trace[j].pid = Trace[i].pid}
With(S, k) == {i \in S : k \in Trace[i].keys}
One(S) == Cardinality(S) <= 1

KeysPresent ==
    /\ \A i \in DOMAIN Trace : {"version", "part"} \subseteq Trace[i].keys /\ Trace[i].version = 3
    /\ \A i \in Streams : {"loom", "pid", "tid", "lib", "require", "finished"} \subseteq Trace[i].keys
    /\ \A i \in Streams : Trace[i].pid > 0 /\ Trace[i].tid > 0

Declared(l) == UNION {ToSet(Trace[i].cpus) : i \in With(OfLoom(l), "loom_cpus")}
CpusConsistent == \A i \in Streams :
    LET d == Declared(Trace[i].loom)
    IN  /\ d # {} /\ {c[1] : c \in d} = 0..Cardinality(d) - 1
        /\ \A c \in d : c[2] >= 0
        /\ Cardinality({c[2] : c \in d}) = Cardinality(d)
        /\ "loom_cpus" \in Trace[i].keys => Trace[i].cpus # <<>>

ProcsConsistent == \A i \in Streams :
    LET apps == {Trace[j].app_id : j \in With(OfProc(i), "app_id")}
        ranked == With(OfProc(i), "rank")
    IN  /\ One(apps) /\ \A a \in apps : a > 0
        /\ ranked \subseteq With(ranked, "nranks")
        /\ \A j \in ranked : Trace[j].rank >= 0 /\ Trace[j].rank < Trace[j].nranks
        /\ One({<<Trace[j].rank, Trace[j].nranks>> : j \in ranked})
        /\ With(OfLoom(Trace[i].loom), "rank") # {} => ranked # {}

ClocksConsistent ==
    TableOk /\ \A e \in ToSet(Entries) : \E i \in Streams : Host[Trace[i].loom] = e.name

AllMarks == UNION {ToSet(Marks(Trace[i])) : i \in Streams}
MarksConsistent == \A m, n \in AllMarks :
    /\ m.type \in 0..99 /\ m.ctype \in {"single", "stack"}
    /\ m.type = n.type =>
           /\ m.title = n.title /\ m.ctype = n.ctype
           /\ \A v \in DOMAIN m.labels, w \in DOMAIN n.labels :
                  v % IntSize = w % IntSize => v = w /\ m.labels[v] = n.labels[w]

NosvEnabled == input.args.all \/ \E i \in Streams : "nosv" \in DOMAIN Trace[i].require
Counting == {i \in With(Streams, "hwc") : DOMAIN Trace[i].hwc # {}}
CountersConsistent == NosvEnabled => \A i, j \in Counting :
    /\ Trace[i].hwc = Trace[j].hwc
    /\ DOMAIN Trace[i].hwc = 0..Cardinality(DOMAIN Trace[i].hwc) - 1

Consistent ==
    /\ KeysPresent
    /\ \A i, j \in Streams : i # j =>
           <<Trace[i].loom, Trace[i].pid, Trace[i].tid>> # <<Trace[j].loom, Trace[j].pid, Trace[j].tid>>
    /\ CpusConsistent /\ ProcsConsistent /\ ClocksConsistent /\ MarksConsistent
    /\ CountersConsistent
    /\ \A i \in Streams : \A m \in DOMAIN Trace[i].require :
           Compatible(Trace[i].require[m], Have[m])

\* What the emulator refuses of a consistent trace.  The application of a process is
\* optional in doc/user/runtime/trace_spec.md, but proc_init_end() wants it, and
\* with -x system_connect() takes the first row that prf_add() names as an error.
NoAppId == \E i \in Streams : With(OfProc(i), "app_id") = {}
RefusedByPrf == input.args.xtasks /\ Streams # {}


\* What the rows are ordered by, from the streams alone.
LoomKey(l) ==
    IF \A i \in Streams : With(OfLoom(Trace[i].loom), "rank") # {}
    THEN Min({Trace[i].rank : i \in With(OfLoom(l), "rank")}) ELSE l
ProcKey(i) ==
    IF With(OfProc(i), "rank") = {} THEN Trace[i].pid
    ELSE Trace[CHOOSE j \in With(OfProc(i), "rank") : TRUE].rank
RowKey(i) == <<LoomKey(Trace[i].loom), ProcKey(i), Trace[i].tid>>
Less(a, b) == \E k \in 1..3 : a[k] < b[k] /\ \A j \in 1..k - 1 : a[j] = b[j]
DistinctRanks == \A i, j \in With(Streams, "rank") :
    Trace[i].rank = Trace[j].rank => j \in OfProc(i)

\* Each thread has one row and each CPU another; the rows of a process are
\* together, and so are those of a loom, which come in the same order for the
\* threads and for the CPUs, the virtual one last.  If no two processes have
\* the same rank the order does not depend on the paths of the streams (sort_lpt,
\* loom_sort, proc_sort, init_global_lists).
RowsGrouped ==
    status = "ok" =>
        /\ {t.stream : t \in ToSet(rows)} = Streams /\ Len(rows) = Cardinality(Streams)
        /\ \A i, j, k \in DOMAIN rows : i < j /\ j < k =>
               /\ rows[i].loom = rows[k].loom => rows[j].loom = rows[i].loom
               /\ rows[k].stream \in OfProc(rows[i].stream) =>
                      rows[j].stream \in OfProc(rows[i].stream)
        /\ \A i, j \in DOMAIN cpuRows : i < j =>
               \/ cpuRows[i].loom = cpuRows[j].loom
                  /\ (cpuRows[j].phyid = -1 \/ cpuRows[i].phyid \in 0..cpuRows[j].phyid - 1)
               \/ \A a, b \in DOMAIN rows : rows[a].loom = cpuRows[i].loom
                      /\ rows[b].loom = cpuRows[j].loom => a < b
        /\ DistinctRanks => \A i, j \in DOMAIN rows :
               i < j => Less(RowKey(rows[i].stream), RowKey(rows[j].stream))

\* What a stream says is what its events mean, also for what another stream has
\* said before or will say later: a CPU index stands for the physical CPU of its
\* own list (loom_get_cpu), its clock has the offset of its host without the
\* fraction, the same for all the looms there, its mark types and labels are the
\* ones shown, and so are its hardware counters, whose values come in the events
\* by their index.
DeclaredKept ==
    status = "ok" => \A i \in Streams : LET s == Trace[i] IN
        /\ "loom_cpus" \in s.keys => \A k \in DOMAIN s.cpus :
               {c.phyid : c \in {d \in ToSet(cpuRows) : d.loom = s.loom /\ d.index = s.cpus[k][1]}}
                   = {s.cpus[k][2]}
        /\ \A e \in ToSet(Entries) : e.name = Host[s.loom] =>
               \E fraction \in -1..1 :
                   e.median = 2 * clkoff[i] + fraction /\ clkoff[i] * fraction >= 0
        /\ \A m \in ToSet(Marks(s)) : \E k \in DOMAIN types :
               /\ types[k].type = m.type /\ types[k].title = m.title /\ types[k].ctype = m.ctype
               /\ \A v \in DOMAIN m.labels :
                      v \in DOMAIN types[k].labels /\ types[k].labels[v] = m.labels[v]
        /\ NosvEnabled /\ i \in Counting => counters = s.hwc
=============================================================================

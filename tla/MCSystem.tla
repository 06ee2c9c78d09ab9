------------------------------ MODULE MCSystem ------------------------------
(* Small inputs for System, one family for each thing that streams share.  *)
(* The streams of a family are in every order.                             *)
EXTENDS System, TLC

MCHost == <<"a", "a", "b">>
MCHave == [m \in {"ovni", "nosv"} |-> <<1, 1>>]

\* A complete stream: thread t of process p in loom l, with one CPU.
Plain(l, p, t) ==
    [keys |-> Keys \ {"rank", "nranks"}, part |-> "thread", loom |-> l, pid |-> p, tid |-> t,
     cpus |-> <<<<0, 3>>>>, app_id |-> 1, rank |-> 0, nranks |-> 2, mark |-> <<>>, hwc |-> <<>>,
     require |-> [m \in {"ovni"} |-> <<1, 0>>], version |-> 3]
Ranked(s, r) == [s EXCEPT !.keys = @ \cup {"rank", "nranks"}, !.rank = r]

NoFile == [given |-> FALSE, exists |-> FALSE, entries |-> <<>>]
NoArgs == [xtasks |-> FALSE, all |-> FALSE]
In(tr, table, args) == [trace |-> tr, offsets |-> table, args |-> args]

\* Who is who: looms, processes, threads and ranks.  Among them, a loom with
\* ranks on both sides of the rank of another.
MCWho == {Plain(l, p, t) : l, p, t \in 1..2} \cup
         {Ranked(Plain(l, p, 1), r) : l, p \in 1..2, r \in 0..1}
MCPeople == {In(<<s, t, u>>, NoFile, NoArgs) : s, t, u \in MCWho}
            \cup {In(<<s, t, u, w>>, NoFile, NoArgs) :
                    s \in {Ranked(Plain(1, 1, 1), r) : r \in 0..1},
                    t \in {Ranked(Plain(l, 2, 1), r) : l \in 1..2, r \in 0..1},
                    u \in {Plain(l, p, 2) : l, p \in 1..2},
                    w \in {Plain(l, p, 3) : l \in 2..3, p \in 1..2}
                          \cup {Ranked(Plain(l, 3, 1), 1) : l \in 1..3}}
            \cup {In([i \in 1..3 |-> [Ranked(Plain(IF i = one THEN 2 ELSE 1, i, 1), r[i])
                                         EXCEPT !.nranks = 3]], NoFile, NoArgs) :
                    one \in 1..3, r \in [1..3 -> 0..2]}

\* The CPUs of two looms in three streams.
MCCpus == {<<>>, <<<<0, 3>>>>, <<<<1, 5>>>>, <<<<1, 3>>>>, <<<<0, 5>>>>, <<<<0, 3>>, <<1, 5>>>>,
           <<<<1, 5>>, <<0, 3>>>>, <<<<0, 3>>, <<1, 3>>>>, <<<<-1, 3>>>>, <<<<0, -1>>>>}
MCWithCpus(s) == {[s EXCEPT !.cpus = c] : c \in MCCpus} \cup {[s EXCEPT !.keys = @ \ {"loom_cpus"}]}
MCLooms == {In(<<s, t, u>>, NoFile, NoArgs) :
               s \in MCWithCpus(Plain(1, 1, 1)), t \in MCWithCpus(Plain(1, 1, 2)),
               u \in MCWithCpus(Plain(1, 2, 1)) \cup {Plain(2, 1, 1)}}

\* The application and the rank in two streams of a process.
MCProc(t) ==
    {[Plain(1, 1, t) EXCEPT !.app_id = a] : a \in 0..2} \cup
    {[Plain(1, 1, t) EXCEPT !.keys = Keys \ k, !.rank = r, !.nranks = n] :
        k \in {{}, {"nranks"}, {"app_id"}}, r \in -1..1, n \in 0..2}
MCProcs == {In(<<s, t>>, NoFile, NoArgs) : s \in MCProc(1), t \in MCProc(2)}

\* The keys that are missing, and streams that are not of threads.
MCLacking(s) == {[s EXCEPT !.keys = @ \ {k}] : k \in Keys} \cup
                {[s EXCEPT !.part = "other"], [s EXCEPT !.pid = 0], [s EXCEPT !.tid = 0],
                 [s EXCEPT !.version = 2]}
MCKeys == {In(tr, NoFile, [xtasks |-> x, all |-> a]) : x, a \in BOOLEAN, tr \in
              UNION {{<<s, Plain(1, 1, 2)>>, <<Plain(1, 1, 2), s>>, <<s>>} : s \in MCLacking(Plain(1, 1, 1))}
              \cup {<<>>}}

\* The table of clock offsets, with two looms in a host.
MCEntry == [name : {"a", "b", "c"}, median : {0, 3, -3}]
MCTables == {[given |-> g, exists |-> e, entries |-> t] : g, e \in BOOLEAN,
                t \in {<<>>} \cup {<<x>> : x \in MCEntry} \cup {<<x, y>> : x, y \in MCEntry}}
MCClocks == {In(tr, table, NoArgs) : table \in MCTables, tr \in
                {<<Plain(1, 1, 1), Plain(3, 1, 1)>>, <<Plain(2, 1, 1), Plain(1, 1, 1), Plain(3, 1, 1)>>,
                 <<Plain(2, 1, 1), Plain(1, 1, 1)>>}}

\* The models and the marks of three threads.
MCLabels == {<<>>, 1 :> "x", 1 :> "y", 2 :> "x", 1 :> "x" @@ 2 :> "y", 5 :> "x"}
MCMark == {[type |-> 0, title |-> t, ctype |-> "single", labels |-> l] : t \in {"t", "u"}, l \in MCLabels}
MCMarks == {<<>>} \cup {<<m>> : m \in MCMark} \cup
           {<<[type |-> k, title |-> "t", ctype |-> c, labels |-> 1 :> "x"], m>> :
               k \in {1, 99, 100}, c \in {"single", "stack", "none"},
               m \in {n \in MCMark : n.title = "t" /\ 1 \in DOMAIN n.labels}}
MCMarked(s) == {[s EXCEPT !.mark = m] : m \in MCMarks}
MCRequire(s) == {[s EXCEPT !.require = r] : r \in {[m \in {"nosv"} |-> <<1, 1>>],
                    [m \in {"ovni", "nosv"} |-> <<1, 0>>], [m \in {"ovni"} |-> <<1, 2>>],
                    [m \in {"ovni"} |-> <<0, 0>>], [m \in {"nosv"} |-> <<2, 0>>]}}
MCModels == {In(<<s, t, u>>, NoFile, NoArgs) : s \in MCMarked(Plain(1, 1, 2)),
                t \in MCMarked(Plain(1, 1, 1)), u \in {Plain(1, 2, 1),
                   [Plain(1, 2, 1) EXCEPT !.mark = <<[type |-> 1, title |-> "t", ctype |-> "stack", labels |-> 2 :> "z"]>>]}}
            \cup {In(<<s, t>>, NoFile, NoArgs) : s \in MCRequire(Plain(1, 1, 2)), t \in MCRequire(Plain(1, 1, 1))}

\* The hardware counters of three threads, with nOS-V enabled or not.
MCHwc == {<<>>, 0 :> "a", 0 :> "b", 1 :> "b", 0 :> "a" @@ 1 :> "b", 0 :> "b" @@ 1 :> "a",
          0 :> "a" @@ 2 :> "b", -1 :> "a" @@ 0 :> "b"}
MCCounting(s) == {[s EXCEPT !.hwc = h, !.require = [m \in {v} |-> <<1, 1>>]] :
                     h \in MCHwc, v \in {"ovni", "nosv"}}
MCCounters == {In(<<s, t, u>>, NoFile, [NoArgs EXCEPT !.all = a]) :
                  s \in MCCounting(Plain(1, 1, 1)), t \in MCCounting(Plain(1, 1, 2)),
                  u \in {[Plain(1, 1, 3) EXCEPT !.hwc = h] : h \in MCHwc}, a \in BOOLEAN}

MCInputs == MCPeople \cup MCLooms \cup MCProcs \cup MCKeys \cup MCClocks \cup MCModels
            \cup MCCounters
=============================================================================

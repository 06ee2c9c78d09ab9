----------------------------- MODULE MCOvniSort -----------------------------
(* Small traces for OvniSort.  The first stream has any four events, or two *)
(* regions with events of different sizes; the second has one region, or    *)
(* nothing, or it is cut in the middle of an event.                         *)
EXTENDS OvniSort

EventOf(i, m, c, z) == [id |-> i, mark |-> m, clock |-> c, size |-> z]

\* Any marks and clocks; only the events without mark have a payload.
MCKinds == ({"[", "]"} \X (0..2) \X {1}) \cup ({"none"} \X (0..2) \X {1, 2})
MCAny == {[i \in 1..4 |-> EventOf(i, w[i][1], w[i][2], w[i][3])] :
              w \in [1..4 -> MCKinds]}

\* Two regions, the second with two events, and the clocks of the marks in
\* order: the events of the second may have to go into the first.
MCMarks == <<"none", "[", "none", "]", "[", "none", "none", "]">>
MCTwo == {[i \in 1..8 |-> EventOf(i, MCMarks[i],
               IF MCMarks[i] = "none" THEN c[i] ELSE i,
               IF MCMarks[i] = "none" THEN z[i] ELSE 1)] :
          c \in {<<0, 0, x, 0, 0, y, w, 0>> : x \in {0, 1, 3}, y \in {0, 2, 3, 7}, w \in {0, 2, 5}},
          z \in {<<2, 0, x, 0, 0, y, w, 0>> : x, y, w \in 1..3}}

MCSecond == <<EventOf(1, "[", 1, 1), EventOf(2, "none", 0, 2), EventOf(3, "]", 2, 1)>>

\* A stream with part of an event at its end.
MCTornStream == [MCSecond EXCEPT ![2].size = 3]
MCTorn == {MCTornStream}

MCTraces == {<<s, MCSecond>> : s \in MCAny \cup MCTwo}
    \cup {<<s, s2>> : s \in MCTwo, s2 \in {<<>>, MCTornStream}}
    \cup {<<MCTornStream, MCSecond>>}
=============================================================================

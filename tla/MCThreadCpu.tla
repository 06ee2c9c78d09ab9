---------------------------- MODULE MCThreadCpu -----------------------------
(***************************************************************************)
(* Two looms.  Loom "a" has two physical CPUs and its virtual CPU, shared  *)
(* by two threads of one process; loom "b" has one physical CPU, its       *)
(* virtual CPU and one thread with the TID of a thread of loom "a".        *)
(***************************************************************************)
EXTENDS ThreadCpu

CONSTANTS t1, t2, t3, c1, c2, va, c3, vb

MCThread == {t1, t2, t3}
MCCpu == {c1, c2, va, c3, vb}
MCVirtual == {va, vb}
MCLoom == {"a", "b"}
MCThLoom == [t \in MCThread |-> IF t = t3 THEN "b" ELSE "a"]
MCCpuLoom == [c \in MCCpu |-> IF c \in {c3, vb} THEN "b" ELSE "a"]
MCThProc == [t \in MCThread |-> IF t = t3 THEN 2 ELSE 1]
MCTid == [t \in MCThread |-> IF t = t2 THEN 20 ELSE 10]
=============================================================================

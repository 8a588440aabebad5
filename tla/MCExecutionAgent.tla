-------------------------- MODULE MCExecutionAgent --------------------------
(***************************************************************************)
(* Small instances of the execution agent. Tasks are numbers, so that a    *)
(* graph whose edges all go up is acyclic; every acyclic graph is one of   *)
(* these but for the names of its tasks.                                   *)
(***************************************************************************)
EXTENDS AgentInvariant, TLC

UpEdges(S) == {e \in S \X S : e[1] < e[2]}
Dags(S) == {[node |-> S, edge |-> E] : E \in SUBSET UpEdges(S)}

ThreeTasks == 1 .. 3
DagsOfThree == Dags(ThreeTasks)
TwoTasks == 1 .. 2
DagsOfTwo == Dags(TwoTasks) \cup Dags({1})
FourTasks == 1 .. 4    \* fan-out and fan-in in one graph
Diamond == {[node |-> FourTasks, edge |-> {<<1, 2>>, <<1, 3>>, <<2, 4>>, <<3, 4>>}]}
DagsOfThreeAndDiamond == DagsOfThree \cup Diamond

TwoTriesForTheFirst == [t \in Tasks |-> IF t = 1 THEN 2 ELSE 1]
OneTry == [t \in Tasks |-> 1]

(* Threads are interchangeable: no definition names one.                   *)
ThreadSymmetry == Permutations(Threads)
=============================================================================

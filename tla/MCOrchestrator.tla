--------------------------- MODULE MCOrchestrator ---------------------------
(* Two resources and two config tasks, each pair ordered or not: enough    *)
(* for a phase that is half done.                                          *)
EXTENDS Orchestrator

TwoResources == {"network", "server"}
TwoConfigTasks == {"copy", "run"}
OrderedOrNot(S, e) == {[node |-> S, edge |-> {}], [node |-> S, edge |-> {e}]}
TwoResourceGraphs == OrderedOrNot(TwoResources, <<"network", "server">>)
TwoConfigGraphs == OrderedOrNot(TwoConfigTasks, <<"copy", "run">>)
=============================================================================

----------------------------- MODULE TaskGraph -----------------------------
(***************************************************************************)
(* What actuator promises about the tasks of a config model, whatever      *)
(* engine performs them: "the task on the LHS must successfully complete   *)
(* before the task on the RHS starts" (ConfigModel.with_dependencies), a   *)
(* task completes at most once in a run, a run ends well only when every   *)
(* task of its graph completed, and ends badly only when some task was     *)
(* given up.                                                               *)
(*                                                                         *)
(* A run is one call of ExecutionAgent.perform_config, with its own graph. *)
(* Work that is still in flight when a run ends may go on: nothing joins   *)
(* the worker threads.                                                     *)
(***************************************************************************)
EXTENDS Naturals

CONSTANTS Tasks,    \* the tasks of the config model
          Plans,    \* the dependency graphs, records with fields node and edge
          MaxRuns   \* how many runs are considered

VARIABLES plan,     \* plan[r]: the graph of run r
          current,  \* the number of the last run begun
          phase,    \* phase[r][t]: how far task t is in run r
          outcome   \* what the last run has answered so far

vars == <<plan, current, phase, outcome>>

Runs == 1 .. MaxRuns
NoGraph == [node |-> {}, edge |-> {}]
Phases == {"waiting", "running", "done", "failed"}
Outcomes == {"none", "running", "ok", "failed", "refused"}

Preds(G, t) == {p \in G.node : <<p, t>> \in G.edge}

(* Types of the runs, their graphs and answers, and the phases of tasks.   *)
TypeOK ==
  /\ plan \in [Runs -> Plans \cup {NoGraph}]
  /\ current \in 0 .. MaxRuns
  /\ phase \in [Runs -> [Tasks -> Phases]]
  /\ outcome \in Outcomes

Init ==
  /\ plan = [r \in Runs |-> NoGraph]
  /\ current = 0
  /\ phase = [r \in Runs |-> [t \in Tasks |-> "waiting"]]
  /\ outcome = "none"

Begin(G) ==
  /\ outcome # "running"
  /\ current < MaxRuns
  /\ current' = current + 1
  /\ plan' = [plan EXCEPT ![current + 1] = G]
  /\ outcome' = "running"
  /\ UNCHANGED phase

Move(r, t, from, to) ==
  /\ phase[r][t] = from
  /\ phase' = [phase EXCEPT ![r][t] = to]
  /\ UNCHANGED <<plan, current, outcome>>

(* The one guard that matters: every predecessor is done.                  *)
Start(r, t) ==
  /\ t \in plan[r].node
  /\ \A p \in Preds(plan[r], t) : phase[r][p] = "done"
  /\ Move(r, t, "waiting", "running")

Complete(r, t) == Move(r, t, "running", "done")
Abandon(r, t) == Move(r, t, "running", "failed")

Succeed ==
  /\ outcome = "running"
  /\ \A t \in plan[current].node : phase[current][t] = "done"
  /\ outcome' = "ok"
  /\ UNCHANGED <<plan, current, phase>>

(* A failure of an earlier run of the same agent also counts: the code     *)
(* never forgets an aborted task.                                          *)
Fail ==
  /\ outcome = "running"
  /\ \E r \in Runs, t \in Tasks : phase[r][t] = "failed"
  /\ outcome' = "failed"
  /\ UNCHANGED <<plan, current, phase>>

(* A run that is refused has not touched any of its tasks.                 *)
Refuse ==
  /\ outcome = "running"
  /\ \A t \in Tasks : phase[current][t] = "waiting"
  /\ outcome' = "refused"
  /\ UNCHANGED <<plan, current, phase>>

Next ==
  \/ \E G \in Plans : Begin(G)
  \/ \E r \in Runs, t \in Tasks : Start(r, t) \/ Complete(r, t) \/ Abandon(r, t)
  \/ Succeed
  \/ Fail
  \/ Refuse

Spec == Init /\ [][Next]_vars

(* A task that has started, in any run, has only completed predecessors:   *)
(* the promise of with_dependencies, config.py:63-64.                      *)
DependenciesHonoured ==
  \A r \in Runs : \A t \in plan[r].node :
    phase[r][t] # "waiting" => \A p \in Preds(plan[r], t) : phase[r][p] = "done"
=============================================================================

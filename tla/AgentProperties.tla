-------------------------- MODULE AgentProperties --------------------------
(***************************************************************************)
(* What the execution agent must guarantee, over the states and steps of   *)
(* module ExecutionAgent, and the refinement mapping to TaskGraph.         *)
(***************************************************************************)
EXTENDS ExecutionAgent

Item(r, t) == [run |-> r, task |-> t]
Queued(i) == \E k \in 1 .. Len(task_queue) : task_queue[k] = i
Held(i) == \E w \in Threads : item[w] = i

(* Task t of run r waits for a worker, or has one.                         *)
Pending(r, t) ==
  (r = run /\ t \in initial) \/ Queued(Item(r, t)) \/ Held(Item(r, t))

(* perform_config has cleared the flag and not answered yet.               *)
InRun == main \in {"spawn", "queue", "wait"}

(* A task that is being performed, or was, has only predecessors that      *)
(* succeeded, in the graph of its own run: the in-degree test of           *)
(* perform_task releases no task early, whoever else traverses the graph.  *)
PredecessorsFirst ==
  \A w \in Threads : pc[w] \in {"try"} \cup After =>
    LET r == item[w].run IN Preds(graph[r], item[w].task) \subseteq performed[r]

(* No task of a run is handed out twice: it is in one place of the queue   *)
(* or in the hands of one worker, and a task that succeeded is nowhere but *)
(* with the worker that still traverses its successors. The put of         *)
(* perform_config and the put of perform_task never collide.               *)
HandedOutOnce ==
  /\ \A j, k \in 1 .. Len(task_queue) : task_queue[j] = task_queue[k] => j = k
  /\ \A w, x \in Threads : item[w] = item[x] /\ item[w] # NoItem => w = x
  /\ \A k \in 1 .. Len(task_queue) :
       /\ ~Held(task_queue[k])
       /\ task_queue[k].task \notin performed[task_queue[k].run]
       /\ task_queue[k] \notin aborted_tasks
  /\ \A w \in Threads : pc[w] \in Before =>
       item[w].task \notin performed[item[w].run]
  /\ \A t \in initial : /\ ~Queued(Item(run, t)) /\ ~Held(Item(run, t))
                        /\ t \notin performed[run]

(* While a run goes on no task of it is forgotten: a task not performed    *)
(* waits for a worker or has one, or a predecessor of it is not performed  *)
(* or is held by a worker that has yet to traverse that edge. A worker     *)
(* drops an item, or skips the successors, only when the run is over.      *)
NothingForgotten ==
  InRun /\ ~stop =>
    \A t \in graph[run].node \ performed[run] :
      \/ Pending(run, t)
      \/ \E p \in Preds(graph[run], t) :
           \/ p \notin performed[run]
           \/ \E w \in Threads : /\ item[w] = Item(run, p)
                                 /\ pc[w] \in After
                                 /\ <<p, t>> \notin traversed[run]

(* perform_config returns normally only when every task of the graph it    *)
(* built was performed, reruns on the same agent included: no stop flag    *)
(* left behind, no decrement of an old worker makes a run look complete.   *)
NormalReturn ==
  main = "returned" => performed[run] = graph[run].node

(* With no rerun the count is exact whenever the lock is free: the tasks   *)
(* still to perform are those not performed, and those performed whose     *)
(* worker has not reached the count. So it reaches 0 once, at the end.     *)
CountIsExact ==
  node_lock = Nobody /\ run = 1 =>
    num_tasks_to_perform =
      Cardinality({t \in graph[1].node :
                     t \in performed[1] =>
                       \E w \in Threads : item[w] = Item(1, t) /\ pc[w] = "acquire"})

(* A run that goes on comes to an answer.                                  *)
RunsAreAnswered == InRun ~> main \in Answered

(* Once the last run is answered all worker threads leave process_tasks,   *)
(* so that the program can exit: they are not daemons, and nobody joins    *)
(* them.                                                                   *)
WorkersGoHome ==
  main \in Answered /\ run = MaxRuns ~> \A w \in Threads : pc[w] \in {"new", "exited"}

-----------------------------------------------------------------------------
(* The agent implements TaskGraph.                                         *)

PhaseOf(r, t) ==
  IF t \in performed[r] THEN "done"
  ELSE IF Item(r, t) \in aborted_tasks THEN "failed"
  ELSE IF \E w \in Threads : /\ item[w] = Item(r, t)
                             /\ pc[w] \in {"attempt", "try", "dead"}
                             /\ tries[w] > 0
       THEN "running" ELSE "waiting"

OutcomeOf == CASE main = "idle" -> "none"
               [] main = "returned" -> "ok"
               [] main = "raised" -> "failed"
               [] main = "error" -> "refused"
               [] OTHER -> "running"

TG == INSTANCE TaskGraph WITH
        Plans <- Graphs, plan <- graph, current <- run, outcome <- OutcomeOf,
        phase <- [r \in Runs |-> [t \in Tasks |-> PhaseOf(r, t)]]

(* Every behaviour of the agent, reruns, lost log files and late workers   *)
(* included, is one TaskGraph allows.                                      *)
ImplementsTaskGraph == TG!Spec

-----------------------------------------------------------------------------
(* "Tasks aborted causing config to abort" (core.py:297): a run raises     *)
(* only when a task of that run aborted. The code does not do this; a run  *)
(* of TLC shows how.                                                       *)
RaisedForItsOwnTasks ==
  main = "raised" => \E i \in aborted_tasks : i.run = run

=============================================================================

--------------------------- MODULE AgentInvariant ---------------------------
(***************************************************************************)
(* The inductive invariant of the execution agent: PredecessorsFirst and   *)
(* HandedOutOnce are not inductive, because they do not say why the count  *)
(* ins_traversed of a task can be trusted. IInv is proved invariant in     *)
(* module ExecutionAgentProofs. There GoingInv and Clean carry the proofs  *)
(* that no task is forgotten, that the count is exact, and that a normal   *)
(* return means that all was performed.                                    *)
(***************************************************************************)
EXTENDS AgentProperties

(* All in-edges of t have been counted, each by the worker of its source.  *)
AllCounted(r, t) == \A p \in Preds(graph[r], t) : <<p, t>> \in traversed[r]

(* Task t of run r has been put in the queue, and some trace of it is left *)
(* (none is when the item was dropped).                                    *)
Released(r, t) == \/ Queued(Item(r, t)) \/ Held(Item(r, t))
                  \/ t \in performed[r] \/ Item(r, t) \in aborted_tasks

Idle == {"new", "loop", "get", "exited"}

(* A worker has an item exactly while it is on it, the lock exactly while  *)
(* it counts and traverses, and successors to traverse only then.          *)
WorkerInv ==
  \A w \in Threads :
    /\ item[w] = NoItem <=> pc[w] \in Idle
    /\ node_lock = w <=> pc[w] \in Locked
    /\ pc[w] # "succ" => todo[w] = {}

CallerInv ==
  /\ main = "idle" <=> run = 0
  /\ main = "spawn" => spawned < NumThreads
  /\ main \in {"idle", "wait"} \cup Answered => initial = {}

ControlInv == TypeOK /\ WorkerInv /\ CallerInv

(* Nothing has happened in a run that has not begun.                       *)
FutureInv ==
  \A r \in Runs : r > run => /\ graph[r] = NoGraph
                             /\ performed[r] = {} /\ traversed[r] = {}

(* ins_traversed counts the traversed edges, and an edge is traversed only *)
(* after its source succeeded.                                             *)
EdgeInv ==
  \A r \in Runs :
    /\ traversed[r] \subseteq graph[r].edge
    /\ \A e \in traversed[r] : e[1] \in performed[r]
    /\ \A t \in Tasks : ins_traversed[r][t] =
                          Cardinality({p \in Preds(graph[r], t) : <<p, t>> \in traversed[r]})

(* A worker traverses each edge out of its task once.                      *)
TodoInv ==
  \A w \in Threads :
    /\ pc[w] \in {"acquire", "store", "test"} =>
         \A s \in Tasks : <<item[w].task, s>> \notin traversed[item[w].run]
    /\ \A s \in todo[w] : /\ <<item[w].task, s>> \in graph[item[w].run].edge
                          /\ <<item[w].task, s>> \notin traversed[item[w].run]

(* Where a released task is, and that it was released last of all.         *)
ReleaseInv ==
  \A r \in Runs, t \in Tasks : Released(r, t) =>
    /\ r <= run
    /\ t \in graph[r].node
    /\ AllCounted(r, t)

InitialInv ==
  \A t \in initial : /\ t \in graph[run].node
                     /\ Preds(graph[run], t) = {}
                     /\ ~Released(run, t)

QueueInv ==
  /\ \A j, k \in 1 .. Len(task_queue) : task_queue[j] = task_queue[k] => j = k
  /\ \A k \in 1 .. Len(task_queue) :
       /\ \A w \in Threads : item[w] # task_queue[k]
       /\ task_queue[k].task \notin performed[task_queue[k].run]
       /\ task_queue[k] \notin aborted_tasks

HeldInv ==
  \A w \in Threads :
    /\ \A x \in Threads : item[w] = item[x] /\ item[w] # NoItem => w = x
    /\ pc[w] \in Before => item[w].task \notin performed[item[w].run]
    /\ pc[w] \in After => item[w].task \in performed[item[w].run]
    /\ item[w] \in aborted_tasks => pc[w] = "attempt" /\ ~Retries(w)
    /\ pc[w] = "try" => tries[w] > 0
    /\ pc[w] = "attempt" /\ tries[w] > 0 /\ ~Retries(w) => item[w] \in aborted_tasks

IInv ==
  /\ ControlInv /\ FutureInv /\ EdgeInv /\ TodoInv
  /\ ReleaseInv /\ InitialInv /\ QueueInv /\ HeldInv

-----------------------------------------------------------------------------
(* Why no task is forgotten. Two things are not in IInv: a task that has   *)
(* all its edges counted is waiting or was performed, for who finds it so  *)
(* puts it in the queue; and an edge that is still to be counted, out of a *)
(* task that was performed, is one that the worker of that task has yet to *)
(* traverse. Before the flag is cleared no worker has met the new run.     *)
Untouched(r) ==
  /\ performed[r] = {}
  /\ \A k \in 1 .. Len(task_queue) : task_queue[k].run # r
  /\ \A w \in Threads : item[w] # NoItem => item[w].run # r

CountedWaits ==
  \A t \in graph[run].node :
    AllCounted(run, t) => t \in performed[run] \/ Pending(run, t)

Traverses(w, r, e) == /\ item[w] = Item(r, e[1]) /\ pc[w] \in After
                      /\ pc[w] = "succ" => e[2] \in todo[w]
EdgesWait ==
  \A e \in graph[run].edge \ traversed[run] :
    e[1] \in performed[run] => \E w \in Threads : Traverses(w, run, e)

GoingInv ==
  /\ main = "clear_stop" => Untouched(run) /\ initial = InitialTasks(graph[run])
  /\ InRun /\ ~stop => CountedWaits /\ EdgesWait

(* Why the count is exact, and a return means that all was performed. Left *)
(* are the tasks of the run that are not performed, or not counted yet.    *)
(* Clean is what holds where nothing was aborted, and no task is given up  *)
(* without an attempt: the flag is set by the worker that finds the count  *)
(* 0, and by nobody else; no worker has anything to do then but to         *)
(* traverse, and a later run meets none of this one that would still count.*)
Uncounted == {"acquire", "store"}
Left == {t \in graph[run].node :
           t \in performed[run] => \E w \in Threads : item[w] = Item(run, t) /\ pc[w] \in Uncounted}

Counts ==
  /\ num_tasks_to_perform = Cardinality(Left)
  /\ \A w \in Threads : pc[w] = "store" => count[w] = num_tasks_to_perform

OldRunsDone ==
  \A r \in Runs :
    r < run \/ ~InRun => Untouched(r) \/ graph[r].node \subseteq performed[r]

Counting == Uncounted \cup {"test", "finish"}
CountersWait ==
  \A w \in Threads : pc[w] \in Counting => item[w].run = run /\ InRun /\ ~stop

AllDone == (\E w \in Threads : pc[w] = "finish") \/ (InRun /\ stop) \/ main = "returned"

Clean ==
  /\ OldRunsDone /\ CountersWait
  /\ main # "raised" /\ (AllDone => Left = {})
  /\ run > 0 => Counts
=============================================================================

------------------------ MODULE ExecutionAgentProofs ------------------------
(***************************************************************************)
(* TypeOK is an invariant of the execution agent, for all threads, tasks,  *)
(* graphs and repeat counts. It is not inductive alone: what a worker does *)
(* with its item is typed only because it has one exactly while it is on   *)
(* it (WorkerInv), and the count of started workers stays in range only    *)
(* because the spawn loop is left in time (CallerInv). Their conjunction   *)
(* ControlInv is inductive; there is one lemma per action.                 *)
(*                                                                         *)
(* PredecessorsFirst, HandedOutOnce, NothingForgotten, CountIsExact and    *)
(* NormalReturn are invariants of the execution agent, and it implements   *)
(* TaskGraph, for all threads, tasks, graphs and repeat counts (but 0, in  *)
(* the last two), and any number of runs of the same agent.                *)
(*                                                                         *)
(* The argument: ins_traversed of a task counts the traversed edges into   *)
(* it (EdgeInv), each traversed once, by the one worker that has its       *)
(* source (TodoInv, HeldInv), after the source succeeded. So the count     *)
(* reaches the in-degree with the last edge only; before that the task was *)
(* not released (ReleaseInv), hence it is put in the queue once, with all  *)
(* predecessors performed. IInv is the conjunction, and is inductive.      *)
(*                                                                         *)
(* From IInv follow, with GoingInv, that no task is forgotten while a run  *)
(* goes on; with Counts, that the count of the first run is exact; and     *)
(* with Clean, that a normal return means that all tasks were performed.   *)
(***************************************************************************)
EXTENDS AgentInvariant, TLAPS, FiniteSetTheorems

(* A busy worker holds a queue item: process_tasks unpacks (graph, task).  *)
LEMMA ItemType ==
  ASSUME ControlInv, NEW w \in Threads, pc[w] \notin Idle
  PROVE  /\ item[w] \in Items /\ item[w].run \in Runs /\ item[w].task \in Tasks
         /\ item[w] = Item(item[w].run, item[w].task)
PROOF
<1>1. item[w] \in Items
  BY DEF ControlInv, TypeOK, WorkersOK, WorkerInv
<1> QED BY <1>1 DEF Items, Item

(* What is put in the queue is an item.                                    *)
LEMMA MakeItem ==
  ASSUME NEW r \in Runs, NEW t \in Tasks
  PROVE  [run |-> r, task |-> t] \in Items
PROOF BY DEF Items

(* The tasks of a graph, and the predecessors of a task, are finitely many.*)
LEMMA PredsFinite ==
  ASSUME NEW G \in Graphs \cup {NoGraph}, NEW t
  PROVE  IsFiniteSet(Preds(G, t)) /\ InDegree(G, t) \in Nat /\ Cardinality(G.node) \in Nat
PROOF
<1>1. IsFiniteSet(G.node)
  BY GraphAssumption, FS_EmptySet DEF NoGraph
<1>2. IsFiniteSet(Preds(G, t))
  BY <1>1, FS_Subset DEF Preds
<1> QED BY <1>1, <1>2, FS_CardinalityType DEF InDegree

-----------------------------------------------------------------------------

(* ControlInv is preserved when perform_config builds the next graph.      *)
LEMMA PerformConfigType ==
  ASSUME ControlInv, NEW G \in Graphs, PerformConfig(G)
  PROVE  ControlInv'
PROOF
<1> USE DEF ControlInv, TypeOK, PerformConfig
<1>1. run + 1 \in Runs /\ G.node \subseteq Tasks /\ Cardinality(G.node) \in Nat
  BY GraphAssumption, CountAssumption, PredsFinite DEF CallerOK, Runs
<1>2. WorkersOK'
  BY DEF WorkersOK, worker
<1>3. SharedOK'
  BY <1>1 DEF SharedOK
<1>4. GraphsOK'
  BY <1>1 DEF GraphsOK, graphs
<1>5. CallerOK'
  BY <1>1, CountAssumption DEF CallerOK, CallerInv, AllStarted, InitialTasks, Answered
<1>6. WorkerInv'
  BY <1>1, NullAssumption DEF SharedOK, WorkersOK, WorkerInv, Idle, Locked, shared, worker
<1>7. CallerInv'
  BY CountAssumption DEF CallerOK, CallerInv, Answered, AllStarted, caller
<1> QED BY <1>2, <1>3, <1>4, <1>5, <1>6, <1>7

(* ControlInv is preserved when perform_config lets an exception through.  *)
LEMMA FixArgumentsRaisesType ==
  ASSUME ControlInv, FixArgumentsRaises
  PROVE  ControlInv'
PROOF
<1> USE DEF ControlInv, TypeOK, FixArgumentsRaises
<1>1. SharedOK' /\ GraphsOK' /\ WorkersOK'
  BY DEF SharedOK, GraphsOK, WorkersOK, shared, graphs, worker
<1>2. CallerOK'
  BY CountAssumption DEF CallerOK, CallerInv, AllStarted, InitialTasks, Answered
<1>3. WorkerInv'
  BY NullAssumption DEF SharedOK, WorkersOK, WorkerInv, Idle, Locked, shared, worker
<1>4. CallerInv'
  BY CountAssumption DEF CallerOK, CallerInv, Answered, AllStarted, caller
<1> QED BY <1>1, <1>2, <1>3, <1>4

(* ControlInv is preserved when perform_config clears the flag.            *)
LEMMA ClearStopType ==
  ASSUME ControlInv, ClearStop
  PROVE  ControlInv'
PROOF
<1> USE DEF ControlInv, TypeOK, ClearStop
<1>1. GraphsOK' /\ WorkersOK'
  BY DEF GraphsOK, WorkersOK, graphs, worker
<1>2. SharedOK'
  BY DEF SharedOK
<1>3. CallerOK'
  BY CountAssumption DEF CallerOK, CallerInv, AllStarted, InitialTasks, Answered
<1>4. WorkerInv'
  BY NullAssumption DEF SharedOK, WorkersOK, WorkerInv, Idle, Locked, shared, worker
<1>5. CallerInv'
  BY CountAssumption DEF CallerOK, CallerInv, Answered, AllStarted, caller
<1> QED BY <1>1, <1>2, <1>3, <1>4, <1>5

(* ControlInv is preserved when perform_config starts a worker.            *)
LEMMA StartWorkerType ==
  ASSUME ControlInv, NEW w \in Threads, StartWorker(w)
  PROVE  ControlInv'
PROOF
<1> USE DEF ControlInv, TypeOK, StartWorker
<1>1. SharedOK' /\ GraphsOK'
  BY DEF SharedOK, GraphsOK, shared, graphs
<1>2. CallerOK'
  BY CountAssumption DEF CallerOK, CallerInv, AllStarted, InitialTasks, Answered
<1>3. WorkersOK'
  BY DEF WorkersOK, SharedOK, Before, After, Locked, WorkerPCs
<1>4. WorkerInv'
  BY NullAssumption DEF SharedOK, WorkersOK, WorkerInv, Idle, Locked, shared, worker
<1>5. CallerInv'
  BY CountAssumption DEF CallerOK, CallerInv, Answered, AllStarted, caller
<1> QED BY <1>1, <1>2, <1>3, <1>4, <1>5

(* ControlInv is preserved when perform_config queues an initial task.     *)
LEMMA QueueInitialTaskType ==
  ASSUME ControlInv, NEW t \in Tasks, QueueInitialTask(t)
  PROVE  ControlInv'
PROOF
<1> USE DEF ControlInv, TypeOK, QueueInitialTask
<1>1. [run |-> run, task |-> t] \in Items
  BY MakeItem, CountAssumption DEF CallerOK, CallerInv, Runs
<1>2. GraphsOK' /\ WorkersOK'
  BY DEF GraphsOK, WorkersOK, graphs, worker
<1>3. SharedOK'
  BY <1>1 DEF SharedOK
<1>4. CallerOK'
  BY <1>1, CountAssumption DEF CallerOK, CallerInv, AllStarted, InitialTasks, Answered
<1>5. WorkerInv'
  BY <1>1, NullAssumption DEF SharedOK, WorkersOK, WorkerInv, Idle, Locked, shared, worker
<1>6. CallerInv'
  BY CountAssumption DEF CallerOK, CallerInv, Answered, AllStarted, caller
<1> QED BY <1>2, <1>3, <1>4, <1>5, <1>6

(* ControlInv is preserved when perform_config starts to wait.             *)
LEMMA AllQueuedType ==
  ASSUME ControlInv, AllQueued
  PROVE  ControlInv'
PROOF
<1> USE DEF ControlInv, TypeOK, AllQueued
<1>1. SharedOK' /\ GraphsOK' /\ WorkersOK'
  BY DEF SharedOK, GraphsOK, WorkersOK, shared, graphs, worker
<1>2. CallerOK'
  BY CountAssumption DEF CallerOK, CallerInv, AllStarted, InitialTasks, Answered
<1>3. WorkerInv'
  BY NullAssumption DEF SharedOK, WorkersOK, WorkerInv, Idle, Locked, shared, worker
<1>4. CallerInv'
  BY CountAssumption DEF CallerOK, CallerInv, Answered, AllStarted, caller
<1> QED BY <1>1, <1>2, <1>3, <1>4

(* ControlInv is preserved when perform_config returns or raises.          *)
LEMMA AnswerType ==
  ASSUME ControlInv, Answer
  PROVE  ControlInv'
PROOF
<1> USE DEF ControlInv, TypeOK, Answer
<1>1. SharedOK' /\ GraphsOK' /\ WorkersOK'
  BY DEF SharedOK, GraphsOK, WorkersOK, shared, graphs, worker
<1>2. CallerOK'
  BY CountAssumption DEF CallerOK, CallerInv, AllStarted, InitialTasks, Answered
<1>3. WorkerInv'
  BY NullAssumption DEF SharedOK, WorkersOK, WorkerInv, Idle, Locked, shared, worker
<1>4. CallerInv'
  BY CountAssumption DEF CallerOK, CallerInv, Answered, AllStarted, caller
<1> QED BY <1>1, <1>2, <1>3, <1>4

(* ControlInv is preserved when the while of process_tasks.                *)
LEMMA TestStopType ==
  ASSUME ControlInv, NEW w \in Threads, TestStop(w)
  PROVE  ControlInv'
PROOF
<1> USE DEF ControlInv, TypeOK, TestStop, Goto
<1>1. SharedOK' /\ GraphsOK' /\ CallerOK'
  BY DEF SharedOK, GraphsOK, CallerOK, shared, graphs, caller
<1>2. WorkersOK'
  BY DEF WorkersOK, SharedOK, Before, After, Locked, WorkerPCs
<1>3. WorkerInv'
  BY NullAssumption DEF SharedOK, WorkersOK, WorkerInv, Idle, Locked, shared, worker
<1>4. CallerInv'
  BY CountAssumption DEF CallerOK, CallerInv, Answered, AllStarted, caller
<1> QED BY <1>1, <1>2, <1>3, <1>4

(* ControlInv is preserved when get() answers.                             *)
LEMMA GetTaskType ==
  ASSUME ControlInv, NEW w \in Threads, GetTask(w)
  PROVE  ControlInv'
PROOF
<1> USE DEF ControlInv, TypeOK, GetTask, Goto
<1>1. GraphsOK' /\ CallerOK'
  BY DEF GraphsOK, CallerOK, graphs, caller
<1>2. SharedOK'
  BY DEF SharedOK
<1>3. WorkersOK'
  BY DEF WorkersOK, SharedOK, Before, After, Locked, WorkerPCs
<1>4. WorkerInv'
  BY NullAssumption DEF SharedOK, WorkersOK, WorkerInv, Idle, Locked, shared, worker
<1>5. CallerInv'
  BY CountAssumption DEF CallerOK, CallerInv, Answered, AllStarted, caller
<1> QED BY <1>1, <1>2, <1>3, <1>4, <1>5

(* ControlInv is preserved when get() times out.                           *)
LEMMA GetTimesOutType ==
  ASSUME ControlInv, NEW w \in Threads, GetTimesOut(w)
  PROVE  ControlInv'
PROOF
<1> USE DEF ControlInv, TypeOK, GetTimesOut, Goto
<1>1. SharedOK' /\ GraphsOK' /\ CallerOK'
  BY DEF SharedOK, GraphsOK, CallerOK, shared, graphs, caller
<1>2. WorkersOK'
  BY DEF WorkersOK, SharedOK, Before, After, Locked, WorkerPCs
<1>3. WorkerInv'
  BY NullAssumption DEF SharedOK, WorkersOK, WorkerInv, Idle, Locked, shared, worker
<1>4. CallerInv'
  BY CountAssumption DEF CallerOK, CallerInv, Answered, AllStarted, caller
<1> QED BY <1>1, <1>2, <1>3, <1>4

(* ControlInv is preserved when an item is dropped.                        *)
LEMMA DropTaskType ==
  ASSUME ControlInv, NEW w \in Threads, DropTask(w)
  PROVE  ControlInv'
PROOF
<1> USE DEF ControlInv, TypeOK, DropTask, Goto, Leave
<1>1. item[w] \in Items /\ item[w].run \in Runs /\ item[w].task \in Tasks
  BY ItemType DEF Idle
<1>2. SharedOK' /\ GraphsOK' /\ CallerOK'
  BY DEF SharedOK, GraphsOK, CallerOK, shared, graphs, caller
<1>3. WorkersOK'
  BY <1>1 DEF WorkersOK, SharedOK, Before, After, Locked, WorkerPCs
<1>4. WorkerInv'
  BY <1>1, NullAssumption DEF SharedOK, WorkersOK, WorkerInv, Idle, Locked, shared, worker
<1>5. CallerInv'
  BY CountAssumption DEF CallerOK, CallerInv, Answered, AllStarted, caller
<1> QED BY <1>2, <1>3, <1>4, <1>5

(* ControlInv is preserved when perform_task begins.                       *)
LEMMA PerformTaskType ==
  ASSUME ControlInv, NEW w \in Threads, PerformTask(w)
  PROVE  ControlInv'
PROOF
<1> USE DEF ControlInv, TypeOK, PerformTask, Goto
<1>1. item[w] \in Items /\ item[w].run \in Runs /\ item[w].task \in Tasks
  BY ItemType DEF Idle
<1>2. SharedOK' /\ GraphsOK' /\ CallerOK'
  BY DEF SharedOK, GraphsOK, CallerOK, shared, graphs, caller
<1>3. WorkersOK'
  BY <1>1 DEF WorkersOK, SharedOK, Before, After, Locked, WorkerPCs
<1>4. WorkerInv'
  BY <1>1, NullAssumption DEF SharedOK, WorkersOK, WorkerInv, Idle, Locked, shared, worker
<1>5. CallerInv'
  BY CountAssumption DEF CallerOK, CallerInv, Answered, AllStarted, caller
<1> QED BY <1>2, <1>3, <1>4, <1>5

(* ControlInv is preserved when an attempt begins.                         *)
LEMMA BeginAttemptType ==
  ASSUME ControlInv, NEW w \in Threads, BeginAttempt(w)
  PROVE  ControlInv'
PROOF
<1> USE DEF ControlInv, TypeOK, BeginAttempt, Goto
<1>1. item[w] \in Items /\ item[w].run \in Runs /\ item[w].task \in Tasks
  BY ItemType DEF Idle
<1>2. SharedOK' /\ GraphsOK' /\ CallerOK'
  BY DEF SharedOK, GraphsOK, CallerOK, shared, graphs, caller
<1>3. WorkersOK'
  BY <1>1 DEF WorkersOK, SharedOK, Before, After, Locked, WorkerPCs
<1>4. WorkerInv'
  BY <1>1, NullAssumption DEF SharedOK, WorkersOK, WorkerInv, Idle, Locked, shared, worker
<1>5. CallerInv'
  BY CountAssumption DEF CallerOK, CallerInv, Answered, AllStarted, caller
<1> QED BY <1>2, <1>3, <1>4, <1>5

(* ControlInv is preserved when open() raises.                             *)
LEMMA OpenLogFailsType ==
  ASSUME ControlInv, NEW w \in Threads, OpenLogFails(w)
  PROVE  ControlInv'
PROOF
<1> USE DEF ControlInv, TypeOK, OpenLogFails, Goto
<1>1. item[w] \in Items /\ item[w].run \in Runs /\ item[w].task \in Tasks
  BY ItemType DEF Idle
<1>2. SharedOK' /\ GraphsOK' /\ CallerOK'
  BY DEF SharedOK, GraphsOK, CallerOK, shared, graphs, caller
<1>3. WorkersOK'
  BY <1>1 DEF WorkersOK, SharedOK, Before, After, Locked, WorkerPCs
<1>4. WorkerInv'
  BY <1>1, NullAssumption DEF SharedOK, WorkersOK, WorkerInv, Idle, Locked, shared, worker
<1>5. CallerInv'
  BY CountAssumption DEF CallerOK, CallerInv, Answered, AllStarted, caller
<1> QED BY <1>2, <1>3, <1>4, <1>5

(* ControlInv is preserved when _perform_task returns.                     *)
LEMMA TrySucceedsType ==
  ASSUME ControlInv, NEW w \in Threads, TrySucceeds(w)
  PROVE  ControlInv'
PROOF
<1> USE DEF ControlInv, TypeOK, TrySucceeds, Goto
<1>1. item[w] \in Items /\ item[w].run \in Runs /\ item[w].task \in Tasks
  BY ItemType DEF Idle
<1>2. SharedOK' /\ CallerOK'
  BY DEF SharedOK, CallerOK, shared, caller
<1>3. GraphsOK'
  BY <1>1 DEF GraphsOK, graphs
<1>4. WorkersOK'
  BY <1>1 DEF WorkersOK, SharedOK, Before, After, Locked, WorkerPCs
<1>5. WorkerInv'
  BY <1>1, NullAssumption DEF SharedOK, WorkersOK, WorkerInv, Idle, Locked, shared, worker
<1>6. CallerInv'
  BY CountAssumption DEF CallerOK, CallerInv, Answered, AllStarted, caller
<1> QED BY <1>2, <1>3, <1>4, <1>5, <1>6

(* ControlInv is preserved when _perform_task raises.                      *)
LEMMA TryFailsType ==
  ASSUME ControlInv, NEW w \in Threads, TryFails(w)
  PROVE  ControlInv'
PROOF
<1> USE DEF ControlInv, TypeOK, TryFails, Goto
<1>1. item[w] \in Items /\ item[w].run \in Runs /\ item[w].task \in Tasks
  BY ItemType DEF Idle
<1>2. GraphsOK' /\ CallerOK'
  BY DEF GraphsOK, CallerOK, graphs, caller
<1>3. SharedOK'
  BY <1>1 DEF SharedOK
<1>4. WorkersOK'
  BY <1>1 DEF WorkersOK, SharedOK, Before, After, Locked, WorkerPCs
<1>5. WorkerInv'
  BY <1>1, NullAssumption DEF SharedOK, WorkersOK, WorkerInv, Idle, Locked, shared, worker
<1>6. CallerInv'
  BY CountAssumption DEF CallerOK, CallerInv, Answered, AllStarted, caller
<1> QED BY <1>2, <1>3, <1>4, <1>5, <1>6

(* ControlInv is preserved when a worker gives up.                         *)
LEMMA AbortProcessTasksType ==
  ASSUME ControlInv, NEW w \in Threads, AbortProcessTasks(w)
  PROVE  ControlInv'
PROOF
<1> USE DEF ControlInv, TypeOK, AbortProcessTasks, Goto, Leave
<1>1. item[w] \in Items /\ item[w].run \in Runs /\ item[w].task \in Tasks
  BY ItemType DEF Idle
<1>2. GraphsOK' /\ CallerOK'
  BY DEF GraphsOK, CallerOK, graphs, caller
<1>3. SharedOK'
  BY <1>1 DEF SharedOK
<1>4. WorkersOK'
  BY <1>1 DEF WorkersOK, SharedOK, Before, After, Locked, WorkerPCs
<1>5. WorkerInv'
  BY <1>1, NullAssumption DEF SharedOK, WorkersOK, WorkerInv, Idle, Locked, shared, worker
<1>6. CallerInv'
  BY CountAssumption DEF CallerOK, CallerInv, Answered, AllStarted, caller
<1> QED BY <1>2, <1>3, <1>4, <1>5, <1>6

(* ControlInv is preserved when the lock and the count are read.           *)
LEMMA AcquireNodeLockType ==
  ASSUME ControlInv, NEW w \in Threads, AcquireNodeLock(w)
  PROVE  ControlInv'
PROOF
<1> USE DEF ControlInv, TypeOK, AcquireNodeLock, Goto
<1>1. item[w] \in Items /\ item[w].run \in Runs /\ item[w].task \in Tasks
  BY ItemType DEF Idle
<1>2. GraphsOK' /\ CallerOK'
  BY DEF GraphsOK, CallerOK, graphs, caller
<1>3. SharedOK'
  BY <1>1 DEF SharedOK
<1>4. WorkersOK'
  BY <1>1 DEF WorkersOK, SharedOK, Before, After, Locked, WorkerPCs
<1>5. WorkerInv'
  BY <1>1, NullAssumption DEF SharedOK, WorkersOK, WorkerInv, Idle, Locked, LockFree, shared, worker
<1>6. CallerInv'
  BY CountAssumption DEF CallerOK, CallerInv, Answered, AllStarted, caller
<1> QED BY <1>2, <1>3, <1>4, <1>5, <1>6

(* ControlInv is preserved when the count is written.                      *)
LEMMA StoreCountType ==
  ASSUME ControlInv, NEW w \in Threads, StoreCount(w)
  PROVE  ControlInv'
PROOF
<1> USE DEF ControlInv, TypeOK, StoreCount, Goto
<1>1. item[w] \in Items /\ item[w].run \in Runs /\ item[w].task \in Tasks
  BY ItemType DEF Idle
<1>2. GraphsOK' /\ CallerOK'
  BY DEF GraphsOK, CallerOK, graphs, caller
<1>3. SharedOK'
  BY <1>1 DEF SharedOK
<1>4. WorkersOK'
  BY <1>1 DEF WorkersOK, SharedOK, Before, After, Locked, WorkerPCs
<1>5. WorkerInv'
  BY <1>1, NullAssumption DEF SharedOK, WorkersOK, WorkerInv, Idle, Locked, shared, worker
<1>6. CallerInv'
  BY CountAssumption DEF CallerOK, CallerInv, Answered, AllStarted, caller
<1> QED BY <1>2, <1>3, <1>4, <1>5, <1>6

(* ControlInv is preserved when the count is tested.                       *)
LEMMA TestCountType ==
  ASSUME ControlInv, NEW w \in Threads, TestCount(w)
  PROVE  ControlInv'
PROOF
<1> USE DEF ControlInv, TypeOK, TestCount, Goto
<1>1. item[w] \in Items /\ item[w].run \in Runs /\ item[w].task \in Tasks
  BY ItemType DEF Idle
<1>2. Successors(graph[item[w].run], item[w].task) \subseteq Tasks
  <2>1. graph[item[w].run] \in Graphs \cup {NoGraph}
    BY <1>1 DEF GraphsOK
  <2>2. graph[item[w].run].node \subseteq Tasks
    BY <2>1, GraphAssumption DEF NoGraph
  <2> QED BY <2>2 DEF Successors
<1>3. SharedOK' /\ GraphsOK' /\ CallerOK'
  BY DEF SharedOK, GraphsOK, CallerOK, shared, graphs, caller
<1>4. WorkersOK'
  BY <1>1, <1>2 DEF WorkersOK, SharedOK, Before, After, Locked, WorkerPCs
<1>5. WorkerInv'
  BY <1>1, <1>2, NullAssumption DEF SharedOK, WorkersOK, WorkerInv, Idle, Locked, shared, worker
<1>6. CallerInv'
  BY CountAssumption DEF CallerOK, CallerInv, Answered, AllStarted, caller
<1> QED BY <1>3, <1>4, <1>5, <1>6

(* ControlInv is preserved when the last task is done.                     *)
LEMMA FinishType ==
  ASSUME ControlInv, NEW w \in Threads, Finish(w)
  PROVE  ControlInv'
PROOF
<1> USE DEF ControlInv, TypeOK, Finish, Goto
<1>1. item[w] \in Items /\ item[w].run \in Runs /\ item[w].task \in Tasks
  BY ItemType DEF Idle
<1>2. GraphsOK' /\ CallerOK'
  BY DEF GraphsOK, CallerOK, graphs, caller
<1>3. SharedOK'
  BY <1>1 DEF SharedOK
<1>4. WorkersOK'
  BY <1>1 DEF WorkersOK, SharedOK, Before, After, Locked, WorkerPCs
<1>5. WorkerInv'
  BY <1>1, NullAssumption DEF SharedOK, WorkersOK, WorkerInv, Idle, Locked, shared, worker
<1>6. CallerInv'
  BY CountAssumption DEF CallerOK, CallerInv, Answered, AllStarted, caller
<1> QED BY <1>2, <1>3, <1>4, <1>5, <1>6

(* ControlInv is preserved when an edge is traversed.                      *)
LEMMA TraverseSuccessorType ==
  ASSUME ControlInv, NEW w \in Threads, NEW s \in Tasks, TraverseSuccessor(w, s)
  PROVE  ControlInv'
PROOF
<1> USE DEF ControlInv, TypeOK, TraverseSuccessor
<1>1. item[w] \in Items /\ item[w].run \in Runs /\ item[w].task \in Tasks
  BY ItemType DEF Idle
<1>2. [run |-> item[w].run, task |-> s] \in Items
  BY MakeItem, <1>1
<1>3. CallerOK'
  BY DEF CallerOK, caller
<1>4. SharedOK'
  BY <1>1, <1>2 DEF SharedOK
<1>5. GraphsOK'
  BY <1>1, <1>2 DEF GraphsOK, graphs
<1>6. WorkersOK'
  BY <1>1, <1>2 DEF WorkersOK, SharedOK, Before, After, Locked, WorkerPCs
<1>7. WorkerInv'
  BY <1>1, <1>2, NullAssumption DEF SharedOK, WorkersOK, WorkerInv, Idle, Locked, shared, worker
<1>8. CallerInv'
  BY CountAssumption DEF CallerOK, CallerInv, Answered, AllStarted, caller
<1> QED BY <1>3, <1>4, <1>5, <1>6, <1>7, <1>8

(* ControlInv is preserved when the lock is released.                      *)
LEMMA ReleaseNodeLockType ==
  ASSUME ControlInv, NEW w \in Threads, ReleaseNodeLock(w)
  PROVE  ControlInv'
PROOF
<1> USE DEF ControlInv, TypeOK, ReleaseNodeLock, Goto, Leave
<1>1. item[w] \in Items /\ item[w].run \in Runs /\ item[w].task \in Tasks
  BY ItemType DEF Idle
<1>2. GraphsOK' /\ CallerOK'
  BY DEF GraphsOK, CallerOK, graphs, caller
<1>3. SharedOK'
  BY <1>1 DEF SharedOK
<1>4. WorkersOK'
  BY <1>1 DEF WorkersOK, SharedOK, Before, After, Locked, WorkerPCs
<1>5. WorkerInv'
  BY <1>1, NullAssumption DEF SharedOK, WorkersOK, WorkerInv, Idle, Locked, shared, worker
<1>6. CallerInv'
  BY CountAssumption DEF CallerOK, CallerInv, Answered, AllStarted, caller
<1> QED BY <1>2, <1>3, <1>4, <1>5, <1>6

-----------------------------------------------------------------------------
(* Nothing changes in a stuttering step.                                   *)
LEMMA ControlStutters ==
  ASSUME ControlInv, UNCHANGED vars
  PROVE  ControlInv'
PROOF
<1> USE DEF vars, shared, graphs, caller, worker
<1>1. TypeOK'
  BY DEF ControlInv, TypeOK, SharedOK, GraphsOK, CallerOK, WorkersOK
<1>2. WorkerInv' /\ CallerInv'
  BY DEF ControlInv, WorkerInv, CallerInv
<1> QED BY <1>1, <1>2 DEF ControlInv

(* Control starts out as it should: no worker, no call.                    *)
LEMMA ControlInit ==
  ASSUME Init
  PROVE  ControlInv
PROOF
<1> USE DEF Init
<1>1. SharedOK
  <2>1. task_queue \in Seq(Items) /\ num_tasks_to_perform \in Int
    OBVIOUS
  <2>2. stop \in BOOLEAN /\ node_lock \in Threads \cup {Nobody} /\ aborted_tasks \in SUBSET Items
    OBVIOUS
  <2> QED BY <2>1, <2>2 DEF SharedOK
<1>2. GraphsOK
  BY DEF GraphsOK
<1>3. CallerOK
  BY CountAssumption DEF CallerOK, Answered
<1>4. WorkersOK
  BY DEF WorkersOK, WorkerPCs
<1>5. WorkerInv
  BY NullAssumption DEF WorkerInv, Idle, Locked
<1>6. CallerInv
  BY DEF CallerInv, Answered
<1> QED BY <1>1, <1>2, <1>3, <1>4, <1>5, <1>6 DEF ControlInv, TypeOK

(* Every step of the agent preserves ControlInv.                           *)
LEMMA ControlStep ==
  ASSUME ControlInv, [Next]_vars
  PROVE  ControlInv'
PROOF
<1>1. CASE UNCHANGED vars
  BY <1>1, ControlStutters
<1>2. CASE Next
  <2>1. ASSUME NEW G \in Graphs, PerformConfig(G) PROVE ControlInv'
    BY <2>1, PerformConfigType
  <2>2. CASE FixArgumentsRaises
    BY <2>2, FixArgumentsRaisesType
  <2>3. CASE ClearStop
    BY <2>3, ClearStopType
  <2>4. ASSUME NEW w \in Threads, StartWorker(w) PROVE ControlInv'
    BY <2>4, StartWorkerType
  <2>5. ASSUME NEW t \in Tasks, QueueInitialTask(t) PROVE ControlInv'
    BY <2>5, QueueInitialTaskType
  <2>6. CASE AllQueued
    BY <2>6, AllQueuedType
  <2>7. CASE Answer
    BY <2>7, AnswerType
  <2>8. ASSUME NEW w \in Threads, TestStop(w) PROVE ControlInv'
    BY <2>8, TestStopType
  <2>9. ASSUME NEW w \in Threads, GetTask(w) PROVE ControlInv'
    BY <2>9, GetTaskType
  <2>10. ASSUME NEW w \in Threads, GetTimesOut(w) PROVE ControlInv'
    BY <2>10, GetTimesOutType
  <2>11. ASSUME NEW w \in Threads, DropTask(w) PROVE ControlInv'
    BY <2>11, DropTaskType
  <2>12. ASSUME NEW w \in Threads, PerformTask(w) PROVE ControlInv'
    BY <2>12, PerformTaskType
  <2>13. ASSUME NEW w \in Threads, BeginAttempt(w) PROVE ControlInv'
    BY <2>13, BeginAttemptType
  <2>14. ASSUME NEW w \in Threads, OpenLogFails(w) PROVE ControlInv'
    BY <2>14, OpenLogFailsType
  <2>15. ASSUME NEW w \in Threads, TrySucceeds(w) PROVE ControlInv'
    BY <2>15, TrySucceedsType
  <2>16. ASSUME NEW w \in Threads, TryFails(w) PROVE ControlInv'
    BY <2>16, TryFailsType
  <2>17. ASSUME NEW w \in Threads, AbortProcessTasks(w) PROVE ControlInv'
    BY <2>17, AbortProcessTasksType
  <2>18. ASSUME NEW w \in Threads, AcquireNodeLock(w) PROVE ControlInv'
    BY <2>18, AcquireNodeLockType
  <2>19. ASSUME NEW w \in Threads, StoreCount(w) PROVE ControlInv'
    BY <2>19, StoreCountType
  <2>20. ASSUME NEW w \in Threads, TestCount(w) PROVE ControlInv'
    BY <2>20, TestCountType
  <2>21. ASSUME NEW w \in Threads, Finish(w) PROVE ControlInv'
    BY <2>21, FinishType
  <2>22. ASSUME NEW w \in Threads, NEW s \in Tasks, TraverseSuccessor(w, s) PROVE ControlInv'
    BY <2>22, TraverseSuccessorType
  <2>23. ASSUME NEW w \in Threads, ReleaseNodeLock(w) PROVE ControlInv'
    BY <2>23, ReleaseNodeLockType
  <2> QED BY <1>2, <2>1, <2>2, <2>3, <2>4, <2>5, <2>6, <2>7, <2>8, <2>9, <2>10,
         <2>11, <2>12, <2>13, <2>14, <2>15, <2>16, <2>17, <2>18, <2>19,
         <2>20, <2>21, <2>22, <2>23 DEF Next, Caller, Worker
<1> QED BY <1>1, <1>2

(* The state of the agent is well typed in every reachable state, and the  *)
(* lock, the items and the phase of perform_config fit together.           *)
THEOREM TypeCorrect == Spec => []TypeOK
PROOF
<1>1. Init => ControlInv
  BY ControlInit
<1>2. ControlInv /\ [Next]_vars => ControlInv'
  BY ControlStep
<1>3. ControlInv => TypeOK
  BY DEF ControlInv
<1> QED BY <1>1, <1>2, <1>3, PTL DEF Spec

-----------------------------------------------------------------------------
(* The parts of IInv about the graphs and the queue.                       *)
DataInv == FutureInv /\ EdgeInv /\ ReleaseInv /\ InitialInv /\ QueueInv

(* The task a busy worker holds was released, in a run that has begun.     *)
LEMMA HeldIsReleased ==
  ASSUME IInv, NEW w \in Threads, pc[w] \notin Idle
  PROVE  /\ Released(item[w].run, item[w].task)
         /\ item[w].run <= run
         /\ item[w].task \in graph[item[w].run].node
PROOF
<1>1. Released(item[w].run, item[w].task)
  BY ItemType DEF IInv, Released, Held
<1> QED BY <1>1, ItemType DEF IInv, ReleaseInv

(* Nothing becomes released when workers only let go of their items.       *)
LEMMA NothingReleased ==
  ASSUME NEW r \in Runs, NEW t \in Tasks, Released(r, t)',
         UNCHANGED <<task_queue, performed, aborted_tasks>>,
         \A w \in Threads : item'[w] \in {item[w], NoItem}
  PROVE  Released(r, t)
PROOF
<1>1. Item(r, t) # NoItem
  BY NullAssumption DEF Item, Items
<1> QED BY <1>1 DEF Released, Queued, Held, Item

(* A step that leaves the graphs and the queue alone keeps DataInv.        *)
LEMMA Frame ==
  ASSUME ControlInv, DataInv,
         UNCHANGED <<graphs, performed, task_queue, aborted_tasks, run>>,
         initial' \subseteq initial,
         \A w \in Threads : item'[w] \in {item[w], NoItem}
  PROVE  DataInv'
PROOF
<1> USE DEF graphs
<1>1. FutureInv'
  BY DEF DataInv, FutureInv
<1>2. EdgeInv'
  <2>1. ASSUME NEW r, NEW t PROVE Preds(graph[r], t)' = Preds(graph[r], t)
    BY DEF Preds
  <2> QED BY <2>1 DEF DataInv, EdgeInv
<1>3. ReleaseInv'
  <2>1. ASSUME NEW r, NEW t, AllCounted(r, t) PROVE AllCounted(r, t)'
    BY <2>1 DEF AllCounted, Preds
  <2> QED BY <2>1, NothingReleased DEF DataInv, ReleaseInv
<1>4. InitialInv'
  <2>1. SUFFICES ASSUME NEW t \in initial'
                 PROVE  /\ t \in graph[run].node
                        /\ Preds(graph[run], t)' = {}
                        /\ ~Released(run, t)'
    BY DEF InitialInv
  <2>2. run \in Runs /\ t \in Tasks
    BY DEF ControlInv, TypeOK, CallerOK, CallerInv, Runs
  <2> QED BY <2>2, NothingReleased DEF DataInv, InitialInv, Preds
<1>5. QueueInv'
  <2>1. \A k \in 1 .. Len(task_queue) : task_queue[k] # NoItem
    BY NullAssumption DEF ControlInv, TypeOK, SharedOK
  <2> QED BY <2>1 DEF DataInv, QueueInv
<1> QED BY <1>1, <1>2, <1>3, <1>4, <1>5 DEF DataInv

-----------------------------------------------------------------------------
(* The actions that leave the graphs and the queue alone.                  *)

(* perform_config lets an exception through.                               *)
LEMMA FixArgumentsRaisesStep ==
  ASSUME IInv, ControlInv', FixArgumentsRaises
  PROVE  IInv'
PROOF
<1> USE DEF IInv, FixArgumentsRaises, shared, graphs, caller, worker
<1>1. \A x \in Threads : item'[x] \in {item[x], NoItem}
  OBVIOUS
<1>2. DataInv'
  BY <1>1, Frame DEF DataInv
<1>3. TodoInv'
  BY DEF TodoInv
<1>4. HeldInv'
  BY DEF HeldInv, Retries
<1> QED BY <1>2, <1>3, <1>4 DEF DataInv

(* perform_config clears the flag.                                         *)
LEMMA ClearStopStep ==
  ASSUME IInv, ControlInv', ClearStop
  PROVE  IInv'
PROOF
<1> USE DEF IInv, ClearStop, shared, graphs, caller, worker
<1>1. \A x \in Threads : item'[x] \in {item[x], NoItem}
  OBVIOUS
<1>2. DataInv'
  BY <1>1, Frame DEF DataInv
<1>3. TodoInv'
  BY DEF TodoInv
<1>4. HeldInv'
  BY DEF HeldInv, Retries
<1> QED BY <1>2, <1>3, <1>4 DEF DataInv

(* perform_config starts a worker.                                         *)
LEMMA StartWorkerStep ==
  ASSUME IInv, ControlInv', NEW w \in Threads, StartWorker(w)
  PROVE  IInv'
PROOF
<1> USE DEF IInv, StartWorker, shared, graphs, caller, worker
<1>1. \A x \in Threads : item'[x] \in {item[x], NoItem}
  OBVIOUS
<1>2. DataInv'
  BY <1>1, Frame DEF DataInv
<1>3. TodoInv'
  BY DEF ControlInv, TypeOK, WorkersOK, WorkerInv, TodoInv
<1>4. HeldInv'
  BY NullAssumption DEF ControlInv, TypeOK, SharedOK, WorkersOK, WorkerInv, HeldInv,
    Before, After, Locked, Retries, Idle
<1> QED BY <1>2, <1>3, <1>4 DEF DataInv

(* perform_config starts to wait.                                          *)
LEMMA AllQueuedStep ==
  ASSUME IInv, ControlInv', AllQueued
  PROVE  IInv'
PROOF
<1> USE DEF IInv, AllQueued, shared, graphs, caller, worker
<1>1. \A x \in Threads : item'[x] \in {item[x], NoItem}
  OBVIOUS
<1>2. DataInv'
  BY <1>1, Frame DEF DataInv
<1>3. TodoInv'
  BY DEF TodoInv
<1>4. HeldInv'
  BY DEF HeldInv, Retries
<1> QED BY <1>2, <1>3, <1>4 DEF DataInv

(* perform_config returns or raises.                                       *)
LEMMA AnswerStep ==
  ASSUME IInv, ControlInv', Answer
  PROVE  IInv'
PROOF
<1> USE DEF IInv, Answer, shared, graphs, caller, worker
<1>1. \A x \in Threads : item'[x] \in {item[x], NoItem}
  OBVIOUS
<1>2. DataInv'
  BY <1>1, Frame DEF DataInv
<1>3. TodoInv'
  BY DEF TodoInv
<1>4. HeldInv'
  BY DEF HeldInv, Retries
<1> QED BY <1>2, <1>3, <1>4 DEF DataInv

(* The while of process_tasks.                                             *)
LEMMA TestStopStep ==
  ASSUME IInv, ControlInv', NEW w \in Threads, TestStop(w)
  PROVE  IInv'
PROOF
<1> USE DEF IInv, TestStop, Goto, shared, graphs, caller, worker
<1>1. \A x \in Threads : item'[x] \in {item[x], NoItem}
  OBVIOUS
<1>2. DataInv'
  BY <1>1, Frame DEF DataInv
<1>3. TodoInv'
  BY DEF ControlInv, TypeOK, WorkersOK, WorkerInv, TodoInv
<1>4. HeldInv'
  BY NullAssumption DEF ControlInv, TypeOK, SharedOK, WorkersOK, WorkerInv, HeldInv,
    Before, After, Locked, Retries, Idle
<1> QED BY <1>2, <1>3, <1>4 DEF DataInv

(* get() times out.                                                        *)
LEMMA GetTimesOutStep ==
  ASSUME IInv, ControlInv', NEW w \in Threads, GetTimesOut(w)
  PROVE  IInv'
PROOF
<1> USE DEF IInv, GetTimesOut, Goto, shared, graphs, caller, worker
<1>1. \A x \in Threads : item'[x] \in {item[x], NoItem}
  OBVIOUS
<1>2. DataInv'
  BY <1>1, Frame DEF DataInv
<1>3. TodoInv'
  BY DEF ControlInv, TypeOK, WorkersOK, WorkerInv, TodoInv
<1>4. HeldInv'
  BY NullAssumption DEF ControlInv, TypeOK, SharedOK, WorkersOK, WorkerInv, HeldInv,
    Before, After, Locked, Retries, Idle
<1> QED BY <1>2, <1>3, <1>4 DEF DataInv

(* An item is dropped.                                                     *)
LEMMA DropTaskStep ==
  ASSUME IInv, ControlInv', NEW w \in Threads, DropTask(w)
  PROVE  IInv'
PROOF
<1> USE DEF IInv, DropTask, Goto, Leave, shared, graphs, caller, worker
<1>1. \A x \in Threads : item'[x] \in {item[x], NoItem}
  BY DEF ControlInv, TypeOK, WorkersOK
<1>2. DataInv'
  BY <1>1, Frame DEF DataInv
<1>3. TodoInv'
  BY DEF ControlInv, TypeOK, WorkersOK, WorkerInv, TodoInv
<1>4. HeldInv'
  <2>1. NoItem \notin aborted_tasks
    BY NullAssumption DEF ControlInv, TypeOK, SharedOK
  <2> QED BY <2>1 DEF ControlInv, TypeOK, WorkersOK, HeldInv, Before, After, Locked, Retries
<1> QED BY <1>2, <1>3, <1>4 DEF DataInv

(* perform_task begins.                                                    *)
LEMMA PerformTaskStep ==
  ASSUME IInv, ControlInv', NEW w \in Threads, PerformTask(w)
  PROVE  IInv'
PROOF
<1> USE DEF IInv, PerformTask, Goto, shared, graphs, caller, worker
<1>1. \A x \in Threads : item'[x] \in {item[x], NoItem}
  OBVIOUS
<1>2. DataInv'
  BY <1>1, Frame DEF DataInv
<1>3. TodoInv'
  BY DEF ControlInv, TypeOK, WorkersOK, WorkerInv, TodoInv
<1>4. HeldInv'
  BY NullAssumption DEF ControlInv, TypeOK, SharedOK, WorkersOK, WorkerInv, HeldInv,
    Before, After, Locked, Retries, Idle
<1> QED BY <1>2, <1>3, <1>4 DEF DataInv

(* An attempt begins.                                                      *)
LEMMA BeginAttemptStep ==
  ASSUME IInv, ControlInv', NEW w \in Threads, BeginAttempt(w)
  PROVE  IInv'
PROOF
<1> USE DEF IInv, BeginAttempt, Goto, shared, graphs, caller, worker
<1>1. \A x \in Threads : item'[x] \in {item[x], NoItem}
  OBVIOUS
<1>2. DataInv'
  BY <1>1, Frame DEF DataInv
<1>3. TodoInv'
  BY DEF ControlInv, TypeOK, WorkersOK, WorkerInv, TodoInv
<1>4. HeldInv'
  BY NullAssumption DEF ControlInv, TypeOK, SharedOK, WorkersOK, WorkerInv, HeldInv,
    Before, After, Locked, Retries, Idle
<1> QED BY <1>2, <1>3, <1>4 DEF DataInv

(* open() raises.                                                          *)
LEMMA OpenLogFailsStep ==
  ASSUME IInv, ControlInv', NEW w \in Threads, OpenLogFails(w)
  PROVE  IInv'
PROOF
<1> USE DEF IInv, OpenLogFails, Goto, shared, graphs, caller, worker
<1>1. \A x \in Threads : item'[x] \in {item[x], NoItem}
  OBVIOUS
<1>2. DataInv'
  BY <1>1, Frame DEF DataInv
<1>3. TodoInv'
  BY DEF ControlInv, TypeOK, WorkersOK, WorkerInv, TodoInv
<1>4. HeldInv'
  BY NullAssumption DEF ControlInv, TypeOK, SharedOK, WorkersOK, WorkerInv, HeldInv,
    Before, After, Locked, Retries, Idle
<1> QED BY <1>2, <1>3, <1>4 DEF DataInv

(* A worker gives up.                                                      *)
LEMMA AbortProcessTasksStep ==
  ASSUME IInv, ControlInv', NEW w \in Threads, AbortProcessTasks(w)
  PROVE  IInv'
PROOF
<1> USE DEF IInv, AbortProcessTasks, Goto, Leave, shared, graphs, caller, worker
<1>1. \A x \in Threads : item'[x] \in {item[x], NoItem}
  BY DEF ControlInv, TypeOK, WorkersOK
<1>2. DataInv'
  BY <1>1, Frame DEF DataInv
<1>3. TodoInv'
  BY DEF ControlInv, TypeOK, WorkersOK, WorkerInv, TodoInv
<1>4. HeldInv'
  <2>1. NoItem \notin aborted_tasks
    BY NullAssumption DEF ControlInv, TypeOK, SharedOK
  <2> QED BY <2>1 DEF ControlInv, TypeOK, WorkersOK, HeldInv, Before, After, Locked, Retries
<1> QED BY <1>2, <1>3, <1>4 DEF DataInv

(* The lock and the count are read.                                        *)
LEMMA AcquireNodeLockStep ==
  ASSUME IInv, ControlInv', NEW w \in Threads, AcquireNodeLock(w)
  PROVE  IInv'
PROOF
<1> USE DEF IInv, AcquireNodeLock, Goto, shared, graphs, caller, worker
<1>1. \A x \in Threads : item'[x] \in {item[x], NoItem}
  OBVIOUS
<1>2. DataInv'
  BY <1>1, Frame DEF DataInv
<1>3. TodoInv'
  BY DEF ControlInv, TypeOK, WorkersOK, WorkerInv, TodoInv
<1>4. HeldInv'
  BY NullAssumption DEF ControlInv, TypeOK, SharedOK, WorkersOK, WorkerInv, HeldInv,
    Before, After, Locked, Retries, Idle
<1> QED BY <1>2, <1>3, <1>4 DEF DataInv

(* The count is written.                                                   *)
LEMMA StoreCountStep ==
  ASSUME IInv, ControlInv', NEW w \in Threads, StoreCount(w)
  PROVE  IInv'
PROOF
<1> USE DEF IInv, StoreCount, Goto, shared, graphs, caller, worker
<1>1. \A x \in Threads : item'[x] \in {item[x], NoItem}
  OBVIOUS
<1>2. DataInv'
  BY <1>1, Frame DEF DataInv
<1>3. TodoInv'
  BY DEF ControlInv, TypeOK, WorkersOK, WorkerInv, TodoInv
<1>4. HeldInv'
  BY NullAssumption DEF ControlInv, TypeOK, SharedOK, WorkersOK, WorkerInv, HeldInv,
    Before, After, Locked, Retries, Idle
<1> QED BY <1>2, <1>3, <1>4 DEF DataInv

(* The count is tested.                                                    *)
LEMMA TestCountStep ==
  ASSUME IInv, ControlInv', NEW w \in Threads, TestCount(w)
  PROVE  IInv'
PROOF
<1> USE DEF IInv, TestCount, Goto, shared, graphs, caller, worker
<1>1. \A x \in Threads : item'[x] \in {item[x], NoItem}
  OBVIOUS
<1>2. DataInv'
  BY <1>1, Frame DEF DataInv
<1>3. TodoInv'
  <2>1. /\ \A x \in Threads : x # w => todo'[x] = todo[x] /\ pc'[x] = pc[x]
        /\ pc'[w] \in {"finish", "succ"}
        /\ todo'[w] \subseteq Successors(graph[item[w].run], item[w].task)
    BY DEF ControlInv, TypeOK, WorkersOK
  <2>2. \A s \in todo'[w] : s \in Tasks /\ <<item[w].task, s>> \in graph[item[w].run].edge
    BY <2>1 DEF Successors, ControlInv, TypeOK, WorkersOK
  <2> QED BY <2>1, <2>2 DEF TodoInv
<1>4. HeldInv'
  BY NullAssumption DEF ControlInv, TypeOK, SharedOK, WorkersOK, WorkerInv, HeldInv,
    Before, After, Locked, Retries, Idle
<1> QED BY <1>2, <1>3, <1>4 DEF DataInv

(* The last task is done.                                                  *)
LEMMA FinishStep ==
  ASSUME IInv, ControlInv', NEW w \in Threads, Finish(w)
  PROVE  IInv'
PROOF
<1> USE DEF IInv, Finish, Goto, shared, graphs, caller, worker
<1>1. \A x \in Threads : item'[x] \in {item[x], NoItem}
  OBVIOUS
<1>2. DataInv'
  BY <1>1, Frame DEF DataInv
<1>3. TodoInv'
  BY DEF ControlInv, TypeOK, WorkersOK, WorkerInv, TodoInv
<1>4. HeldInv'
  BY NullAssumption DEF ControlInv, TypeOK, SharedOK, WorkersOK, WorkerInv, HeldInv,
    Before, After, Locked, Retries, Idle
<1> QED BY <1>2, <1>3, <1>4 DEF DataInv

(* The lock is released.                                                   *)
LEMMA ReleaseNodeLockStep ==
  ASSUME IInv, ControlInv', NEW w \in Threads, ReleaseNodeLock(w)
  PROVE  IInv'
PROOF
<1> USE DEF IInv, ReleaseNodeLock, Goto, Leave, shared, graphs, caller, worker
<1>1. \A x \in Threads : item'[x] \in {item[x], NoItem}
  BY DEF ControlInv, TypeOK, WorkersOK
<1>2. DataInv'
  BY <1>1, Frame DEF DataInv
<1>3. TodoInv'
  BY DEF ControlInv, TypeOK, WorkersOK, WorkerInv, TodoInv
<1>4. HeldInv'
  <2>1. NoItem \notin aborted_tasks
    BY NullAssumption DEF ControlInv, TypeOK, SharedOK
  <2> QED BY <2>1 DEF ControlInv, TypeOK, WorkersOK, HeldInv, Before, After, Locked, Retries
<1> QED BY <1>2, <1>3, <1>4 DEF DataInv

-----------------------------------------------------------------------------
(* The actions that build a graph, move items or record what happened.     *)

(* perform_config builds the next graph.                                   *)
LEMMA PerformConfigStep ==
  ASSUME IInv, ControlInv', NEW G \in Graphs, PerformConfig(G)
  PROVE  IInv'
PROOF
<1> USE DEF IInv, PerformConfig, worker
<1>1. /\ run \in Nat /\ run + 1 \in Runs
      /\ graph'[run + 1] = G
      /\ \A r \in Runs : r # run + 1 => graph'[r] = graph[r]
  BY CountAssumption DEF ControlInv, TypeOK, CallerOK, GraphsOK, Runs
<1>2. FutureInv'
  BY <1>1 DEF FutureInv, Runs
<1>3. traversed[run + 1] = {} /\ performed[run + 1] = {} /\ graph[run + 1] = NoGraph
  BY <1>1 DEF FutureInv
<1>4. EdgeInv'
  <2>1. SUFFICES ASSUME NEW r \in Runs PROVE
          /\ traversed[r] \subseteq graph'[r].edge
          /\ \A e \in traversed[r] : e[1] \in performed[r]
          /\ \A t \in Tasks : ins_traversed[r][t] =
               Cardinality({p \in Preds(graph'[r], t) : <<p, t>> \in traversed[r]})
    BY DEF EdgeInv
  <2>2. CASE r = run + 1
    <3>1. \A t : {p \in Preds(graph'[r], t) : <<p, t>> \in traversed[r]} = {}
      BY <1>3, <2>2
    <3>2. \A t : {p \in Preds(graph[r], t) : <<p, t>> \in traversed[r]} = {}
      BY <1>3, <2>2
    <3> QED BY <1>3, <2>2, <3>1, <3>2 DEF EdgeInv
  <2>3. CASE r # run + 1
    BY <1>1, <2>3 DEF EdgeInv
  <2> QED BY <2>2, <2>3
<1>5. TodoInv'
  <2>1. ASSUME NEW w \in Threads, pc[w] \notin Idle PROVE graph'[item[w].run] = graph[item[w].run]
    BY <1>1, <2>1, HeldIsReleased, ItemType DEF Runs
  <2> QED BY <2>1 DEF TodoInv, ControlInv, WorkerInv, Idle
<1>6. \A r \in Runs, t \in Tasks : Released(r, t)' = Released(r, t)
  BY DEF Released, Queued, Held, Item
<1>7. ReleaseInv'
  <2>1. SUFFICES ASSUME NEW r \in Runs, NEW t \in Tasks, Released(r, t) PROVE
          r <= run + 1 /\ t \in graph'[r].node /\ AllCounted(r, t)'
    BY <1>6 DEF ReleaseInv
  <2>2. r <= run /\ t \in graph[r].node /\ AllCounted(r, t)
    BY <2>1 DEF ReleaseInv
  <2>3. graph'[r] = graph[r]
    BY <1>1, <2>2 DEF Runs
  <2> QED BY <1>1, <2>2, <2>3 DEF AllCounted, Runs
<1>8. InitialInv'
  <2>1. SUFFICES ASSUME NEW t \in InitialTasks(G)
                 PROVE  t \in G.node /\ Preds(G, t) = {} /\ ~Released(run + 1, t)
    BY <1>1, <1>6, GraphAssumption DEF InitialInv, InitialTasks
  <2>2. t \in G.node /\ Preds(G, t) = {}
    BY PredsFinite, FS_EmptySet DEF InitialTasks, InDegree
  <2>3. ~Released(run + 1, t)
    BY <1>1, <2>2, GraphAssumption DEF ReleaseInv
  <2> QED BY <2>2, <2>3
<1>9. QueueInv' /\ HeldInv'
  BY DEF QueueInv, HeldInv, Retries
<1> QED BY <1>2, <1>4, <1>5, <1>7, <1>8, <1>9

(* perform_config queues an initial task.                                  *)
LEMMA QueueInitialTaskStep ==
  ASSUME IInv, ControlInv', NEW t \in Tasks, QueueInitialTask(t)
  PROVE  IInv'
PROOF
<1> DEFINE new == Item(run, t)
<1> USE DEF IInv, QueueInitialTask, worker, graphs
<1>1. /\ run \in Runs /\ new \in Items /\ task_queue \in Seq(Items)
      /\ task_queue' = Append(task_queue, new)
  BY CountAssumption DEF ControlInv, TypeOK, SharedOK, CallerOK, CallerInv, Item, Items, Runs
<1>2. Preds(graph[run], t) = {} /\ t \in graph[run].node /\ ~Released(run, t)
  BY DEF InitialInv
<1>3. FutureInv' /\ EdgeInv' /\ TodoInv' /\ HeldInv'
  BY DEF FutureInv, EdgeInv, TodoInv, HeldInv, Retries, Preds
<1>4. ASSUME NEW r \in Runs, NEW u \in Tasks, Released(r, u)', ~Released(r, u)
      PROVE  r = run /\ u = t
  <2>1. Queued(Item(r, u))' /\ ~Queued(Item(r, u))
    BY <1>4 DEF Released, Held, Item
  <2>2. Item(r, u) = new
    BY <1>1, <2>1 DEF Queued, Item
  <2> QED BY <2>2 DEF Item
<1>5. ReleaseInv'
  <2>1. SUFFICES ASSUME NEW r \in Runs, NEW u \in Tasks, Released(r, u)' PROVE
          r <= run /\ u \in graph[r].node /\ AllCounted(r, u)
    BY DEF ReleaseInv, AllCounted
  <2>2. CASE Released(r, u)
    BY <2>2 DEF ReleaseInv
  <2>3. CASE ~Released(r, u)
    <3>1. r = run /\ u = t
      BY <1>4, <2>1, <2>3
    <3>2. AllCounted(run, t)
      BY <1>2 DEF AllCounted
    <3>3. run <= run
      BY <1>1 DEF Runs
    <3> QED BY <1>2, <3>1, <3>2, <3>3
  <2> QED BY <2>2, <2>3
<1>6. InitialInv'
  BY <1>1, <1>4 DEF InitialInv, ControlInv, TypeOK, CallerOK
<1>7. QueueInv'
  <2>1. /\ \A k \in 1 .. Len(task_queue) : task_queue[k] # new
        /\ \A w \in Threads : item[w] # new
        /\ t \notin performed[run] /\ new \notin aborted_tasks
    BY <1>2 DEF Released, Queued, Held
  <2>2. new.run = run /\ new.task = t
    BY DEF Item
  <2>3. /\ Len(task_queue') = Len(task_queue) + 1 /\ Len(task_queue) \in Nat
        /\ \A k \in 1 .. Len(task_queue) : task_queue'[k] = task_queue[k]
        /\ task_queue'[Len(task_queue) + 1] = new
    BY <1>1
  <2> HIDE DEF new
  <2> QED BY <2>1, <2>2, <2>3 DEF QueueInv
<1> QED BY <1>3, <1>5, <1>6, <1>7

(* get() answers.                                                          *)
LEMMA GetTaskStep ==
  ASSUME IInv, ControlInv', NEW w \in Threads, GetTask(w)
  PROVE  IInv'
PROOF
<1> DEFINE i == task_queue[1]
<1> USE DEF IInv, GetTask, Goto, graphs, caller
<1>1. /\ task_queue \in Seq(Items) /\ task_queue # <<>>
      /\ i \in Items
      /\ i = Item(i.run, i.task)
      /\ Len(task_queue) \in Nat /\ Len(task_queue) >= 1
      /\ Len(task_queue') = Len(task_queue) - 1
      /\ \A k \in 1 .. Len(task_queue') : task_queue'[k] = task_queue[k + 1]
  <2>1. task_queue \in Seq(Items) /\ task_queue # <<>>
    BY DEF ControlInv, TypeOK, SharedOK
  <2>2. i \in Items /\ Len(task_queue) \in Nat /\ Len(task_queue) >= 1
    BY <2>1
  <2>3. i = Item(i.run, i.task)
    BY <2>2 DEF Item, Items
  <2>4. /\ Len(task_queue') = Len(task_queue) - 1
        /\ \A k \in 1 .. Len(task_queue') : task_queue'[k] = task_queue[k + 1]
    BY <2>1
  <2> QED BY <2>1, <2>2, <2>3, <2>4
<1>2. /\ item'[w] = i /\ item[w] = NoItem
      /\ \A x \in Threads : x # w => item'[x] = item[x]
      /\ pc'[w] = "got"
      /\ \A x \in Threads : x # w => pc'[x] = pc[x]
  BY <1>1 DEF ControlInv, TypeOK, WorkersOK, WorkerInv, Idle
<1>3. /\ i.task \notin performed[i.run] /\ i \notin aborted_tasks
      /\ \A x \in Threads : item[x] # i
      /\ \A k \in 1 .. Len(task_queue') : task_queue'[k] # i
  <2> HIDE DEF i
  <2>1. task_queue[1] = i
    BY DEF i
  <2> QED BY <1>1, <2>1 DEF QueueInv
<1>4. FutureInv' /\ EdgeInv'
  BY DEF FutureInv, EdgeInv, Preds
<1>5. ASSUME NEW r \in Runs, NEW t \in Tasks, Released(r, t)'
      PROVE  Released(r, t)
  <2>1. CASE Queued(Item(r, t))'
    BY <1>1, <2>1 DEF Released, Queued, Item
  <2>2. CASE Held(Item(r, t))'
    <3>1. PICK x \in Threads : item'[x] = Item(r, t)
      BY <2>2 DEF Held, Item
    <3>2. CASE x = w
      <4>1. task_queue[1] = Item(r, t)
        BY <1>2, <3>1, <3>2
      <4> QED BY <1>1, <4>1 DEF Released, Queued
    <3>3. CASE x # w
      BY <1>2, <3>1, <3>3 DEF Released, Held
    <3> QED BY <3>2, <3>3
  <2> QED BY <1>5, <2>1, <2>2 DEF Released, Item
<1>6. ReleaseInv' /\ InitialInv'
  <2>1. ReleaseInv'
    BY <1>5 DEF ReleaseInv, AllCounted, Preds
  <2>2. run \in Runs \/ initial = {}
    BY DEF ControlInv, TypeOK, CallerOK, CallerInv, Runs
  <2>3. InitialInv'
    BY <1>5, <2>2 DEF InitialInv, ControlInv, TypeOK, CallerOK, Preds
  <2> QED BY <2>1, <2>3
<1> HIDE DEF i
<1>7. TodoInv'
  BY <1>2 DEF TodoInv, ControlInv, WorkerInv
<1>8. QueueInv'
  <2>1. \A k \in 1 .. Len(task_queue') : k + 1 \in 1 .. Len(task_queue)
    BY <1>1
  <2>2. \A k \in 1 .. Len(task_queue') :
          /\ \A x \in Threads : item'[x] # task_queue'[k]
          /\ task_queue'[k].task \notin performed[task_queue'[k].run]
          /\ task_queue'[k] \notin aborted_tasks
    BY <1>1, <1>2, <1>3, <2>1 DEF QueueInv
  <2>3. \A j, k \in 1 .. Len(task_queue') : task_queue'[j] = task_queue'[k] => j = k
    BY <1>1, <2>1 DEF QueueInv
  <2> QED BY <2>2, <2>3 DEF QueueInv
<1>9. HeldInv'
  BY <1>1, <1>2, <1>3 DEF HeldInv, Before, After, Locked, Retries
<1> QED BY <1>4, <1>6, <1>7, <1>8, <1>9

(* _perform_task returns.                                                  *)
LEMMA TrySucceedsStep ==
  ASSUME IInv, ControlInv', NEW w \in Threads, TrySucceeds(w)
  PROVE  IInv'
PROOF
<1> DEFINE r == item[w].run
           t == item[w].task
<1> USE DEF IInv, TrySucceeds, Goto, shared, graphs, caller
<1>1. /\ r \in Runs /\ t \in Tasks /\ item[w] = Item(r, t) /\ item[w] # NoItem
      /\ Released(r, t) /\ r <= run /\ t \notin performed[r]
      /\ item[w] \notin aborted_tasks
  BY ItemType, HeldIsReleased DEF Idle, ControlInv, WorkerInv, HeldInv, Before
<1>2. /\ performed'[r] = performed[r] \cup {t}
      /\ \A q \in Runs : q # r => performed'[q] = performed[q]
      /\ pc'[w] = "acquire"
      /\ \A x \in Threads : x # w => pc'[x] = pc[x]
  BY <1>1 DEF ControlInv, TypeOK, GraphsOK, WorkersOK
<1> HIDE DEF r, t
<1>3. FutureInv'
  <2>1. \A q \in Runs : q > run => q # r
    BY <1>1 DEF ControlInv, TypeOK, CallerOK, Runs
  <2> QED BY <1>2, <2>1 DEF FutureInv
<1>4. EdgeInv'
  <2>1. \A q \in Runs : performed[q] \subseteq performed'[q]
    BY <1>2
  <2>2. ASSUME NEW q, NEW u PROVE Preds(graph[q], u)' = Preds(graph[q], u)
    BY DEF Preds
  <2> QED BY <2>1, <2>2 DEF EdgeInv
<1>5. TodoInv'
  <2>1. \A s \in Tasks : <<t, s>> \notin traversed[r]
    BY <1>1 DEF EdgeInv
  <2> QED BY <1>2, <2>1 DEF TodoInv, r, t
<1>6. ASSUME NEW q \in Runs, NEW u \in Tasks
      PROVE  Released(q, u)' = Released(q, u)
  <2>1. CASE q = r /\ u = t
    BY <1>1, <1>2, <2>1 DEF Released, Held, Item
  <2>2. CASE ~(q = r /\ u = t)
    <3>1. u \in performed'[q] <=> u \in performed[q]
      <4>1. CASE q = r
        BY <1>2, <2>2, <4>1
      <4>2. CASE q # r
        BY <1>2, <4>2
      <4> QED BY <4>1, <4>2
    <3> QED BY <3>1 DEF Released, Queued, Held, Item
  <2> QED BY <2>1, <2>2
<1>7. ReleaseInv'
  BY <1>6 DEF ReleaseInv, AllCounted, Preds
<1>8. InitialInv'
  <2>1. run \in Runs \/ initial = {}
    BY DEF ControlInv, TypeOK, CallerOK, CallerInv, Runs
  <2> QED BY <1>6, <2>1 DEF InitialInv, ControlInv, TypeOK, CallerOK, Preds
<1>9. QueueInv'
  <2>1. \A k \in 1 .. Len(task_queue) : task_queue[k] \in Items
    BY DEF ControlInv, TypeOK, SharedOK
  <2>2. ASSUME NEW k \in 1 .. Len(task_queue)
        PROVE  task_queue[k].task \notin performed'[task_queue[k].run]
    BY <1>1, <1>2, <2>1 DEF QueueInv, Items, Item
  <2> QED BY <2>2 DEF QueueInv
<1>10. HeldInv'
  <2>1. ASSUME NEW x \in Threads, x # w, pc[x] \notin Idle
        PROVE  ~(item[x].run = r /\ item[x].task = t)
    BY <1>1, <2>1, ItemType DEF HeldInv
  <2>2. ASSUME NEW x \in Threads, x # w, pc[x] \in Before \cup After
        PROVE  item[x].task \in performed'[item[x].run] <=> item[x].task \in performed[item[x].run]
    <3>1. pc[x] \notin Idle /\ item[x].run \in Runs
      BY <2>2, ItemType DEF Before, After, Locked, Idle
    <3>2. CASE item[x].run = r
      BY <1>2, <2>1, <2>2, <3>1, <3>2
    <3>3. CASE item[x].run # r
      BY <1>2, <3>1, <3>3
    <3> QED BY <3>2, <3>3
  <2> QED BY <1>1, <1>2, <2>2 DEF HeldInv, Before, After, Locked, Retries, r, t
<1> QED BY <1>3, <1>4, <1>5, <1>7, <1>8, <1>9, <1>10

(* _perform_task raises.                                                   *)
LEMMA TryFailsStep ==
  ASSUME IInv, ControlInv', NEW w \in Threads, TryFails(w)
  PROVE  IInv'
PROOF
<1> USE DEF IInv, TryFails, Goto, graphs, caller
<1>1. /\ item[w] \in Items /\ item[w] = Item(item[w].run, item[w].task)
      /\ Held(item[w])
      /\ item[w] \notin aborted_tasks /\ tries[w] > 0
  BY ItemType DEF Idle, HeldInv, Held
<1>2. /\ aborted_tasks' \subseteq aborted_tasks \cup {item[w]}
      /\ aborted_tasks \subseteq aborted_tasks'
      /\ item[w] \in aborted_tasks' <=> ~Retries(w)
      /\ pc'[w] = "attempt"
      /\ \A x \in Threads : x # w => pc'[x] = pc[x]
  BY <1>1 DEF ControlInv, TypeOK, WorkersOK, GivesUp
<1>3. FutureInv' /\ EdgeInv' /\ TodoInv'
  BY <1>2 DEF FutureInv, EdgeInv, TodoInv, Preds
<1>4. ASSUME NEW r \in Runs, NEW t \in Tasks
      PROVE  Released(r, t)' = Released(r, t)
  BY <1>1, <1>2 DEF Released, Queued, Held, Item
<1>5. ReleaseInv'
  BY <1>4 DEF ReleaseInv, AllCounted, Preds
<1>6. InitialInv'
  <2>1. run \in Runs \/ initial = {}
    BY DEF ControlInv, TypeOK, CallerOK, CallerInv, Runs
  <2> QED BY <1>4, <2>1 DEF InitialInv, ControlInv, TypeOK, CallerOK, Preds
<1>7. QueueInv'
  BY <1>2 DEF QueueInv
<1>8. HeldInv'
  <2>1. ASSUME NEW x \in Threads, x # w
        PROVE  item[x] \in aborted_tasks' <=> item[x] \in aborted_tasks
    <3>1. item[x] # item[w]
      BY <1>1, <2>1, NullAssumption DEF HeldInv
    <3> QED BY <1>2, <3>1
  <2> QED BY <1>1, <1>2, <2>1 DEF HeldInv, Before, After, Locked, Retries
<1> QED BY <1>3, <1>5, <1>6, <1>7, <1>8

(* An edge is traversed.                                                   *)
LEMMA TraverseSuccessorStep ==
  ASSUME IInv, ControlInv', NEW w \in Threads, NEW s \in Tasks, TraverseSuccessor(w, s)
  PROVE  IInv'
PROOF
<1> DEFINE r == item[w].run
           t == item[w].task
           new == Item(r, s)
           Counted(q, u) == {p \in Preds(graph[q], u) : <<p, u>> \in traversed[q]}
<1> USE DEF IInv, TraverseSuccessor, caller
<1>1. /\ r \in Runs /\ t \in Tasks /\ item[w] = Item(r, t)
      /\ r <= run /\ pc[w] = "succ" /\ t \in performed[r]
      /\ graph[r] \in Graphs \cup {NoGraph}
  BY ItemType, HeldIsReleased DEF Idle, HeldInv, After, Locked, ControlInv, TypeOK, GraphsOK
<1>2. /\ <<t, s>> \in graph[r].edge /\ <<t, s>> \notin traversed[r]
      /\ t \in Preds(graph[r], s) /\ s \in graph[r].node
  <2>1. <<t, s>> \in graph[r].edge /\ <<t, s>> \notin traversed[r]
    BY DEF TodoInv
  <2>2. graph[r].edge \subseteq graph[r].node \X graph[r].node
    BY <1>1, GraphAssumption DEF NoGraph
  <2> QED BY <2>1, <2>2 DEF Preds
<1>3. ~Released(r, s) /\ ~(r = run /\ s \in initial)
  BY <1>1, <1>2 DEF ReleaseInv, AllCounted, InitialInv
<1>4. /\ traversed'[r] = traversed[r] \cup {<<t, s>>}
      /\ \A q \in Runs : q # r => traversed'[q] = traversed[q]
      /\ ins_traversed'[r][s] = ins_traversed[r][s] + 1
      /\ \A q \in Runs, u \in Tasks :
           ~(q = r /\ u = s) => ins_traversed'[q][u] = ins_traversed[q][u]
      /\ task_queue' = IF InDegree(graph[r], s) = ins_traversed[r][s] + 1
                         THEN Append(task_queue, new) ELSE task_queue
      /\ todo'[w] = todo[w] \ {s}
      /\ \A x \in Threads : x # w => todo'[x] = todo[x]
  BY <1>1 DEF ControlInv, TypeOK, GraphsOK, WorkersOK, LastInput, Item
<1>5. /\ Counted(r, s)' = Counted(r, s) \cup {t} /\ t \notin Counted(r, s)
      /\ IsFiniteSet(Counted(r, s)) /\ Cardinality(Counted(r, s)) = ins_traversed[r][s]
      /\ Cardinality(Counted(r, s)') = ins_traversed[r][s] + 1
  <2>1. Counted(r, s)' = Counted(r, s) \cup {t} /\ t \notin Counted(r, s)
    BY <1>1, <1>2, <1>4
  <2>2. IsFiniteSet(Counted(r, s))
    BY <1>1, PredsFinite, FS_Subset
  <2>3. Cardinality(Counted(r, s)) = ins_traversed[r][s]
    BY <1>1 DEF EdgeInv
  <2> HIDE DEF Counted
  <2> QED BY <2>1, <2>2, <2>3, FS_AddElement
<1>6. FutureInv'
  <2>1. \A q \in Runs : q > run => q # r
    BY <1>1 DEF ControlInv, TypeOK, CallerOK, Runs
  <2> QED BY <1>4, <2>1 DEF FutureInv
<1>7. EdgeInv'
  <2>1. ASSUME NEW q \in Runs, NEW u \in Tasks
        PROVE  ins_traversed'[q][u] = Cardinality(Counted(q, u)')
    <3>1. CASE q = r /\ u = s
      BY <1>1, <1>4, <1>5, <3>1
    <3>2. CASE ~(q = r /\ u = s)
      <4>1. Counted(q, u)' = Counted(q, u)
        BY <1>1, <1>4, <3>2
      <4> QED BY <1>1, <1>4, <3>2, <4>1 DEF EdgeInv
    <3> QED BY <3>1, <3>2
  <2>2. ASSUME NEW q \in Runs
        PROVE  traversed'[q] \subseteq graph[q].edge /\ \A e \in traversed'[q] : e[1] \in performed[q]
    BY <1>1, <1>2, <1>4 DEF EdgeInv
  <2> QED BY <2>1, <2>2 DEF EdgeInv, Preds
<1>8. TodoInv'
  <2>1. ASSUME NEW x \in Threads, x # w, pc[x] \notin Idle
        PROVE  ~(item[x].run = r /\ item[x].task = t) /\ item[x].run \in Runs
    BY <1>1, <2>1, ItemType DEF HeldInv, ControlInv, WorkerInv
  <2>2. ASSUME NEW x \in Threads, x # w, pc[x] \notin Idle, NEW u
        PROVE  <<item[x].task, u>> \in traversed'[item[x].run] <=>
                 <<item[x].task, u>> \in traversed[item[x].run]
    BY <1>4, <2>1, <2>2
  <2>3. ASSUME NEW u \in todo'[w]
        PROVE  <<t, u>> \notin traversed'[r] /\ <<t, u>> \in graph[r].edge
    BY <1>1, <1>4, <2>3 DEF TodoInv
  <2>4. \A x \in Threads : todo[x] # {} \/ pc[x] \in {"acquire", "store", "test"} => pc[x] \notin Idle
    BY DEF ControlInv, WorkerInv, Idle
  <2> QED BY <1>1, <1>4, <2>2, <2>3, <2>4 DEF TodoInv
<1>9. ASSUME NEW q \in Runs, NEW u \in Tasks, Released(q, u)', ~Released(q, u)
      PROVE  q = r /\ u = s /\ InDegree(graph[r], s) = ins_traversed[r][s] + 1
  <2>1. Queued(Item(q, u))' /\ ~Queued(Item(q, u))
    BY <1>9 DEF Released, Held, Item
  <2>2. InDegree(graph[r], s) = ins_traversed[r][s] + 1 /\ Item(q, u) = new
    BY <1>4, <2>1 DEF Queued, Item, ControlInv, TypeOK, SharedOK
  <2> QED BY <2>2 DEF Item
<1>10. ReleaseInv'
  <2>1. SUFFICES ASSUME NEW q \in Runs, NEW u \in Tasks, Released(q, u)' PROVE
          q <= run /\ u \in graph[q].node /\ AllCounted(q, u)'
    BY DEF ReleaseInv
  <2>2. CASE Released(q, u)
    BY <1>4, <2>2 DEF ReleaseInv, AllCounted, Preds
  <2>3. CASE ~Released(q, u)
    <3>1. q = r /\ u = s /\ Cardinality(Preds(graph[r], s)) = Cardinality(Counted(r, s)')
      BY <1>5, <1>9, <2>1, <2>3 DEF InDegree
    <3>2. Counted(r, s)' = Preds(graph[r], s)
      <4>1. IsFiniteSet(Preds(graph[r], s)) /\ Counted(r, s)' \subseteq Preds(graph[r], s)
        BY <1>1, <1>2, <1>5, PredsFinite
      <4> HIDE DEF Counted
      <4> QED BY <3>1, <4>1, FS_Subset
    <3>3. AllCounted(r, s)'
      BY <1>1, <3>2 DEF AllCounted, Preds
    <3> QED BY <1>1, <1>2, <3>1, <3>3
  <2> QED BY <2>2, <2>3
<1>11. InitialInv'
  <2>1. run \in Runs \/ initial = {}
    BY DEF ControlInv, TypeOK, CallerOK, CallerInv, Runs
  <2> QED BY <1>3, <1>9, <2>1 DEF InitialInv, ControlInv, TypeOK, CallerOK, Preds
<1>12. QueueInv'
  <2>1. /\ \A k \in 1 .. Len(task_queue) : task_queue[k] # new
        /\ \A x \in Threads : item[x] # new
        /\ s \notin performed[r] /\ new \notin aborted_tasks
    BY <1>3 DEF Released, Queued, Held
  <2>2. new.run = r /\ new.task = s
    BY DEF Item
  <2>3. CASE task_queue' = task_queue
    BY <2>3 DEF QueueInv
  <2>4. CASE task_queue' = Append(task_queue, new)
    <3>1. /\ Len(task_queue') = Len(task_queue) + 1 /\ Len(task_queue) \in Nat
          /\ \A k \in 1 .. Len(task_queue) : task_queue'[k] = task_queue[k]
          /\ task_queue'[Len(task_queue) + 1] = new
      BY <2>4 DEF ControlInv, TypeOK, SharedOK
    <3> HIDE DEF new, r, t
    <3> QED BY <2>1, <2>2, <3>1 DEF QueueInv
  <2> QED BY <1>4, <2>3, <2>4
<1>13. HeldInv'
  BY DEF HeldInv, Retries
<1> QED BY <1>6, <1>7, <1>8, <1>10, <1>11, <1>12, <1>13

-----------------------------------------------------------------------------
(* The invariant holds before the first call.                              *)
LEMMA IInvInit ==
  ASSUME Init
  PROVE  IInv
PROOF
<1> USE DEF Init
<1>1. ControlInv
  BY ControlInit
<1>2. FutureInv /\ TodoInv /\ HeldInv
  BY DEF FutureInv, TodoInv, HeldInv, Before, After, Locked
<1>3. EdgeInv
  <2>1. \A t : {p \in Preds(NoGraph, t) : <<p, t>> \in {}} = {}
    OBVIOUS
  <2> QED BY <2>1, FS_EmptySet DEF EdgeInv
<1>4. QueueInv /\ InitialInv
  BY DEF QueueInv, InitialInv
<1>5. ReleaseInv
  <2>1. ASSUME NEW r \in Runs, NEW t \in Tasks PROVE ~Released(r, t)
    BY NullAssumption, MakeItem DEF Released, Queued, Held, Item
  <2> QED BY <2>1 DEF ReleaseInv
<1> QED BY <1>1, <1>2, <1>3, <1>4, <1>5 DEF IInv

(* A step that changes nothing keeps the invariant.                        *)
LEMMA IInvStutters ==
  ASSUME IInv, UNCHANGED vars
  PROVE  IInv'
PROOF
<1> USE DEF IInv, vars, shared, graphs, caller, worker
<1>1. ControlInv'
  BY ControlStutters
<1>2. DataInv'
  BY Frame DEF DataInv
<1>3. TodoInv' /\ HeldInv'
  BY DEF TodoInv, HeldInv, Retries
<1> QED BY <1>1, <1>2, <1>3 DEF DataInv

(* Every step of the agent preserves IInv.                                 *)
LEMMA IInvStep ==
  ASSUME IInv, [Next]_vars
  PROVE  IInv'
PROOF
<1>1. CASE UNCHANGED vars
  BY <1>1, IInvStutters
<1>2. CASE Next
  <2> ControlInv'
    BY ControlStep DEF IInv
  <2>1. ASSUME NEW G \in Graphs, PerformConfig(G) PROVE IInv'
    BY <2>1, PerformConfigStep
  <2>2. CASE FixArgumentsRaises
    BY <2>2, FixArgumentsRaisesStep
  <2>3. CASE ClearStop
    BY <2>3, ClearStopStep
  <2>4. ASSUME NEW w \in Threads, StartWorker(w) PROVE IInv'
    BY <2>4, StartWorkerStep
  <2>5. ASSUME NEW t \in Tasks, QueueInitialTask(t) PROVE IInv'
    BY <2>5, QueueInitialTaskStep
  <2>6. CASE AllQueued
    BY <2>6, AllQueuedStep
  <2>7. CASE Answer
    BY <2>7, AnswerStep
  <2>8. ASSUME NEW w \in Threads, TestStop(w) PROVE IInv'
    BY <2>8, TestStopStep
  <2>9. ASSUME NEW w \in Threads, GetTask(w) PROVE IInv'
    BY <2>9, GetTaskStep
  <2>10. ASSUME NEW w \in Threads, GetTimesOut(w) PROVE IInv'
    BY <2>10, GetTimesOutStep
  <2>11. ASSUME NEW w \in Threads, DropTask(w) PROVE IInv'
    BY <2>11, DropTaskStep
  <2>12. ASSUME NEW w \in Threads, PerformTask(w) PROVE IInv'
    BY <2>12, PerformTaskStep
  <2>13. ASSUME NEW w \in Threads, BeginAttempt(w) PROVE IInv'
    BY <2>13, BeginAttemptStep
  <2>14. ASSUME NEW w \in Threads, OpenLogFails(w) PROVE IInv'
    BY <2>14, OpenLogFailsStep
  <2>15. ASSUME NEW w \in Threads, TrySucceeds(w) PROVE IInv'
    BY <2>15, TrySucceedsStep
  <2>16. ASSUME NEW w \in Threads, TryFails(w) PROVE IInv'
    BY <2>16, TryFailsStep
  <2>17. ASSUME NEW w \in Threads, AbortProcessTasks(w) PROVE IInv'
    BY <2>17, AbortProcessTasksStep
  <2>18. ASSUME NEW w \in Threads, AcquireNodeLock(w) PROVE IInv'
    BY <2>18, AcquireNodeLockStep
  <2>19. ASSUME NEW w \in Threads, StoreCount(w) PROVE IInv'
    BY <2>19, StoreCountStep
  <2>20. ASSUME NEW w \in Threads, TestCount(w) PROVE IInv'
    BY <2>20, TestCountStep
  <2>21. ASSUME NEW w \in Threads, Finish(w) PROVE IInv'
    BY <2>21, FinishStep
  <2>22. ASSUME NEW w \in Threads, NEW s \in Tasks, TraverseSuccessor(w, s) PROVE IInv'
    BY <2>22, TraverseSuccessorStep
  <2>23. ASSUME NEW w \in Threads, ReleaseNodeLock(w) PROVE IInv'
    BY <2>23, ReleaseNodeLockStep
  <2> QED BY <1>2, <2>1, <2>2, <2>3, <2>4, <2>5, <2>6, <2>7, <2>8, <2>9, <2>10,
         <2>11, <2>12, <2>13, <2>14, <2>15, <2>16, <2>17, <2>18, <2>19,
         <2>20, <2>21, <2>22, <2>23 DEF Next, Caller, Worker
<1> QED BY <1>1, <1>2

(* IInv is an invariant of the agent.                                      *)
THEOREM InvariantCorrect == Spec => []IInv
PROOF
<1>1. Init => IInv
  BY IInvInit
<1>2. IInv /\ [Next]_vars => IInv'
  BY IInvStep
<1> QED BY <1>1, <1>2, PTL DEF Spec

(* No task is performed before all its predecessors succeeded, whatever    *)
(* the interleaving of the workers and however often perform_config is     *)
(* called again: the promise of with_dependencies (config.py:63-64).       *)
THEOREM PredecessorsFirstCorrect == Spec => []PredecessorsFirst
PROOF
<1>1. IInv => PredecessorsFirst
  <2>1. SUFFICES ASSUME IInv, NEW w \in Threads, pc[w] \in {"try"} \cup After
                 PROVE  Preds(graph[item[w].run], item[w].task) \subseteq performed[item[w].run]
    BY DEF PredecessorsFirst
  <2> DEFINE r == item[w].run
             t == item[w].task
  <2>2. pc[w] \notin Idle
    BY <2>1 DEF Idle, After, Locked
  <2>3. r \in Runs /\ t \in Tasks /\ Released(r, t)
    BY <2>1, <2>2, ItemType, HeldIsReleased DEF IInv
  <2>4. AllCounted(r, t)
    BY <2>1, <2>3 DEF IInv, ReleaseInv
  <2>5. \A e \in traversed[r] : e[1] \in performed[r]
    BY <2>1, <2>3 DEF IInv, EdgeInv
  <2>6. ASSUME NEW p \in Preds(graph[r], t) PROVE p \in performed[r]
    <3>1. <<p, t>> \in traversed[r]
      BY <2>4, <2>6 DEF AllCounted
    <3> QED BY <2>5, <3>1
  <2> QED BY <2>6
<1> QED BY <1>1, InvariantCorrect, PTL

(* No task of a run is queued twice, held twice, or performed again: the   *)
(* queue never gets a task from perform_config and from perform_task.      *)
THEOREM HandedOutOnceCorrect == Spec => []HandedOutOnce
PROOF
<1>1. IInv => HandedOutOnce
  <2>1. SUFFICES ASSUME IInv PROVE HandedOutOnce
    OBVIOUS
  <2>2. \A k \in 1 .. Len(task_queue) : ~Held(task_queue[k])
    BY <2>1 DEF IInv, QueueInv, Held
  <2>3. \A t \in initial : /\ ~Queued(Item(run, t)) /\ ~Held(Item(run, t))
                          /\ t \notin performed[run]
    BY <2>1 DEF IInv, InitialInv, Released
  <2> QED BY <2>1, <2>2, <2>3 DEF HandedOutOnce, IInv, QueueInv, HeldInv
<1> QED BY <1>1, InvariantCorrect, PTL

-----------------------------------------------------------------------------
(* What workers do in a run, of which the other steps of perform_config    *)
(* are a part: nobody is forgotten.                                        *)

FreshRun == main = "clear_stop" => Untouched(run) /\ initial = InitialTasks(graph[run])
NobodyWaits == InRun /\ ~stop => CountedWaits /\ EdgesWait

(* Whoever holds an item, or waits in the queue, is of a run that began.   *)
LEMMA ItemsHaveBegun ==
  ASSUME IInv
  PROVE  /\ \A w \in Threads : item[w] # NoItem => item[w].run <= run
         /\ \A k \in 1 .. Len(task_queue) : task_queue[k].run <= run
PROOF
<1>1. ASSUME NEW w \in Threads, item[w] # NoItem PROVE item[w].run <= run
  BY <1>1, HeldIsReleased DEF IInv, ControlInv, WorkerInv
<1>2. ASSUME NEW k \in 1 .. Len(task_queue) PROVE task_queue[k].run <= run
  <2>1. task_queue[k] \in Items BY DEF IInv, ControlInv, TypeOK, SharedOK
  <2>2. /\ task_queue[k].run \in Runs /\ task_queue[k].task \in Tasks
        /\ task_queue[k] = Item(task_queue[k].run, task_queue[k].task)
    BY <2>1 DEF Items, Item
  <2>3. Released(task_queue[k].run, task_queue[k].task) BY <2>2 DEF Released, Queued
  <2> QED BY <2>2, <2>3 DEF IInv, ReleaseInv
<1> QED BY <1>1, <1>2

(* Where items come from, in the steps of a worker.                        *)
LEMMA WorkerMoves ==
  ASSUME IInv, NEW w \in Threads, Worker(w)
  PROVE  /\ \A x \in Threads : \/ item'[x] = item[x] \/ item'[x] = NoItem
                               \/ \E k \in 1 .. Len(task_queue) : item'[x] = task_queue[k]
         /\ \A k \in 1 .. Len(task_queue') :
              \/ \E j \in 1 .. Len(task_queue) : task_queue'[k] = task_queue[j]
              \/ item[w] # NoItem /\ task_queue'[k].run = item[w].run
         /\ \A r \in Runs : \/ performed'[r] = performed[r]
                            \/ item[w] # NoItem /\ item[w].run = r
         /\ UNCHANGED caller
PROOF
<1>1. /\ task_queue \in Seq(Items) /\ item \in [Threads -> Items \cup {NoItem}]
      /\ performed \in [Runs -> SUBSET Tasks] /\ UNCHANGED caller
      /\ pc[w] \notin Idle => item[w] # NoItem
  BY DEF IInv, ControlInv, TypeOK, SharedOK, WorkersOK, GraphsOK, WorkerInv, Worker, TestStop,
     GetTask, GetTimesOut, DropTask, PerformTask, BeginAttempt, OpenLogFails, TrySucceeds, TryFails,
     AbortProcessTasks, AcquireNodeLock, StoreCount, TestCount, Finish, TraverseSuccessor,
     ReleaseNodeLock, caller
<1>2. CASE UNCHANGED <<task_queue, performed>> /\ \A x \in Threads : item'[x] \in {item[x], NoItem}
  BY <1>1, <1>2
<1>3. CASE GetTask(w)
  <2>1. /\ item'[w] = task_queue[1] /\ \A x \in Threads : x # w => item'[x] = item[x]
        /\ Len(task_queue) >= 1 /\ Len(task_queue) \in Nat /\ performed' = performed
        /\ Len(task_queue') = Len(task_queue) - 1
        /\ \A k \in 1 .. Len(task_queue') : task_queue'[k] = task_queue[k + 1]
    BY <1>1, <1>3 DEF GetTask
  <2>2. 1 \in 1 .. Len(task_queue)
        /\ \A k \in 1 .. Len(task_queue') : k + 1 \in 1 .. Len(task_queue)
    BY <2>1
  <2> QED BY <1>1, <2>1, <2>2
<1>4. CASE TrySucceeds(w)
  <2>1. /\ item' = item /\ task_queue' = task_queue /\ item[w] # NoItem
        /\ \A r \in Runs : r # item[w].run => performed'[r] = performed[r]
    BY <1>1, <1>4 DEF TrySucceeds, Goto, shared, Idle
  <2> QED BY <1>1, <2>1
<1>5. ASSUME NEW s \in Tasks, TraverseSuccessor(w, s)
      PROVE  \A k \in 1 .. Len(task_queue') :
              \/ \E j \in 1 .. Len(task_queue) : task_queue'[k] = task_queue[j]
              \/ item[w] # NoItem /\ task_queue'[k].run = item[w].run
  <2> DEFINE new == [run |-> item[w].run, task |-> s]
  <2>1. item[w] # NoItem BY <1>1, <1>5 DEF TraverseSuccessor, Idle
  <2>2. CASE task_queue' = task_queue BY <2>2
  <2>3. CASE task_queue' = Append(task_queue, new)
    <3>1. /\ Len(task_queue') = Len(task_queue) + 1 /\ Len(task_queue) \in Nat
          /\ \A k \in 1 .. Len(task_queue) : task_queue'[k] = task_queue[k]
          /\ task_queue'[Len(task_queue) + 1] = new
      BY <1>1, <2>3
    <3>2. new.run = item[w].run OBVIOUS
    <3> HIDE DEF new
    <3> QED BY <2>1, <3>1, <3>2
  <2> QED BY <1>5, <2>2, <2>3 DEF TraverseSuccessor
<1>6. ASSUME NEW s \in Tasks, TraverseSuccessor(w, s)
      PROVE  UNCHANGED <<item, performed>>
  BY <1>6 DEF TraverseSuccessor
<1>7. CASE DropTask(w) \/ AbortProcessTasks(w) \/ ReleaseNodeLock(w)
  BY <1>1, <1>2, <1>7 DEF DropTask, AbortProcessTasks, ReleaseNodeLock, Leave, shared
<1>8. CASE \/ TestStop(w) \/ GetTimesOut(w) \/ PerformTask(w) \/ BeginAttempt(w)
           \/ OpenLogFails(w) \/ TryFails(w) \/ AcquireNodeLock(w) \/ StoreCount(w)
           \/ TestCount(w) \/ Finish(w)
  BY <1>2, <1>8 DEF TestStop, GetTimesOut, PerformTask, BeginAttempt, OpenLogFails, TryFails,
     AcquireNodeLock, StoreCount, TestCount, Finish, shared
<1> QED BY <1>1, <1>3, <1>4, <1>5, <1>6, <1>7, <1>8 DEF Worker

(* Before the flag is cleared old workers leave the new run alone.         *)
LEMMA FreshRunStep ==
  ASSUME IInv, FreshRun, Next
  PROVE  FreshRun'
PROOF
<1>1. ASSUME NEW G \in Graphs, PerformConfig(G) PROVE FreshRun'
  <2>1. /\ run \in Nat /\ run + 1 \in Runs /\ run' = run + 1 /\ initial' = InitialTasks(G)
        /\ graph'[run + 1] = G /\ UNCHANGED <<task_queue, item, performed>>
    BY <1>1, CountAssumption DEF PerformConfig, IInv, ControlInv, TypeOK, CallerOK, GraphsOK, Runs, worker
  <2>2. performed[run + 1] = {} BY <2>1 DEF IInv, FutureInv
  <2>3. /\ \A w \in Threads : item[w] # NoItem => item[w].run # run + 1
        /\ \A k \in 1 .. Len(task_queue) : task_queue[k].run # run + 1
    BY <2>1, ItemsHaveBegun
  <2> QED BY <2>1, <2>2, <2>3 DEF FreshRun, Untouched
<1>2. ASSUME NEW w \in Threads, Worker(w) PROVE FreshRun'
  <2> SUFFICES ASSUME main = "clear_stop"
               PROVE  Untouched(run)' /\ initial' = InitialTasks(graph'[run'])
    BY <1>2, WorkerMoves DEF FreshRun, caller
  <2>1. run \in Runs /\ Untouched(run) /\ initial = InitialTasks(graph[run])
    BY DEF FreshRun, IInv, ControlInv, TypeOK, CallerOK, CallerInv, Runs
  <2>2. UNCHANGED <<run, initial, graph>>
    BY <1>2, WorkerMoves
    DEF caller, graphs, Worker, TestStop, GetTask, GetTimesOut, DropTask, PerformTask, BeginAttempt,
     OpenLogFails, TrySucceeds, TryFails, AbortProcessTasks, AcquireNodeLock, StoreCount, TestCount,
     Finish, TraverseSuccessor, ReleaseNodeLock
  <2>3. Untouched(run)'
    BY <1>2, <2>1, <2>2, WorkerMoves DEF Untouched
  <2> QED BY <2>1, <2>2, <2>3
<1>3. CASE main' # "clear_stop" BY <1>3 DEF FreshRun
<1> QED
  BY <1>1, <1>2, <1>3
  DEF Next, Caller, FixArgumentsRaises, ClearStop, StartWorker, QueueInitialTask, AllQueued, Answer

(* The flag is cleared on a fresh run, in which all that can be waits.     *)
LEMMA ClearStopWaits ==
  ASSUME IInv, FreshRun, ClearStop
  PROVE  NobodyWaits'
PROOF
<1>1. /\ run \in Runs /\ Untouched(run) /\ initial = InitialTasks(graph[run])
      /\ UNCHANGED <<graph, traversed, performed, run, initial, task_queue, item>>
      /\ graph[run] \in Graphs \cup {NoGraph} /\ graph[run].node \subseteq Tasks
  BY GraphAssumption
  DEF FreshRun, ClearStop, IInv, ControlInv, TypeOK, CallerOK, CallerInv, GraphsOK, Runs, graphs, worker,
      NoGraph
<1>2. performed[run] = {} /\ traversed[run] = {} BY <1>1 DEF Untouched, IInv, EdgeInv
<1>3. ASSUME NEW t \in graph[run].node, AllCounted(run, t) PROVE t \in initial
  <2>1. Preds(graph[run], t) = {} BY <1>2, <1>3 DEF AllCounted
  <2> QED BY <1>1, <2>1, FS_EmptySet DEF InitialTasks, InDegree
<1>4. CountedWaits'
  BY <1>1, <1>3 DEF CountedWaits, Pending, AllCounted, Preds
<1>5. EdgesWait' BY <1>1, <1>2 DEF EdgesWait
<1> QED BY <1>4, <1>5 DEF NobodyWaits

(* The run that goes on has a graph, and edges between its nodes.          *)
LEMMA RunGraph ==
  ASSUME IInv, InRun
  PROVE  /\ run \in Runs /\ graph[run].node \subseteq Tasks /\ graph[run] \in Graphs \cup {NoGraph}
         /\ \A e \in graph[run].edge : /\ e = <<e[1], e[2]>>
                                       /\ e[1] \in graph[run].node /\ e[2] \in graph[run].node
PROOF
<1>1. run \in Runs /\ graph[run] \in Graphs \cup {NoGraph}
  BY DEF InRun, IInv, ControlInv, TypeOK, CallerOK, CallerInv, GraphsOK, Runs
<1> QED BY <1>1, GraphAssumption DEF NoGraph

(* A step that lets all items where they are.                              *)
LEMMA ItemsStayWait ==
  ASSUME IInv, NobodyWaits, InRun' /\ ~stop' => InRun /\ ~stop,
         UNCHANGED <<graphs, performed, task_queue, item, run, initial>>,
         \A x \in Threads : \A s :
           /\ <<item[x].task, s>> \in graph[item[x].run].edge
           /\ pc[x] \in After /\ (pc[x] = "succ" => s \in todo[x])
           => pc'[x] \in After /\ (pc'[x] = "succ" => s \in todo'[x])
  PROVE  NobodyWaits'
PROOF
<1> SUFFICES ASSUME InRun', ~stop' PROVE CountedWaits' /\ EdgesWait'
  BY DEF NobodyWaits
<1>1. CountedWaits /\ EdgesWait BY DEF NobodyWaits
<1>2. UNCHANGED <<graph, traversed>> BY DEF graphs
<1>3. CountedWaits'
  BY <1>1, <1>2 DEF CountedWaits, AllCounted, Preds, Pending, Queued, Held, Item
<1>4. EdgesWait'
  <2> SUFFICES ASSUME NEW e \in graph[run].edge \ traversed[run], e[1] \in performed[run]
               PROVE  \E w \in Threads : Traverses(w, run, e)'
    BY <1>2 DEF EdgesWait
  <2>1. PICK w \in Threads : Traverses(w, run, e) BY <1>1 DEF EdgesWait
  <2>2. item[w].task = e[1] /\ item[w].run = run /\ e = <<e[1], e[2]>>
    BY <2>1, RunGraph DEF Traverses, Item
  <2>3. Traverses(w, run, e)' BY <2>1, <2>2 DEF Traverses, Item
  <2> QED BY <2>3
<1> QED BY <1>3, <1>4

(* The steps of a worker that has no item to lose or to hand on.           *)
LEMMA QuietWaits ==
  ASSUME IInv, NobodyWaits, NEW w \in Threads,
         \/ TestStop(w) \/ GetTimesOut(w) \/ PerformTask(w) \/ BeginAttempt(w) \/ OpenLogFails(w)
         \/ TryFails(w) \/ AcquireNodeLock(w) \/ StoreCount(w) \/ TestCount(w)
  PROVE  NobodyWaits'
PROOF
<1>1. pc \in [Threads -> WorkerPCs] /\ todo \in [Threads -> SUBSET Tasks]
  BY DEF IInv, ControlInv, TypeOK, WorkersOK
<1>2. UNCHANGED <<stop, graphs, performed, task_queue, item, run, initial, main>>
  BY DEF TestStop, GetTimesOut, PerformTask, BeginAttempt, OpenLogFails, TryFails,
     AcquireNodeLock, StoreCount, TestCount, shared, caller
<1>3. \A x \in Threads : x # w => pc'[x] = pc[x] /\ todo'[x] = todo[x]
  BY <1>1
  DEF TestStop, GetTimesOut, PerformTask, BeginAttempt, OpenLogFails, TryFails,
      AcquireNodeLock, StoreCount, TestCount, Goto
<1>4. ASSUME NEW s, <<item[w].task, s>> \in graph[item[w].run].edge,
             pc[w] \in After, pc[w] = "succ" => s \in todo[w]
      PROVE  pc'[w] \in After /\ (pc'[w] = "succ" => s \in todo'[w])
  <2>1. CASE AcquireNodeLock(w) \/ StoreCount(w)
    BY <1>1, <2>1 DEF AcquireNodeLock, StoreCount, Goto, After, Locked
  <2>2. CASE TestCount(w)
    <3>1. pc[w] \notin Idle BY <1>4 DEF After, Locked, Idle
    <3>2. item[w].run \in Runs BY <3>1, ItemType DEF IInv
    <3>3. graph[item[w].run] \in Graphs \cup {NoGraph}
      BY <3>2 DEF IInv, ControlInv, TypeOK, GraphsOK
    <3>4. s \in Successors(graph[item[w].run], item[w].task)
      BY <1>4, <3>3, GraphAssumption DEF Successors, NoGraph
    <3>5. pc'[w] = (IF NoneLeft THEN "finish" ELSE "succ")
          /\ todo'[w] = IF NoneLeft THEN {} ELSE Successors(graph[item[w].run], item[w].task)
      BY <1>1, <2>2 DEF TestCount, Goto
    <3> QED BY <3>4, <3>5 DEF After, Locked
  <2>3. CASE \/ TestStop(w) \/ GetTimesOut(w) \/ PerformTask(w) \/ BeginAttempt(w)
             \/ OpenLogFails(w) \/ TryFails(w)
    BY <1>4, <2>3
    DEF TestStop, GetTimesOut, PerformTask, BeginAttempt, OpenLogFails, TryFails, Goto, After, Locked
  <2> QED BY <2>1, <2>2, <2>3
<1>5. InRun' = InRun BY <1>2 DEF InRun
<1> QED BY <1>2, <1>3, <1>4, <1>5, ItemsStayWait

(* An item that is taken from the queue is held.                           *)
LEMMA GetTaskWaits ==
  ASSUME IInv, NobodyWaits, NEW w \in Threads, GetTask(w)
  PROVE  NobodyWaits'
PROOF
<1>1. /\ pc \in [Threads -> WorkerPCs] /\ item \in [Threads -> Items \cup {NoItem}]
      /\ task_queue \in Seq(Items) /\ task_queue # <<>>
      /\ UNCHANGED <<stop, graphs, performed, run, initial, main, todo>>
      /\ pc[w] = "get" /\ item[w] = NoItem
  BY DEF GetTask, Goto, caller, IInv, ControlInv, TypeOK, WorkersOK, SharedOK, WorkerInv, Idle
<1>2. /\ item'[w] = task_queue[1] /\ \A x \in Threads : x # w => item'[x] = item[x]
      /\ \A x \in Threads : x # w => pc'[x] = pc[x]
      /\ Len(task_queue) \in Nat /\ Len(task_queue') = Len(task_queue) - 1
      /\ \A k \in 1 .. Len(task_queue') : task_queue'[k] = task_queue[k + 1]
  BY <1>1 DEF GetTask, Goto
<1>3. \A i : Queued(i) => Queued(i)' \/ i = task_queue[1]
  <2> SUFFICES ASSUME NEW k \in 1 .. Len(task_queue), k # 1
               PROVE  \E j \in 1 .. Len(task_queue') : task_queue'[j] = task_queue[k]
    BY DEF Queued
  <2>1. k - 1 \in 1 .. Len(task_queue') /\ (k - 1) + 1 = k BY <1>2
  <2> QED BY <1>2, <2>1
<1>4. \A i \in Items : Queued(i) \/ Held(i) => Queued(i)' \/ Held(i)'
  BY <1>1, <1>2, <1>3, NullAssumption DEF Held
<1> SUFFICES ASSUME InRun', ~stop' PROVE CountedWaits' /\ EdgesWait'
  BY DEF NobodyWaits
<1>5. InRun /\ ~stop /\ UNCHANGED <<graph, traversed>> BY <1>1 DEF InRun, graphs
<1>6. CountedWaits /\ EdgesWait BY <1>5 DEF NobodyWaits
<1>7. CountedWaits'
  <2>1. \A t \in graph[run].node : Item(run, t) \in Items
    BY <1>5, RunGraph, MakeItem DEF Item
  <2>2. \A t \in graph[run].node : Pending(run, t) => Pending(run, t)'
    BY <1>1, <1>4, <2>1 DEF Pending, Item, Queued, Held
  <2> QED BY <1>1, <1>5, <1>6, <2>2 DEF CountedWaits, AllCounted, Preds
<1>8. EdgesWait'
  <2>1. \A x \in Threads : \A e : Traverses(x, run, e) => Traverses(x, run, e)'
    BY <1>1, <1>2 DEF Traverses, Item, After, Locked
  <2> QED BY <1>1, <1>5, <1>6, <2>1 DEF EdgesWait, Traverses
<1> QED BY <1>7, <1>8

(* A task that was performed is traversed from.                            *)
LEMMA TrySucceedsWaits ==
  ASSUME IInv, NobodyWaits, NEW w \in Threads, TrySucceeds(w)
  PROVE  NobodyWaits'
PROOF
<1>1. /\ pc \in [Threads -> WorkerPCs] /\ performed \in [Runs -> SUBSET Tasks]
      /\ UNCHANGED <<stop, graph, traversed, run, initial, main, todo, item, task_queue>>
      /\ pc[w] = "try" /\ pc'[w] = "acquire" /\ \A x \in Threads : x # w => pc'[x] = pc[x]
  BY DEF TrySucceeds, Goto, shared, caller, graphs, IInv, ControlInv, TypeOK, WorkersOK, GraphsOK
<1>2. item[w].run \in Runs /\ item[w] = Item(item[w].run, item[w].task)
  BY <1>1, ItemType DEF IInv, Idle
<1> SUFFICES ASSUME InRun', ~stop' PROVE CountedWaits' /\ EdgesWait'
  BY DEF NobodyWaits
<1>3. CountedWaits /\ EdgesWait /\ InRun /\ run \in Runs
  BY <1>1, RunGraph DEF InRun, NobodyWaits
<1>4. \A t : t \in performed'[run] <=> t \in performed[run] \/ Item(run, t) = item[w]
  <2>1. performed' = [performed EXCEPT ![item[w].run] = @ \cup {item[w].task}]
    BY DEF TrySucceeds
  <2>2. \A t : Item(run, t) = item[w] <=> item[w].run = run /\ item[w].task = t
    BY <1>2 DEF Item
  <2> QED BY <1>1, <1>2, <1>3, <2>1, <2>2
<1>5. CountedWaits'
  BY <1>1, <1>3, <1>4 DEF CountedWaits, AllCounted, Preds, Pending, Queued, Held, Item
<1>6. EdgesWait'
  <2> SUFFICES ASSUME NEW e \in graph[run].edge \ traversed[run], e[1] \in performed'[run]
               PROVE  \E x \in Threads : Traverses(x, run, e)'
    BY <1>1 DEF EdgesWait, Traverses
  <2>1. CASE e[1] \in performed[run]
    <3>1. PICK x \in Threads : Traverses(x, run, e) BY <1>3, <2>1 DEF EdgesWait
    <3>2. x # w BY <1>1, <3>1 DEF Traverses, After, Locked
    <3>3. Traverses(x, run, e)' BY <1>1, <3>1, <3>2 DEF Traverses, Item
    <3> QED BY <3>3
  <2>2. CASE Item(run, e[1]) = item[w]
    <3>1. Traverses(w, run, e)' BY <1>1, <2>2 DEF Traverses, Item, After
    <3> QED BY <3>1
  <2> QED BY <1>4, <2>1, <2>2
<1> QED BY <1>5, <1>6

(* The worker that lets its item go has traversed all its edges.           *)
LEMMA ReleaseWaits ==
  ASSUME IInv, NobodyWaits, NEW w \in Threads, ReleaseNodeLock(w)
  PROVE  NobodyWaits'
PROOF
<1>1. /\ pc \in [Threads -> WorkerPCs] /\ item \in [Threads -> Items \cup {NoItem}]
      /\ UNCHANGED <<stop, graph, traversed, performed, run, initial, main, todo, task_queue>>
      /\ pc[w] = "succ" /\ todo[w] = {} /\ \A x \in Threads : x # w => pc'[x] = pc[x]
      /\ \A x \in Threads : x # w => item'[x] = item[x]
  BY DEF ReleaseNodeLock, Leave, Goto, caller, graphs, IInv, ControlInv, TypeOK, WorkersOK
<1>2. item[w].task \in performed[item[w].run]
  BY <1>1 DEF IInv, HeldInv, After, Locked
<1> SUFFICES ASSUME InRun', ~stop' PROVE CountedWaits' /\ EdgesWait'
  BY DEF NobodyWaits
<1>3. CountedWaits /\ EdgesWait /\ InRun
  BY <1>1 DEF InRun, NobodyWaits
<1>4. \A t : Pending(run, t) => t \in performed[run] \/ Pending(run, t)'
  <2>1. \A t : item[w] = Item(run, t) => t \in performed[run] BY <1>2 DEF Item
  <2> QED BY <1>1, <2>1 DEF Pending, Queued, Held, Item
<1>5. CountedWaits'
  BY <1>1, <1>3, <1>4 DEF CountedWaits, AllCounted, Preds
<1>6. EdgesWait'
  <2>1. \A x \in Threads : \A e : Traverses(x, run, e) => Traverses(x, run, e)'
    BY <1>1 DEF Traverses, Item
  <2> QED BY <1>1, <1>3, <2>1 DEF EdgesWait, Traverses
<1> QED BY <1>5, <1>6

(* The worker that counts the last edge into a task queues it.             *)
LEMMA TraverseWaits ==
  ASSUME IInv, IInv', NobodyWaits, NEW w \in Threads, NEW s \in Tasks, TraverseSuccessor(w, s)
  PROVE  NobodyWaits'
PROOF
<1> DEFINE r == item[w].run
           new == Item(r, s)
<1>1. /\ task_queue \in Seq(Items) /\ todo \in [Threads -> SUBSET Tasks]
      /\ traversed \in [Runs -> SUBSET (Tasks \X Tasks)]
      /\ ins_traversed \in [Runs -> [Tasks -> Nat]]
      /\ UNCHANGED <<stop, graph, performed, run, initial, main, item, pc>>
      /\ pc[w] = "succ" /\ s \in todo[w]
  BY DEF TraverseSuccessor, caller, IInv, ControlInv, TypeOK, SharedOK, WorkersOK, GraphsOK
<1>2. r \in Runs /\ item[w] = Item(r, item[w].task) /\ new \in Items
  BY <1>1, ItemType, MakeItem DEF IInv, Idle, Item
<1>3. /\ ins_traversed'[r][s] = ins_traversed[r][s] + 1
      /\ traversed' = [traversed EXCEPT ![r] = @ \cup {<<item[w].task, s>>}]
      /\ task_queue' = IF InDegree(graph[r], s) = ins_traversed[r][s] + 1
                         THEN Append(task_queue, new) ELSE task_queue
      /\ \A x \in Threads : \A u : u # s => (u \in todo'[x] <=> u \in todo[x])
      /\ \A x \in Threads : x # w => todo'[x] = todo[x]
  BY <1>1, <1>2 DEF TraverseSuccessor, LastInput, Item
<1> SUFFICES ASSUME InRun', ~stop' PROVE CountedWaits' /\ EdgesWait'
  BY DEF NobodyWaits
<1>4. CountedWaits /\ EdgesWait /\ InRun /\ run \in Runs
  BY <1>1, RunGraph DEF InRun, NobodyWaits
<1>5. \A i : Queued(i) => Queued(i)'
  <2> HIDE DEF new
  <2>1. CASE task_queue' = task_queue BY <2>1 DEF Queued
  <2>2. CASE task_queue' = Append(task_queue, new)
    <3>1. /\ Len(task_queue') = Len(task_queue) + 1 /\ Len(task_queue) \in Nat
          /\ \A k \in 1 .. Len(task_queue) : task_queue'[k] = task_queue[k]
      BY <1>1, <1>2, <2>2
    <3> QED BY <3>1 DEF Queued
  <2> QED BY <1>3, <2>1, <2>2
<1>6. CountedWaits'
  <2> SUFFICES ASSUME NEW t \in graph[run].node, AllCounted(run, t)'
               PROVE  t \in performed[run] \/ Pending(run, t)'
    BY <1>1 DEF CountedWaits
  <2>1. CASE AllCounted(run, t)
    <3>1. t \in performed[run] \/ Pending(run, t) BY <1>4, <2>1 DEF CountedWaits
    <3> QED BY <1>1, <1>5, <3>1 DEF Pending, Held, Item
  <2>2. CASE ~AllCounted(run, t)
    <3>1. r = run /\ t = s BY <1>1, <1>2, <1>3, <1>4, <2>2 DEF AllCounted, Preds
    <3>2. {p \in Preds(graph[r], s) : <<p, s>> \in traversed'[r]} = Preds(graph[r], s)
      BY <1>1, <3>1 DEF AllCounted, Preds
    <3>3. ins_traversed'[r][s] =
            Cardinality({p \in Preds(graph[r], s) : <<p, s>> \in traversed'[r]})
      <4>1. EdgeInv' /\ r \in Runs BY <1>2 DEF IInv
      <4>2. \A q \in Runs : ins_traversed'[q][s] =
              Cardinality({p \in Preds(graph'[q], s) : <<p, s>> \in traversed'[q]})
        BY <4>1 DEF EdgeInv
      <4> HIDE DEF r
      <4> QED BY <1>1, <4>1, <4>2
    <3>4. task_queue' = Append(task_queue, new) BY <1>3, <3>2, <3>3 DEF InDegree
    <3>5. Queued(new)'
      <4>1. Len(task_queue) + 1 \in 1 .. Len(task_queue') /\ task_queue'[Len(task_queue) + 1] = new
        BY <1>1, <1>2, <3>4
      <4> QED BY <1>1, <4>1 DEF Queued, Item
    <3> QED BY <1>1, <3>1, <3>5 DEF Pending, Item
  <2> QED BY <2>1, <2>2
<1>7. EdgesWait'
  <2> SUFFICES ASSUME NEW e \in graph[run].edge \ traversed'[run], e[1] \in performed[run]
               PROVE  \E x \in Threads : Traverses(x, run, e)'
    BY <1>1 DEF EdgesWait, Traverses
  <2>1. e \notin traversed[run] BY <1>1, <1>2, <1>3, <1>4
  <2>2. PICK x \in Threads : Traverses(x, run, e) BY <1>4, <2>1 DEF EdgesWait
  <2>3. x = w => e[2] # s
    <3> SUFFICES ASSUME x = w, e[2] = s PROVE FALSE
      OBVIOUS
    <3>1. item[w] = Item(run, e[1]) BY <2>2 DEF Traverses
    <3>2. r = run /\ item[w].task = e[1] BY <3>1 DEF Item
    <3>3. e = <<e[1], e[2]>> BY <1>4, RunGraph
    <3>4. e \in traversed'[run] BY <1>1, <1>3, <1>4, <3>2, <3>3
    <3> QED BY <3>4
  <2>4. Traverses(x, run, e)' BY <1>1, <1>3, <2>2, <2>3 DEF Traverses, Item
  <2> QED BY <2>4
<1> QED BY <1>6, <1>7

(* perform_config queues an initial task.                                  *)
LEMMA QueueInitialTaskWaits ==
  ASSUME IInv, NobodyWaits, NEW t \in Tasks, QueueInitialTask(t)
  PROVE  NobodyWaits'
PROOF
<1> DEFINE new == Item(run, t)
<1>1. /\ task_queue \in Seq(Items) /\ new \in Items
      /\ UNCHANGED <<stop, graph, traversed, performed, run, main, item, pc, todo>>
      /\ task_queue' = Append(task_queue, new) /\ initial' = initial \ {t}
      /\ InRun
  BY RunGraph, MakeItem
  DEF QueueInitialTask, InRun, worker, graphs, IInv, ControlInv, TypeOK, SharedOK, Item
<1> HIDE DEF new
<1>2. /\ Len(task_queue') = Len(task_queue) + 1 /\ Len(task_queue) \in Nat
      /\ \A k \in 1 .. Len(task_queue) : task_queue'[k] = task_queue[k]
      /\ task_queue'[Len(task_queue) + 1] = new
  BY <1>1
<1>3. Queued(new)' /\ \A i : Queued(i) => Queued(i)' BY <1>1, <1>2 DEF Queued, new, Item
<1>4. \A u : Pending(run, u) => Pending(run, u)'
  BY <1>1, <1>3 DEF Pending, Held, Item, new
<1>5. InRun' = InRun /\ \A x \in Threads : \A e : Traverses(x, run, e)' = Traverses(x, run, e)
  BY <1>1 DEF InRun, Traverses, Item
<1> QED
  BY <1>1, <1>4, <1>5
  DEF NobodyWaits, CountedWaits, EdgesWait, AllCounted, Preds

LEMMA NobodyWaitsStep ==
  ASSUME IInv, IInv', FreshRun, NobodyWaits, Next
  PROVE  NobodyWaits'
PROOF
<1>1. CASE ~InRun' \/ stop' BY <1>1 DEF NobodyWaits
<1>2. CASE ClearStop BY <1>2, ClearStopWaits
<1>3. ASSUME NEW w \in Threads, StartWorker(w) PROVE NobodyWaits'
  <2>1. /\ pc \in [Threads -> WorkerPCs]
        /\ UNCHANGED <<stop, graphs, performed, task_queue, item, run, initial, todo>>
        /\ pc[w] \in {"new", "exited"} /\ InRun
        /\ \A x \in Threads : x # w => pc'[x] = pc[x]
    BY <1>3 DEF StartWorker, InRun, shared, IInv, ControlInv, TypeOK, WorkersOK
  <2>2. pc[w] \notin After BY <2>1 DEF After, Locked
  <2> QED BY <2>1, <2>2, ItemsStayWait
<1>4. ASSUME NEW t \in Tasks, QueueInitialTask(t) PROVE NobodyWaits'
  BY <1>4, QueueInitialTaskWaits
<1>5. CASE AllQueued
  <2>1. /\ UNCHANGED <<stop, graphs, performed, task_queue, item, run, initial, todo, pc>> /\ InRun
    BY <1>5 DEF AllQueued, InRun, shared, worker
  <2> QED BY <2>1, ItemsStayWait
<1>6. CASE (\E G \in Graphs : PerformConfig(G)) \/ FixArgumentsRaises \/ Answer
  BY <1>1, <1>6 DEF PerformConfig, FixArgumentsRaises, Answer, InRun
<1>7. ASSUME NEW w \in Threads, Worker(w) PROVE NobodyWaits'
  <2>1. CASE DropTask(w) \/ AbortProcessTasks(w) \/ Finish(w)
    BY <1>1, <2>1 DEF DropTask, AbortProcessTasks, Finish, shared
  <2> QED
    BY <1>7, <2>1, QuietWaits, GetTaskWaits, TrySucceedsWaits, ReleaseWaits, TraverseWaits
    DEF Worker
<1> QED BY <1>2, <1>3, <1>4, <1>5, <1>6, <1>7 DEF Next, Caller

(* Both parts hold in every state.                                         *)
LEMMA GoingCorrect == Spec => [](IInv /\ GoingInv)
PROOF
<1> DEFINE Inv == IInv /\ FreshRun /\ NobodyWaits
<1>1. Init => Inv
  BY IInvInit DEF Init, FreshRun, NobodyWaits, InRun
<1>2. Inv /\ [Next]_vars => Inv'
  <2> SUFFICES ASSUME Inv, [Next]_vars PROVE FreshRun' /\ NobodyWaits'
    BY IInvStep
  <2>1. IInv' BY IInvStep
  <2>2. CASE Next BY <2>1, <2>2, FreshRunStep, NobodyWaitsStep
  <2>3. CASE UNCHANGED vars
    BY <2>3
    DEF vars, shared, graphs, caller, worker, FreshRun, NobodyWaits, Untouched, InRun, CountedWaits,
        EdgesWait, Traverses, AllCounted, Preds, Pending, Queued, Held, Item
  <2> QED BY <2>2, <2>3
<1>3. Inv => IInv /\ GoingInv BY DEF FreshRun, NobodyWaits, GoingInv
<1> QED BY <1>1, <1>2, <1>3, PTL DEF Spec

(* While a run goes on none of its tasks is forgotten, whatever the        *)
(* workers of earlier runs still do.                                       *)
THEOREM NothingForgottenCorrect == Spec => []NothingForgotten
PROOF
<1>1. IInv /\ GoingInv => NothingForgotten
  <2> SUFFICES ASSUME IInv, GoingInv, InRun, ~stop, NEW t \in graph[run].node \ performed[run],
                      ~Pending(run, t)
               PROVE  \E p \in Preds(graph[run], t) :
                        \/ p \notin performed[run]
                        \/ \E w \in Threads : /\ item[w] = Item(run, p) /\ pc[w] \in After
                                              /\ <<p, t>> \notin traversed[run]
    BY DEF NothingForgotten
  <2>1. CountedWaits /\ EdgesWait BY DEF GoingInv
  <2>2. ~AllCounted(run, t) BY <2>1 DEF CountedWaits
  <2>3. PICK p \in Preds(graph[run], t) : <<p, t>> \notin traversed[run] BY <2>2 DEF AllCounted
  <2>4. <<p, t>> \in graph[run].edge BY <2>3 DEF Preds
  <2>5. p \in performed[run] => \E w \in Threads : Traverses(w, run, <<p, t>>)
    BY <2>1, <2>3, <2>4 DEF EdgesWait
  <2> QED BY <2>3, <2>5 DEF Traverses
<1> QED BY <1>1, GoingCorrect, PTL

-----------------------------------------------------------------------------
(* Counting. A task is given up without an attempt if its repeat_count is  *)
(* 0: without such tasks every end of a run that is not an abort is that   *)
(* of the worker that counts the last task.                                *)
Attempted == \A t \in Tasks : RepeatCount[t] > 0

LEMMA LeftSame ==
  ASSUME UNCHANGED <<graph, run, performed>>,
         \A x \in Threads : pc[x] \in Uncounted \/ pc'[x] \in Uncounted =>
           pc[x] \in Uncounted /\ pc'[x] \in Uncounted /\ item'[x] = item[x]
  PROVE  Left' = Left
PROOF BY DEF Left, Item

(* What is left stays left, but for the task that is counted.              *)
LEMMA LeftStays ==
  ASSUME IInv, Next, \A G \in Graphs : ~PerformConfig(G), \A w \in Threads : ~StoreCount(w)
  PROVE  Left' = Left /\ UNCHANGED <<run, num_tasks_to_perform>>
PROOF
<1>1. /\ pc \in [Threads -> WorkerPCs] /\ item \in [Threads -> Items \cup {NoItem}]
      /\ performed \in [Runs -> SUBSET Tasks]
  BY DEF IInv, ControlInv, TypeOK, WorkersOK, GraphsOK
<1> USE DEF shared, graphs, caller, worker, Goto, Leave
<1>2. CASE FixArgumentsRaises \/ ClearStop \/ AllQueued \/ Answer
  BY <1>2, LeftSame DEF FixArgumentsRaises, ClearStop, AllQueued, Answer
<1>3. ASSUME NEW t \in Tasks, QueueInitialTask(t) PROVE Left' = Left /\ UNCHANGED <<run, num_tasks_to_perform>>
  BY <1>3, LeftSame DEF QueueInitialTask
<1>4. ASSUME NEW w \in Threads, StartWorker(w) PROVE Left' = Left /\ UNCHANGED <<run, num_tasks_to_perform>>
  <2>1. \A x \in Threads : x # w => pc'[x] = pc[x] BY <1>1, <1>4 DEF StartWorker
  <2>2. pc[w] \notin Uncounted /\ pc'[w] \notin Uncounted BY <1>1, <1>4 DEF StartWorker, Uncounted
  <2> QED BY <1>4, <2>1, <2>2, LeftSame DEF StartWorker
<1>5. ASSUME NEW w \in Threads, TrySucceeds(w) PROVE Left' = Left /\ UNCHANGED <<run, num_tasks_to_perform>>
  <2>1. /\ UNCHANGED <<graph, run, item, num_tasks_to_perform>> /\ pc[w] = "try" /\ pc'[w] = "acquire"
        /\ \A x \in Threads : x # w => pc'[x] = pc[x]
        /\ performed' = [performed EXCEPT ![item[w].run] = @ \cup {item[w].task}]
    BY <1>1, <1>5 DEF TrySucceeds
  <2>2. /\ item[w].run \in Runs /\ item[w] = Item(item[w].run, item[w].task)
        /\ item[w].task \notin performed[item[w].run] /\ item[w].run <= run
    BY <2>1, ItemType, HeldIsReleased DEF IInv, Idle, HeldInv, Before
  <2>3. run \in Runs BY <2>2 DEF Runs, IInv, ControlInv, TypeOK, CallerOK
  <2>4. \A t : Item(run, t) = item[w] <=> item[w].run = run /\ item[w].task = t BY <2>2 DEF Item
  <2>5. \A t : t \in performed'[run] <=> t \in performed[run] \/ Item(run, t) = item[w]
    BY <1>1, <2>1, <2>2, <2>3, <2>4
  <2>6. ASSUME NEW t \in graph[run].node PROVE t \in Left' <=> t \in Left
    <3>1. CASE Item(run, t) = item[w]
      <4>1. t \notin performed[run] BY <2>2, <2>4, <3>1
      <4>2. item'[w] = Item(run, t) /\ pc'[w] \in Uncounted BY <2>1, <3>1 DEF Uncounted
      <4> QED BY <2>1, <4>1, <4>2 DEF Left, Item
    <3>2. CASE Item(run, t) # item[w]
      <4>1. (\E x \in Threads : item[x] = Item(run, t) /\ pc[x] \in Uncounted)
            <=> \E x \in Threads : item'[x] = Item(run, t) /\ pc'[x] \in Uncounted
        BY <2>1, <3>2
      <4> QED BY <2>1, <2>5, <3>2, <4>1 DEF Left, Item
    <3> QED BY <3>1, <3>2
  <2> QED BY <2>1, <2>6 DEF Left
<1>6. ASSUME NEW w \in Threads, Worker(w), ~TrySucceeds(w)
      PROVE  Left' = Left /\ UNCHANGED <<run, num_tasks_to_perform>>
  <2>1. /\ UNCHANGED <<graph, run, performed, num_tasks_to_perform>>
        /\ \A x \in Threads : x # w => pc'[x] = pc[x] /\ item'[x] = item[x]
    BY <1>1, <1>6
    DEF Worker, TestStop, GetTask, GetTimesOut, DropTask, PerformTask, BeginAttempt, OpenLogFails,
        TryFails, AbortProcessTasks, AcquireNodeLock, TestCount, Finish, TraverseSuccessor,
        ReleaseNodeLock
  <2>2. \/ pc[w] \notin Uncounted /\ pc'[w] \notin Uncounted
        \/ pc[w] \in Uncounted /\ pc'[w] \in Uncounted /\ item'[w] = item[w]
    BY <1>1, <1>6
    DEF Uncounted, Worker, TestStop, GetTask, GetTimesOut, DropTask, PerformTask, BeginAttempt,
        OpenLogFails, TryFails, AbortProcessTasks, AcquireNodeLock, TestCount, Finish,
        TraverseSuccessor, ReleaseNodeLock
  <2> QED BY <2>1, <2>2, LeftSame
<1> QED BY <1>2, <1>3, <1>4, <1>5, <1>6 DEF Next, Caller

(* The worker that counts takes its own task away.                         *)
LEMMA StoreCountLeft ==
  ASSUME IInv, NEW w \in Threads, StoreCount(w), item[w].run = run
  PROVE  /\ item[w].task \in Left /\ Left' = Left \ {item[w].task} /\ run' = run
         /\ \A x \in Threads : pc'[x] # "store"
PROOF
<1>1. /\ pc \in [Threads -> WorkerPCs] /\ pc[w] = "store" /\ pc'[w] = "test"
      /\ \A x \in Threads : x # w => pc'[x] = pc[x]
      /\ UNCHANGED <<graph, run, performed, item>>
  BY DEF StoreCount, Goto, graphs, caller, IInv, ControlInv, TypeOK, WorkersOK
<1>2. item[w] = Item(run, item[w].task) /\ item[w].task \in graph[run].node /\ pc[w] \in Uncounted
  BY <1>1, ItemType, HeldIsReleased DEF IInv, Idle, Uncounted
<1>3. item[w].task \in Left BY <1>2 DEF Left
<1>4. item[w].task \in performed[run] BY <1>1 DEF IInv, HeldInv, After, Locked
<1>5. \A x \in Threads : x # w => item[x] # item[w]
  BY <1>1, ItemType, NullAssumption DEF IInv, HeldInv, Idle
<1>6. ASSUME NEW t \in graph[run].node PROVE t \in Left' <=> t \in Left /\ t # item[w].task
  <2>1. CASE t = item[w].task
    BY <1>1, <1>2, <1>4, <1>5, <2>1 DEF Left, Item, Uncounted
  <2>2. CASE t # item[w].task
    <3>1. item[w] # Item(run, t) BY <2>2 DEF Item
    <3> QED BY <1>1, <2>2, <3>1 DEF Left, Item
  <2> QED BY <2>1, <2>2
<1>7. \A x \in Threads : pc'[x] # "store"
  BY <1>1 DEF IInv, ControlInv, WorkerInv, Locked
<1> QED BY <1>1, <1>3, <1>6, <1>7 DEF Left

LEMMA LeftFinite ==
  ASSUME IInv, run \in Runs
  PROVE  IsFiniteSet(Left)
PROOF
<1>1. graph[run] \in Graphs \cup {NoGraph} BY DEF IInv, ControlInv, TypeOK, GraphsOK
<1>2. IsFiniteSet(graph[run].node) BY <1>1, GraphAssumption, FS_EmptySet DEF NoGraph
<1> QED BY <1>2, FS_Subset DEF Left

(* The count is of what is left, when who counts is of the run.            *)
LEMMA CountsStep ==
  ASSUME IInv, Counts, run \in Runs, Next, \A G \in Graphs : ~PerformConfig(G),
         \A w \in Threads : pc[w] = "store" => item[w].run = run
  PROVE  Counts'
PROOF
<1>1. ASSUME NEW w \in Threads, StoreCount(w) PROVE Counts'
  <2>1. /\ item[w].run = run /\ num_tasks_to_perform' = num_tasks_to_perform - 1
    BY <1>1 DEF StoreCount, Goto, Counts
  <2>2. Cardinality(Left') = Cardinality(Left) - 1
    BY <1>1, <2>1, StoreCountLeft, LeftFinite, FS_RemoveElement
  <2> QED BY <1>1, <2>1, <2>2, StoreCountLeft DEF Counts
<1>2. CASE \A w \in Threads : ~StoreCount(w)
  <2>1. Left' = Left /\ UNCHANGED num_tasks_to_perform BY <1>2, LeftStays
  <2>2. /\ pc \in [Threads -> WorkerPCs] /\ count \in [Threads -> Int]
    BY DEF IInv, ControlInv, TypeOK, WorkersOK
  <2>3. ASSUME NEW x \in Threads, pc'[x] = "store" PROVE count'[x] = num_tasks_to_perform
    <3>1. \/ pc[x] = "store" /\ count'[x] = count[x]
          \/ count'[x] = num_tasks_to_perform
      <4>1. CASE Caller
        BY <2>2, <2>3, <4>1
        DEF Caller, FixArgumentsRaises, ClearStop, StartWorker, QueueInitialTask, AllQueued, Answer, worker
      <4>2. ASSUME NEW w \in Threads, Worker(w), ~StoreCount(w)
            PROVE  \/ pc[x] = "store" /\ count'[x] = count[x]
                   \/ count'[x] = num_tasks_to_perform
        BY <2>2, <2>3, <4>2
        DEF Worker, TestStop, GetTask, GetTimesOut, DropTask, PerformTask, BeginAttempt, OpenLogFails,
          TrySucceeds, TryFails, AbortProcessTasks, AcquireNodeLock, TestCount, Finish,
          TraverseSuccessor, ReleaseNodeLock, Goto, Leave
      <4> QED BY <1>2, <4>1, <4>2 DEF Next
    <3> QED BY <3>1 DEF Counts
  <2> QED BY <2>1, <2>3 DEF Counts
<1> QED BY <1>1, <1>2

(* A new run has all its tasks left, and nobody counts in it.              *)
LEMMA PerformConfigCounts ==
  ASSUME IInv, NEW G \in Graphs, PerformConfig(G), \A w \in Threads : pc[w] # "store"
  PROVE  Counts'
PROOF
<1>1. /\ run + 1 \in Runs /\ run' = run + 1 /\ graph'[run + 1] = G
      /\ num_tasks_to_perform' = Cardinality(G.node) /\ UNCHANGED <<performed, pc>>
  BY CountAssumption DEF PerformConfig, IInv, ControlInv, TypeOK, CallerOK, GraphsOK, Runs, worker
<1>2. performed[run + 1] = {} BY <1>1 DEF IInv, FutureInv, ControlInv, TypeOK, CallerOK
<1>3. Left' = G.node BY <1>1, <1>2 DEF Left
<1> QED BY <1>1, <1>3 DEF Counts

(* In the first run, everybody counts in it.                               *)
LEMMA FirstCounts ==
  ASSUME IInv, run = 1 => Counts, Next
  PROVE  (run = 1 => Counts)'
PROOF
<1>1. ASSUME NEW G \in Graphs, PerformConfig(G), run' = 1 PROVE Counts'
  <2>1. run = 0 BY <1>1 DEF PerformConfig, IInv, ControlInv, TypeOK, CallerOK
  <2>2. \A w \in Threads : pc[w] \in Idle
    BY <2>1, HeldIsReleased, ItemType DEF IInv, Runs
  <2> QED BY <1>1, <2>2, PerformConfigCounts DEF Idle
<1>2. CASE \A G \in Graphs : ~PerformConfig(G)
  <2>1. run' = run
    BY <1>2
    DEF Next, Caller, FixArgumentsRaises, ClearStop, StartWorker, QueueInitialTask, AllQueued, Answer,
        Worker, TestStop, GetTask, GetTimesOut, DropTask, PerformTask, BeginAttempt, OpenLogFails,
        TrySucceeds, TryFails, AbortProcessTasks, AcquireNodeLock, StoreCount, TestCount, Finish,
        TraverseSuccessor, ReleaseNodeLock, caller
  <2>2. ASSUME run = 1 PROVE Counts'
    <3>1. run \in Runs BY <2>2 DEF IInv, ControlInv, TypeOK, CallerOK, Runs
    <3>2. \A w \in Threads : pc[w] = "store" => item[w].run = run
      BY <2>2, ItemType, HeldIsReleased DEF IInv, Idle, Runs
    <3> QED BY <1>2, <2>2, <3>1, <3>2, CountsStep
  <2> QED BY <2>1, <2>2
<1> QED BY <1>1, <1>2

(* With no rerun the count is exact whenever the lock is free.             *)
THEOREM CountIsExactCorrect == Spec => []CountIsExact
PROOF
<1> DEFINE Inv == IInv /\ (run = 1 => Counts)
<1>1. Init => Inv
  <2>1. Init => run # 1 BY DEF Init
  <2> QED BY <2>1, IInvInit
<1>2. Inv /\ [Next]_vars => Inv'
  <2> SUFFICES ASSUME IInv, run = 1 => Counts, [Next]_vars PROVE (run = 1 => Counts)'
    BY IInvStep
  <2>1. CASE UNCHANGED vars
    BY <2>1 DEF vars, shared, graphs, caller, worker, Counts, Left, Item
  <2> QED BY <2>1, FirstCounts
<1>3. Inv => CountIsExact
  <2> SUFFICES ASSUME IInv, Counts, node_lock = Nobody, run = 1 PROVE CountIsExact
    BY DEF CountIsExact
  <2>1. \A w \in Threads : pc[w] # "store"
    BY NullAssumption DEF IInv, ControlInv, WorkerInv, Locked
  <2>2. Left = {t \in graph[1].node : t \in performed[1] =>
                   \E w \in Threads : item[w] = Item(1, t) /\ pc[w] = "acquire"}
    BY <2>1 DEF Left, Uncounted
  <2> QED BY <2>2 DEF CountIsExact, Counts
<1>4. QED
  BY <1>1, <1>2, <1>3, PTL DEF Spec

-----------------------------------------------------------------------------
(* Where nothing was aborted: who ends a run, and what is left then.       *)

(* What a task does that is given up was recorded before.                  *)
LEMMA NobodyAborts ==
  ASSUME IInv, Attempted, aborted_tasks = {}, NEW w \in Threads, AbortProcessTasks(w)
  PROVE  FALSE
PROOF
<1>1. pc[w] = "attempt" /\ ~Retries(w) BY DEF AbortProcessTasks, Leave, Goto
<1>2. item[w].task \in Tasks BY <1>1, ItemType DEF IInv, Idle
<1>3. tries[w] \in Nat /\ RepeatCount[item[w].task] \in Nat
  BY <1>2, CountAssumption DEF IInv, ControlInv, TypeOK, WorkersOK
<1>4. tries[w] > 0 BY <1>1, <1>2, <1>3 DEF Retries, Attempted
<1> QED BY <1>1, <1>4 DEF IInv, HeldInv

(* A task that succeeds is of the run that goes on.                        *)
LEMMA WhoSucceedsIsOfTheRun ==
  ASSUME IInv, Clean, NEW w \in Threads, TrySucceeds(w)
  PROVE  item[w].run = run /\ InRun /\ ~stop
PROOF
<1> DEFINE r == item[w].run
<1>1. pc[w] = "try" BY DEF TrySucceeds, Goto
<1>2. /\ r \in Runs /\ r <= run /\ item[w].task \in graph[r].node
      /\ item[w].task \notin performed[r] /\ item[w] # NoItem
  BY <1>1, ItemType, HeldIsReleased DEF IInv, Idle, HeldInv, Before, ControlInv, WorkerInv
<1>3. ~(r < run \/ ~InRun) BY <1>2 DEF Clean, OldRunsDone, Untouched
<1>4. r = run
  BY <1>2, <1>3 DEF Runs, IInv, ControlInv, TypeOK, CallerOK
<1>5. Left # {} BY <1>2, <1>4 DEF Left
<1> QED BY <1>3, <1>4, <1>5 DEF Clean, AllDone

(* Nobody counts once all is done.                                         *)
LEMMA NobodyCounts ==
  ASSUME IInv, CountersWait, Left = {}, NEW w \in Threads
  PROVE  pc[w] \notin Uncounted
PROOF
<1> SUFFICES ASSUME pc[w] \in Uncounted PROVE FALSE
  OBVIOUS
<1>1. item[w].run = run BY DEF CountersWait, Counting
<1>2. item[w] = Item(run, item[w].task) /\ item[w].task \in graph[run].node
  BY <1>1, ItemType, HeldIsReleased DEF IInv, Idle, Uncounted
<1> QED BY <1>2 DEF Left

(* What was performed stays performed.                                     *)
LEMMA WorkersPerform ==
  ASSUME IInv, NEW w \in Threads, Worker(w)
  PROVE  \A r \in Runs : performed[r] \subseteq performed'[r]
PROOF
<1>1. performed \in [Runs -> SUBSET Tasks] BY DEF IInv, ControlInv, TypeOK, GraphsOK
<1> QED
  BY <1>1
  DEF Worker, TestStop, GetTask, GetTimesOut, DropTask, PerformTask, BeginAttempt, OpenLogFails,
     TrySucceeds, TryFails, AbortProcessTasks, AcquireNodeLock, StoreCount, TestCount, Finish,
     TraverseSuccessor, ReleaseNodeLock

(* Workers leave the old runs as they are.                                 *)
LEMMA WorkerKeepsOldRuns ==
  ASSUME IInv, OldRunsDone, NEW w \in Threads, Worker(w)
  PROVE  OldRunsDone'
PROOF
<1>1. UNCHANGED <<graph, run, main>>
  BY DEF Worker, TestStop, GetTask, GetTimesOut, DropTask, PerformTask, BeginAttempt, OpenLogFails,
     TrySucceeds, TryFails, AbortProcessTasks, AcquireNodeLock, StoreCount, TestCount, Finish,
     TraverseSuccessor, ReleaseNodeLock, caller, graphs
<1>2. ASSUME NEW r \in Runs, Untouched(r) PROVE Untouched(r)'
  BY <1>2, WorkerMoves DEF Untouched
<1> QED BY <1>1, <1>2, WorkersPerform DEF OldRunsDone, InRun

(* What a step does to the runs before, and to those that did not begin.   *)
LEMMA OldRunsStep ==
  ASSUME IInv, FreshRun, Clean, Next
  PROVE  OldRunsDone'
PROOF
<1>1. ASSUME NEW w \in Threads, Worker(w) PROVE OldRunsDone'
  BY <1>1, WorkerKeepsOldRuns DEF Clean
<1>2. ASSUME NEW G \in Graphs, PerformConfig(G) PROVE OldRunsDone'
  <2>1. /\ run + 1 \in Runs /\ run' = run + 1 /\ main' = "clear_stop" /\ ~InRun
        /\ \A r \in Runs : r # run + 1 => graph'[r] = graph[r]
        /\ UNCHANGED <<task_queue, item, performed>>
    BY <1>2, CountAssumption
    DEF PerformConfig, InRun, Answered, IInv, ControlInv, TypeOK, CallerOK, GraphsOK, Runs, worker
  <2>2. PICK n \in Runs : n = run + 1 BY <2>1
  <2>3. Untouched(n)'
    <3>1. FreshRun' BY <1>2, FreshRunStep
    <3> QED BY <2>1, <2>2, <3>1 DEF FreshRun, Untouched
  <2>4. ASSUME NEW r \in Runs, r # n PROVE Untouched(r)' \/ graph'[r].node \subseteq performed'[r]
    BY <2>1, <2>2, <2>4 DEF Clean, OldRunsDone, Untouched
  <2> QED BY <2>3, <2>4 DEF OldRunsDone
<1>3. CASE FixArgumentsRaises \/ ClearStop
  BY <1>3 DEF FixArgumentsRaises, ClearStop, Clean, OldRunsDone, InRun, Untouched, graphs, shared, worker
<1>4. CASE AllQueued \/ \E w \in Threads : StartWorker(w)
  <2>1. /\ InRun /\ InRun' /\ UNCHANGED <<graph, run, performed, item, task_queue>>
    BY <1>4 DEF AllQueued, StartWorker, InRun, graphs, shared, worker
  <2> QED BY <2>1 DEF Clean, OldRunsDone, Untouched
<1>5. ASSUME NEW t \in Tasks, QueueInitialTask(t) PROVE OldRunsDone'
  <2>1. /\ InRun /\ InRun' /\ UNCHANGED <<graph, run, performed, item>>
        /\ task_queue' = Append(task_queue, Item(run, t)) /\ task_queue \in Seq(Items)
    BY <1>5
    DEF QueueInitialTask, InRun, graphs, worker, Item, IInv, ControlInv, TypeOK, SharedOK
  <2>2. Item(run, t).run = run BY DEF Item
  <2>3. \A k \in 1 .. Len(task_queue') :
          task_queue'[k].run = run \/ \E j \in 1 .. Len(task_queue) : task_queue'[k] = task_queue[j]
    <3> DEFINE new == Item(run, t)
    <3> HIDE DEF new
    <3>1. /\ Len(task_queue') = Len(task_queue) + 1 /\ Len(task_queue) \in Nat
          /\ \A k \in 1 .. Len(task_queue) : task_queue'[k] = task_queue[k]
          /\ task_queue'[Len(task_queue) + 1] = new /\ new.run = run
      BY <2>1, <2>2 DEF new
    <3> QED BY <3>1
  <2>4. ASSUME NEW r \in Runs, r < run PROVE Untouched(r)' \/ graph'[r].node \subseteq performed'[r]
    <3>1. r # run BY <2>4 DEF Runs, IInv, ControlInv, TypeOK, CallerOK
    <3> QED BY <2>1, <2>3, <2>4, <3>1 DEF Clean, OldRunsDone, Untouched
  <2> QED BY <2>1, <2>4 DEF OldRunsDone
<1>6. CASE Answer
  <2>1. /\ InRun /\ stop /\ UNCHANGED <<graph, run, performed, item, task_queue>>
    BY <1>6 DEF Answer, InRun, graphs, shared, worker
  <2>2. Left = {} BY <2>1 DEF Clean, AllDone
  <2>3. ASSUME NEW r \in Runs PROVE Untouched(r) \/ graph[r].node \subseteq performed[r]
    <3>1. CASE r < run BY <3>1 DEF Clean, OldRunsDone
    <3>2. CASE r = run BY <2>2, <3>2 DEF Left
    <3>3. CASE r > run
      <4>1. performed[r] = {} BY <3>3 DEF IInv, FutureInv
      <4>2. ~(r <= run) BY <3>3 DEF Runs, IInv, ControlInv, TypeOK, CallerOK
      <4> QED BY <4>1, <4>2, ItemsHaveBegun DEF Untouched
    <3> QED BY <3>1, <3>2, <3>3 DEF Runs, IInv, ControlInv, TypeOK, CallerOK
  <2> QED BY <2>1, <2>3 DEF OldRunsDone, Untouched
<1> QED BY <1>1, <1>2, <1>3, <1>4, <1>5, <1>6 DEF Next, Caller

(* Who counts, counts in the run that goes on.                             *)
LEMMA CountersStep ==
  ASSUME IInv, Attempted, aborted_tasks = {}, Clean, Next
  PROVE  CountersWait'
PROOF
<1>1. pc \in [Threads -> WorkerPCs] /\ item \in [Threads -> Items \cup {NoItem}]
  BY DEF IInv, ControlInv, TypeOK, WorkersOK
<1>2. ASSUME ~InRun \/ stop PROVE \A x \in Threads : pc[x] \notin Counting
  BY <1>2 DEF Clean, CountersWait
<1>3. CASE \/ FixArgumentsRaises \/ ClearStop \/ Answer \/ \E G \in Graphs : PerformConfig(G)
  <2>1. (~InRun \/ stop) /\ pc' = pc
    BY <1>3 DEF FixArgumentsRaises, ClearStop, Answer, PerformConfig, InRun, Answered, worker
  <2> QED BY <1>2, <2>1 DEF CountersWait
<1>4. CASE \/ AllQueued \/ (\E w \in Threads : StartWorker(w)) \/ \E t \in Tasks : QueueInitialTask(t)
  <2>1. /\ InRun' /\ UNCHANGED <<run, stop, item>>
        /\ \A x \in Threads : pc'[x] = pc[x] \/ pc'[x] = "loop"
    BY <1>1, <1>4 DEF AllQueued, StartWorker, QueueInitialTask, InRun, shared, worker
  <2> QED BY <2>1 DEF Clean, CountersWait, Counting, Uncounted
<1>5. ASSUME NEW w \in Threads, Finish(w) PROVE CountersWait'
  <2>1. /\ pc[w] = "finish" /\ pc'[w] = "succ" /\ \A x \in Threads : x # w => pc'[x] = pc[x]
    BY <1>1, <1>5 DEF Finish, Goto
  <2>2. Left = {} BY <2>1 DEF Clean, AllDone
  <2>3. \A x \in Threads : pc[x] \notin Uncounted BY <2>2, NobodyCounts DEF Clean
  <2>4. \A x \in Threads : x # w => pc[x] \notin {"test", "finish"}
    BY <2>1 DEF IInv, ControlInv, WorkerInv, Locked
  <2>5. \A x \in Threads : pc'[x] \notin Counting BY <2>1, <2>3, <2>4 DEF Counting, Uncounted
  <2> QED BY <2>5 DEF CountersWait
<1>6. ASSUME NEW w \in Threads, TrySucceeds(w) PROVE CountersWait'
  <2>1. /\ UNCHANGED <<run, stop, main, item>> /\ \A x \in Threads : x # w => pc'[x] = pc[x]
    BY <1>1, <1>6 DEF TrySucceeds, Goto, caller, shared
  <2> QED BY <1>6, <2>1, WhoSucceedsIsOfTheRun DEF Clean, CountersWait, InRun
<1>7. ASSUME NEW w \in Threads, Worker(w), ~Finish(w), ~TrySucceeds(w) PROVE CountersWait'
  <2>1. /\ UNCHANGED <<run, stop, main>>
        /\ \A x \in Threads : x # w => pc'[x] = pc[x] /\ item'[x] = item[x]
    BY <1>1, <1>7, NobodyAborts
    DEF Worker, TestStop, GetTask, GetTimesOut, DropTask, PerformTask, BeginAttempt, OpenLogFails,
        TryFails, AcquireNodeLock, StoreCount, TestCount, TraverseSuccessor, ReleaseNodeLock,
        Goto, Leave, caller, shared
  <2>2. pc'[w] \in Counting => pc[w] \in Counting /\ item'[w] = item[w]
    BY <1>1, <1>7, NobodyAborts
    DEF Worker, TestStop, GetTask, GetTimesOut, DropTask, PerformTask, BeginAttempt, OpenLogFails,
        TryFails, AcquireNodeLock, StoreCount, TestCount, TraverseSuccessor, ReleaseNodeLock,
        Goto, Leave, Counting, Uncounted
  <2> QED BY <2>1, <2>2 DEF Clean, CountersWait, InRun
<1> QED BY <1>3, <1>4, <1>5, <1>6, <1>7 DEF Next, Caller

(* The flag is set, and perform_config returns, when nothing is left.      *)
LEMMA AllDoneStep ==
  ASSUME IInv, Attempted, aborted_tasks = {}, Clean, Next, AllDone'
  PROVE  Left' = {}
PROOF
<1>1. pc \in [Threads -> WorkerPCs]
  BY DEF IInv, ControlInv, TypeOK, WorkersOK
<1>2. ASSUME NEW G \in Graphs, PerformConfig(G) PROVE FALSE
  <2>1. ~InRun /\ pc' = pc /\ main' = "clear_stop"
    BY <1>2 DEF PerformConfig, InRun, Answered, worker
  <2> QED BY <2>1 DEF AllDone, Clean, CountersWait, Counting, InRun
<1>3. ASSUME NEW w \in Threads, StoreCount(w) PROVE Left' = {}
  <2>1. /\ UNCHANGED <<stop, main>> /\ pc[w] = "store" /\ pc'[w] = "test"
        /\ \A x \in Threads : x # w => pc'[x] = pc[x]
    BY <1>1, <1>3 DEF StoreCount, Goto, caller
  <2>2. Left = {} BY <2>1 DEF Clean, AllDone, InRun
  <2> QED BY <2>1, <2>2, NobodyCounts DEF Clean, Uncounted
<1>4. ASSUME NEW w \in Threads, TestCount(w), NoneLeft PROVE Left = {}
  <2>1. pc[w] = "test" BY <1>4 DEF TestCount, Goto
  <2>2. run \in Runs
    BY <2>1 DEF Clean, CountersWait, Counting, InRun, IInv, ControlInv, CallerInv, TypeOK, CallerOK, Runs
  <2>3. Cardinality(Left) = 0 BY <1>4, <2>2 DEF NoneLeft, Clean, Counts, Runs
  <2> QED BY <2>2, <2>3, LeftFinite, FS_EmptySet
<1>5. CASE (\A G \in Graphs : ~PerformConfig(G)) /\ \A w \in Threads : ~StoreCount(w)
  <2>1. Left' = Left BY <1>5, LeftStays
  <2>2. CASE \E w \in Threads : TestCount(w) /\ NoneLeft BY <1>4, <2>1, <2>2
  <2>3. CASE \A w \in Threads : ~(TestCount(w) /\ NoneLeft)
    <3>1. AllDone
      <4>1. CASE \E x \in Threads : pc'[x] = "finish" /\ pc[x] # "finish"
        <5>1. PICK x \in Threads : pc'[x] = "finish" /\ pc[x] # "finish" BY <4>1
        <5>2. ~Caller
          BY <1>1, <1>5, <5>1
          DEF Caller, FixArgumentsRaises, ClearStop, StartWorker, QueueInitialTask, AllQueued, Answer, worker
        <5>3. PICK w \in Threads : Worker(w) BY <5>2 DEF Next
        <5>4. TestCount(w) /\ NoneLeft
          BY <1>1, <1>5, <5>1, <5>3
          DEF Worker, TestStop, GetTask, GetTimesOut, DropTask, PerformTask, BeginAttempt, OpenLogFails,
            TrySucceeds, TryFails, AbortProcessTasks, AcquireNodeLock, TestCount, Finish,
            TraverseSuccessor, ReleaseNodeLock, Goto, Leave
        <5> QED BY <2>3, <5>4
      <4>2. CASE (InRun /\ stop)' \/ main' = "returned"
        <5>1. \A w \in Threads : ~AbortProcessTasks(w) BY NobodyAborts
        <5>2. \/ \E w \in Threads : Finish(w)
              \/ Answer
              \/ UNCHANGED <<stop, main>>
              \/ main' = "error"
              \/ stop' = FALSE /\ main' = "spawn"
              \/ InRun /\ InRun' /\ stop' = stop
          <6>1. CASE Caller
            BY <1>5, <6>1
            DEF Caller, FixArgumentsRaises, ClearStop, StartWorker, QueueInitialTask, AllQueued, InRun, shared
          <6>2. ASSUME NEW w \in Threads, Worker(w), ~Finish(w) PROVE UNCHANGED <<stop, main>>
            BY <1>5, <5>1, <6>2
            DEF Worker, TestStop, GetTask, GetTimesOut, DropTask, PerformTask, BeginAttempt, OpenLogFails,
              TrySucceeds, TryFails, AcquireNodeLock, TestCount, TraverseSuccessor, ReleaseNodeLock,
              shared, caller
          <6> QED BY <6>1, <6>2 DEF Next
        <5> QED BY <4>2, <5>2 DEF AllDone, InRun, Finish, Goto, Answer
      <4> QED BY <4>1, <4>2 DEF AllDone
    <3> QED BY <2>1, <3>1 DEF Clean
  <2> QED BY <2>2, <2>3
<1> QED BY <1>2, <1>3, <1>5

(* All of it, for a step that aborts nothing.                              *)
LEMMA CleanStep ==
  ASSUME IInv, FreshRun, Attempted, aborted_tasks = {}, Clean, Next, aborted_tasks' = {}
  PROVE  Clean'
PROOF
<1>1. main' # "raised"
  BY DEF Clean, Next, Caller, PerformConfig, FixArgumentsRaises, ClearStop, StartWorker,
     QueueInitialTask, AllQueued, Answer, Worker, TestStop, GetTask, GetTimesOut, DropTask,
     PerformTask, BeginAttempt, OpenLogFails, TrySucceeds, TryFails, AbortProcessTasks,
     AcquireNodeLock, StoreCount, TestCount, Finish, TraverseSuccessor, ReleaseNodeLock, caller
<1>2. run' > 0 => Counts'
  <2>1. ASSUME NEW G \in Graphs, PerformConfig(G) PROVE Counts'
    <3>1. \A w \in Threads : pc[w] # "store"
      BY <2>1 DEF PerformConfig, Clean, CountersWait, Counting, Uncounted, InRun, Answered
    <3> QED BY <2>1, <3>1, PerformConfigCounts
  <2>2. CASE \A G \in Graphs : ~PerformConfig(G)
    <3>1. run' = run
      BY <2>2
      DEF Next, Caller, FixArgumentsRaises, ClearStop, StartWorker, QueueInitialTask, AllQueued, Answer,
          Worker, TestStop, GetTask, GetTimesOut, DropTask, PerformTask, BeginAttempt, OpenLogFails,
          TrySucceeds, TryFails, AbortProcessTasks, AcquireNodeLock, StoreCount, TestCount, Finish,
          TraverseSuccessor, ReleaseNodeLock, caller
    <3>2. ASSUME run > 0 PROVE run \in Runs /\ Counts
      BY <3>2 DEF Clean, IInv, ControlInv, TypeOK, CallerOK, Runs
    <3>3. \A w \in Threads : pc[w] = "store" => item[w].run = run
      BY DEF Clean, CountersWait, Counting, Uncounted
    <3> QED BY <2>2, <3>1, <3>2, <3>3, CountsStep
  <2> QED BY <2>1, <2>2
<1> QED BY <1>1, <1>2, OldRunsStep, CountersStep, AllDoneStep DEF Clean

(* perform_config returns normally only when every task of its graph was   *)
(* performed, if no task is given up without an attempt: one with          *)
(* repeat_count 0 is, which neither performs nor records it.               *)
THEOREM NormalReturnCorrect == Attempted => (Spec => []NormalReturn)
PROOF
<1> SUFFICES ASSUME Attempted PROVE Spec => []NormalReturn
  OBVIOUS
<1> DEFINE Returned == main = "returned" => graph[run].node \subseteq performed[run]
           Inv == IInv /\ FreshRun /\ (aborted_tasks = {} => Clean) /\ Returned
<1>1. Init => Inv
  <2> SUFFICES ASSUME Init PROVE Inv
    OBVIOUS
  <2>1. IInv BY IInvInit
  <2>2. FreshRun /\ Returned BY DEF Init, FreshRun
  <2>3. /\ \A r \in Runs : graph[r].node = {}
        /\ \A w \in Threads : pc[w] = "new"
        /\ main = "idle" /\ run = 0
    BY DEF Init, NoGraph
  <2>4. OldRunsDone BY <2>3 DEF OldRunsDone
  <2>5. Clean BY <2>3, <2>4 DEF Clean, CountersWait, Counting, Uncounted, AllDone, InRun
  <2> QED BY <2>1, <2>2, <2>5
<1>2. Inv /\ [Next]_vars => Inv'
  <2> SUFFICES ASSUME IInv, FreshRun, aborted_tasks = {} => Clean, Returned, [Next]_vars PROVE Inv'
    OBVIOUS
  <2>1. IInv' BY IInvStep
  <2>2. CASE UNCHANGED vars
    <3>1. UNCHANGED <<stop, task_queue, num_tasks_to_perform, aborted_tasks, graph, run, main, initial,
                      pc, item, count, performed>>
      BY <2>2 DEF vars, shared, graphs, caller, worker
    <3>2. FreshRun' /\ Returned' BY <3>1 DEF FreshRun, Untouched
    <3>3. Clean => Clean'
      BY <3>1
      DEF Clean, OldRunsDone, CountersWait, AllDone, Counts, Left, Item, InRun, Untouched
    <3> QED BY <2>1, <3>1, <3>2, <3>3
  <2>3. CASE Next
    <3>1. FreshRun' BY <2>3, FreshRunStep
    <3>2. aborted_tasks \subseteq aborted_tasks'
      BY <2>3
      DEF Next, Caller, PerformConfig, FixArgumentsRaises, ClearStop, StartWorker,
        QueueInitialTask, AllQueued, Answer, Worker, TestStop, GetTask, GetTimesOut, DropTask,
        PerformTask, BeginAttempt, OpenLogFails, TrySucceeds, TryFails, AbortProcessTasks,
        AcquireNodeLock, StoreCount, TestCount, Finish, TraverseSuccessor, ReleaseNodeLock, shared
    <3>3. aborted_tasks' = {} => Clean' BY <2>3, <3>2, CleanStep
    <3>4. Returned'
      <4>1. CASE Answer /\ main' = "returned"
        <5>1. aborted_tasks = {} /\ InRun /\ stop /\ UNCHANGED <<graph, run, performed>>
          BY <4>1 DEF Answer, InRun, graphs
        <5>2. Left = {} BY <5>1 DEF Clean, AllDone
        <5> QED BY <5>1, <5>2 DEF Left
      <4>2. ASSUME NEW w \in Threads, Worker(w) PROVE Returned'
        <5>1. UNCHANGED <<graph, run, main>>
          BY <4>2
          DEF Worker, TestStop, GetTask, GetTimesOut, DropTask, PerformTask, BeginAttempt, OpenLogFails,
            TrySucceeds, TryFails, AbortProcessTasks, AcquireNodeLock, StoreCount, TestCount, Finish,
            TraverseSuccessor, ReleaseNodeLock, caller, graphs
        <5>2. ASSUME main = "returned" PROVE run \in Runs
          BY <5>2 DEF IInv, ControlInv, TypeOK, CallerOK, CallerInv, Runs
        <5> QED BY <4>2, <5>1, <5>2, WorkersPerform
      <4>3. CASE main' # "returned" BY <4>3
      <4> QED
        BY <2>3, <4>1, <4>2, <4>3
        DEF Next, Caller, PerformConfig, FixArgumentsRaises, ClearStop, StartWorker,
          QueueInitialTask, AllQueued
    <3> QED BY <2>1, <3>1, <3>3, <3>4
  <2> QED BY <2>2, <2>3
<1>3. Inv => NormalReturn
  <2> SUFFICES ASSUME IInv, Returned, main = "returned" PROVE performed[run] = graph[run].node
    BY DEF NormalReturn
  <2>1. run \in Runs /\ performed[run] \subseteq Tasks
    BY DEF IInv, ControlInv, TypeOK, CallerOK, CallerInv, GraphsOK, Runs
  <2>2. \A t \in performed[run] : t \in graph[run].node
    BY <2>1 DEF IInv, ReleaseInv, Released
  <2> QED BY <2>2
<1>4. QED
  BY <1>1, <1>2, <1>3, PTL DEF Spec

-----------------------------------------------------------------------------
(* That the agent implements TaskGraph. Two facts are missing in IInv: a   *)
(* task that was given up is not performed later, and a run that is        *)
(* refused has no task that was given up.                                  *)

AbortedInv ==
  /\ \A i \in aborted_tasks : i.task \notin performed[i.run]
  /\ main = "clear_stop" => \A i \in aborted_tasks : i.run # run

LEMMA AbortedStep ==
  ASSUME IInv, FreshRun, AbortedInv, Next
  PROVE  AbortedInv'
PROOF
<1>1. /\ pc \in [Threads -> WorkerPCs] /\ item \in [Threads -> Items \cup {NoItem}]
      /\ performed \in [Runs -> SUBSET Tasks] /\ aborted_tasks \in SUBSET Items
  BY DEF IInv, ControlInv, TypeOK, WorkersOK, GraphsOK, SharedOK
<1>2. ASSUME NEW G \in Graphs, PerformConfig(G) PROVE AbortedInv'
  <2>1. UNCHANGED <<aborted_tasks, performed>> /\ run' = run + 1 /\ run \in Nat
    BY <1>2 DEF PerformConfig, IInv, ControlInv, TypeOK, CallerOK
  <2>2. ASSUME NEW i \in aborted_tasks PROVE i.run # run + 1
    <3>1. i \in Items BY <1>1
    <3>2. i.run \in Runs /\ i.task \in Tasks /\ i = Item(i.run, i.task) BY <3>1 DEF Items, Item
    <3>3. i.run <= run BY <3>2 DEF Released, IInv, ReleaseInv
    <3> QED BY <2>1, <3>2, <3>3 DEF Runs
  <2> QED BY <2>1, <2>2 DEF AbortedInv
<1>3. ASSUME NEW w \in Threads, TrySucceeds(w) PROVE AbortedInv'
  <2>1. /\ UNCHANGED <<aborted_tasks, run, main>> /\ pc[w] = "try"
        /\ performed' = [performed EXCEPT ![item[w].run] = @ \cup {item[w].task}]
    BY <1>3 DEF TrySucceeds, Goto, shared, caller
  <2>2. item[w] \notin aborted_tasks BY <2>1 DEF IInv, HeldInv
  <2>3. item[w].run \in Runs /\ item[w] = Item(item[w].run, item[w].task)
    BY <2>1, ItemType DEF IInv, Idle
  <2>4. ASSUME NEW i \in aborted_tasks PROVE i.task \notin performed'[i.run]
    <3>1. i.run \in Runs /\ i = Item(i.run, i.task) BY <1>1 DEF Items, Item
    <3>2. i.task \notin performed[i.run] BY DEF AbortedInv
    <3>3. ~(i.run = item[w].run /\ i.task = item[w].task) BY <2>2, <2>3, <3>1
    <3> QED BY <1>1, <2>1, <2>3, <3>1, <3>2, <3>3
  <2> QED BY <2>1, <2>4 DEF AbortedInv
<1>4. ASSUME NEW w \in Threads, TryFails(w) PROVE AbortedInv'
  <2>1. /\ UNCHANGED <<performed, run, main>> /\ pc[w] = "try"
        /\ aborted_tasks' \subseteq aborted_tasks \cup {item[w]}
    BY <1>4 DEF TryFails, Goto, caller
  <2>2. item[w].task \notin performed[item[w].run] BY <2>1 DEF IInv, HeldInv, Before
  <2>3. main = "clear_stop" => item[w].run # run
    BY <2>1 DEF FreshRun, Untouched, IInv, ControlInv, WorkerInv, Idle
  <2> QED BY <2>1, <2>2, <2>3 DEF AbortedInv
<1>5. CASE Caller /\ \A G \in Graphs : ~PerformConfig(G)
  <2>1. UNCHANGED <<aborted_tasks, performed, run>> /\ main' # "clear_stop"
    BY <1>5
    DEF Caller, FixArgumentsRaises, ClearStop, StartWorker, QueueInitialTask, AllQueued, Answer, shared
  <2> QED BY <2>1 DEF AbortedInv
<1>6. ASSUME NEW w \in Threads, Worker(w), ~TrySucceeds(w), ~TryFails(w) PROVE AbortedInv'
  <2>1. UNCHANGED <<aborted_tasks, performed, run, main>>
    BY <1>6
    DEF Worker, TestStop, GetTask, GetTimesOut, DropTask, PerformTask, BeginAttempt, OpenLogFails,
        AbortProcessTasks, AcquireNodeLock, StoreCount, TestCount, Finish, TraverseSuccessor,
        ReleaseNodeLock, shared, caller
  <2> QED BY <2>1 DEF AbortedInv
<1> QED BY <1>2, <1>3, <1>4, <1>5, <1>6 DEF Next, Caller

-----------------------------------------------------------------------------
(* The phases of the tasks, as the abstract agent sees them.               *)
PhaseNow == [r \in Runs |-> [t \in Tasks |-> PhaseOf(r, t)]]

Runner(w) == pc[w] \in {"attempt", "try", "dead"} /\ tries[w] > 0

(* A step in which one task moves.                                         *)
LEMMA OneMoves ==
  ASSUME NEW r \in Runs, NEW t \in Tasks, NEW to,
         \A q \in Runs, u \in Tasks :
           PhaseOf(q, u)' = IF q = r /\ u = t THEN to ELSE PhaseOf(q, u)
  PROVE  PhaseNow' = [PhaseNow EXCEPT ![r][t] = to]
PROOF
<1> DEFINE P(q, u) == PhaseOf(q, u)
           Q(q, u) == PhaseOf(q, u)'
<1>1. PhaseNow' = [q \in Runs |-> [u \in Tasks |-> Q(q, u)]] BY DEF PhaseNow
<1>2. PhaseNow = [q \in Runs |-> [u \in Tasks |-> P(q, u)]] BY DEF PhaseNow
<1>3. \A q \in Runs, u \in Tasks : Q(q, u) = IF q = r /\ u = t THEN to ELSE P(q, u)
  OBVIOUS
<1> HIDE DEF P, Q
<1> QED BY <1>1, <1>2, <1>3

(* A step in which none does.                                              *)
LEMMA NoneMoves ==
  ASSUME \A q \in Runs, u \in Tasks : PhaseOf(q, u)' = PhaseOf(q, u)
  PROVE  PhaseNow' = PhaseNow
PROOF BY DEF PhaseNow

(* The items of others are as they were.                                   *)
LEMMA PhaseSame ==
  ASSUME UNCHANGED <<performed, aborted_tasks>>,
         \A x \in Threads : Runner(x) \/ Runner(x)' =>
           Runner(x) /\ Runner(x)' /\ item'[x] = item[x]
  PROVE  PhaseNow' = PhaseNow
PROOF
<1>1. ASSUME NEW q \in Runs, NEW u \in Tasks PROVE PhaseOf(q, u)' = PhaseOf(q, u)
  <2>1. (\E x \in Threads : item[x] = Item(q, u) /\ Runner(x))
        <=> \E x \in Threads : item'[x] = Item(q, u) /\ Runner(x)'
    OBVIOUS
  <2>2. (\E x \in Threads : item[x] = Item(q, u) /\ Runner(x))'
        <=> \E x \in Threads : item'[x] = Item(q, u) /\ Runner(x)'
    BY DEF Item
  <2> DEFINE A == \E x \in Threads : item[x] = Item(q, u) /\ Runner(x)
  <2>3. A' <=> A BY <2>1, <2>2
  <2>4. PhaseOf(q, u) = IF u \in performed[q] THEN "done"
                        ELSE IF Item(q, u) \in aborted_tasks THEN "failed"
                        ELSE IF A THEN "running" ELSE "waiting"
    BY DEF PhaseOf, Runner
  <2>5. PhaseOf(q, u)' = IF u \in performed'[q] THEN "done"
                        ELSE IF Item(q, u) \in aborted_tasks' THEN "failed"
                        ELSE IF A' THEN "running" ELSE "waiting"
    BY DEF PhaseOf, Runner, Item
  <2> HIDE DEF A
  <2> QED BY <2>3, <2>4, <2>5
<1> QED BY <1>1, NoneMoves

(* What a worker does to the task that it has.                             *)
LEMMA MovesAlone ==
  ASSUME IInv, NEW w \in Threads, pc[w] \notin Idle, item' = item,
         \A q \in Runs, u \in Tasks : Item(q, u) # item[w] =>
           /\ u \in performed'[q] <=> u \in performed[q]
           /\ Item(q, u) \in aborted_tasks' <=> Item(q, u) \in aborted_tasks,
         \A x \in Threads : x # w => pc'[x] = pc[x] /\ tries'[x] = tries[x],
         NEW to, PhaseOf(item[w].run, item[w].task)' = to
  PROVE  /\ item[w].run \in Runs /\ item[w].task \in Tasks
         /\ PhaseNow' = [PhaseNow EXCEPT ![item[w].run][item[w].task] = to]
PROOF
<1>1. PICK r \in Runs, t \in Tasks : item[w] = Item(r, t) /\ item[w].run = r /\ item[w].task = t
  BY ItemType DEF IInv
<1>2. PhaseOf(r, t)' = to
  <2>1. item'[w].run = r /\ item'[w].task = t BY <1>1
  <2> QED BY <1>1, <2>1 DEF PhaseOf, Item
<1>3. ASSUME NEW q \in Runs, NEW u \in Tasks, ~(q = r /\ u = t) PROVE PhaseOf(q, u)' = PhaseOf(q, u)
  <2>1. Item(q, u) # item[w] BY <1>1, <1>3 DEF Item
  <2> DEFINE A == \E x \in Threads : item[x] = Item(q, u) /\ Runner(x)
             B == \E x \in Threads : item'[x] = Item(q, u) /\ Runner(x)'
  <2>2. A' <=> B BY DEF Item
  <2>3. A <=> B BY <2>1 DEF Runner
  <2>4. PhaseOf(q, u) = IF u \in performed[q] THEN "done"
                        ELSE IF Item(q, u) \in aborted_tasks THEN "failed"
                        ELSE IF A THEN "running" ELSE "waiting"
    BY DEF PhaseOf, Runner
  <2>5. PhaseOf(q, u)' = IF u \in performed'[q] THEN "done"
                        ELSE IF Item(q, u) \in aborted_tasks' THEN "failed"
                        ELSE IF A' THEN "running" ELSE "waiting"
    BY DEF PhaseOf, Runner, Item
  <2> HIDE DEF A, B
  <2> QED BY <2>1, <2>2, <2>3, <2>4, <2>5
<1> QED BY <1>1, <1>2, <1>3, OneMoves

(* A worker that begins the first attempt starts the task, and all that    *)
(* comes before it is done.                                                *)
LEMMA StartMaps ==
  ASSUME IInv, NEW w \in Threads, BeginAttempt(w) \/ OpenLogFails(w), tries[w] = 0
  PROVE  TG!Next
PROOF
<1>1. /\ pc \in [Threads -> WorkerPCs] /\ tries \in [Threads -> Nat]
      /\ pc[w] = "attempt" /\ Retries(w) /\ pc'[w] \in {"try", "dead"} /\ tries'[w] = 1
      /\ UNCHANGED <<performed, aborted_tasks, item, graph, run, main>>
      /\ \A x \in Threads : x # w => pc'[x] = pc[x] /\ tries'[x] = tries[x]
  BY DEF BeginAttempt, OpenLogFails, Goto, shared, graphs, caller, IInv, ControlInv, TypeOK, WorkersOK
<1>2. PICK r \in Runs, t \in Tasks : item[w] = Item(r, t) /\ item[w].run = r /\ item[w].task = t
  BY <1>1, ItemType DEF IInv, Idle
<1>3. /\ t \notin performed[r] /\ Item(r, t) \notin aborted_tasks
      /\ \A x \in Threads : item[x] = Item(r, t) => x = w
  BY <1>1, <1>2, NullAssumption, MakeItem DEF IInv, HeldInv, Before, Item
<1>4. PhaseOf(r, t) = "waiting" BY <1>1, <1>3 DEF PhaseOf
<1>5. PhaseOf(r, t)' = "running" BY <1>1, <1>2, <1>3 DEF PhaseOf, Item
<1>6. PhaseNow' = [PhaseNow EXCEPT ![r][t] = "running"]
  <2>1. PhaseOf(item[w].run, item[w].task)' = "running"
    BY <1>1, <1>2, <1>5 DEF PhaseOf, Item
  <2> QED BY <1>1, <1>2, <2>1, MovesAlone DEF Idle
<1>7. t \in graph[r].node /\ \A p \in Preds(graph[r], t) : p \in performed[r]
  <2>1. Released(r, t) BY <1>2 DEF Released, Held
  <2> QED BY <2>1 DEF IInv, ReleaseInv, EdgeInv, AllCounted
<1>8. \A p \in Preds(graph[r], t) : p \in Tasks /\ PhaseNow[r][p] = "done"
  <2>1. graph[r].node \subseteq Tasks
    BY GraphAssumption DEF IInv, ControlInv, TypeOK, GraphsOK, NoGraph
  <2> QED BY <1>7, <2>1 DEF PhaseNow, PhaseOf, Preds
<1>9. TG!Start(r, t)
  BY <1>1, <1>4, <1>6, <1>7, <1>8
  DEF TG!Start, TG!Move, TG!Preds, Preds, PhaseNow, OutcomeOf
<1> QED BY <1>9 DEF TG!Next, TG!Runs, Runs

(* An attempt that succeeds completes the task; the last that fails gives  *)
(* it up.                                                                  *)
LEMMA AttemptMaps ==
  ASSUME IInv, NEW w \in Threads, TrySucceeds(w) \/ (TryFails(w) /\ GivesUp(w))
  PROVE  TG!Next
PROOF
<1>1. /\ pc \in [Threads -> WorkerPCs] /\ tries \in [Threads -> Nat]
      /\ performed \in [Runs -> SUBSET Tasks] /\ pc[w] = "try"
      /\ UNCHANGED <<item, tries, graph, run, main>>
      /\ \A x \in Threads : x # w => pc'[x] = pc[x] /\ tries'[x] = tries[x]
  BY DEF TrySucceeds, TryFails, Goto, graphs, caller, IInv, ControlInv, TypeOK, WorkersOK, GraphsOK
<1>2. PICK r \in Runs, t \in Tasks : item[w] = Item(r, t) /\ item[w].run = r /\ item[w].task = t
  BY <1>1, ItemType DEF IInv, Idle
<1>3. t \notin performed[r] /\ Item(r, t) \notin aborted_tasks /\ tries[w] > 0
  BY <1>1, <1>2 DEF IInv, HeldInv, Before
<1>4. PhaseOf(r, t) = "running" BY <1>1, <1>2, <1>3 DEF PhaseOf
<1>5. CASE TrySucceeds(w)
  <2>1. /\ performed' = [performed EXCEPT ![r] = @ \cup {t}] /\ aborted_tasks' = aborted_tasks
    BY <1>2, <1>5 DEF TrySucceeds, shared
  <2>2. PhaseOf(item[w].run, item[w].task)' = "done" BY <1>1, <1>2, <2>1 DEF PhaseOf
  <2>3. \A q \in Runs, u \in Tasks : Item(q, u) # item[w] =>
          /\ u \in performed'[q] <=> u \in performed[q]
          /\ Item(q, u) \in aborted_tasks' <=> Item(q, u) \in aborted_tasks
    BY <1>1, <1>2, <2>1
  <2>4. PhaseNow' = [PhaseNow EXCEPT ![r][t] = "done"]
    BY <1>1, <1>2, <2>2, <2>3, MovesAlone DEF Idle
  <2>5. TG!Complete(r, t)
    BY <1>1, <1>4, <2>4 DEF TG!Complete, TG!Move, PhaseNow, OutcomeOf
  <2> QED BY <2>5 DEF TG!Next, TG!Runs, Runs
<1>6. CASE TryFails(w) /\ GivesUp(w)
  <2>1. performed' = performed /\ aborted_tasks' = aborted_tasks \cup {item[w]}
    BY <1>6 DEF TryFails
  <2>2. PhaseOf(item[w].run, item[w].task)' = "failed"
    BY <1>1, <1>2, <1>3, <2>1 DEF PhaseOf, Item
  <2>3. \A q \in Runs, u \in Tasks : Item(q, u) # item[w] =>
          /\ u \in performed'[q] <=> u \in performed[q]
          /\ Item(q, u) \in aborted_tasks' <=> Item(q, u) \in aborted_tasks
    BY <2>1
  <2>4. PhaseNow' = [PhaseNow EXCEPT ![r][t] = "failed"]
    BY <1>1, <1>2, <2>2, <2>3, MovesAlone DEF Idle
  <2>5. TG!Abandon(r, t)
    BY <1>1, <1>4, <2>4 DEF TG!Abandon, TG!Move, PhaseNow, OutcomeOf
  <2> QED BY <2>5 DEF TG!Next, TG!Runs, Runs
<1> QED BY <1>5, <1>6

(* No phase changes when a worker leaves a task that it gave up.           *)
LEMMA AbortKeepsPhases ==
  ASSUME IInv, AbortedInv, NEW w \in Threads, AbortProcessTasks(w)
  PROVE  PhaseNow' = PhaseNow
PROOF
<1>1. /\ pc \in [Threads -> WorkerPCs] /\ tries \in [Threads -> Nat]
      /\ item \in [Threads -> Items \cup {NoItem}]
      /\ pc[w] = "attempt" /\ pc'[w] = "loop" /\ ~Retries(w)
      /\ UNCHANGED <<performed, aborted_tasks, tries>>
      /\ \A x \in Threads : x # w => pc'[x] = pc[x] /\ item'[x] = item[x]
  BY DEF AbortProcessTasks, Leave, Goto, IInv, ControlInv, TypeOK, WorkersOK
<1>2. CASE tries[w] = 0 BY <1>1, <1>2, PhaseSame DEF Runner
<1>3. CASE tries[w] > 0
  <2>1. item[w] \in aborted_tasks BY <1>1, <1>3 DEF IInv, HeldInv
  <2>2. ASSUME NEW q \in Runs, NEW u \in Tasks PROVE PhaseOf(q, u)' = PhaseOf(q, u)
    <3> DEFINE A == \E x \in Threads : item[x] = Item(q, u) /\ Runner(x)
               B == \E x \in Threads : item'[x] = Item(q, u) /\ Runner(x)'
    <3>1. A' <=> B BY DEF Item
    <3>2. Item(q, u) # item[w] => (A <=> B) BY <1>1 DEF Runner
    <3>3. PhaseOf(q, u) = IF u \in performed[q] THEN "done"
                          ELSE IF Item(q, u) \in aborted_tasks THEN "failed"
                          ELSE IF A THEN "running" ELSE "waiting"
      BY DEF PhaseOf, Runner
    <3>4. PhaseOf(q, u)' = IF u \in performed'[q] THEN "done"
                          ELSE IF Item(q, u) \in aborted_tasks' THEN "failed"
                          ELSE IF A' THEN "running" ELSE "waiting"
      BY DEF PhaseOf, Runner, Item
    <3> HIDE DEF A, B
    <3> QED BY <1>1, <2>1, <3>1, <3>2, <3>3, <3>4
  <2> QED BY <2>2, NoneMoves
<1> QED BY <1>1, <1>2, <1>3

(* The other steps of a worker are none of the abstract agent.             *)
LEMMA WorkerMaps ==
  ASSUME IInv, AbortedInv, NEW w \in Threads, Worker(w)
  PROVE  TG!Next \/ UNCHANGED TG!vars
PROOF
<1>1. /\ pc \in [Threads -> WorkerPCs] /\ tries \in [Threads -> Nat]
      /\ item \in [Threads -> Items \cup {NoItem}]
  BY DEF IInv, ControlInv, TypeOK, WorkersOK
<1>2. UNCHANGED <<graph, run, main>>
  BY WorkerMoves
  DEF caller, graphs, Worker, TestStop, GetTask, GetTimesOut, DropTask, PerformTask, BeginAttempt,
     OpenLogFails, TrySucceeds, TryFails, AbortProcessTasks, AcquireNodeLock, StoreCount, TestCount,
     Finish, TraverseSuccessor, ReleaseNodeLock
<1>3. ASSUME PhaseNow' = PhaseNow PROVE UNCHANGED TG!vars
  BY <1>2, <1>3 DEF TG!vars, PhaseNow, OutcomeOf
<1>4. CASE (BeginAttempt(w) \/ OpenLogFails(w)) /\ tries[w] = 0 BY <1>4, StartMaps
<1>5. CASE TrySucceeds(w) \/ (TryFails(w) /\ GivesUp(w)) BY <1>5, AttemptMaps
<1>6. CASE AbortProcessTasks(w) BY <1>3, <1>6, AbortKeepsPhases
<1>7. CASE (BeginAttempt(w) \/ OpenLogFails(w)) /\ tries[w] # 0
  <2>1. /\ UNCHANGED <<performed, aborted_tasks, item>>
        /\ pc[w] = "attempt" /\ pc'[w] \in {"try", "dead"} /\ tries[w] > 0 /\ tries'[w] > 0
        /\ \A x \in Threads : x # w => pc'[x] = pc[x] /\ tries'[x] = tries[x]
    BY <1>1, <1>7 DEF BeginAttempt, OpenLogFails, Goto, shared
  <2> QED BY <1>3, <2>1, PhaseSame DEF Runner
<1>8. CASE TryFails(w) /\ ~GivesUp(w)
  <2>1. /\ UNCHANGED <<performed, aborted_tasks, item, tries>>
        /\ pc[w] = "try" /\ pc'[w] = "attempt"
        /\ \A x \in Threads : x # w => pc'[x] = pc[x]
    BY <1>1, <1>8 DEF TryFails, Goto
  <2>2. tries[w] > 0 BY <2>1 DEF IInv, HeldInv
  <2> QED BY <1>3, <2>1, <2>2, PhaseSame DEF Runner
<1>9. CASE \/ TestStop(w) \/ GetTask(w) \/ GetTimesOut(w) \/ DropTask(w) \/ PerformTask(w)
           \/ AcquireNodeLock(w) \/ StoreCount(w) \/ TestCount(w) \/ Finish(w)
           \/ (\E s \in Tasks : TraverseSuccessor(w, s)) \/ ReleaseNodeLock(w)
  <2>1. /\ UNCHANGED <<performed, aborted_tasks>>
        /\ \A x \in Threads : x # w => pc'[x] = pc[x] /\ tries'[x] = tries[x] /\ item'[x] = item[x]
    BY <1>1, <1>9
    DEF TestStop, GetTask, GetTimesOut, DropTask, PerformTask, AcquireNodeLock, StoreCount,
        TestCount, Finish, TraverseSuccessor, ReleaseNodeLock, Goto, Leave, shared
  <2>2. pc[w] \notin {"attempt", "try", "dead"}
        /\ (pc'[w] \in {"attempt", "try", "dead"} => tries'[w] = 0)
    <3>1. CASE PerformTask(w) BY <1>1, <3>1 DEF PerformTask, Goto
    <3>2. CASE TestStop(w) BY <1>1, <3>2 DEF TestStop, Goto
    <3>3. CASE TestCount(w) BY <1>1, <3>3 DEF TestCount, Goto
    <3>4. CASE \E s \in Tasks : TraverseSuccessor(w, s) BY <3>4 DEF TraverseSuccessor
    <3>5. CASE \/ GetTask(w) \/ GetTimesOut(w) \/ DropTask(w) \/ AcquireNodeLock(w)
               \/ StoreCount(w) \/ Finish(w) \/ ReleaseNodeLock(w)
      BY <1>1, <3>5
      DEF GetTask, GetTimesOut, DropTask, AcquireNodeLock, StoreCount, Finish, ReleaseNodeLock,
          Goto, Leave
    <3> QED BY <1>9, <3>1, <3>2, <3>3, <3>4, <3>5
  <2>3. ~Runner(w) /\ ~Runner(w)' BY <2>2 DEF Runner
  <2> QED BY <1>3, <2>1, <2>3, PhaseSame DEF Runner
<1> QED BY <1>4, <1>5, <1>6, <1>7, <1>8, <1>9 DEF Worker

(* What the thread in perform_config does, the run it answers included.    *)
LEMMA CallerMaps ==
  ASSUME IInv, IInv', FreshRun, AbortedInv, NormalReturn', Caller
  PROVE  TG!Next \/ UNCHANGED TG!vars
PROOF
<1>1. /\ pc \in [Threads -> WorkerPCs] /\ graph \in [Runs -> Graphs \cup {NoGraph}]
      /\ run \in 0 .. MaxRuns /\ MaxRuns \in Nat
  BY CountAssumption DEF IInv, ControlInv, TypeOK, WorkersOK, GraphsOK, CallerOK
<1>2. UNCHANGED <<performed, aborted_tasks, item, tries>>
      /\ \A x \in Threads : pc'[x] = pc[x] \/ (pc[x] \in {"new", "exited"} /\ pc'[x] = "loop")
  BY <1>1
  DEF Caller, PerformConfig, FixArgumentsRaises, ClearStop, StartWorker, QueueInitialTask, AllQueued,
      Answer, shared, worker
<1>3. PhaseNow' = PhaseNow BY <1>2, PhaseSame DEF Runner
<1>4. ASSUME NEW G \in Graphs, PerformConfig(G) PROVE TG!Begin(G)
  <2>1. /\ OutcomeOf # "running" /\ OutcomeOf' = "running"
    BY <1>4 DEF PerformConfig, Answered, OutcomeOf
  <2>2. run < MaxRuns /\ run' = run + 1 /\ graph' = [graph EXCEPT ![run + 1] = G]
    BY <1>4 DEF PerformConfig
  <2> QED BY <1>3, <2>1, <2>2 DEF TG!Begin, PhaseNow
<1>5. CASE FixArgumentsRaises
  <2>1. main = "clear_stop" /\ main' = "error" /\ UNCHANGED <<graph, run>>
    BY <1>5 DEF FixArgumentsRaises, graphs
  <2>2. run \in Runs /\ Untouched(run) BY <1>1, <2>1 DEF FreshRun, Runs, IInv, ControlInv, CallerInv
  <2>3. ASSUME NEW t \in Tasks PROVE PhaseNow[run][t] = "waiting"
    <3>1. Item(run, t) \notin aborted_tasks BY <2>1 DEF AbortedInv, Item
    <3>2. \A x \in Threads : item[x] # Item(run, t)
      BY <2>2, NullAssumption, MakeItem DEF Untouched, Item
    <3>3. t \notin performed[run] BY <2>2 DEF Untouched
    <3> QED BY <2>2, <3>1, <3>2, <3>3 DEF PhaseNow, PhaseOf
  <2>4. OutcomeOf = "running" /\ OutcomeOf' = "refused" BY <2>1 DEF OutcomeOf
  <2>5. TG!Refuse BY <1>3, <2>1, <2>3, <2>4 DEF TG!Refuse, PhaseNow
  <2> QED BY <2>5 DEF TG!Next
<1>6. CASE Answer /\ aborted_tasks = {}
  <2>1. /\ main = "wait" /\ main' = "returned" /\ UNCHANGED <<graph, run>>
    BY <1>6 DEF Answer, graphs
  <2>2. run \in Runs BY <1>1, <2>1 DEF Runs, IInv, ControlInv, CallerInv
  <2>3. performed[run] = graph[run].node BY <1>2, <2>1 DEF NormalReturn
  <2>4. graph[run].node \subseteq Tasks BY <1>1, <2>2, GraphAssumption DEF NoGraph
  <2>5. \A t \in graph[run].node : PhaseNow[run][t] = "done"
    BY <2>2, <2>3, <2>4 DEF PhaseNow, PhaseOf
  <2>6. OutcomeOf = "running" /\ OutcomeOf' = "ok" BY <2>1 DEF OutcomeOf
  <2>7. TG!Succeed BY <1>3, <2>1, <2>5, <2>6 DEF TG!Succeed, PhaseNow
  <2> QED BY <2>7 DEF TG!Next
<1>7. CASE Answer /\ aborted_tasks # {}
  <2>1. /\ main = "wait" /\ main' = "raised" /\ UNCHANGED <<graph, run>>
    BY <1>7 DEF Answer, graphs
  <2>2. PICK i \in aborted_tasks : TRUE BY <1>7
  <2>3. i.run \in Runs /\ i.task \in Tasks /\ i = Item(i.run, i.task)
    BY <2>2 DEF IInv, ControlInv, TypeOK, SharedOK, Items, Item
  <2>4. PhaseNow[i.run][i.task] = "failed"
    BY <2>2, <2>3 DEF AbortedInv, PhaseNow, PhaseOf
  <2>5. OutcomeOf = "running" /\ OutcomeOf' = "failed" BY <2>1 DEF OutcomeOf
  <2>6. TG!Fail BY <1>3, <2>1, <2>3, <2>4, <2>5 DEF TG!Fail, PhaseNow, TG!Runs, Runs
  <2> QED BY <2>6 DEF TG!Next
<1>8. CASE ClearStop \/ AllQueued \/ (\E w \in Threads : StartWorker(w)) \/ \E t \in Tasks : QueueInitialTask(t)
  <2>1. UNCHANGED <<graph, run, OutcomeOf>>
    BY <1>8 DEF ClearStop, AllQueued, StartWorker, QueueInitialTask, graphs, OutcomeOf
  <2> QED BY <1>3, <2>1 DEF TG!vars, PhaseNow
<1> QED BY <1>4, <1>5, <1>6, <1>7, <1>8 DEF Caller, TG!Next

(* The execution agent implements TaskGraph, reruns, lost log files and    *)
(* late workers included, if no task is given up without an attempt.       *)
THEOREM ImplementsTaskGraphCorrect == Attempted => (Spec => ImplementsTaskGraph)
PROOF
<1> SUFFICES ASSUME Attempted PROVE Spec => ImplementsTaskGraph
  OBVIOUS
<1>1. Init => TG!Init
  <2> SUFFICES ASSUME Init PROVE TG!Init
    OBVIOUS
  <2>1. /\ graph = [r \in Runs |-> NoGraph] /\ run = 0 /\ main = "idle"
        /\ \A r \in Runs : performed[r] = {}
        /\ aborted_tasks = {} /\ \A w \in Threads : pc[w] = "new"
    BY DEF Init
  <2>2. \A r \in Runs, t \in Tasks : PhaseOf(r, t) = "waiting" BY <2>1 DEF PhaseOf
  <2>3. OutcomeOf = "none" BY <2>1 DEF OutcomeOf
  <2> QED BY <2>1, <2>2, <2>3 DEF TG!Init, TG!Runs, Runs, TG!NoGraph, NoGraph
<1> DEFINE Inv == IInv /\ FreshRun /\ AbortedInv
<1>2. Init => Inv
  BY IInvInit DEF Init, FreshRun, AbortedInv
<1>3. Inv /\ [Next]_vars => Inv'
  <2> SUFFICES ASSUME IInv, FreshRun, AbortedInv, [Next]_vars PROVE FreshRun' /\ AbortedInv'
    BY IInvStep
  <2>1. CASE UNCHANGED vars
    BY <2>1 DEF vars, shared, graphs, caller, worker, FreshRun, Untouched, AbortedInv
  <2> QED BY <2>1, FreshRunStep, AbortedStep
<1>4. Inv /\ Inv' /\ NormalReturn' /\ [Next]_vars => [TG!Next]_(TG!vars)
  <2> SUFFICES ASSUME Inv, Inv', NormalReturn', [Next]_vars PROVE TG!Next \/ UNCHANGED TG!vars
    OBVIOUS
  <2>1. CASE UNCHANGED vars
    <3>1. PhaseNow' = PhaseNow
      BY <2>1, PhaseSame DEF vars, shared, worker, Runner
    <3> QED
      BY <2>1, <3>1 DEF vars, graphs, caller, TG!vars, PhaseNow, OutcomeOf
  <2> QED BY <2>1, CallerMaps, WorkerMaps DEF Next
<1>5. Spec => []NormalReturn BY NormalReturnCorrect
<1> QED BY <1>1, <1>2, <1>3, <1>4, <1>5, PTL DEF Spec, ImplementsTaskGraph, TG!Spec
=============================================================================

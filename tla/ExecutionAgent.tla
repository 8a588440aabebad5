--------------------------- MODULE ExecutionAgent ---------------------------
(***************************************************************************)
(* The execution agent of actuator/exec_agents/core.py: the thread that    *)
(* calls perform_config(), the worker threads it starts on                 *)
(* process_tasks(), and what they share: the stop flag, the task queue,    *)
(* the lock of the dependency graph, the count of tasks still to perform   *)
(* and the list of aborted tasks.                                          *)
(*                                                                         *)
(* One action is what a thread does between two accesses to shared state.  *)
(* perform_config may be called again on the same agent (MaxRuns bounds    *)
(* how often): it resets the count and the flag, builds a new graph, and   *)
(* leaves the queue, the aborted tasks and the old workers as they are.    *)
(* The agent has its models: the else branch of perform_config, which      *)
(* raises before it touches any state, is left out.                        *)
(***************************************************************************)
EXTENDS Integers, Sequences, FiniteSets

CONSTANTS
  Threads,      \* names for worker threads
  NumThreads,   \* num_threads: how many workers one perform_config starts
  Tasks,        \* the tasks of the config model
  Graphs,       \* the graphs config_mi.get_graph() may return
  RepeatCount,  \* repeat_count of each task
  MayFail,      \* the tasks whose _perform_task() may raise
  DoLog,        \* do_log: every attempt opens a log file
  MaxRuns,      \* bound on the calls of perform_config
  Nobody,       \* the owner of a free lock
  NoItem        \* a worker that holds no queue item

Runs == 1 .. MaxRuns
Items == [run : Runs, task : Tasks]
NoGraph == [node |-> {}, edge |-> {}]
Preds(G, t) == {p \in G.node : <<p, t>> \in G.edge}
Successors(G, t) == {s \in G.node : <<t, s>> \in G.edge}
InDegree(G, t) == Cardinality(Preds(G, t))
EveryTask(G) == G.node    \* a deviation: successors are put as well
InitialTasks(G) == {t \in G.node : InDegree(G, t) = 0}

(* The traversal that makes ins of the in-edges of s queues it if it is    *)
(* the last one. The two deviations are bugs the properties must notice.   *)
FirstInput(G, s, ins) == ins = 1
OffByOneInput(G, s, ins) == InDegree(G, s) = ins - 1
LastInput(G, s, ins) == InDegree(G, s) = ins

ASSUME GraphAssumption ==
  \A G \in Graphs : /\ G = [node |-> G.node, edge |-> G.edge]
                    /\ G.node \subseteq Tasks /\ IsFiniteSet(G.node)
                    /\ G.edge \subseteq G.node \X G.node
ASSUME CountAssumption ==
  /\ NumThreads \in Nat \ {0} /\ MaxRuns \in Nat
  /\ RepeatCount \in [Tasks -> Nat] /\ MayFail \subseteq Tasks
  /\ DoLog \in BOOLEAN
ASSUME NullAssumption == Nobody \notin Threads /\ NoItem \notin Items

VARIABLES
  stop, task_queue, node_lock, num_tasks_to_perform, aborted_tasks,
  graph,          \* graph[r]: the DiGraph of run r
  ins_traversed,  \* ins_traversed[r][t]: the node attribute in graph r
  run,            \* how many times perform_config has been called
  main,           \* where the thread in perform_config is
  spawned,        \* workers started so far by this perform_config
  initial,        \* the tasks of in-degree 0 it has still to queue
  pc,             \* where each worker is
  item,           \* the (graph, task) a worker took from the queue
  tries,          \* try_count
  count,          \* the value a worker read of num_tasks_to_perform
  todo,           \* the successors a worker has still to traverse
  performed,      \* history: performed[r], tasks of run r that succeeded
  traversed       \* history: traversed[r], edges counted in ins_traversed

shared == <<stop, task_queue, node_lock, num_tasks_to_perform, aborted_tasks>>
graphs == <<graph, ins_traversed, traversed>>
caller == <<run, main, spawned, initial>>
worker == <<pc, item, tries, count, todo>>
vars == <<shared, graphs, caller, worker, performed>>

Before == {"got", "attempt", "try", "dead"}
Locked == {"store", "test", "finish", "succ"}
After == Locked \cup {"acquire"}
WorkerPCs == {"new", "loop", "get", "exited"} \cup Before \cup After

(* perform_config returns, raises because of aborted tasks, or lets        *)
(* another exception through.                                              *)
Answered == {"returned", "raised", "error"}

SharedOK ==
  /\ stop \in BOOLEAN
  /\ task_queue \in Seq(Items)
  /\ node_lock \in Threads \cup {Nobody}
  /\ num_tasks_to_perform \in Int
  /\ aborted_tasks \in SUBSET Items
GraphsOK ==
  /\ graph \in [Runs -> Graphs \cup {NoGraph}]
  /\ ins_traversed \in [Runs -> [Tasks -> Nat]]
  /\ performed \in [Runs -> SUBSET Tasks]
  /\ traversed \in [Runs -> SUBSET (Tasks \X Tasks)]
CallerOK ==
  /\ run \in 0 .. MaxRuns
  /\ main \in {"idle", "clear_stop", "spawn", "queue", "wait"} \cup Answered
  /\ spawned \in 0 .. NumThreads
  /\ initial \in SUBSET Tasks
WorkersOK ==
  /\ pc \in [Threads -> WorkerPCs]
  /\ item \in [Threads -> Items \cup {NoItem}]
  /\ tries \in [Threads -> Nat]
  /\ count \in [Threads -> Int]
  /\ todo \in [Threads -> SUBSET Tasks]
(* Types of what threads share, of the graphs, of the caller and of the    *)
(* workers.                                                                *)
TypeOK == SharedOK /\ GraphsOK /\ CallerOK /\ WorkersOK

Init ==
  /\ stop = FALSE
  /\ task_queue = <<>>
  /\ node_lock = Nobody
  /\ num_tasks_to_perform = 0      \* None in the code, never read before it is set
  /\ aborted_tasks = {}
  /\ graph = [r \in Runs |-> NoGraph]
  /\ ins_traversed = [r \in Runs |-> [t \in Tasks |-> 0]]
  /\ run = 0
  /\ main = "idle"
  /\ spawned = 0
  /\ initial = {}
  /\ pc = [w \in Threads |-> "new"]
  /\ item = [w \in Threads |-> NoItem]
  /\ tries = [w \in Threads |-> 0]
  /\ count = [w \in Threads |-> 0]
  /\ todo = [w \in Threads |-> {}]
  /\ performed = [r \in Runs |-> {}]
  /\ traversed = [r \in Runs |-> {}]

-----------------------------------------------------------------------------
(* The thread that calls perform_config().                                 *)

PerformConfig(G) ==
  /\ main \in Answered \cup {"idle"}
  /\ run < MaxRuns
  /\ run' = run + 1
  /\ graph' = [graph EXCEPT ![run + 1] = G]
  /\ num_tasks_to_perform' = Cardinality(G.node)
  /\ initial' = InitialTasks(G)
  /\ main' = "clear_stop"
  /\ UNCHANGED <<stop, task_queue, node_lock, aborted_tasks, ins_traversed,
                 traversed, spawned, worker, performed>>

(* An argument of a task cannot be fixed. The count is already that of the *)
(* new graph; the flag is as the last run left it.                         *)
FixArgumentsRaises ==
  /\ main = "clear_stop"
  /\ main' = "error"
  /\ initial' = {}
  /\ UNCHANGED <<shared, graphs, run, spawned, worker, performed>>

ClearStop ==
  /\ main = "clear_stop"
  /\ stop' = FALSE
  /\ spawned' = 0
  /\ main' = "spawn"
  /\ UNCHANGED <<task_queue, node_lock, num_tasks_to_perform, aborted_tasks,
                 graphs, run, initial, worker, performed>>

TooManyStarted(n) == n > NumThreads    \* a deviation
AllStarted(n) == n = NumThreads

StartWorker(w) ==
  /\ main = "spawn"
  /\ pc[w] \in {"new", "exited"}
  /\ pc' = [pc EXCEPT ![w] = "loop"]
  /\ spawned' = spawned + 1
  /\ main' = IF AllStarted(spawned + 1) THEN "queue" ELSE "spawn"
  /\ UNCHANGED <<shared, graphs, run, initial, item, tries, count, todo, performed>>

QueueInitialTask(t) ==
  /\ main = "queue"
  /\ t \in initial
  /\ task_queue' = Append(task_queue, [run |-> run, task |-> t])
  /\ initial' = initial \ {t}
  /\ UNCHANGED <<stop, node_lock, num_tasks_to_perform, aborted_tasks, graphs,
                 run, main, spawned, worker, performed>>

AllQueued ==
  /\ main = "queue"
  /\ initial = {}
  /\ main' = "wait"
  /\ UNCHANGED <<shared, graphs, run, spawned, initial, worker, performed>>

Answer ==
  /\ main = "wait"
  /\ stop
  /\ main' = IF aborted_tasks = {} THEN "returned" ELSE "raised"
  /\ UNCHANGED <<shared, graphs, run, spawned, initial, worker, performed>>

-----------------------------------------------------------------------------
(* A worker thread in process_tasks().                                     *)

Goto(w, from, to) ==
  /\ pc[w] = from
  /\ pc' = [pc EXCEPT ![w] = to]

(* Back to the while of process_tasks, without an item.                    *)
Leave(w, from) ==
  /\ Goto(w, from, "loop")
  /\ item' = [item EXCEPT ![w] = NoItem]

TestStop(w) ==
  /\ Goto(w, "loop", IF stop THEN "exited" ELSE "get")
  /\ UNCHANGED <<shared, graphs, caller, item, tries, count, todo, performed>>

GetTask(w) ==
  /\ Goto(w, "get", "got")
  /\ task_queue # <<>>
  /\ item' = [item EXCEPT ![w] = Head(task_queue)]
  /\ task_queue' = Tail(task_queue)
  /\ UNCHANGED <<stop, node_lock, num_tasks_to_perform, aborted_tasks, graphs,
                 caller, tries, count, todo, performed>>

GetBlocks(w) == FALSE    \* a deviation: no timeout on the get
GetTimesOut(w) ==
  /\ Goto(w, "get", "loop")
  /\ task_queue = <<>>
  /\ UNCHANGED <<shared, graphs, caller, item, tries, count, todo, performed>>

(* The agent stopped while the worker was in get(): the item is lost.      *)
DropTask(w) ==
  /\ stop
  /\ Leave(w, "got")
  /\ UNCHANGED <<shared, graphs, caller, tries, count, todo, performed>>

-----------------------------------------------------------------------------
(* The same worker in perform_task().                                      *)

PerformTask(w) ==
  /\ ~stop
  /\ Goto(w, "got", "attempt")
  /\ tries' = [tries EXCEPT ![w] = 0]
  /\ UNCHANGED <<shared, graphs, caller, item, count, todo, performed>>

Retries(w) == tries[w] < RepeatCount[item[w].task]

BeginAttempt(w) ==
  /\ Goto(w, "attempt", "try")
  /\ Retries(w)
  /\ tries' = [tries EXCEPT ![w] = @ + 1]
  /\ UNCHANGED <<shared, graphs, caller, item, count, todo, performed>>

(* open() of the log file is outside the try: its exception ends the       *)
(* thread, with the task neither performed nor aborted.                    *)
OpenLogFails(w) ==
  /\ DoLog
  /\ Goto(w, "attempt", "dead")
  /\ Retries(w)
  /\ tries' = [tries EXCEPT ![w] = @ + 1]
  /\ UNCHANGED <<shared, graphs, caller, item, count, todo, performed>>

TrySucceeds(w) ==
  /\ Goto(w, "try", "acquire")
  /\ performed' = [performed EXCEPT ![item[w].run] = @ \cup {item[w].task}]
  /\ UNCHANGED <<shared, graphs, caller, item, tries, count, todo>>

EarlyReport(w) == Retries(w)    \* a deviation: all failures but the last
GivesUp(w) == ~Retries(w)

TryFails(w) ==
  /\ Goto(w, "try", "attempt")
  /\ item[w].task \in MayFail
  /\ aborted_tasks' = IF GivesUp(w) THEN aborted_tasks \cup {item[w]} ELSE aborted_tasks
  /\ UNCHANGED <<stop, task_queue, node_lock, num_tasks_to_perform, graphs,
                 caller, item, tries, count, todo, performed>>

AbortProcessTasks(w) ==
  /\ Leave(w, "attempt")
  /\ ~Retries(w)
  /\ stop' = TRUE
  /\ UNCHANGED <<task_queue, node_lock, num_tasks_to_perform, aborted_tasks,
                 graphs, caller, tries, count, todo, performed>>

(* num_tasks_to_perform -= 1 reads here and writes in StoreCount: the lock *)
(* keeps the other workers out, but not perform_config.                    *)
NoLock == TRUE    \* a deviation
LockFree == node_lock = Nobody

AcquireNodeLock(w) ==
  /\ LockFree
  /\ Goto(w, "acquire", "store")
  /\ node_lock' = w
  /\ count' = [count EXCEPT ![w] = num_tasks_to_perform]
  /\ UNCHANGED <<stop, task_queue, num_tasks_to_perform, aborted_tasks, graphs,
                 caller, item, tries, todo, performed>>

StoreCount(w) ==
  /\ Goto(w, "store", "test")
  /\ num_tasks_to_perform' = count[w] - 1
  /\ UNCHANGED <<stop, task_queue, node_lock, aborted_tasks, graphs, caller,
                 item, tries, count, todo, performed>>

OneLeft == num_tasks_to_perform <= 1    \* a deviation
NoneLeft == num_tasks_to_perform = 0

TestCount(w) ==
  /\ Goto(w, "test", IF NoneLeft THEN "finish" ELSE "succ")
  /\ todo' = [todo EXCEPT ![w] = IF NoneLeft THEN {}
                                 ELSE Successors(graph[item[w].run], item[w].task)]
  /\ UNCHANGED <<shared, graphs, caller, item, tries, count, performed>>

Finish(w) ==
  /\ Goto(w, "finish", "succ")
  /\ stop' = TRUE
  /\ UNCHANGED <<task_queue, node_lock, num_tasks_to_perform, aborted_tasks,
                 graphs, caller, item, tries, count, todo, performed>>

TraverseSuccessor(w, s) ==
  LET r == item[w].run
      ins == ins_traversed[r][s] + 1
  IN  /\ pc[w] = "succ"
      /\ s \in todo[w]
      /\ todo' = [todo EXCEPT ![w] = @ \ {s}]
      /\ ins_traversed' = [ins_traversed EXCEPT ![r][s] = ins]
      /\ task_queue' = IF LastInput(graph[r], s, ins)
                         THEN Append(task_queue, [run |-> r, task |-> s])
                         ELSE task_queue
      /\ traversed' = [traversed EXCEPT ![r] = @ \cup {<<item[w].task, s>>}]
      /\ UNCHANGED <<stop, node_lock, num_tasks_to_perform, aborted_tasks, graph,
                     caller, pc, item, tries, count, performed>>

ReleaseNodeLock(w) ==
  /\ Leave(w, "succ")
  /\ todo[w] = {}
  /\ node_lock' = Nobody
  /\ UNCHANGED <<stop, task_queue, num_tasks_to_perform, aborted_tasks, graphs,
                 caller, tries, count, todo, performed>>

-----------------------------------------------------------------------------
Caller ==
  \/ \E G \in Graphs : PerformConfig(G)
  \/ FixArgumentsRaises
  \/ ClearStop
  \/ \E w \in Threads : StartWorker(w)
  \/ \E t \in Tasks : QueueInitialTask(t)
  \/ AllQueued
  \/ Answer

Worker(w) ==
  \/ TestStop(w) \/ GetTask(w) \/ GetTimesOut(w) \/ DropTask(w)
  \/ PerformTask(w) \/ BeginAttempt(w) \/ OpenLogFails(w)
  \/ TrySucceeds(w) \/ TryFails(w) \/ AbortProcessTasks(w)
  \/ AcquireNodeLock(w) \/ StoreCount(w) \/ TestCount(w) \/ Finish(w)
  \/ \E s \in Tasks : TraverseSuccessor(w, s)
  \/ ReleaseNodeLock(w)

Next == Caller \/ \E w \in Threads : Worker(w)

Spec == Init /\ [][Next]_vars

(* Every thread that can run is scheduled, and _perform_task() returns or  *)
(* raises in the end. Nothing makes anybody call perform_config.           *)
FairSpec ==
  /\ Spec
  /\ WF_vars(Caller /\ run' = run)
  /\ \A w \in Threads : WF_vars(Worker(w))
=============================================================================

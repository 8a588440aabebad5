----------------------------- MODULE AnsibleAgent -----------------------------
(***************************************************************************)
(* How a task is performed (exec_agents/ansible/agent.py) by what the      *)
(* config model says of it (config.py): the role whose variables it gets,  *)
(* the role it runs from, the arguments of both, the host, the call of     *)
(* Ansible, and the judgement on what Ansible answers.                     *)
(*                                                                         *)
(* The tasks have no dependencies here: their order is ExecutionAgent's.   *)
(* Ansible itself is external: it runs on the host that it is given, and   *)
(* answers for that host.                                                  *)
(***************************************************************************)
EXTENDS Integers, FiniteSets, Sequences

CONSTANTS Workers, Tasks, Roles,
          Servers,      \* servers, each named as its address
          Models,       \* the config models considered
          MaxRuns,      \* bound on the calls of perform_config, a model's calls
          None

(* The arguments of a task, in the order in which they are computed:       *)
(* "module" stands for those of its class.                                 *)
RepeatFirst == <<"repeat_count", "task_role", "run_from", "repeat_interval", "remote_user",
                 "module">>    \* a deviation
Order == <<"task_role", "run_from", "repeat_count", "repeat_interval", "remote_user", "module">>
Computed(n) == {Order[i] : i \in 1 .. n}
Complete == Computed(6)

Results == {"ok", "msg", "rc", "dark"}
Kinds == {"null", "ping", "command", "process"}

(* A model gives the task_role and run_from of the tasks and its own       *)
(* defaults for them, None where there is none; where a role is: on a      *)
(* server, at a named host, or nowhere. It also says what may raise: the   *)
(* arguments of a task, those of a role or server (fragile), and what an   *)
(* attempt does when it has its host (trouble): making the arguments of    *)
(* the call, from the variables of the role and the file of a copy, or the *)
(* call of Ansible itself.                                                 *)
ASSUME AnsibleAssumption ==
  /\ MaxRuns \in Nat /\ IsFiniteSet(Tasks) /\ Tasks # {}
  /\ None \notin Roles \cup Servers \cup Tasks \cup Workers /\ Roles \cap Servers = {}
  /\ \A n \in 0 .. 6 : Computed(n) # None
  /\ \A M \in Models :
       /\ {M.default_task_role, M.default_run_from} \subseteq Roles \cup {None}
       /\ \A t \in Tasks :
            /\ {M.task_role[t], M.run_from[t]} \subseteq Roles \cup {None}
            /\ M.kind[t] \in Kinds /\ M.repeat_count[t] \in Nat
            /\ M.raising[t] \subseteq Complete /\ M.trouble[t] \subseteq {"arguments", "call"}
       /\ M.fragile \subseteq Roles \cup Servers
       /\ M.calls \in 0 .. MaxRuns

VARIABLES model,        \* the config model, which does not change
          arguments,    \* the arguments computed of each task, None before it is fixed
          fixed,        \* the roles and servers with fixed set
          final,        \* those whose arguments are computed
          worker,
          queue,        \* how often each task is in the queue
          count,        \* num_tasks_to_perform
          stop, phase, runs,
          aborted,      \* aborted_tasks
          alive,        \* the worker threads that have not ended with an exception
          jobs,         \* what Ansible answered, and how it was judged
          hindered      \* (history) tasks that met what was fixed and not final, or for
                        \* which one of the things in the model that may raise did

run == <<count, stop, phase, runs, arguments, model, alive>>
vars == <<run, fixed, final, worker, queue, aborted, jobs, hindered>>

Idle == [task |-> None, pc |-> "idle", tries |-> 0, fixing |-> None, marked |-> FALSE,
         host |-> None, result |-> None]

Init ==
  /\ model \in Models
  /\ arguments = [t \in Tasks |-> None]
  /\ fixed = {} /\ final = {}
  /\ worker = [w \in Workers |-> Idle]
  /\ queue = [t \in Tasks |-> 0]
  /\ count = 0 /\ stop = FALSE /\ phase = "ready" /\ runs = 0
  /\ aborted = {} /\ jobs = {} /\ hindered = {} /\ alive = Workers

-----------------------------------------------------------------------------
(* An argument that is not computed is None.                               *)
Own(t, a, values) == IF a \in arguments[t] THEN values[t] ELSE None
Else(x, y) == IF x # None THEN x ELSE y

get_task_role(t) == Else(Own(t, "task_role", model.task_role), model.default_task_role)
get_run_from(t) == Else(Own(t, "run_from", model.run_from), model.default_run_from)
get_remote_user(t) == Else(Own(t, "remote_user", model.remote_user), model.user)
run_role(t) == Else(get_run_from(t), get_task_role(t))

(* Asking for the model's default role fixes it; a task's own it does not. *)
DefaultRole(t) == IF Own(t, "task_role", model.task_role) = None THEN model.default_task_role ELSE None

host_ref(r) == IF r \in final THEN model.place[r] ELSE None
Address(h) == IF h \in Servers \ final THEN None ELSE h

-----------------------------------------------------------------------------
(* perform_config: the tasks are fixed, in any order, until an argument    *)
(* raises: what was computed before stays, and nothing is tried again.     *)
(* Computing an argument that is a text asks for the task's role: the      *)
(* model's default role is fixed by that, and may raise.                   *)
Unfixed == {t \in Tasks : arguments[t] = None}
IsText(t, a) == (a = "module" /\ model.kind[t] \in {"command", "process"})
                \/ (a = "remote_user" /\ model.remote_user[t] # None)
AsksByText(t, a) == model.task_role[t] = None /\ IsText(t, a)
AsksForRole(t) == \E a \in arguments'[t] : AsksByText(t, a)
Asked == {model.default_task_role : t \in {u \in Unfixed : arguments'[u] # None /\ AsksForRole(u)}}
         \ {None}

(* n: how many arguments are computed, of which tasks; asked: the roles    *)
(* asked for by the one that raises; broken: those of them that raise.     *)
FixTasks(n, asked, broken) ==
  /\ arguments' = [t \in Tasks |-> IF t \in DOMAIN n THEN Computed(n[t]) ELSE arguments[t]]
  /\ fixed' = fixed \cup Asked \cup asked
  /\ final' = final \cup ((Asked \cup asked) \ (fixed \cup broken))

perform_config ==
  /\ phase # "running" /\ runs < model.calls
  /\ FixTasks([t \in Unfixed |-> 6], {}, {})
  /\ phase' = "running" /\ runs' = runs + 1
  /\ count' = Cardinality(Tasks) /\ stop' = FALSE /\ alive' = Workers
  /\ queue' = [t \in Tasks |-> queue[t] + 1]
  /\ UNCHANGED <<model, worker, aborted, jobs, hindered>>

Raising(t, a, asked, broken) ==
  /\ asked # {} => AsksByText(t, a)
  /\ broken \subseteq (asked \cap model.fragile) \ (fixed \cup Asked)
  /\ a \in model.raising[t] \/ broken # {}

perform_config_raises ==
  /\ phase # "running" /\ runs < model.calls
  /\ \E t \in Unfixed, n \in 0 .. 5 : \E S \in SUBSET (Unfixed \ {t}) :
     \E asked \in SUBSET ({model.default_task_role} \ {None}) : \E broken \in SUBSET asked :
       /\ FixTasks([u \in S \cup {t} |-> IF u = t THEN n ELSE 6], asked, broken)
       /\ Raising(t, Order[n + 1], asked, broken)
  /\ phase' = "raised" /\ runs' = runs + 1
  /\ UNCHANGED <<model, count, stop, worker, queue, aborted, alive, jobs, hindered>>

Finish ==
  /\ phase = "running" /\ stop
  /\ phase' = IF aborted # {} THEN "raised" ELSE "performed"
  /\ UNCHANGED <<count, stop, runs, arguments, model, alive, fixed, final, worker, queue,
                 aborted, jobs, hindered>>

-----------------------------------------------------------------------------
(* What a worker has to have fixed before it goes on.                      *)
NoServer(r) == None    \* a deviation
ServerOf(r) == IF r # None /\ host_ref(r) \in Servers THEN host_ref(r) ELSE None
Wanted(w) ==
  LET t == worker[w].task IN
  [look  |-> DefaultRole(t),
   place |-> run_role(t),
   host  |-> ServerOf(run_role(t)),
   args  |-> DefaultRole(t),
   check |-> IF DefaultRole(t) \notin fixed \cup {None} THEN DefaultRole(t)
             ELSE ServerOf(get_task_role(t))][worker[w].pc]

(* fix_arguments: fixed is tested, set, and then the arguments computed.   *)
Test(w) ==
  /\ worker[w].task # None /\ worker[w].fixing = None
  /\ Wanted(w) \notin fixed \cup {None}
  /\ worker' = [worker EXCEPT ![w].fixing = Wanted(w)]
  /\ UNCHANGED <<run, fixed, final, queue, aborted, jobs, hindered>>

MarkLate(w) ==    \* a deviation
  /\ worker[w].fixing # None /\ ~worker[w].marked
  /\ worker' = [worker EXCEPT ![w].marked = TRUE]
  /\ UNCHANGED <<run, fixed, final, queue, aborted, jobs, hindered>>
Mark(w) ==
  /\ worker[w].fixing # None /\ ~worker[w].marked
  /\ worker' = [worker EXCEPT ![w].marked = TRUE]
  /\ fixed' = fixed \cup {worker[w].fixing}
  /\ UNCHANGED <<run, final, queue, aborted, jobs, hindered>>

FixArguments(w) ==
  /\ worker[w].marked
  /\ worker' = [worker EXCEPT ![w].fixing = None, ![w].marked = FALSE]
  /\ final' = final \cup {worker[w].fixing}
  /\ UNCHANGED <<run, fixed, queue, aborted, jobs, hindered>>

Ready(w, pc) ==
  /\ worker[w].pc = pc /\ worker[w].fixing = None
  /\ Wanted(w) \in fixed \cup {None}
  /\ hindered' = IF Wanted(w) \in fixed \ final THEN hindered \cup {worker[w].task} ELSE hindered
  /\ UNCHANGED <<fixed, final>>

-----------------------------------------------------------------------------
(* perform_task and _perform_task.                                         *)
Begin(w, t) ==
  /\ w \in alive /\ worker[w] = Idle /\ ~stop /\ queue[t] > 0
  /\ queue' = [queue EXCEPT ![t] = @ - 1]
  /\ worker' = [worker EXCEPT ![w].task = t, ![w].pc = "look"]
  /\ UNCHANGED <<run, fixed, final, aborted, jobs, hindered>>

Succeed(w) ==
  /\ worker' = [worker EXCEPT ![w] = Idle]
  /\ count' = count - 1 /\ stop' = (stop \/ count = 1)
  /\ UNCHANGED <<phase, runs, arguments, model, alive, aborted>>

GiveUp(w) ==
  /\ worker' = [worker EXCEPT ![w] = Idle]
  /\ stop' = TRUE
  /\ UNCHANGED <<count, phase, runs, arguments, model, alive>>

(* A failed attempt is the last, or there is a wait and another; without a *)
(* repeat_interval, computing the wait raises and ends the thread.         *)
Again(w) == [Idle EXCEPT !.task = worker[w].task, !.pc = "place", !.tries = worker[w].tries + 1]
LastTry(w) == worker[w].tries + 1 >= model.repeat_count[worker[w].task]
HasInterval(w) == "repeat_interval" \in arguments[worker[w].task]

Fail(w) ==
  \/ LastTry(w) /\ GiveUp(w) /\ aborted' = aborted \cup {worker[w].task}
  \/ /\ ~LastTry(w) /\ HasInterval(w)
     /\ worker' = [worker EXCEPT ![w] = Again(w)]
     /\ UNCHANGED <<run, aborted>>
  \/ /\ ~LastTry(w) /\ ~HasInterval(w)
     /\ worker' = [worker EXCEPT ![w] = Idle] /\ alive' = alive \ {w}
     /\ UNCHANGED <<count, stop, phase, runs, arguments, model, aborted>>

(* What a role or server computes may raise: it stays fixed, and is not    *)
(* final. That is caught where the role is looked at for the log, and      *)
(* fails the attempt where it is needed.                                   *)
FixRaises(w) ==
  /\ worker[w].marked /\ worker[w].fixing \in model.fragile
  /\ hindered' = hindered \cup {worker[w].task}
  /\ \/ /\ worker[w].pc = "look" /\ UNCHANGED <<run, aborted>>
        /\ worker' = [worker EXCEPT ![w].fixing = None, ![w].marked = FALSE]
     \/ worker[w].pc # "look" /\ Fail(w)
  /\ UNCHANGED <<fixed, final, queue, jobs>>

(* The role is looked at for the log. Without a repeat_count, there is no  *)
(* attempt: that is no record of the task, but the end of the run.         *)
TriesAgain(t) == "repeat_count" \in arguments[t] /\ model.repeat_count[t] > 1    \* a deviation
Attempts(t) == "repeat_count" \in arguments[t] /\ model.repeat_count[t] > 0
Look(w) ==
  LET t == worker[w].task IN
  /\ Ready(w, "look")
  /\ \/ ~Attempts(t) /\ GiveUp(w) /\ UNCHANGED aborted
     \/ Attempts(t) /\ model.kind[t] = "null" /\ Succeed(w)
     \/ /\ Attempts(t) /\ model.kind[t] # "null"
        /\ worker' = [worker EXCEPT ![w].pc = "place"]
        /\ UNCHANGED <<run, aborted>>
  /\ UNCHANGED <<queue, jobs>>

(* _get_run_host: the role first, then its host.                           *)
Place(w) ==
  /\ Ready(w, "place")
  /\ IF run_role(worker[w].task) = None THEN Fail(w)
     ELSE worker' = [worker EXCEPT ![w].pc = "host"] /\ UNCHANGED <<run, aborted>>
  /\ UNCHANGED <<queue, jobs>>

Host(w) ==
  LET h == Address(host_ref(run_role(worker[w].task))) IN
  /\ Ready(w, "host")
  /\ IF h = None THEN Fail(w)
     ELSE /\ worker' = [worker EXCEPT ![w].pc = "args", ![w].host = h]
          /\ UNCHANGED <<run, aborted>>
  /\ UNCHANGED <<queue, jobs>>

(* make_args, which needs the task_role and what is copied, and then the   *)
(* call of Ansible.                                                        *)
Arguable(t) == get_task_role(t) # None /\ (model.kind[t] = "process" => "module" \in arguments[t])

Run(w) ==
  LET t == worker[w].task IN
  /\ Ready(w, "args")
  /\ \/ ~Arguable(t) /\ Fail(w)
     \/ /\ Arguable(t)
        /\ \E r \in Results : worker' = [worker EXCEPT ![w].pc = "check", ![w].result = r]
        /\ UNCHANGED <<run, aborted>>
  /\ UNCHANGED <<queue, jobs>>

RunRaises(w) ==
  LET t == worker[w].task IN
  /\ worker[w].pc = "args" /\ worker[w].fixing = None /\ Wanted(w) \in fixed \cup {None}
  /\ \/ "arguments" \in model.trouble[t]
     \/ "call" \in model.trouble[t] /\ Arguable(t)
  /\ Fail(w)
  /\ hindered' = hindered \cup {t}
  /\ UNCHANGED <<fixed, final, queue, jobs>>

(* result_check looks at the answer for the host of the task_role, whether *)
(* the task was run there or not.                                          *)
NoReturnCode(w) ==    \* a deviation
  /\ worker[w].result \in {"ok", "rc"}
  /\ worker[w].host = Address(host_ref(get_task_role(worker[w].task)))
result_check(w) ==
  /\ worker[w].result = "ok"
  /\ worker[w].host = Address(host_ref(get_task_role(worker[w].task)))

Job(w) ==
  LET t == worker[w].task IN
  [task |-> t, host |-> worker[w].host, role |-> get_task_role(t), user |-> get_remote_user(t),
   arguments |-> arguments[t], result |-> worker[w].result, good |-> result_check(w)]

Check(w) ==
  /\ Ready(w, "check")
  /\ jobs' = jobs \cup {Job(w)}
  /\ IF result_check(w) THEN Succeed(w) ELSE Fail(w)
  /\ UNCHANGED queue

Fixes(w) == Test(w) \/ Mark(w) \/ FixArguments(w) \/ FixRaises(w)
Work(w) == Fixes(w) \/ Look(w) \/ Place(w) \/ Host(w) \/ Run(w) \/ RunRaises(w) \/ Check(w)

Next ==
  \/ perform_config \/ perform_config_raises \/ Finish
  \/ \E w \in Workers : Work(w) \/ \E t \in Tasks : Begin(w, t)

Spec == Init /\ [][Next]_vars

-----------------------------------------------------------------------------
(* Types; what is final is fixed, and the arguments of a task are the      *)
(* first of those in Order, or none yet.                                   *)
Entities == Roles \cup Servers
TypeOK ==
  /\ model \in Models
  /\ \A t \in Tasks : arguments[t] = None \/ \E n \in 0 .. 6 : arguments[t] = Computed(n)
  /\ final \subseteq fixed /\ fixed \subseteq Entities
  /\ worker \in [Workers -> [task : Tasks \cup {None}, tries : Nat, marked : BOOLEAN,
                             pc : {"idle", "look", "place", "host", "args", "check"},
                             fixing : Entities \cup {None}, result : Results \cup {None},
                             host : {model.place[r] : r \in Roles} \cup {None}]]
  /\ queue \in [Tasks -> 0 .. MaxRuns] /\ count \in Int /\ stop \in BOOLEAN
  /\ phase \in {"ready", "running", "raised", "performed"} /\ runs \in 0 .. MaxRuns
  /\ alive \subseteq Workers /\ aborted \subseteq Tasks /\ hindered \subseteq Tasks

(* "the task_role anchors the task to a role in the namespace, hence       *)
(* defining where to get its Var values, but looks elsewhere for a place   *)
(* to run the task" (agent.py:270): where a task is run, and with the      *)
(* variables of which role, is what its model says, although arguments     *)
(* may be missing and roles half fixed.                                    *)
TaskRole(t) == Else(model.task_role[t], model.default_task_role)
RunFrom(t) == Else(model.run_from[t], model.default_run_from)
RightPlace ==
  \A j \in jobs : /\ j.role = TaskRole(j.task)
                  /\ j.host = model.place[Else(RunFrom(j.task), TaskRole(j.task))]

(* What Ansible did is what the task is taken to have done, if it is run   *)
(* where its role is.                                                      *)
JudgedByTheResult ==
  \A j \in jobs : /\ j.good => j.result = "ok"
                  /\ j.result = "ok" /\ RunFrom(j.task) = None => j.good

(* "The host associated with this role is where the task will be run"      *)
(* (config.py:222): a task that did run there has succeeded.               *)
RunFromSucceeds == \A j \in jobs : j.result = "ok" => j.good

(* A task is recorded as given up for one of these: it met a role or       *)
(* server that another worker was fixing or could not fix, or what its     *)
(* attempt was made of raised; its model gives it no place or not all of   *)
(* its arguments; it runs from elsewhere, and is judged wrongly; or        *)
(* Ansible said that it failed. That nothing is read before it is fixed,   *)
(* neither a role nor its server, is what leaves no other way.             *)
Misplaced(t) == Else(RunFrom(t), TaskRole(t)) = None \/ TaskRole(t) = None
                \/ model.place[Else(RunFrom(t), TaskRole(t))] = None
AbortsHaveCauses ==
  \A t \in aborted :
    \/ t \in hindered \/ Misplaced(t) \/ RunFrom(t) # None \/ arguments[t] # Complete
    \/ \E j \in jobs : j.task = t /\ j.result # "ok"

(* A worker that "is giving up on performing a task" reports it            *)
(* (record_aborted_task, core.py:133), so that perform_config raises: none *)
(* leaves a task that did not succeed without a record, whatever raised,   *)
(* unless the task has no tries to make, or an argument of an earlier call *)
(* raised before its repeat_interval was computed.                         *)
Tries(t) == {"repeat_count", "repeat_interval"} \subseteq arguments[t] /\ model.repeat_count[t] > 0
GivingUpIsReported ==
  [][\A w \in Workers :
       worker[w].task # None /\ worker'[w].task = None /\ count' = count
         /\ Tries(worker[w].task) => worker[w].task \in aborted']_vars
=============================================================================

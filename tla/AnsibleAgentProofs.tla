-------------------------- MODULE AnsibleAgentProofs --------------------------
(***************************************************************************)
(* Tasks are run where their model says and judged by what Ansible did,    *)
(* for any tasks, workers, models and roles. Arguments are computed in an  *)
(* order: a task that has a repeat_count, without which there is no        *)
(* attempt, has its roles too. And what is final stays final, so that the  *)
(* host a worker has read is still the role's when the answer is judged.   *)
(* A task is given up for a cause that can be named, and is recorded.      *)
(***************************************************************************)
EXTENDS AnsibleAgent, FiniteSetTheorems, TLAPS

(* A worker is at a step exactly when it has a task, all of whose          *)
(* arguments were tried; what it fixes is marked before it is final.       *)
WorkInv ==
  \A w \in Workers :
    /\ worker[w].pc = "idle" => worker[w] = Idle
    /\ worker[w].pc # "idle" => /\ worker[w].task \in Tasks
                                /\ arguments[worker[w].task] # None
    /\ worker[w].marked => worker[w].fixing \in fixed

QueueInv ==
  /\ \A t \in Tasks : queue[t] <= runs /\ (queue[t] > 0 => arguments[t] # None)

(* Whoever attempts a task has its roles; whoever has a host got it from   *)
(* the role that the model means, which had it for good.                   *)
Placing(t) == Else(RunFrom(t), TaskRole(t))
HasHost(h, t) == h # None /\ h = Address(host_ref(Placing(t)))
AttemptInv ==
  \A w \in Workers :
    /\ worker[w].pc \in {"place", "host", "args", "check"} =>
         "repeat_count" \in arguments[worker[w].task]
    /\ worker[w].pc \in {"args", "check"} => HasHost(worker[w].host, worker[w].task)

IInv == TypeOK /\ WorkInv /\ QueueInv /\ AttemptInv /\ RightPlace /\ JudgedByTheResult

-----------------------------------------------------------------------------
(* Who has a repeat_count has the arguments before it.                     *)
LEMMA RolesBeforeRepeats ==
  ASSUME NEW n \in 0 .. 6, "repeat_count" \in Computed(n)
  PROVE  {"task_role", "run_from"} \subseteq Computed(n)
<1>1. PICK i \in 1 .. n : Order[i] = "repeat_count" BY DEF Computed
<1>2. i \in 1 .. 6 BY <1>1
<1>3. i = 3 BY <1>1, <1>2 DEF Order
<1>4. 1 \in 1 .. n /\ 2 \in 1 .. n BY <1>1, <1>3
<1>5. Order[1] = "task_role" /\ Order[2] = "run_from" BY DEF Order
<1>. QED BY <1>4, <1>5 DEF Computed

(* The roles of a task that is attempted are those that its model means.   *)
LEMMA RolesAreMeant ==
  ASSUME TypeOK, NEW t \in Tasks, arguments[t] # None, "repeat_count" \in arguments[t]
  PROVE  get_task_role(t) = TaskRole(t) /\ run_role(t) = Placing(t)
<1>1. PICK n \in 0 .. 6 : arguments[t] = Computed(n) BY DEF TypeOK
<1>2. {"task_role", "run_from"} \subseteq arguments[t] BY <1>1, RolesBeforeRepeats
<1>. QED BY <1>2 DEF get_task_role, run_role, get_run_from, Own, TaskRole, RunFrom, Placing

(* What may have to be fixed is a role, a server, or nothing.              *)
LEMMA RoleTypes ==
  ASSUME TypeOK, NEW t \in Tasks
  PROVE  /\ get_task_role(t) \in Roles \cup {None} /\ DefaultRole(t) \in Roles \cup {None}
         /\ run_role(t) \in Roles \cup {None}
<1>1. /\ {model.default_task_role, model.default_run_from} \subseteq Roles \cup {None}
      /\ {model.task_role[t], model.run_from[t]} \subseteq Roles \cup {None}
  BY AnsibleAssumption DEF TypeOK
<1>. QED BY <1>1 DEF get_task_role, run_role, get_run_from, DefaultRole, Own, Else

(* A worker that is at a step wants a role or a server fixed, or nothing.  *)
LEMMA WantedType ==
  ASSUME TypeOK, WorkInv, NEW w \in Workers, worker[w].pc # "idle"
  PROVE  Wanted(w) \in Entities \cup {None}
<1>. DEFINE t == worker[w].task
<1>1. t \in Tasks BY DEF WorkInv
<1>2. worker[w].pc \in {"look", "place", "host", "args", "check"} BY DEF TypeOK
<1>3. /\ get_task_role(t) \in Roles \cup {None} /\ DefaultRole(t) \in Roles \cup {None}
      /\ run_role(t) \in Roles \cup {None}
  BY <1>1, RoleTypes
<1>4. \A r : ServerOf(r) \in Servers \cup {None} BY DEF ServerOf
<1>. HIDE DEF t
<1>. QED BY <1>2, <1>3, <1>4 DEF Wanted, Entities, t

-----------------------------------------------------------------------------
(* What a step does to its worker, and how it may end a task.              *)
WorkerType == [task : Tasks \cup {None}, tries : Nat, marked : BOOLEAN,
               pc : {"idle", "look", "place", "host", "args", "check"},
               fixing : Entities \cup {None}, result : Results \cup {None},
               host : {model.place[r] : r \in Roles} \cup {None}]

Moves(w) ==
  /\ worker' = [worker EXCEPT ![w] = worker'[w]]
  /\ worker'[w] \in WorkerType

Outcome(w) ==
  /\ Moves(w)
  /\ \/ worker'[w] = Idle
     \/ /\ worker'[w].pc = "place" /\ worker'[w].task = worker[w].task /\ ~worker'[w].marked
  /\ UNCHANGED <<phase, runs, arguments, model>>
  /\ alive' \subseteq Workers /\ count' \in Int /\ stop' \in BOOLEAN /\ aborted' \subseteq Tasks

(* However a task ends or is tried again, its worker is typed.             *)
LEMMA Outcomes ==
  ASSUME TypeOK, NEW w \in Workers, worker[w].task \in Tasks,
         Succeed(w) \/ (GiveUp(w) /\ UNCHANGED aborted) \/ Fail(w)
  PROVE  Outcome(w)
<1>1. worker \in [Workers -> WorkerType] BY DEF TypeOK, WorkerType
<1>2. Idle \in WorkerType BY DEF Idle, WorkerType
<1>3. CASE Succeed(w)
  BY <1>1, <1>2, <1>3 DEF Succeed, Outcome, Moves, TypeOK
<1>4. CASE GiveUp(w) /\ UNCHANGED aborted
  BY <1>1, <1>2, <1>4 DEF GiveUp, Outcome, Moves, TypeOK
<1>5. CASE Fail(w)
  <2>1. CASE LastTry(w) /\ GiveUp(w) /\ aborted' = aborted \cup {worker[w].task}
    BY <1>1, <1>2, <2>1 DEF GiveUp, Outcome, Moves, TypeOK
  <2>2. CASE worker' = [worker EXCEPT ![w] = Again(w)] /\ UNCHANGED <<run, aborted>>
    <3>a. worker[w] \in WorkerType BY <1>1
    <3>b. worker[w].tries + 1 \in Nat BY <3>a DEF WorkerType
    <3>1. /\ Again(w) \in WorkerType /\ Again(w).pc = "place"
          /\ Again(w).task = worker[w].task /\ Again(w).marked = FALSE
      BY <3>b DEF Again, WorkerType, Idle
    <3>. QED BY <1>1, <2>2, <3>1 DEF Outcome, Moves, TypeOK, run
  <2>3. CASE /\ worker' = [worker EXCEPT ![w] = Idle] /\ alive' = alive \ {w}
             /\ UNCHANGED <<count, stop, phase, runs, arguments, model, aborted>>
    BY <1>1, <1>2, <2>3 DEF Outcome, Moves, TypeOK
  <2>. QED BY <1>5, <2>1, <2>2, <2>3 DEF Fail
<1>. QED BY <1>3, <1>4, <1>5

-----------------------------------------------------------------------------
(* What every step of a worker leaves of the run, and how its worker goes  *)
(* on. Continues: to a step whose place and host are had.                  *)
Continues(w) ==
  \/ worker'[w] = Idle
  \/ /\ worker'[w].task = worker[w].task /\ worker[w].pc # "idle" /\ worker'[w].pc # "idle"
     /\ worker'[w].marked => worker'[w].fixing \in fixed'
     /\ worker'[w].pc \in {"place", "host", "args", "check"} =>
          "repeat_count" \in arguments[worker[w].task]
     /\ worker'[w].pc \in {"args", "check"} => HasHost(worker'[w].host, worker[w].task)

StepOf(w) ==
  /\ Moves(w) /\ Continues(w)
  /\ UNCHANGED <<model, arguments, phase, runs, queue>>
  /\ count' \in Int /\ stop' \in BOOLEAN /\ aborted' \subseteq Tasks /\ hindered' \subseteq Tasks
  /\ alive' \subseteq Workers
  /\ fixed \subseteq fixed' /\ final \subseteq final'
  /\ final' \subseteq fixed' /\ fixed' \subseteq Entities

(* A worker that ends its task, or tries it again, goes on as it may.      *)
LEMMA OutcomesContinue ==
  ASSUME IInv, NEW w \in Workers, worker[w].pc # "idle", Outcome(w),
         worker'[w] = Idle \/ "repeat_count" \in arguments[worker[w].task],
         UNCHANGED <<queue, fixed, final>>, hindered' \subseteq Tasks
  PROVE  StepOf(w)
<1>1. TypeOK /\ WorkInv BY DEF IInv
<1>2. final' \subseteq fixed' /\ fixed' \subseteq Entities BY <1>1 DEF TypeOK
<1>3. Continues(w)
  BY <1>1 DEF Outcome, Continues, WorkInv
<1>. QED BY <1>2, <1>3 DEF StepOf, Outcome

(* A worker that fixes goes on at its step.                                *)
LEMMA Fixing ==
  ASSUME IInv, NEW w \in Workers, Test(w) \/ Mark(w) \/ FixArguments(w)
  PROVE  StepOf(w)
<1>1. TypeOK /\ WorkInv /\ AttemptInv BY DEF IInv
<1>2. worker \in [Workers -> WorkerType] BY <1>1 DEF TypeOK, WorkerType
<1>3. final \subseteq fixed /\ fixed \subseteq Entities /\ aborted \subseteq Tasks
      /\ alive \subseteq Workers /\ hindered \subseteq Tasks /\ count \in Int /\ stop \in BOOLEAN
  BY <1>1 DEF TypeOK
<1>4. None \notin Entities BY AnsibleAssumption DEF Entities
<1>5. CASE Test(w)
  <2>1. worker[w].pc # "idle" BY <1>1, <1>5 DEF Test, WorkInv, Idle
  <2>2. Wanted(w) \in Entities \cup {None} BY <1>1, <2>1, WantedType
  <2>3. worker' = [worker EXCEPT ![w] = [worker[w] EXCEPT !.fixing = Wanted(w)]]
    BY <1>2, <1>5 DEF Test
  <2>4. worker'[w] \in WorkerType /\ worker'[w].marked = worker[w].marked
        /\ worker'[w].pc = worker[w].pc /\ worker'[w].task = worker[w].task
        /\ worker'[w].host = worker[w].host
    BY <1>2, <2>2, <2>3 DEF WorkerType
  <2>5. ~worker[w].marked
    BY <1>1, <1>3, <1>4, <1>5 DEF Test, WorkInv, Idle
  <2>6. UNCHANGED <<run, fixed, final, queue, aborted, jobs, hindered>> BY <1>5 DEF Test
  <2>7. Continues(w)
    BY <1>1, <2>1, <2>4, <2>5, <2>6 DEF Continues, AttemptInv
  <2>. QED BY <1>2, <1>3, <2>3, <2>4, <2>6, <2>7 DEF StepOf, Moves, run
<1>6. CASE Mark(w)
  <2>1. worker' = [worker EXCEPT ![w] = [worker[w] EXCEPT !.marked = TRUE]]
    BY <1>2, <1>6 DEF Mark
  <2>2. worker'[w] \in WorkerType /\ worker'[w].pc = worker[w].pc
        /\ worker'[w].task = worker[w].task /\ worker'[w].host = worker[w].host
        /\ worker'[w].fixing = worker[w].fixing
    BY <1>2, <2>1 DEF WorkerType
  <2>3. worker[w].fixing \in Entities BY <1>2, <1>6 DEF Mark, WorkerType
  <2>4. fixed' = fixed \cup {worker[w].fixing} /\ UNCHANGED <<run, final, queue, aborted, hindered>>
    BY <1>6 DEF Mark
  <2>5. worker[w].pc # "idle" BY <1>6, <1>1 DEF Mark, WorkInv, Idle
  <2>6. Continues(w)
    BY <1>1, <2>2, <2>4, <2>5 DEF Continues, AttemptInv
  <2>. QED BY <1>2, <1>3, <2>1, <2>2, <2>3, <2>4, <2>6 DEF StepOf, Moves, run
<1>7. CASE FixArguments(w)
  <2>1. worker' = [worker EXCEPT ![w] = [worker[w] EXCEPT !.fixing = None, !.marked = FALSE]]
    BY <1>2, <1>7 DEF FixArguments
  <2>2. worker'[w] \in WorkerType /\ worker'[w].pc = worker[w].pc
        /\ worker'[w].task = worker[w].task /\ worker'[w].host = worker[w].host
        /\ ~worker'[w].marked
    BY <1>2, <2>1 DEF WorkerType
  <2>3. final' = final \cup {worker[w].fixing} /\ UNCHANGED <<run, fixed, queue, aborted, hindered>>
        /\ worker[w].fixing \in fixed
    BY <1>1, <1>7 DEF FixArguments, WorkInv
  <2>4. worker[w].pc # "idle" BY <1>7, <1>1 DEF FixArguments, WorkInv, Idle
  <2>5. Continues(w)
    BY <1>1, <2>2, <2>3, <2>4 DEF Continues, AttemptInv
  <2>. QED BY <1>2, <1>3, <2>1, <2>2, <2>3, <2>5 DEF StepOf, Moves, run
<1>. QED BY <1>5, <1>6, <1>7

(* Whoever is ready is at work on a task, and has all that was fixed.      *)
LEMMA ReadyToGo ==
  ASSUME IInv, NEW w \in Workers, NEW pc \in {"look", "place", "host", "args", "check"},
         Ready(w, pc)
  PROVE  /\ worker[w].pc = pc /\ worker[w].task \in Tasks /\ arguments[worker[w].task] # None
         /\ hindered' \subseteq Tasks /\ UNCHANGED <<fixed, final>>
         /\ worker[w].marked => worker[w].fixing \in fixed
<1>1. TypeOK /\ WorkInv BY DEF IInv
<1>2. worker[w].pc = pc /\ pc # "idle" BY DEF Ready
<1>3. worker[w].task \in Tasks /\ arguments[worker[w].task] # None BY <1>1, <1>2 DEF WorkInv
<1>4. hindered' \subseteq Tasks BY <1>1, <1>3 DEF Ready, TypeOK
<1>. QED BY <1>1, <1>2, <1>3, <1>4 DEF Ready, WorkInv

(* The record of a worker that goes on.                                    *)
After(x, p, h, a) == [x EXCEPT !.pc = p, !.host = h, !.result = a]

(* It is typed, and differs in nothing else.                               *)
LEMMA NextStepTypes ==
  ASSUME NEW x \in WorkerType, NEW p \in {"place", "host", "args", "check"},
         NEW h \in {model.place[r] : r \in Roles} \cup {None}, NEW a \in Results \cup {None}
  PROVE  LET y == After(x, p, h, a) IN
         /\ y \in WorkerType /\ y.pc = p /\ y.host = h /\ y.task = x.task
         /\ y.fixing = x.fixing /\ y.marked = x.marked
BY DEF WorkerType, After

(* A worker goes on to its next step when it has what that step needs.     *)
LEMMA GoingOn ==
  ASSUME IInv, NEW w \in Workers, worker[w].pc # "idle",
         "repeat_count" \in arguments[worker[w].task],
         NEW pc \in {"place", "host", "args", "check"},
         NEW h \in {model.place[r] : r \in Roles} \cup {None}, NEW a \in Results \cup {None},
         worker' = [worker EXCEPT ![w].pc = pc, ![w].host = h, ![w].result = a],
         pc \in {"args", "check"} => HasHost(h, worker[w].task),
         UNCHANGED <<run, aborted, queue, fixed, final>>, hindered' \subseteq Tasks
  PROVE  StepOf(w)
<1>1. TypeOK /\ WorkInv BY DEF IInv
<1>2. worker \in [Workers -> WorkerType] BY <1>1 DEF TypeOK, WorkerType
<1>3. worker' = [worker EXCEPT ![w] = [worker[w] EXCEPT !.pc = pc, !.host = h, !.result = a]]
  BY <1>2
<1>4. worker[w] \in WorkerType BY <1>2
<1>5. worker'[w] = [worker[w] EXCEPT !.pc = pc, !.host = h, !.result = a] BY <1>2, <1>3
<1>6. /\ worker'[w] \in WorkerType /\ worker'[w].pc = pc /\ worker'[w].host = h
      /\ worker'[w].task = worker[w].task /\ worker'[w].fixing = worker[w].fixing
      /\ worker'[w].marked = worker[w].marked
  <2>. DEFINE y == After(worker[w], pc, h, a)
  <2>1. /\ y \in WorkerType /\ y.pc = pc /\ y.host = h /\ y.task = worker[w].task
        /\ y.fixing = worker[w].fixing /\ y.marked = worker[w].marked
    BY <1>4, NextStepTypes
  <2>2. worker'[w] = y BY <1>5 DEF After
  <2>. QED BY <2>1, <2>2
<1>7. Continues(w) BY <1>1, <1>6 DEF Continues, WorkInv
<1>. QED BY <1>1, <1>2, <1>3, <1>6, <1>7 DEF StepOf, Moves, run, TypeOK

(* A worker whose role or server raises is caught, or fails its attempt.   *)
LEMMA FixRaised ==
  ASSUME IInv, NEW w \in Workers, FixRaises(w)
  PROVE  StepOf(w)
<1>1. TypeOK /\ WorkInv /\ AttemptInv BY DEF IInv
<1>2. worker \in [Workers -> WorkerType] BY <1>1 DEF TypeOK, WorkerType
<1>3. worker[w].marked /\ UNCHANGED <<fixed, final, queue, jobs>>
      /\ hindered' = hindered \cup {worker[w].task}
  BY DEF FixRaises
<1>4. worker[w].pc # "idle" BY <1>1, <1>3 DEF WorkInv, Idle
<1>5. worker[w].task \in Tasks BY <1>1, <1>4 DEF WorkInv
<1>6. hindered' \subseteq Tasks BY <1>1, <1>3, <1>5 DEF TypeOK
<1>7. CASE worker[w].pc = "look" /\ UNCHANGED <<run, aborted>>
           /\ worker' = [worker EXCEPT ![w].fixing = None, ![w].marked = FALSE]
  <2>1. worker' = [worker EXCEPT ![w] = [worker[w] EXCEPT !.fixing = None, !.marked = FALSE]]
    BY <1>2, <1>7
  <2>2. worker'[w] \in WorkerType /\ worker'[w].pc = worker[w].pc
        /\ worker'[w].task = worker[w].task /\ ~worker'[w].marked
    BY <1>2, <2>1 DEF WorkerType
  <2>3. Continues(w) BY <1>4, <1>7, <2>2 DEF Continues
  <2>. QED BY <1>1, <1>2, <1>3, <1>6, <1>7, <2>1, <2>2, <2>3 DEF StepOf, Moves, TypeOK, run
<1>8. CASE worker[w].pc # "look" /\ Fail(w)
  <2>1. "repeat_count" \in arguments[worker[w].task]
    BY <1>1, <1>2, <1>4, <1>8 DEF AttemptInv, WorkerType
  <2>2. Outcome(w) BY <1>1, <1>5, <1>8, Outcomes
  <2>. QED BY <1>3, <1>4, <1>6, <2>1, <2>2, OutcomesContinue
<1>. QED BY <1>7, <1>8 DEF FixRaises

(* The look at the role: the end of the task, or the first attempt.        *)
LEMMA Looking ==
  ASSUME IInv, NEW w \in Workers, Look(w)
  PROVE  StepOf(w)
<1>. DEFINE t == worker[w].task
<1>1. TypeOK /\ WorkInv BY DEF IInv
<1>2. Ready(w, "look") BY DEF Look
<1>3. /\ worker[w].pc = "look" /\ t \in Tasks /\ arguments[t] # None
      /\ hindered' \subseteq Tasks /\ UNCHANGED <<fixed, final>>
  BY <1>2, ReadyToGo
<1>4. UNCHANGED queue BY DEF Look
<1>5. CASE GiveUp(w) /\ UNCHANGED aborted
  <2>1. Outcome(w) BY <1>1, <1>3, <1>5, Outcomes
  <2>2. worker'[w] = Idle BY <1>1, <1>5 DEF GiveUp, TypeOK
  <2>. QED BY <1>3, <1>4, <2>1, <2>2, OutcomesContinue
<1>6. CASE Attempts(t) /\ Succeed(w)
  <2>1. Outcome(w) BY <1>1, <1>3, <1>6, Outcomes
  <2>2. worker'[w] = Idle BY <1>1, <1>6 DEF Succeed, TypeOK
  <2>. QED BY <1>3, <1>4, <2>1, <2>2, OutcomesContinue
<1>7. CASE Attempts(t) /\ worker' = [worker EXCEPT ![w].pc = "place"] /\ UNCHANGED <<run, aborted>>
  <2>1. worker \in [Workers -> WorkerType] BY <1>1 DEF TypeOK, WorkerType
  <2>2. worker[w].host \in {model.place[r] : r \in Roles} \cup {None}
        /\ worker[w].result \in Results \cup {None}
    BY <2>1 DEF WorkerType
  <2>3. worker' = [worker EXCEPT ![w].pc = "place", ![w].host = worker[w].host,
                                 ![w].result = worker[w].result]
    BY <2>1, <1>7 DEF WorkerType
  <2>4. "repeat_count" \in arguments[t] BY <1>7 DEF Attempts
  <2>. QED BY <1>3, <1>4, <1>7, <2>2, <2>3, <2>4, GoingOn
<1>. QED BY <1>5, <1>6, <1>7 DEF Look

(* The role, then the host, of an attempt.                                 *)
LEMMA Placed ==
  ASSUME IInv, NEW w \in Workers, Place(w)
  PROVE  StepOf(w)
<1>. DEFINE t == worker[w].task
<1>1. TypeOK /\ WorkInv /\ AttemptInv BY DEF IInv
<1>2. Ready(w, "place") /\ UNCHANGED queue BY DEF Place
<1>3. /\ worker[w].pc = "place" /\ t \in Tasks
      /\ hindered' \subseteq Tasks /\ UNCHANGED <<fixed, final>>
  BY <1>2, ReadyToGo
<1>4. "repeat_count" \in arguments[t] BY <1>1, <1>3 DEF AttemptInv
<1>5. CASE Fail(w)
  <2>1. Outcome(w) BY <1>1, <1>3, <1>5, Outcomes
  <2>. QED BY <1>2, <1>3, <1>4, <2>1, OutcomesContinue
<1>6. CASE worker' = [worker EXCEPT ![w].pc = "host"] /\ UNCHANGED <<run, aborted>>
  <2>1. worker \in [Workers -> WorkerType] BY <1>1 DEF TypeOK, WorkerType
  <2>2. worker[w].host \in {model.place[r] : r \in Roles} \cup {None}
        /\ worker[w].result \in Results \cup {None}
    BY <2>1 DEF WorkerType
  <2>3. worker' = [worker EXCEPT ![w].pc = "host", ![w].host = worker[w].host,
                                 ![w].result = worker[w].result]
    BY <2>1, <1>6 DEF WorkerType
  <2>. QED BY <1>2, <1>3, <1>4, <1>6, <2>2, <2>3, GoingOn
<1>. QED BY <1>5, <1>6 DEF Place

(* The host that an attempt has is that of the role the model means.       *)
LEMMA Hosted ==
  ASSUME IInv, NEW w \in Workers, Host(w)
  PROVE  StepOf(w)
<1>. DEFINE t == worker[w].task
            h == Address(host_ref(run_role(t)))
<1>1. TypeOK /\ WorkInv /\ AttemptInv BY DEF IInv
<1>2. Ready(w, "host") /\ UNCHANGED queue BY DEF Host
<1>3. /\ worker[w].pc = "host" /\ t \in Tasks /\ arguments[t] # None
      /\ hindered' \subseteq Tasks /\ UNCHANGED <<fixed, final>>
  BY <1>2, ReadyToGo
<1>4. "repeat_count" \in arguments[t] BY <1>1, <1>3 DEF AttemptInv
<1>5. CASE Fail(w)
  <2>1. Outcome(w) BY <1>1, <1>3, <1>5, Outcomes
  <2>. QED BY <1>2, <1>3, <1>4, <2>1, OutcomesContinue
<1>6. CASE h # None /\ worker' = [worker EXCEPT ![w].pc = "args", ![w].host = h]
           /\ UNCHANGED <<run, aborted>>
  <2>1. worker \in [Workers -> WorkerType] BY <1>1 DEF TypeOK, WorkerType
  <2>2. worker[w].result \in Results \cup {None} BY <2>1 DEF WorkerType
  <2>3. run_role(t) \in Roles \cup {None} /\ run_role(t) = Placing(t)
    BY <1>1, <1>3, <1>4, RoleTypes, RolesAreMeant
  <2>4. run_role(t) \in final BY <1>6 DEF Address, host_ref
  <2>5. None \notin final BY <1>1, AnsibleAssumption DEF TypeOK, Entities
  <2>6. h = model.place[run_role(t)] /\ run_role(t) \in Roles
    BY <1>6, <2>3, <2>4, <2>5 DEF Address, host_ref
  <2>7. h \in {model.place[r] : r \in Roles} \cup {None} BY <2>6
  <2>8. HasHost(h, t) BY <1>6, <2>3 DEF HasHost
  <2>9. worker' = [worker EXCEPT ![w].pc = "args", ![w].host = h, ![w].result = worker[w].result]
    BY <2>1, <1>6 DEF WorkerType
  <2>. HIDE DEF h
  <2>. QED BY <1>2, <1>3, <1>4, <1>6, <2>2, <2>7, <2>8, <2>9, GoingOn
<1>. QED BY <1>5, <1>6 DEF Host

(* The call of Ansible, with the host that the attempt has.                *)
LEMMA Ran ==
  ASSUME IInv, NEW w \in Workers, Run(w)
  PROVE  StepOf(w)
<1>. DEFINE t == worker[w].task
<1>1. TypeOK /\ WorkInv /\ AttemptInv BY DEF IInv
<1>2. Ready(w, "args") /\ UNCHANGED queue BY DEF Run
<1>3. /\ worker[w].pc = "args" /\ t \in Tasks
      /\ hindered' \subseteq Tasks /\ UNCHANGED <<fixed, final>>
  BY <1>2, ReadyToGo
<1>4. "repeat_count" \in arguments[t] /\ HasHost(worker[w].host, t) BY <1>1, <1>3 DEF AttemptInv
<1>5. CASE Fail(w)
  <2>1. Outcome(w) BY <1>1, <1>3, <1>5, Outcomes
  <2>. QED BY <1>2, <1>3, <1>4, <2>1, OutcomesContinue
<1>6. CASE UNCHANGED <<run, aborted>>
           /\ \E r \in Results : worker' = [worker EXCEPT ![w].pc = "check", ![w].result = r]
  <2>1. worker \in [Workers -> WorkerType] BY <1>1 DEF TypeOK, WorkerType
  <2>2. worker[w].host \in {model.place[r] : r \in Roles} \cup {None} BY <2>1 DEF WorkerType
  <2>3. PICK r \in Results : worker' = [worker EXCEPT ![w].pc = "check", ![w].result = r] BY <1>6
  <2>4. worker' = [worker EXCEPT ![w].pc = "check", ![w].host = worker[w].host, ![w].result = r]
    BY <2>1, <2>3 DEF WorkerType
  <2>. QED BY <1>2, <1>3, <1>4, <1>6, <2>2, <2>4, GoingOn
<1>. QED BY <1>5, <1>6 DEF Run

(* An attempt ends when making its arguments raises, or the call.          *)
LEMMA RanRaised ==
  ASSUME IInv, NEW w \in Workers, RunRaises(w)
  PROVE  StepOf(w)
<1>1. TypeOK /\ WorkInv /\ AttemptInv BY DEF IInv
<1>2. /\ worker[w].pc = "args" /\ UNCHANGED <<fixed, final, queue, jobs>>
      /\ hindered' = hindered \cup {worker[w].task} /\ Fail(w)
  BY DEF RunRaises
<1>3. worker[w].task \in Tasks /\ "repeat_count" \in arguments[worker[w].task]
  BY <1>1, <1>2 DEF WorkInv, AttemptInv
<1>4. hindered' \subseteq Tasks BY <1>1, <1>2, <1>3 DEF TypeOK
<1>5. Outcome(w) BY <1>1, <1>2, <1>3, Outcomes
<1>. QED BY <1>2, <1>3, <1>4, <1>5, OutcomesContinue

(* The judgement ends the task or the attempt.                             *)
LEMMA Checked ==
  ASSUME IInv, NEW w \in Workers, Check(w)
  PROVE  StepOf(w)
<1>1. TypeOK /\ AttemptInv BY DEF IInv
<1>2. Ready(w, "check") /\ UNCHANGED queue BY DEF Check
<1>3. /\ worker[w].pc = "check" /\ worker[w].task \in Tasks
      /\ hindered' \subseteq Tasks /\ UNCHANGED <<fixed, final>>
  BY <1>2, ReadyToGo
<1>4. "repeat_count" \in arguments[worker[w].task] BY <1>1, <1>3 DEF AttemptInv
<1>5. Succeed(w) \/ Fail(w) BY DEF Check
<1>6. Outcome(w) BY <1>1, <1>3, <1>5, Outcomes
<1>. QED BY <1>2, <1>3, <1>4, <1>6, OutcomesContinue

-----------------------------------------------------------------------------
(* A host that was read is its role's for good: what is final stays so.    *)
LEMMA HostsStay ==
  ASSUME final \subseteq final', UNCHANGED model,
         NEW v \in Workers, HasHost(worker[v].host, worker[v].task), UNCHANGED worker[v]
  PROVE  HasHost(worker[v].host, worker[v].task)'
<1>. DEFINE p == Placing(worker[v].task)
            h == worker[v].host
<1>1. p' = p /\ h' = h BY DEF Placing, RunFrom, TaskRole, Else
<1>2. h # None /\ h = Address(host_ref(p)) BY DEF HasHost
<1>. HIDE DEF p, h
<1>3. p \in final /\ h = model.place[p] BY <1>2 DEF Address, host_ref
<1>4. host_ref(p)' = host_ref(p) BY <1>1, <1>3 DEF host_ref
<1>5. Address(host_ref(p))' = Address(host_ref(p)) BY <1>2, <1>4 DEF Address
<1>. QED BY <1>1, <1>2, <1>5 DEF HasHost, p, h

(* The same of a host that a worker has just read.                         *)
LEMMA HostsStayForTasks ==
  ASSUME final \subseteq final', UNCHANGED model, NEW w \in Workers,
         HasHost(worker'[w].host, worker[w].task), worker'[w].task = worker[w].task
  PROVE  HasHost(worker[w].host, worker[w].task)'
BY DEF HasHost, Address, host_ref, Placing, RunFrom, TaskRole, Else

(* A step of a worker keeps the invariant, but for what it says of jobs.   *)
LEMMA StepsKeep ==
  ASSUME IInv, NEW w \in Workers, StepOf(w)
  PROVE  TypeOK' /\ WorkInv' /\ QueueInv' /\ AttemptInv'
<1>1. TypeOK /\ WorkInv /\ QueueInv /\ AttemptInv BY DEF IInv
<1>2. worker \in [Workers -> WorkerType] BY <1>1 DEF TypeOK, WorkerType
<1>3. /\ worker' = [worker EXCEPT ![w] = worker'[w]] /\ worker'[w] \in WorkerType
      /\ Continues(w) /\ UNCHANGED <<model, arguments, phase, runs, queue>>
      /\ count' \in Int /\ stop' \in BOOLEAN /\ aborted' \subseteq Tasks /\ hindered' \subseteq Tasks
      /\ alive' \subseteq Workers
      /\ fixed \subseteq fixed' /\ final \subseteq final'
      /\ final' \subseteq fixed' /\ fixed' \subseteq Entities
  BY DEF StepOf, Moves
<1>4. worker' \in [Workers -> WorkerType] /\ \A v \in Workers \ {w} : worker'[v] = worker[v]
  BY <1>2, <1>3
<1>5. TypeOK' BY <1>1, <1>3, <1>4 DEF TypeOK, WorkerType
<1>6. WorkInv'
  <2>. SUFFICES ASSUME NEW v \in Workers
                PROVE  /\ worker'[v].pc = "idle" => worker'[v] = Idle
                       /\ worker'[v].pc # "idle" => /\ worker'[v].task \in Tasks
                                                    /\ arguments'[worker'[v].task] # None
                       /\ worker'[v].marked => worker'[v].fixing \in fixed'
    BY DEF WorkInv, Idle
  <2>1. CASE v # w BY <1>1, <1>3, <1>4, <2>1 DEF WorkInv
  <2>2. CASE v = w
    <3>1. CASE worker'[w] = Idle BY <2>2, <3>1 DEF Idle
    <3>2. CASE worker'[w] # Idle
      <4>1. /\ worker'[w].task = worker[w].task /\ worker[w].pc # "idle" /\ worker'[w].pc # "idle"
            /\ worker'[w].marked => worker'[w].fixing \in fixed'
        BY <1>3, <3>2 DEF Continues
      <4>2. worker[w].task \in Tasks /\ arguments[worker[w].task] # None BY <1>1, <4>1 DEF WorkInv
      <4>. QED BY <1>3, <2>2, <4>1, <4>2
    <3>. QED BY <3>1, <3>2
  <2>. QED BY <2>1, <2>2
<1>7. QueueInv' BY <1>1, <1>3 DEF QueueInv
<1>8. AttemptInv'
  <2>. SUFFICES ASSUME NEW v \in Workers
                PROVE  /\ worker'[v].pc \in {"place", "host", "args", "check"} =>
                            "repeat_count" \in arguments'[worker'[v].task]
                       /\ worker'[v].pc \in {"args", "check"} =>
                            HasHost(worker[v].host, worker[v].task)'
    BY DEF AttemptInv
  <2>1. CASE v # w
    <3>1. worker'[v] = worker[v] BY <1>4, <2>1
    <3>2. worker[v].pc \in {"args", "check"} => HasHost(worker[v].host, worker[v].task)'
      BY <1>1, <1>3, <3>1, HostsStay DEF AttemptInv
    <3>. QED BY <1>1, <1>3, <3>1, <3>2 DEF AttemptInv
  <2>2. CASE v = w
    <3>1. CASE worker'[w] = Idle BY <2>2, <3>1 DEF Idle
    <3>2. CASE worker'[w] # Idle
      <4>1. /\ worker'[w].task = worker[w].task
            /\ worker'[w].pc \in {"place", "host", "args", "check"} =>
                 "repeat_count" \in arguments[worker[w].task]
            /\ worker'[w].pc \in {"args", "check"} => HasHost(worker'[w].host, worker[w].task)
        BY <1>3, <3>2 DEF Continues
      <4>2. worker'[w].pc \in {"args", "check"} => HasHost(worker[w].host, worker[w].task)'
        BY <1>3, <4>1, HostsStayForTasks
      <4>. QED BY <1>3, <2>2, <4>1, <4>2
    <3>. QED BY <3>1, <3>2
  <2>. QED BY <2>1, <2>2
<1>. QED BY <1>5, <1>6, <1>7, <1>8

(* A task that is begun was put in the queue when it had its arguments.    *)
LEMMA BeginKeeps ==
  ASSUME IInv, NEW w \in Workers, NEW t \in Tasks, Begin(w, t)
  PROVE  TypeOK' /\ WorkInv' /\ QueueInv' /\ AttemptInv'
<1>1. TypeOK /\ WorkInv /\ QueueInv /\ AttemptInv BY DEF IInv
<1>2. worker \in [Workers -> WorkerType] /\ Idle \in WorkerType
  BY <1>1 DEF TypeOK, WorkerType, Idle
<1>3. worker' = [worker EXCEPT ![w] = [Idle EXCEPT !.task = t, !.pc = "look"]]
  BY <1>2 DEF Begin
<1>4. /\ worker'[w] \in WorkerType /\ worker'[w].pc = "look" /\ worker'[w].task = t
      /\ ~worker'[w].marked
  BY <1>2, <1>3 DEF WorkerType, Idle
<1>5. worker' \in [Workers -> WorkerType] /\ \A v \in Workers \ {w} : worker'[v] = worker[v]
  BY <1>2, <1>3, <1>4
<1>6. /\ UNCHANGED <<run, fixed, final, aborted, hindered>>
      /\ queue[t] > 0 /\ queue' = [queue EXCEPT ![t] = @ - 1]
  BY DEF Begin
<1>7. TypeOK'
  <2>1. queue' \in [Tasks -> 0 .. MaxRuns]
    <3>1. queue[t] \in 0 .. MaxRuns /\ MaxRuns \in Nat BY <1>1, AnsibleAssumption DEF TypeOK
    <3>2. queue[t] - 1 \in 0 .. MaxRuns BY <1>6, <3>1
    <3>. QED BY <1>1, <1>6, <3>2 DEF TypeOK
  <2>. QED BY <1>1, <1>5, <1>6, <2>1 DEF TypeOK, WorkerType, run
<1>8. WorkInv'
  <2>. SUFFICES ASSUME NEW v \in Workers
                PROVE  /\ worker'[v].pc = "idle" => worker'[v] = Idle
                       /\ worker'[v].pc # "idle" => /\ worker'[v].task \in Tasks
                                                    /\ arguments'[worker'[v].task] # None
                       /\ worker'[v].marked => worker'[v].fixing \in fixed'
    BY DEF WorkInv, Idle
  <2>1. CASE v # w BY <1>1, <1>5, <1>6, <2>1 DEF WorkInv, run
  <2>2. CASE v = w BY <1>1, <1>4, <1>6, <2>2 DEF QueueInv, run
  <2>. QED BY <2>1, <2>2
<1>9. QueueInv' BY <1>1, <1>6 DEF QueueInv, TypeOK, run
<1>10. AttemptInv'
  <2>. SUFFICES ASSUME NEW v \in Workers
                PROVE  /\ worker'[v].pc \in {"place", "host", "args", "check"} =>
                            "repeat_count" \in arguments'[worker'[v].task]
                       /\ worker'[v].pc \in {"args", "check"} =>
                            HasHost(worker[v].host, worker[v].task)'
    BY DEF AttemptInv
  <2>1. CASE v # w
    <3>1. worker'[v] = worker[v] /\ UNCHANGED <<model, arguments, final>>
      BY <1>5, <1>6, <2>1 DEF run
    <3>2. worker[v].pc \in {"args", "check"} => HasHost(worker[v].host, worker[v].task)'
      BY <1>1, <3>1, HostsStay DEF AttemptInv
    <3>. QED BY <1>1, <3>1, <3>2 DEF AttemptInv
  <2>2. CASE v = w BY <1>4, <2>2
  <2>. QED BY <2>1, <2>2
<1>. QED BY <1>7, <1>8, <1>9, <1>10

-----------------------------------------------------------------------------
(* What is asked for when tasks are fixed is the model's default role.     *)
LEMMA AskedTypes ==
  ASSUME TypeOK
  PROVE  Asked \subseteq Roles
BY AnsibleAssumption DEF TypeOK, Asked

(* Fixing gives arguments to tasks that had none, and to no other.         *)
LEMMA FixingTasks ==
  ASSUME TypeOK, NEW n, DOMAIN n \subseteq Unfixed,
         \A t \in DOMAIN n : n[t] \in 0 .. 6, NEW asked \in SUBSET Roles, NEW broken,
         FixTasks(n, asked, broken)
  PROVE  /\ \A t \in Tasks : /\ arguments[t] # None => arguments'[t] = arguments[t]
                             /\ arguments'[t] = None \/ \E k \in 0 .. 6 : arguments'[t] = Computed(k)
         /\ \A t \in DOMAIN n : arguments'[t] # None
         /\ fixed \subseteq fixed' /\ final \subseteq final'
         /\ final' \subseteq fixed' /\ fixed' \subseteq Entities
<1>1. arguments' = [t \in Tasks |-> IF t \in DOMAIN n THEN Computed(n[t]) ELSE arguments[t]]
  BY DEF FixTasks
<1>2. ASSUME NEW t \in Tasks
      PROVE  /\ arguments[t] # None => arguments'[t] = arguments[t]
             /\ arguments'[t] = None \/ \E k \in 0 .. 6 : arguments'[t] = Computed(k)
  <2>1. CASE t \in DOMAIN n
    <3>1. arguments'[t] = Computed(n[t]) /\ n[t] \in 0 .. 6 BY <1>1, <2>1
    <3>2. arguments[t] = None BY <2>1 DEF Unfixed
    <3>. QED BY <3>1, <3>2
  <2>2. CASE t \notin DOMAIN n BY <1>1, <2>2 DEF TypeOK
  <2>. QED BY <2>1, <2>2
<1>3. ASSUME NEW t \in DOMAIN n PROVE arguments'[t] # None
  <2>1. t \in Tasks BY DEF Unfixed
  <2>2. arguments'[t] = Computed(n[t]) /\ n[t] \in 0 .. 6 BY <1>1, <2>1
  <2>. QED BY <2>2, AnsibleAssumption
<1>4. /\ fixed \subseteq fixed' /\ final \subseteq final'
      /\ final' \subseteq fixed' /\ fixed' \subseteq Entities
  BY AskedTypes DEF FixTasks, TypeOK, Entities
<1>. QED BY <1>2, <1>3, <1>4

(* What a call of perform_config does before any worker begins.            *)
CallOf ==
  /\ UNCHANGED <<model, worker, aborted, hindered>> /\ alive' \subseteq Workers
  /\ \A t \in Tasks : /\ arguments[t] # None => arguments'[t] = arguments[t]
                      /\ arguments'[t] = None \/ \E k \in 0 .. 6 : arguments'[t] = Computed(k)
  /\ fixed \subseteq fixed' /\ final \subseteq final'
  /\ final' \subseteq fixed' /\ fixed' \subseteq Entities
  /\ count' \in Int /\ stop' \in BOOLEAN
  /\ phase' \in {"ready", "running", "raised", "performed"} /\ runs' \in 0 .. MaxRuns
  /\ queue' \in [Tasks -> 0 .. MaxRuns]
  /\ \A t \in Tasks : queue'[t] <= runs' /\ (queue'[t] > 0 => arguments'[t] # None)

(* A call of perform_config, or its end, keeps what the workers rely on.   *)
LEMMA CallsKeep ==
  ASSUME IInv, CallOf
  PROVE  TypeOK' /\ WorkInv' /\ QueueInv' /\ AttemptInv'
<1>1. TypeOK /\ WorkInv /\ AttemptInv BY DEF IInv
<1>2. TypeOK' BY <1>1 DEF TypeOK, CallOf
<1>3. WorkInv' BY <1>1 DEF WorkInv, CallOf
<1>4. QueueInv' BY DEF QueueInv, CallOf
<1>5. AttemptInv'
  <2>. SUFFICES ASSUME NEW v \in Workers
                PROVE  /\ worker'[v].pc \in {"place", "host", "args", "check"} =>
                            "repeat_count" \in arguments'[worker'[v].task]
                       /\ worker'[v].pc \in {"args", "check"} =>
                            HasHost(worker[v].host, worker[v].task)'
    BY DEF AttemptInv
  <2>1. worker'[v] = worker[v] /\ final \subseteq final' /\ UNCHANGED model BY DEF CallOf
  <2>2. worker[v].pc # "idle" => arguments'[worker[v].task] = arguments[worker[v].task]
    BY <1>1 DEF WorkInv, CallOf
  <2>3. worker[v].pc \in {"args", "check"} => HasHost(worker[v].host, worker[v].task)'
    BY <1>1, <2>1, HostsStay DEF AttemptInv
  <2>. QED BY <1>1, <2>1, <2>2, <2>3 DEF AttemptInv
<1>. QED BY <1>2, <1>3, <1>4, <1>5

(* Both ways a call goes fix tasks that were not fixed.                    *)
LEMMA Calls ==
  ASSUME IInv, perform_config \/ perform_config_raises \/ Finish
  PROVE  CallOf /\ UNCHANGED jobs
<1>1. TypeOK /\ QueueInv BY DEF IInv
<1>2. model \in Models /\ model.calls \in 0 .. MaxRuns /\ MaxRuns \in Nat
      /\ queue \in [Tasks -> 0 .. MaxRuns] /\ runs \in 0 .. MaxRuns
      /\ count \in Int /\ stop \in BOOLEAN
  BY <1>1, AnsibleAssumption DEF TypeOK
<1>3. CASE perform_config
  <2>. DEFINE n == [t \in Unfixed |-> 6]
  <2>1. FixTasks(n, {}, {}) BY <1>3 DEF perform_config
  <2>2. DOMAIN n \subseteq Unfixed /\ \A t \in DOMAIN n : n[t] \in 0 .. 6 OBVIOUS
  <2>3. /\ \A t \in Tasks : /\ arguments[t] # None => arguments'[t] = arguments[t]
                            /\ arguments'[t] = None \/ \E k \in 0 .. 6 : arguments'[t] = Computed(k)
        /\ \A t \in DOMAIN n : arguments'[t] # None
        /\ fixed \subseteq fixed' /\ final \subseteq final'
        /\ final' \subseteq fixed' /\ fixed' \subseteq Entities
    <3>. HIDE DEF n
    <3>. QED BY <1>1, <2>1, <2>2, FixingTasks
  <2>4. \A t \in Tasks : arguments'[t] # None BY <2>3 DEF Unfixed
  <2>5. /\ runs < model.calls /\ phase' = "running" /\ runs' = runs + 1
        /\ count' = Cardinality(Tasks) /\ stop' = FALSE /\ alive' = Workers
        /\ queue' = [t \in Tasks |-> queue[t] + 1]
        /\ UNCHANGED <<model, worker, aborted, jobs, hindered>>
    BY <1>3 DEF perform_config
  <2>6. count' \in Int BY <2>5, AnsibleAssumption, FS_CardinalityType
  <2>7. runs' \in 0 .. MaxRuns BY <1>2, <2>5
  <2>8. \A t \in Tasks : queue'[t] \in 0 .. MaxRuns /\ queue'[t] <= runs'
    BY <1>1, <1>2, <2>5 DEF QueueInv
  <2>9. queue' \in [Tasks -> 0 .. MaxRuns] BY <2>5, <2>8
  <2>. QED BY <2>3, <2>4, <2>5, <2>6, <2>7, <2>8, <2>9 DEF CallOf
<1>4. CASE perform_config_raises
  <2>a. PICK t \in Unfixed, m \in 0 .. 5 : \E S \in SUBSET (Unfixed \ {t}) :
        \E asked \in SUBSET ({model.default_task_role} \ {None}) : \E broken \in SUBSET asked :
           FixTasks([u \in S \cup {t} |-> IF u = t THEN m ELSE 6], asked, broken)
    BY <1>4 DEF perform_config_raises
  <2>1. PICK S \in SUBSET (Unfixed \ {t}) :
        \E asked \in SUBSET ({model.default_task_role} \ {None}) : \E broken \in SUBSET asked :
           FixTasks([u \in S \cup {t} |-> IF u = t THEN m ELSE 6], asked, broken)
    BY <2>a
  <2>. DEFINE n == [u \in S \cup {t} |-> IF u = t THEN m ELSE 6]
  <2>2. DOMAIN n \subseteq Unfixed /\ \A u \in DOMAIN n : n[u] \in 0 .. 6 BY <2>1
  <2>3. /\ \A u \in Tasks : /\ arguments[u] # None => arguments'[u] = arguments[u]
                            /\ arguments'[u] = None \/ \E k \in 0 .. 6 : arguments'[u] = Computed(k)
        /\ fixed \subseteq fixed' /\ final \subseteq final'
        /\ final' \subseteq fixed' /\ fixed' \subseteq Entities
    <3>a. PICK asked \in SUBSET ({model.default_task_role} \ {None}) :
            \E broken \in SUBSET asked : FixTasks(n, asked, broken)
      BY <2>1
    <3>1. PICK broken \in SUBSET asked : FixTasks(n, asked, broken) BY <3>a
    <3>2. asked \in SUBSET Roles BY <1>2, AnsibleAssumption
    <3>. HIDE DEF n
    <3>. QED BY <1>1, <3>1, <3>2, <2>2, FixingTasks
  <2>4. /\ runs < model.calls /\ phase' = "raised" /\ runs' = runs + 1
        /\ UNCHANGED <<model, count, stop, worker, queue, aborted, alive, jobs, hindered>>
    BY <1>4 DEF perform_config_raises
  <2>5. runs' \in 0 .. MaxRuns BY <1>2, <2>4
  <2>6. \A u \in Tasks : queue'[u] <= runs' /\ (queue'[u] > 0 => arguments'[u] # None)
    BY <1>1, <1>2, <2>3, <2>4 DEF QueueInv
  <2>7. alive' \subseteq Workers BY <1>1, <2>4 DEF TypeOK
  <2>8. /\ UNCHANGED <<model, worker, aborted, hindered, jobs>> /\ count' \in Int /\ stop' \in BOOLEAN
        /\ queue' \in [Tasks -> 0 .. MaxRuns] /\ phase' = "raised"
    BY <1>2, <2>4
  <2>. HIDE DEF n
  <2>. QED BY <2>3, <2>5, <2>6, <2>7, <2>8 DEF CallOf
<1>5. CASE Finish
  <2>1. /\ phase' \in {"raised", "performed"}
        /\ UNCHANGED <<count, stop, runs, arguments, model, alive, fixed, final, worker, queue,
                       aborted, jobs, hindered>>
    BY <1>5 DEF Finish
  <2>. QED BY <1>1, <1>2, <2>1 DEF CallOf, TypeOK, QueueInv
<1>. QED BY <1>3, <1>4, <1>5

-----------------------------------------------------------------------------
(* What is said of a job depends on nothing that changes.                  *)
LEMMA JobsKeep ==
  ASSUME IInv, UNCHANGED <<model, jobs>>
  PROVE  RightPlace' /\ JudgedByTheResult'
BY DEF IInv, RightPlace, JudgedByTheResult, TaskRole, RunFrom, Else

(* A job was run on the host that its worker read of the role that the     *)
(* model means: if that is the task's own role, it is the host by which    *)
(* the answer is judged, for the role's host has not changed since.        *)
LEMMA CheckedAsRun ==
  ASSUME IInv, NEW w \in Workers, Check(w)
  PROVE  RightPlace' /\ JudgedByTheResult'
<1>. DEFINE t == worker[w].task
<1>1. TypeOK /\ WorkInv /\ AttemptInv /\ RightPlace /\ JudgedByTheResult BY DEF IInv
<1>2. worker[w].pc = "check" BY DEF Check, Ready
<1>3. t \in Tasks /\ arguments[t] # None /\ "repeat_count" \in arguments[t] /\ HasHost(worker[w].host, t)
  BY <1>1, <1>2 DEF WorkInv, AttemptInv
<1>4. get_task_role(t) = TaskRole(t) BY <1>1, <1>3, RolesAreMeant
<1>5. StepOf(w) BY Checked
<1>6. model' = model /\ jobs' = jobs \cup {Job(w)} BY <1>5 DEF StepOf, Check
<1>7. worker[w].host = model.place[Placing(t)]
  BY <1>3 DEF HasHost, Address, host_ref
<1>8. Job(w).role = TaskRole(t) /\ Job(w).host = model.place[Placing(t)] /\ Job(w).task = t
      /\ Job(w).result = worker[w].result /\ Job(w).good = result_check(w)
  BY <1>4, <1>7 DEF Job
<1>9. result_check(w) => worker[w].result = "ok" BY DEF result_check
<1>10. worker[w].result = "ok" /\ RunFrom(t) = None => result_check(w)
  <2>. SUFFICES ASSUME worker[w].result = "ok", RunFrom(t) = None PROVE result_check(w)
    OBVIOUS
  <2>1. Placing(t) = TaskRole(t) BY DEF Placing, Else
  <2>2. worker[w].host = Address(host_ref(get_task_role(t))) BY <1>3, <1>4, <2>1 DEF HasHost
  <2>. QED BY <2>2 DEF result_check
<1>11. RightPlace'
  <2>. SUFFICES ASSUME NEW j \in jobs'
                PROVE  (/\ j.role = TaskRole(j.task)
                        /\ j.host = model.place[Else(RunFrom(j.task), TaskRole(j.task))])'
    BY DEF RightPlace
  <2>1. CASE j \in jobs
    BY <1>1, <1>6, <2>1 DEF RightPlace, TaskRole, RunFrom, Else
  <2>2. CASE j = Job(w)
    <3>1. j.task = t /\ j.role = TaskRole(t) /\ j.host = model.place[Placing(t)] BY <1>8, <2>2
    <3>. QED BY <1>6, <3>1 DEF Placing, TaskRole, RunFrom, Else
  <2>. QED BY <1>6, <2>1, <2>2
<1>12. JudgedByTheResult'
  <2>. SUFFICES ASSUME NEW j \in jobs'
                PROVE  (/\ j.good => j.result = "ok"
                        /\ j.result = "ok" /\ RunFrom(j.task) = None => j.good)'
    BY DEF JudgedByTheResult
  <2>1. CASE j \in jobs
    BY <1>1, <1>6, <2>1 DEF JudgedByTheResult, RunFrom, Else
  <2>2. CASE j = Job(w)
    <3>1. j.task = t /\ j.result = worker[w].result /\ j.good = result_check(w) BY <1>8, <2>2
    <3>2. /\ j.good => j.result = "ok"
          /\ j.result = "ok" /\ RunFrom(j.task) = None => j.good
      <4>. HIDE DEF t
      <4>. QED BY <1>9, <1>10, <3>1
    <3>. QED BY <1>6, <3>1, <3>2 DEF RunFrom, Else
  <2>. QED BY <1>6, <2>1, <2>2
<1>. QED BY <1>11, <1>12

-----------------------------------------------------------------------------
(* The invariant is inductive.                                             *)
LEMMA InitIInv == Init => IInv
<1>. SUFFICES ASSUME Init PROVE IInv
  OBVIOUS
<1>1. \A w \in Workers : worker[w] = Idle BY DEF Init
<1>2. TypeOK
  <2>1. Idle \in WorkerType BY DEF Idle, WorkerType
  <2>2. worker \in [Workers -> WorkerType]
    <3>1. worker = [w \in Workers |-> Idle] BY DEF Init
    <3>. QED BY <2>1, <3>1
  <2>3. queue \in [Tasks -> 0 .. MaxRuns] /\ runs \in 0 .. MaxRuns BY AnsibleAssumption DEF Init
  <2>4. /\ model \in Models /\ final \subseteq fixed /\ fixed \subseteq Entities
        /\ \A t \in Tasks : arguments[t] = None
    BY DEF Init
  <2>5. count = 0 /\ stop = FALSE /\ phase = "ready" /\ aborted = {} /\ hindered = {}
        /\ alive = Workers
    BY Zenon DEF Init
  <2>6. count \in Int /\ aborted \subseteq Tasks /\ hindered \subseteq Tasks /\ alive \subseteq Workers BY <2>5
  <2>7. stop \in BOOLEAN BY <2>5, Zenon
  <2>8. phase \in {"ready", "running", "raised", "performed"} BY <2>5
  <2>. QED BY <2>2, <2>3, <2>4, <2>6, <2>7, <2>8 DEF TypeOK, WorkerType
<1>3. WorkInv
  <2>1. Idle.pc = "idle" /\ Idle.marked = FALSE BY DEF Idle
  <2>. QED BY <1>1, <2>1, Zenon DEF WorkInv
<1>4. QueueInv BY DEF Init, QueueInv
<1>5. AttemptInv BY <1>1 DEF AttemptInv, Idle
<1>6. RightPlace /\ JudgedByTheResult BY DEF Init, RightPlace, JudgedByTheResult
<1>. QED BY <1>2, <1>3, <1>4, <1>5, <1>6 DEF IInv

(* Every step keeps the invariant: one case for each kind of step.         *)
LEMMA NextIInv == IInv /\ [Next]_vars => IInv'
<1>. SUFFICES ASSUME IInv, [Next]_vars PROVE IInv'
  OBVIOUS
<1>1. CASE perform_config \/ perform_config_raises \/ Finish
  <2>1. CallOf /\ UNCHANGED jobs BY <1>1, Calls
  <2>2. UNCHANGED model BY <2>1 DEF CallOf
  <2>. QED BY <2>1, <2>2, CallsKeep, JobsKeep DEF IInv
<1>2. ASSUME NEW w \in Workers, Fixes(w) \/ Look(w) \/ Place(w)
                                \/ Host(w) \/ Run(w) \/ RunRaises(w)
      PROVE  IInv'
  <2>1. StepOf(w) BY <1>2, Fixing, FixRaised, Looking, Placed, Hosted, Ran, RanRaised DEF Fixes
  <2>2. UNCHANGED <<model, jobs>>
    BY <1>2, <2>1 DEF StepOf, Fixes, Test, Mark, FixArguments, FixRaises, Look, Place, Host, Run,
                      RunRaises
  <2>. QED BY <2>1, <2>2, StepsKeep, JobsKeep DEF IInv
<1>3. ASSUME NEW w \in Workers, Check(w) PROVE IInv'
  <2>1. StepOf(w) BY <1>3, Checked
  <2>. QED BY <1>3, <2>1, StepsKeep, CheckedAsRun DEF IInv
<1>4. ASSUME NEW w \in Workers, NEW t \in Tasks, Begin(w, t) PROVE IInv'
  <2>1. UNCHANGED <<model, jobs>> BY <1>4 DEF Begin, run
  <2>. QED BY <1>4, <2>1, BeginKeeps, JobsKeep DEF IInv
<1>5. CASE UNCHANGED vars
  <2>1. TypeOK' BY <1>5 DEF IInv, TypeOK, vars, run
  <2>2. WorkInv' /\ QueueInv' BY <1>5 DEF IInv, WorkInv, QueueInv, Idle, vars, run
  <2>3. AttemptInv'
    BY <1>5 DEF IInv, AttemptInv, HasHost, Address, host_ref, Placing, TaskRole, RunFrom, Else, vars, run
  <2>4. UNCHANGED <<model, jobs>> BY <1>5 DEF vars, run
  <2>. QED BY <2>1, <2>2, <2>3, <2>4, JobsKeep DEF IInv
<1>. QED BY <1>1, <1>2, <1>3, <1>4, <1>5 DEF Next, Work

(* The inductive invariant holds in every state.                           *)
THEOREM Invariance == Spec => []IInv
BY InitIInv, NextIInv, PTL DEF Spec

(* The types hold in every state, for any models and any number of calls.  *)
THEOREM TypeCorrect == Spec => []TypeOK
<1>1. IInv => TypeOK BY DEF IInv
<1>. QED BY <1>1, Invariance, PTL

(* A task is run where its model says, with the variables of the role that *)
(* its model says, although calls of perform_config may have left some of  *)
(* its arguments uncomputed and other workers may be fixing its roles.     *)
THEOREM RightPlaceHolds == Spec => []RightPlace
<1>1. IInv => RightPlace BY DEF IInv
<1>. QED BY <1>1, Invariance, PTL

(* A task that is run where its role is, is taken to have gone as Ansible  *)
(* says that it went.                                                      *)
THEOREM JudgedByTheResultHolds == Spec => []JudgedByTheResult
<1>1. IInv => JudgedByTheResult BY DEF IInv
<1>. QED BY <1>1, Invariance, PTL

-----------------------------------------------------------------------------
(* Why a task that was given up has a cause: what may have been missing    *)
(* when a worker failed. That a worker has gone past the role of its task  *)
(* means that the role is final, or that the task met it half fixed.       *)
Cause(t) ==
  \/ t \in hindered \/ Misplaced(t) \/ RunFrom(t) # None \/ arguments[t] # Complete
  \/ \E j \in jobs : j.task = t /\ j.result # "ok"

PastRole(w) == worker[w].pc \in {"host", "args", "check"} =>
                 Placing(worker[w].task) \in final \/ worker[w].task \in hindered

CauseInv ==
  /\ \A t \in aborted : arguments[t] # None /\ Cause(t)
  /\ \A w \in Workers : PastRole(w)

(* What a step leaves, and what it only adds to.                           *)
LEMMA Additions ==
  ASSUME IInv, Next
  PROVE  /\ model' = model /\ hindered \subseteq hindered' /\ jobs \subseteq jobs' /\ final \subseteq final'
         /\ \A t \in Tasks : arguments[t] # None => arguments'[t] = arguments[t]
<1>1. CASE perform_config \/ perform_config_raises \/ Finish
  BY <1>1, Calls DEF CallOf
<1>2. ASSUME NEW w \in Workers, Fixes(w) \/ Look(w) \/ Place(w)
                                \/ Host(w) \/ Run(w) \/ RunRaises(w) \/ Check(w)
      PROVE  /\ model' = model /\ hindered \subseteq hindered' /\ jobs \subseteq jobs' /\ final \subseteq final'
             /\ arguments' = arguments
  <2>1. StepOf(w) BY <1>2, Fixing, FixRaised, Looking, Placed, Hosted, Ran, RanRaised, Checked DEF Fixes
  <2>2. hindered \subseteq hindered' /\ jobs \subseteq jobs'
    BY <1>2 DEF Fixes, Test, Mark, FixArguments, FixRaises, Look, Place, Host, Run, RunRaises, Check,
                Ready
  <2>. QED BY <2>1, <2>2 DEF StepOf
<1>3. ASSUME NEW w \in Workers, NEW t \in Tasks, Begin(w, t)
      PROVE  UNCHANGED <<model, hindered, jobs, final, arguments>>
  BY <1>3 DEF Begin, run
<1>. QED BY <1>1, <1>2, <1>3 DEF Next, Work

(* A cause stays a cause.                                                  *)
LEMMA CausesStay ==
  ASSUME IInv, CauseInv, Next, NEW t \in aborted
  PROVE  arguments'[t] # None /\ Cause(t)'
<1>1. t \in Tasks BY DEF IInv, TypeOK
<1>2. /\ model' = model /\ hindered \subseteq hindered' /\ jobs \subseteq jobs'
      /\ arguments'[t] = arguments[t] /\ arguments[t] # None
  BY <1>1, Additions DEF CauseInv
<1>3. Cause(t) BY DEF CauseInv
<1>4. (Misplaced(t) <=> Misplaced(t)') /\ RunFrom(t)' = RunFrom(t)
  BY <1>2 DEF Misplaced, RunFrom, TaskRole, Else
<1>. QED BY <1>2, <1>3, <1>4 DEF Cause

(* A task is given up in these steps only, and this is why.                *)
MayFail(w) == Place(w) \/ Host(w) \/ Run(w) \/ RunRaises(w) \/ Check(w) \/ FixRaises(w)

(* Whoever fails for the last time has been given one of the causes.       *)
LEMMA FailuresHaveCauses ==
  ASSUME IInv, CauseInv, NEW w \in Workers, NEW t \in Tasks, worker[w].task = t,
         MayFail(w), aborted' # aborted
  PROVE  arguments'[t] # None /\ Cause(t)'
<1>1. TypeOK /\ WorkInv /\ AttemptInv BY DEF IInv
<1>2. worker[w].pc \in {"place", "host", "args", "check"}
  <2>1. CASE FixRaises(w)
    <3>1. worker[w].marked /\ worker[w].pc # "look" BY <2>1 DEF FixRaises
    <3>2. worker[w].pc # "idle" BY <1>1, <3>1 DEF WorkInv, Idle
    <3>. QED BY <1>1, <3>1, <3>2 DEF TypeOK
  <2>. QED BY <2>1 DEF MayFail, Place, Host, Run, RunRaises, Check, Ready
<1>3. arguments[t] # None /\ "repeat_count" \in arguments[t]
  BY <1>1, <1>2 DEF WorkInv, AttemptInv
<1>4. get_task_role(t) = TaskRole(t) /\ run_role(t) = Placing(t) BY <1>1, <1>3, RolesAreMeant
<1>5. Next BY DEF Next, Work, Fixes, MayFail
<1>6. model' = model /\ arguments'[t] = arguments[t] /\ hindered \subseteq hindered'
  BY <1>3, <1>5, Additions
<1>7. (Misplaced(t) <=> Misplaced(t)') /\ RunFrom(t)' = RunFrom(t)
  BY <1>6 DEF Misplaced, RunFrom, TaskRole, Else
<1>. SUFFICES \/ t \in hindered' \/ Misplaced(t) \/ RunFrom(t) # None \/ arguments[t] # Complete
              \/ \E j \in jobs' : j.task = t /\ j.result # "ok"
  BY <1>3, <1>6, <1>7 DEF Cause
<1>8. CASE Place(w)
  <2>1. Placing(t) = None BY <1>4, <1>8 DEF Place
  <2>. QED BY <2>1 DEF Misplaced, Placing
<1>9. CASE Host(w)
  <2>1. Address(host_ref(Placing(t))) = None BY <1>4, <1>9 DEF Host
  <2>2. Ready(w, "host") BY <1>9 DEF Host
  <2>3. Wanted(w) = ServerOf(Placing(t)) BY <1>4, <2>2 DEF Wanted, Ready
  <2>4. CASE Placing(t) \notin final
    BY <1>6, <2>2, <2>4 DEF CauseInv, PastRole, Ready
  <2>5. CASE Placing(t) \in final
    <3>1. host_ref(Placing(t)) = model.place[Placing(t)] BY <2>5 DEF host_ref
    <3>2. CASE model.place[Placing(t)] = None BY <3>2 DEF Misplaced, Placing
    <3>3. CASE model.place[Placing(t)] \in Servers \ final /\ Placing(t) # None
      <4>1. Wanted(w) \in Servers \ final BY <2>3, <3>1, <3>3 DEF ServerOf
      <4>2. Wanted(w) # None BY <4>1, AnsibleAssumption
      <4>. QED BY <2>2, <4>1, <4>2 DEF Ready
    <3>4. Placing(t) # None
      BY <2>5, AnsibleAssumption DEF IInv, TypeOK, Entities
    <3>. QED BY <2>1, <3>1, <3>2, <3>3, <3>4 DEF Address
  <2>. QED BY <2>4, <2>5
<1>10. CASE Run(w)
  <2>1. ~Arguable(t) BY <1>10 DEF Run, run
  <2>2. "module" \in Complete
    <3>1. Order[6] = "module" /\ 6 \in 1 .. 6 BY DEF Order
    <3>. QED BY <3>1 DEF Complete, Computed
  <2>. QED BY <1>4, <2>1, <2>2 DEF Arguable, Misplaced
<1>11. CASE Check(w)
  <2>1. Job(w) \in jobs' /\ Job(w).task = t /\ Job(w).result = worker[w].result
        /\ Job(w).good = result_check(w)
    BY <1>11 DEF Check, Job
  <2>2. ~result_check(w) BY <1>11 DEF Check, Succeed
  <2>3. CASE worker[w].result # "ok" BY <2>1, <2>3
  <2>4. CASE worker[w].result = "ok"
    <3>1. JudgedByTheResult' BY <1>11, CheckedAsRun
    <3>2. RunFrom(t)' # None
      BY <2>1, <2>2, <2>4, <3>1 DEF JudgedByTheResult, RunFrom, Else
    <3>. QED BY <1>7, <3>2
  <2>. QED BY <2>3, <2>4
<1>12. CASE RunRaises(w) \/ FixRaises(w)
  BY <1>12 DEF RunRaises, FixRaises
<1>. QED BY <1>8, <1>9, <1>10, <1>11, <1>12 DEF MayFail

(* Only the task of the worker that fails is added to what was given up.   *)
LEMMA AbortedAre ==
  ASSUME IInv, Next
  PROVE  \/ aborted' = aborted
         \/ \E w \in Workers : /\ worker[w].task \in Tasks
                               /\ MayFail(w)
                               /\ aborted' = aborted \cup {worker[w].task}
<1>1. CASE perform_config \/ perform_config_raises \/ Finish
  BY <1>1, Calls DEF CallOf
<1>2. ASSUME NEW w \in Workers, Test(w) \/ Mark(w) \/ FixArguments(w) \/ Look(w)
      PROVE  aborted' = aborted
  BY <1>2 DEF Test, Mark, FixArguments, Look, Succeed
<1>3. ASSUME NEW w \in Workers, MayFail(w)
      PROVE  /\ worker[w].task \in Tasks
             /\ aborted' = aborted \/ aborted' = aborted \cup {worker[w].task}
  <2>1. worker[w].pc # "idle"
    BY <1>3 DEF MayFail, Place, Host, Run, RunRaises, Check, Ready, FixRaises, IInv, WorkInv, Idle
  <2>2. worker[w].task \in Tasks BY <2>1 DEF IInv, WorkInv
  <2>3. Fail(w) \/ Succeed(w) \/ UNCHANGED aborted
    BY <1>3 DEF MayFail, Place, Host, Run, RunRaises, Check, FixRaises
  <2>. QED BY <2>2, <2>3 DEF Succeed, Fail
<1>4. ASSUME NEW w \in Workers, NEW t \in Tasks, Begin(w, t) PROVE aborted' = aborted
  BY <1>4 DEF Begin
<1>. QED BY <1>1, <1>2, <1>3, <1>4 DEF Next, Work, Fixes, MayFail

(* How a worker comes to be past its role.                                 *)
LEMMA PastBy ==
  ASSUME IInv, Next, NEW v \in Workers, worker'[v].pc \in {"host", "args", "check"}
  PROVE  Place(v) \/ (worker'[v].task = worker[v].task /\ worker[v].pc \in {"host", "args", "check"})
<1>1. TypeOK /\ WorkInv BY DEF IInv
<1>2. worker \in [Workers -> WorkerType] BY <1>1 DEF TypeOK, WorkerType
<1>3. CASE perform_config \/ perform_config_raises \/ Finish
  BY <1>3, Calls DEF CallOf
<1>4. ASSUME NEW w \in Workers, NEW t \in Tasks, Begin(w, t)
      PROVE  worker'[v] = worker[v] \/ worker'[v].pc = "look"
  BY <1>2, <1>4 DEF Begin, WorkerType
<1>5. ASSUME NEW w \in Workers, v # w, Work(w) PROVE worker'[v] = worker[v]
  <2>1. StepOf(w) BY <1>5, Fixing, Looking, Placed, Hosted, Ran, RanRaised, Checked, FixRaised DEF Work, Fixes
  <2>. QED BY <1>2, <1>5, <2>1 DEF StepOf, Moves
<1>6. CASE Test(v) \/ Mark(v) \/ FixArguments(v)
  <2>1. CASE Test(v) BY <1>2, <2>1 DEF Test, WorkerType
  <2>2. CASE Mark(v) BY <1>2, <2>2 DEF Mark, WorkerType
  <2>3. CASE FixArguments(v) BY <1>2, <2>3 DEF FixArguments, WorkerType
  <2>. QED BY <1>6, <2>1, <2>2, <2>3
<1>7. CASE Look(v)
  <2>1. worker'[v] = Idle \/ worker'[v].pc = "place"
    BY <1>2, <1>7 DEF Look, GiveUp, Succeed, WorkerType
  <2>. QED BY <2>1 DEF Idle
<1>8. CASE Host(v) \/ Run(v) \/ RunRaises(v) \/ Check(v)
  <2>1. StepOf(v) BY <1>8, Hosted, Ran, RanRaised, Checked
  <2>2. worker'[v].task = worker[v].task BY <2>1 DEF StepOf, Continues, Idle
  <2>3. worker[v].pc \in {"host", "args", "check"}
    BY <1>8 DEF Host, Run, RunRaises, Check, Ready
  <2>. QED BY <2>2, <2>3
<1>9. CASE FixRaises(v)
  <2>1. CASE worker[v].pc = "look" /\ worker' = [worker EXCEPT ![v].fixing = None, ![v].marked = FALSE]
    BY <1>2, <2>1 DEF WorkerType
  <2>2. CASE Fail(v)
    <3>1. worker[v].task \in Tasks BY <1>1, <1>9 DEF FixRaises, WorkInv, Idle
    <3>2. worker'[v] = Idle \/ worker'[v].pc = "place" BY <1>1, <2>2, <3>1, Outcomes DEF Outcome
    <3>. QED BY <3>2 DEF Idle
  <2>. QED BY <1>9, <2>1, <2>2 DEF FixRaises
<1>. QED BY <1>3, <1>4, <1>5, <1>6, <1>7, <1>8, <1>9 DEF Next, Work, Fixes

(* Whoever goes past a role found it final, or met it half fixed.          *)
LEMMA PastRoleStep ==
  ASSUME IInv, CauseInv, Next, NEW v \in Workers
  PROVE  PastRole(v)'
<1>1. TypeOK /\ WorkInv /\ AttemptInv BY DEF IInv
<1>2. worker \in [Workers -> WorkerType] BY <1>1 DEF TypeOK, WorkerType
<1>3. model' = model /\ hindered \subseteq hindered' /\ final \subseteq final' BY Additions
<1>4. \A t \in Tasks : Placing(t)' = Placing(t) BY <1>3 DEF Placing, RunFrom, TaskRole, Else
<1>. SUFFICES ASSUME worker'[v].pc \in {"host", "args", "check"}
              PROVE  \E t \in Tasks : worker'[v].task = t /\ (Placing(t) \in final' \/ t \in hindered')
  BY <1>3 DEF PastRole, Placing, RunFrom, TaskRole, Else
<1>5. CASE worker'[v].task = worker[v].task /\ worker[v].pc \in {"host", "args", "check"}
  <2>1. worker[v].task \in Tasks BY <1>1, <1>5 DEF WorkInv
  <2>2. Placing(worker[v].task) \in final \/ worker[v].task \in hindered BY <1>5 DEF CauseInv, PastRole
  <2>. QED BY <1>3, <1>5, <2>1, <2>2
<1>6. CASE Place(v)
  <2>1. Ready(v, "place") BY <1>6 DEF Place
  <2>2. worker[v].pc = "place" /\ worker[v].task \in Tasks /\ arguments[worker[v].task] # None
        /\ "repeat_count" \in arguments[worker[v].task]
    BY <1>1, <2>1, ReadyToGo DEF AttemptInv
  <2>3. PICK t \in Tasks : t = worker[v].task BY <2>2
  <2>4. Wanted(v) = run_role(t) /\ run_role(t) = Placing(t)
    BY <1>1, <2>2, <2>3, RolesAreMeant DEF Wanted
  <2>5. run_role(t) # None /\ worker' = [worker EXCEPT ![v].pc = "host"]
    <3>1. ~Fail(v)
      <4>1. Fail(v) => worker'[v] = Idle \/ worker'[v].pc = "place"
        BY <1>1, <2>2, Outcomes DEF Outcome
      <4>. QED BY <4>1 DEF Idle
    <3>. QED BY <1>6, <2>3, <3>1 DEF Place
  <2>6. worker'[v].task = t BY <1>2, <2>3, <2>5 DEF WorkerType
  <2>7. Placing(t) \in final \/ t \in hindered' BY <2>1, <2>3, <2>4, <2>5 DEF Ready
  <2>. QED BY <1>3, <2>6, <2>7
<1>. QED BY <1>5, <1>6, PastBy

(* A task is recorded as given up for a cause that can be named: nothing   *)
(* was read of a role or server before it was fixed, but where that was    *)
(* under way elsewhere or had raised; its model, its attempt or Ansible's  *)
(* answer was at fault; or it was judged by another host's answer.         *)
THEOREM AbortsHaveCausesHolds == Spec => []AbortsHaveCauses
<1>1. Init => CauseInv
  <2>. SUFFICES ASSUME Init PROVE CauseInv
    OBVIOUS
  <2>1. aborted = {} /\ \A w \in Workers : worker[w] = Idle BY DEF Init
  <2>. QED BY <2>1 DEF CauseInv, PastRole, Idle
<1>2. IInv /\ CauseInv /\ [Next]_vars => CauseInv'
  <2>. SUFFICES ASSUME IInv, CauseInv, [Next]_vars PROVE CauseInv'
    OBVIOUS
  <2>1. CASE UNCHANGED vars
    BY <2>1 DEF vars, run, CauseInv, PastRole, Cause, Misplaced, Placing, RunFrom, TaskRole, Else
  <2>2. CASE Next
    <3>1. \A v \in Workers : PastRole(v)' BY <2>2, PastRoleStep
    <3>2. ASSUME NEW t \in aborted' PROVE arguments'[t] # None /\ Cause(t)'
      <4>1. CASE t \in aborted BY <2>2, <4>1, CausesStay
      <4>2. CASE t \notin aborted
        <5>1. PICK w \in Workers : /\ worker[w].task \in Tasks
                                   /\ MayFail(w)
                                   /\ aborted' = aborted \cup {worker[w].task}
          BY <2>2, <4>2, AbortedAre
        <5>2. worker[w].task = t /\ t \in Tasks BY <4>2, <5>1
        <5>. QED BY <4>2, <5>1, <5>2, FailuresHaveCauses
      <4>. QED BY <4>1, <4>2
    <3>. QED BY <3>1, <3>2 DEF CauseInv
  <2>. QED BY <2>1, <2>2
<1>3. CauseInv => AbortsHaveCauses BY DEF CauseInv, Cause, AbortsHaveCauses
<1>. QED BY <1>1, <1>2, <1>3, Invariance, PTL DEF Spec

-----------------------------------------------------------------------------
(* A step of one worker leaves the others at their tasks.                  *)
LEMMA OthersStay ==
  ASSUME IInv, NEW w \in Workers, NEW v \in Workers, v # w, Moves(w)
  PROVE  worker'[v] = worker[v]
BY DEF Moves, IInv, TypeOK

(* Whoever leaves a task with tries to make has succeeded or records it.   *)
LEMMA LeavesWithARecord ==
  ASSUME IInv, NEW w \in Workers, worker[w].pc # "idle", Tries(worker[w].task),
         worker'[w].task = None, count' = count,
         Work(w)
  PROVE  worker[w].task \in aborted'
<1>1. worker[w].task \in Tasks /\ worker \in [Workers -> WorkerType] /\ count \in Int
  BY DEF IInv, WorkInv, TypeOK, WorkerType
<1>2. worker[w].task # None BY <1>1, AnsibleAssumption
<1>3. HasInterval(w) /\ Attempts(worker[w].task) BY DEF Tries, HasInterval, Attempts
<1>4. ~Succeed(w) BY <1>1 DEF Succeed
<1>5. ASSUME Fail(w) PROVE worker[w].task \in aborted'
  <2>1. worker' # [worker EXCEPT ![w] = Again(w)] BY <1>1, <1>2 DEF Again, Idle
  <2>. QED BY <1>3, <1>5, <2>1 DEF Fail
<1>6. ASSUME NEW r, r.task = worker[w].task, worker' = [worker EXCEPT ![w] = r] PROVE FALSE
  BY <1>1, <1>2, <1>6
<1>7. CASE Fixes(w)
  <2>1. CASE Test(w) \/ Mark(w) \/ FixArguments(w)
    BY <1>1, <1>2, <2>1 DEF Test, Mark, FixArguments, WorkerType
  <2>2. CASE FixRaises(w)
    BY <1>1, <1>2, <1>5, <2>2 DEF FixRaises, WorkerType
  <2>. QED BY <1>7, <2>1, <2>2 DEF Fixes
<1>8. CASE Look(w)
  BY <1>1, <1>2, <1>3, <1>4, <1>8 DEF Look, WorkerType
<1>9. CASE Place(w) \/ Host(w) \/ Run(w) \/ RunRaises(w) \/ Check(w)
  <2>1. Fail(w) \/ Succeed(w) \/ worker'[w].task = worker[w].task
    BY <1>1, <1>9 DEF Place, Host, Run, RunRaises, Check, WorkerType
  <2>. QED BY <1>2, <1>4, <1>5, <2>1
<1>. QED BY <1>7, <1>8, <1>9 DEF Work

(* GivingUpIsReported: no task with tries to make is left without success  *)
(* or a record, for any workers, whatever raises.                          *)
THEOREM GivingUpIsReportedHolds == Spec => GivingUpIsReported
<1>1. ASSUME IInv, [Next]_vars, NEW w \in Workers, worker[w].task # None,
             worker'[w].task = None, count' = count, Tries(worker[w].task)
      PROVE  worker[w].task \in aborted'
  <2>1. worker[w].pc # "idle" BY <1>1 DEF IInv, WorkInv, Idle
  <2>2. worker' # worker BY <1>1
  <2>3. CASE Work(w) BY <1>1, <2>1, <2>3, LeavesWithARecord
  <2>4. ASSUME NEW v \in Workers, v # w, Work(v) PROVE FALSE
    <3>1. StepOf(v)
      BY <1>1, <2>4, Fixing, FixRaised, Looking, Placed, Hosted, Ran, RanRaised, Checked DEF Work, Fixes
    <3>. QED BY <1>1, <2>4, <3>1, OthersStay DEF StepOf
  <2>5. ASSUME NEW v \in Workers, NEW t \in Tasks, Begin(v, t) PROVE FALSE
    BY <1>1, <2>1, <2>5 DEF Begin, Idle, IInv, TypeOK
  <2>6. CASE perform_config \/ perform_config_raises \/ Finish
    BY <2>2, <2>6 DEF perform_config, perform_config_raises, Finish
  <2>. QED BY <1>1, <2>2, <2>3, <2>4, <2>5, <2>6 DEF Next, vars
<1>2. IInv /\ [Next]_vars =>
        [\A w \in Workers :
           worker[w].task # None /\ worker'[w].task = None /\ count' = count
             /\ Tries(worker[w].task) => worker[w].task \in aborted']_vars
  BY <1>1
<1>. QED BY <1>2, Invariance, PTL DEF Spec, GivingUpIsReported
=============================================================================

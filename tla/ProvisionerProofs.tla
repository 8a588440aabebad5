-------------------------- MODULE ProvisionerProofs --------------------------
(***************************************************************************)
(* The Openstack provisioner's properties, for any infra models and number *)
(* of provisionings. The start guard of the agent makes the dependencies   *)
(* of a running task done in the same run; a task that is done has set the *)
(* id or address of its resource, and nothing unsets one; so what a task   *)
(* reads is there, whichever run wrote it last.                            *)
(***************************************************************************)
EXTENDS Provisioner, TLAPS

(* A run that was begun has the plan of the infra model, the others have   *)
(* nothing.                                                                *)
PlanInv ==
  /\ current > 0 => Plannable(infra)
  /\ \A r \in Runs : plan[r] = IF r <= current THEN Plan(infra) ELSE Agent!NoGraph

(* A task was started only when what it depends on was done, and its       *)
(* worker is at some step exactly as long as it is running.                *)
OrderInv ==
  \A r \in Runs, n \in Resources :
    /\ phase[r][n] # "waiting" =>
         /\ r <= current
         /\ \A d \in DependsOn(infra, n) : phase[r][d] = "done"
    /\ step[r][n] # "none" <=> phase[r][n] = "running"

(* What a worker has written by the step it is at.                         *)
IdInv ==
  \A r \in Runs, n \in Resources :
    /\ step[r][n] = "identify" => Identified(Kind(n))
    /\ step[r][n] = "record" => Recorded(Kind(n))
    /\ phase[r][n] = "done" \/ step[r][n] \in {"record", "settle"} =>
         (Identified(Kind(n)) => osid[n] # None)

FloatingInv ==
  \A r \in Runs, n \in Resources :
    /\ phase[r][n] = "done" /\ Kind(n) = "Server" => address[n] # None
    /\ /\ step[r][n] \in {"calling", "identify", "record", "settle"}
       /\ Kind(n) = "FloatingIP" /\ Uses(n) # {}
       => associated[n] # None
    /\ phase[r][n] = "done" /\ Kind(n) = "FloatingIP" /\ Uses(n) # {} =>
         \E a \in attached : a.ip = <<r, n>> /\ a.server # None

LockInv ==
  \A r \in Runs, n \in Resources :
    step[r][n] = "calling" /\ Kind(n) = "SecGroup" => sg_create_lock = <<r, n>>

(* Of the first run no other worker can have written the id in between.    *)
RecordInv ==
  current <= 1 =>
    \A r \in Runs, n \in Resources :
      /\ osid[n] # None => osid[n] = <<1, n>>
      /\ <<r, n>> \in cloud /\ Kind(n) # "RouterGateway" =>
           record[r][n] = <<r, n>> \/ step[r][n] \in {"identify", "record"}

IInv == TypeOK /\ PlanInv /\ OrderInv /\ IdInv /\ FloatingInv /\ LockInv /\ RecordInv

-----------------------------------------------------------------------------
(* The steps of the agent, as the tasks see them.                          *)

(* A resource depends on what its arguments use, all of it identified.     *)
LEMMA DependsOnUses ==
  ASSUME infra \in InfraModels, NEW n \in Resources
  PROVE  /\ DependsOn(infra, n) = Uses(n)
         /\ \A d \in Uses(n) : /\ d \in Resources
                               /\ Identified(Kind(d))
                               /\ Kind(n) = "FloatingIP" => Kind(d) = "Server"
<1>1. infra.ref[n] \subseteq FieldsOf[infra.kind[n]] \X Resources /\ infra.kind[n] \in Kinds
  BY ModelAssumption
<1>2. FieldsOf[infra.kind[n]] \subseteq Fields
  BY <1>1, SMT DEF FieldsOf, Fields, ClassOf, Kinds
<1>3. \A x \in infra.ref[n] : x[1] \in Fields /\ x[2] \in Resources /\ x = <<x[1], x[2]>>
  BY <1>1, <1>2
<1>4. \A d \in DependsOn(infra, n) : d \in Uses(n)
  BY <1>3 DEF DependsOn, Uses
<1>5. \A d \in Uses(n) : d \in DependsOn(infra, n)
  BY <1>3 DEF DependsOn, Uses
<1>6. ASSUME NEW d \in Uses(n)
      PROVE  /\ d \in Resources
             /\ Identified(Kind(d))
             /\ Kind(n) = "FloatingIP" => Kind(d) = "Server"
  <2>1. PICK x \in infra.ref[n] : x[2] = d /\ infra.kind[d] = ClassOf[x[1]]
    BY DEF Uses
  <2>2. x[1] \in Fields /\ d \in Resources /\ x[1] \in FieldsOf[infra.kind[n]]
    BY <1>1, <1>3, <2>1
  <2>3. ClassOf[x[1]] \notin {"RouterGateway", "RouterInterface"}
    BY <2>2 DEF Fields, ClassOf
  <2>4. infra.kind[n] = "FloatingIP" => x[1] = "server"
    BY <2>2 DEF FieldsOf
  <2> QED
    BY <2>1, <2>2, <2>3, <2>4 DEF Kind, Identified, ClassOf
<1>7. DependsOn(infra, n) = Uses(n)
  BY <1>4, <1>5
<1> QED
  BY <1>6, <1>7

(* What a running task uses is done, so it has its id and address.         *)
LEMMA UsedIsDone ==
  ASSUME IInv, NEW r \in Runs, NEW n \in Resources, phase[r][n] # "waiting"
  PROVE  \A d \in Uses(n) : /\ d \in Resources
                            /\ phase[r][d] = "done"
                            /\ osid[d] # None
                            /\ Kind(n) = "FloatingIP" => address[d] # None
BY DependsOnUses DEF IInv, TypeOK, OrderInv, IdInv, FloatingInv

(* The predecessors of a task in the plan are what its resource depends    *)
(* on.                                                                     *)
LEMMA PlanPreds ==
  ASSUME infra \in InfraModels, Plannable(infra), NEW n \in Plan(infra).node
  PROVE  n \in Resources /\ Agent!Preds(Plan(infra), n) = DependsOn(infra, n)
BY ModelAssumption DEF Plannable, Plan, Agent!Preds

(* The worker of a running task goes from one step to another.             *)
LEMMA GoesOn ==
  ASSUME TypeOK, PlanInv, OrderInv, NEW r \in Runs, NEW n \in Resources,
         NEW from \in Steps \ {"none"}, NEW to \in Steps \ {"none"},
         Goto(r, n, from, to), UNCHANGED <<infra, agent>>
  PROVE  PlanInv' /\ OrderInv' /\ Agent!TypeOK' /\ step' \in [Runs -> [Resources -> Steps]]
BY DEF TypeOK, PlanInv, OrderInv, Goto, agent, Agent!TypeOK, Plannable

(* The worker is through with its task.                                    *)
LEMMA Ends ==
  ASSUME TypeOK, PlanInv, OrderInv, NEW r \in Runs, NEW n \in Resources,
         NEW from \in Steps \ {"none"}, NEW to \in {"done", "failed"},
         Goto(r, n, from, "none"), Agent!Move(r, n, "running", to), UNCHANGED infra
  PROVE  /\ PlanInv' /\ OrderInv' /\ Agent!TypeOK' /\ step' \in [Runs -> [Resources -> Steps]]
         /\ UNCHANGED <<plan, current, outcome>>
         /\ phase' = [phase EXCEPT ![r][n] = to]
         /\ phase \in [Runs -> [Resources -> Agent!Phases]]
<1>1. /\ phase' = [phase EXCEPT ![r][n] = to]
      /\ UNCHANGED <<plan, current, outcome>>
      /\ phase[r][n] = "running"
  BY DEF Agent!Move
<1>2. phase \in [Runs -> [Resources -> Agent!Phases]]
  BY DEF TypeOK, Agent!TypeOK, Agent!Runs, Runs
<1>3. step' = [step EXCEPT ![r][n] = "none"] /\ step \in [Runs -> [Resources -> Steps]]
  BY DEF Goto, TypeOK
<1>4. Agent!TypeOK' /\ step' \in [Runs -> [Resources -> Steps]]
  BY <1>1, <1>2, <1>3 DEF TypeOK, Agent!TypeOK, Agent!Runs, Runs, Agent!Phases, Steps
<1>5. PlanInv'
  BY <1>1 DEF PlanInv, Plannable
<1>6. OrderInv'
  <2> SUFFICES ASSUME NEW q \in Runs, NEW m \in Resources
               PROVE  /\ phase'[q][m] # "waiting" =>
                           /\ q <= current
                           /\ \A d \in DependsOn(infra, m) : phase'[q][d] = "done"
                      /\ step'[q][m] # "none" <=> phase'[q][m] = "running"
    BY <1>1 DEF OrderInv
  <2>1. \A d \in Resources : phase[q][d] = "done" => phase'[q][d] = "done"
    BY <1>1, <1>2
  <2>2. phase'[q][m] # "waiting" => phase[q][m] # "waiting"
    BY <1>1, <1>2
  <2>3. step'[q][m] # "none" <=> phase'[q][m] = "running"
    BY <1>1, <1>2, <1>3 DEF OrderInv
  <2> QED
    BY <2>1, <2>2, <2>3 DEF OrderInv, DependsOn
<1> QED
  BY <1>1, <1>2, <1>4, <1>5, <1>6
-----------------------------------------------------------------------------
(* Each step keeps the invariant.                                          *)

(* A worker at work has a task that runs, in the first provisioning if     *)
(* there is no other.                                                      *)
LEMMA AtWork ==
  ASSUME IInv, NEW r \in Runs, NEW n \in Resources, step[r][n] # "none"
  PROVE  phase[r][n] = "running" /\ (current <= 1 => r = 1)
<1>1. phase[r][n] = "running"
  BY DEF IInv, OrderInv
<1>2. r <= current
  BY <1>1 DEF IInv, OrderInv
<1> QED
  BY <1>1, <1>2, ModelAssumption DEF IInv, TypeOK, Agent!TypeOK, Runs

(* The invariant holds before any provisioning.                            *)
LEMMA InitInv == Init => IInv
<1> SUFFICES ASSUME Init PROVE IInv
  OBVIOUS
<1>1. TypeOK
  BY ModelAssumption DEF Init, TypeOK, Agent!Init, Agent!TypeOK, Runs, Agent!Runs, Agent!Phases,
     Agent!Outcomes, Steps, Nothing
<1>2. PlanInv /\ OrderInv
  BY ModelAssumption DEF Init, PlanInv, OrderInv, Agent!Init, Runs, Agent!Runs
<1>3. IdInv /\ FloatingInv /\ LockInv /\ RecordInv
  BY DEF Init, IdInv, FloatingInv, LockInv, RecordInv, Nothing, Agent!Init, Runs, Agent!Runs
<1> QED
  BY <1>1, <1>2, <1>3 DEF IInv

(* A provisioning begins: its tasks all wait.                              *)
LEMMA ProvisionStep == ASSUME IInv, Provision PROVE IInv'
<1>1. /\ current \in Nat /\ current' = current + 1 /\ current' \in Runs
      /\ plan' = [plan EXCEPT ![current'] = Plan(infra)]
      /\ outcome' = "running"
      /\ UNCHANGED <<phase, infra, step, rsrc, sg_create_lock, record, outside>>
  BY ModelAssumption DEF Provision, Agent!Begin, IInv, TypeOK, Agent!TypeOK, Runs
<1>2. TypeOK'
  BY <1>1 DEF IInv, TypeOK, Agent!TypeOK, Agent!Outcomes, Agent!Runs, Runs, Plans, rsrc, outside
<1>3. PlanInv'
  BY <1>1 DEF IInv, TypeOK, Agent!TypeOK, Agent!Runs, PlanInv, Provision, Plannable, Runs
<1>4. OrderInv'
  BY <1>1 DEF IInv, OrderInv, DependsOn, Runs
<1>5. IdInv' /\ FloatingInv' /\ LockInv'
  BY <1>1 DEF IInv, IdInv, FloatingInv, LockInv, Kind, Uses, rsrc, outside
<1>6. RecordInv'
  <2>1. current' <= 1 => current <= 1
    BY <1>1
  <2> QED
    BY <1>1, <2>1 DEF IInv, RecordInv, Kind, rsrc, outside
<1> QED
  BY <1>2, <1>3, <1>4, <1>5, <1>6 DEF IInv

(* A step that only answers a run keeps the invariant.                     *)
LEMMA NothingHappens ==
  ASSUME IInv, UNCHANGED <<infra, plan, current, phase, step, rsrc, sg_create_lock, record, outside>>,
         outcome' \in Agent!Outcomes
  PROVE  IInv'
<1>1. TypeOK'
  BY DEF IInv, TypeOK, Agent!TypeOK, rsrc, outside
<1>2. PlanInv' /\ OrderInv'
  BY DEF IInv, PlanInv, OrderInv, DependsOn, Plannable
<1>3. IdInv' /\ FloatingInv' /\ LockInv' /\ RecordInv'
  BY DEF IInv, IdInv, FloatingInv, LockInv, RecordInv, Kind, Uses, rsrc, outside
<1> QED
  BY <1>1, <1>2, <1>3 DEF IInv

(* A task is begun once what it depends on is done.                        *)
LEMMA PerformTaskStep ==
  ASSUME IInv, NEW r \in Runs, NEW n \in Resources, PerformTask(r, n)
  PROVE  IInv'
<1>1. /\ n \in plan[r].node
      /\ \A p \in Agent!Preds(plan[r], n) : phase[r][p] = "done"
      /\ phase[r][n] = "waiting" /\ phase' = [phase EXCEPT ![r][n] = "running"]
      /\ step[r][n] = "none" /\ step' = [step EXCEPT ![r][n] = "begin"]
      /\ UNCHANGED <<infra, plan, current, outcome, rsrc, sg_create_lock, record, outside>>
  BY DEF PerformTask, Goto, Agent!Start, Agent!Move
<1>2. /\ phase \in [Runs -> [Resources -> Agent!Phases]]
      /\ step \in [Runs -> [Resources -> Steps]]
      /\ infra \in InfraModels
  BY DEF IInv, TypeOK, Agent!TypeOK, Agent!Runs, Runs
<1>3. r <= current /\ Plannable(infra) /\ plan[r] = Plan(infra)
  BY <1>1, ModelAssumption DEF IInv, PlanInv, Agent!NoGraph, TypeOK, Agent!TypeOK, Runs
<1>4. \A d \in DependsOn(infra, n) : phase[r][d] = "done"
  BY <1>1, <1>2, <1>3, PlanPreds
<1>5. TypeOK'
  BY <1>1, <1>2 DEF IInv, TypeOK, Agent!TypeOK, Agent!Phases, Agent!Runs, Runs, Steps, rsrc, outside
<1>6. PlanInv'
  BY <1>1 DEF IInv, PlanInv, Plannable
<1>7. OrderInv'
  <2> SUFFICES ASSUME NEW q \in Runs, NEW m \in Resources
               PROVE  /\ phase'[q][m] # "waiting" =>
                           /\ q <= current
                           /\ \A d \in DependsOn(infra, m) : phase'[q][d] = "done"
                      /\ step'[q][m] # "none" <=> phase'[q][m] = "running"
    BY <1>1 DEF OrderInv
  <2>1. \A d \in Resources : phase[q][d] = "done" => phase'[q][d] = "done"
    BY <1>1, <1>2
  <2>2. phase'[q][m] # "waiting" => phase[q][m] # "waiting" \/ (q = r /\ m = n)
    BY <1>1, <1>2
  <2>3. step'[q][m] # "none" <=> phase'[q][m] = "running"
    <3>1. step[q][m] # "none" <=> phase[q][m] = "running"
      BY DEF IInv, OrderInv
    <3>2. q = r /\ m = n => step'[q][m] = "begin" /\ phase'[q][m] = "running"
      BY <1>1, <1>2
    <3>3. q # r \/ m # n => step'[q][m] = step[q][m] /\ phase'[q][m] = phase[q][m]
      BY <1>1, <1>2
    <3> QED BY <3>1, <3>2, <3>3
  <2>4. \A d \in DependsOn(infra, m) : d \in Resources
    BY DEF DependsOn
  <2>5. phase[q][m] # "waiting" =>
          q <= current /\ \A d \in DependsOn(infra, m) : phase[q][d] = "done"
    BY DEF IInv, OrderInv
  <2> QED
    BY <1>3, <1>4, <2>1, <2>2, <2>3, <2>4, <2>5
<1>8. IdInv' /\ FloatingInv' /\ LockInv'
  <2>1. \A q \in Runs, m \in Resources :
          /\ phase'[q][m] = "done" => phase[q][m] = "done"
          /\ step'[q][m] # "begin" => step'[q][m] = step[q][m]
    <3> SUFFICES ASSUME NEW q \in Runs, NEW m \in Resources
                 PROVE  /\ phase'[q][m] = "done" => phase[q][m] = "done"
                        /\ step'[q][m] # "begin" => step'[q][m] = step[q][m]
      OBVIOUS
    <3>1. q = r /\ m = n => step'[q][m] = "begin" /\ phase'[q][m] = "running"
      BY <1>1, <1>2
    <3>2. q # r \/ m # n => step'[q][m] = step[q][m] /\ phase'[q][m] = phase[q][m]
      BY <1>1, <1>2
    <3> QED BY <3>1, <3>2
  <2>2. UNCHANGED <<infra, osid, address, associated, attached, sg_create_lock>>
    BY <1>1 DEF rsrc, outside
  <2>3. IdInv'
    BY <2>1, <2>2 DEF IInv, IdInv, Kind
  <2>4. FloatingInv'
    <3>1. FloatingInv
      BY DEF IInv
    <3>2. \A m \in Resources : Kind(m)' = Kind(m) /\ Uses(m)' = Uses(m)
      BY <2>2 DEF Kind, Uses
    <3> SUFFICES ASSUME NEW q \in Runs, NEW m \in Resources
                 PROVE  /\ phase'[q][m] = "done" /\ Kind(m) = "Server" => address[m] # None
                        /\ /\ step'[q][m] \in {"calling", "identify", "record", "settle"}
                           /\ Kind(m) = "FloatingIP" /\ Uses(m) # {}
                           => associated[m] # None
                        /\ phase'[q][m] = "done" /\ Kind(m) = "FloatingIP" /\ Uses(m) # {} =>
                             \E a \in attached : a.ip = <<q, m>> /\ a.server # None
      BY <2>2, <3>2 DEF FloatingInv
    <3>3. /\ phase'[q][m] = "done" => phase[q][m] = "done"
          /\ step'[q][m] # "begin" => step'[q][m] = step[q][m]
      BY <2>1
    <3>4. /\ phase[q][m] = "done" /\ Kind(m) = "Server" => address[m] # None
          /\ /\ step[q][m] \in {"calling", "identify", "record", "settle"}
             /\ Kind(m) = "FloatingIP" /\ Uses(m) # {}
             => associated[m] # None
          /\ phase[q][m] = "done" /\ Kind(m) = "FloatingIP" /\ Uses(m) # {} =>
               \E a \in attached : a.ip = <<q, m>> /\ a.server # None
      BY <3>1 DEF FloatingInv
    <3> QED BY <3>3, <3>4
  <2>5. LockInv'
    BY <2>1, <2>2 DEF IInv, LockInv, Kind
  <2> QED
    BY <2>3, <2>4, <2>5
<1>9. RecordInv'
  BY <1>1, <1>2 DEF IInv, RecordInv, Kind, rsrc, outside
<1> QED
  BY <1>5, <1>6, <1>7, <1>8, <1>9 DEF IInv

(* The cloud is asked, with the ids there are.                             *)
LEMMA AskStep ==
  ASSUME IInv, NEW r \in Runs, NEW n \in Resources, Ask(r, n)
  PROVE  IInv'
<1>0. step[r][n] # "none" => phase[r][n] = "running" /\ (current <= 1 => r = 1)
  BY AtWork
<1> USE DEF IInv
<1>1. /\ PlanInv' /\ OrderInv' /\ Agent!TypeOK'
      /\ step' \in [Runs -> [Resources -> Steps]]
  BY GoesOn DEF Ask, Steps
<1>2. /\ step \in [Runs -> [Resources -> Steps]]
      /\ step[r][n] = "begin"
      /\ step' = [step EXCEPT ![r][n] = "calling"]
      /\ UNCHANGED <<infra, plan, current, phase, outcome>>
  BY DEF Ask, Goto, TypeOK, agent
<1>3. /\ UNCHANGED <<osid, address, associated, sg_create_lock, record, cloud, attached>>
      /\ Kind(n) \notin {"SecGroup", "FloatingIP"}
  BY DEF Ask, rsrc, outside
<1>4. TypeOK'
  BY <1>1, <1>2, <1>3 DEF TypeOK
<1>5. IdInv' /\ LockInv'
  BY <1>2, <1>3 DEF IdInv, LockInv, Kind
<1>6. FloatingInv'
  BY <1>2, <1>3 DEF FloatingInv, Kind, Uses
<1>7. RecordInv'
  BY <1>2, <1>3 DEF RecordInv, Kind
<1> QED
  BY <1>1, <1>4, <1>5, <1>6, <1>7

(* The lock is taken by a worker that nobody keeps it from.                *)
LEMMA AcquireLockStep ==
  ASSUME IInv, NEW r \in Runs, NEW n \in Resources, AcquireLock(r, n)
  PROVE  IInv'
<1>0. step[r][n] # "none" => phase[r][n] = "running" /\ (current <= 1 => r = 1)
  BY AtWork
<1> USE DEF IInv
<1>1. /\ PlanInv' /\ OrderInv' /\ Agent!TypeOK'
      /\ step' \in [Runs -> [Resources -> Steps]]
  BY GoesOn DEF AcquireLock, Steps
<1>2. /\ step \in [Runs -> [Resources -> Steps]]
      /\ step[r][n] = "begin"
      /\ step' = [step EXCEPT ![r][n] = "calling"]
      /\ UNCHANGED <<infra, plan, current, phase, outcome>>
  BY DEF AcquireLock, Goto, TypeOK, agent
<1>3. /\ UNCHANGED <<osid, address, associated, record, cloud, attached>>
      /\ Kind(n) = "SecGroup"
      /\ sg_create_lock = Nobody /\ sg_create_lock' = <<r, n>>
  BY DEF AcquireLock, LockFree, IdOf, rsrc, outside
<1>4. TypeOK'
  BY <1>1, <1>2, <1>3 DEF TypeOK, Ids
<1>5. IdInv'
  BY <1>2, <1>3 DEF IdInv, Kind
<1>6. LockInv'
  <2>1. \A q \in Runs, m \in Resources : <<q, m>> # Nobody
    BY ModelAssumption DEF Runs
  <2> QED
    BY <1>2, <1>3, <2>1 DEF LockInv, Kind
<1>7. FloatingInv'
  BY <1>2, <1>3 DEF FloatingInv, Kind, Uses
<1>8. RecordInv'
  BY <1>2, <1>3 DEF RecordInv, Kind
<1> QED
  BY <1>1, <1>4, <1>5, <1>6, <1>7, <1>8

(* The address for a floating ip is looked up when its server is done.     *)
LEMMA RefixArgumentsStep ==
  ASSUME IInv, NEW r \in Runs, NEW n \in Resources, RefixArguments(r, n)
  PROVE  IInv'
<1>0. step[r][n] # "none" => phase[r][n] = "running" /\ (current <= 1 => r = 1)
  BY AtWork
<1>a. phase[r][n] = "running" =>
        \A d \in Uses(n) : d \in Resources /\ (Kind(n) = "FloatingIP" => address[d] # None)
  BY UsedIsDone
<1> USE DEF IInv
<1>1. /\ PlanInv' /\ OrderInv' /\ Agent!TypeOK'
      /\ step' \in [Runs -> [Resources -> Steps]]
  BY GoesOn DEF RefixArguments, Steps
<1>2. /\ step \in [Runs -> [Resources -> Steps]]
      /\ step[r][n] = "begin"
      /\ step' = [step EXCEPT ![r][n] = "calling"]
      /\ UNCHANGED <<infra, plan, current, phase, outcome>>
  BY DEF RefixArguments, Goto, TypeOK, agent
<1>3. /\ UNCHANGED <<osid, address, sg_create_lock, record, cloud, attached>>
      /\ Kind(n) = "FloatingIP"
      /\ associated' = [associated EXCEPT ![n] = AsFixedNow(n)]
  BY DEF RefixArguments, outside
<1>4. AsFixedNow(n) \in Ids \cup {None} /\ (Uses(n) # {} => AsFixedNow(n) # None)
  <2>1. \A d \in Uses(n) : d \in Resources /\ address[d] # None
    BY <1>0, <1>a, <1>2, <1>3
  <2>2. CASE Uses(n) = {}
    BY <2>2, DependsOnUses DEF AsFixedNow, TypeOK
  <2>3. CASE Uses(n) # {}
    <3>1. PICK s \in Uses(n) : AsFixedNow(n) = address[s]
      BY <2>3, DependsOnUses DEF AsFixedNow, TypeOK
    <3>2. s \in Resources /\ address[s] # None
      BY <2>1
    <3> QED
      BY <3>1, <3>2 DEF TypeOK
  <2> QED
    BY <2>2, <2>3
<1>5. TypeOK'
  BY <1>1, <1>2, <1>3, <1>4 DEF TypeOK
<1>6. IdInv' /\ LockInv'
  BY <1>2, <1>3 DEF IdInv, LockInv, Kind
<1>7. FloatingInv'
  <2> SUFFICES ASSUME NEW q \in Runs, NEW m \in Resources,
                      step'[q][m] \in {"calling", "identify", "record", "settle"},
                      Kind(m) = "FloatingIP", Uses(m) # {}
               PROVE  associated'[m] # None
    BY <1>2, <1>3 DEF FloatingInv, Kind, Uses
  <2>1. CASE m = n
    BY <1>3, <1>4, <2>1 DEF TypeOK
  <2>2. CASE m # n
    <3>1. associated'[m] = associated[m] /\ step'[q][m] = step[q][m]
      BY <1>2, <1>3, <2>2 DEF TypeOK
    <3> QED
      BY <3>1 DEF FloatingInv
  <2> QED
    BY <2>1, <2>2
<1>8. RecordInv'
  BY <1>2, <1>3 DEF RecordInv, Kind
<1> QED
  BY <1>1, <1>5, <1>6, <1>7, <1>8

(* The cloud has created the resource.                                     *)
LEMMA CreatedStep ==
  ASSUME IInv, NEW r \in Runs, NEW n \in Resources, Created(r, n)
  PROVE  IInv'
<1>0. step[r][n] # "none" => phase[r][n] = "running" /\ (current <= 1 => r = 1)
  BY AtWork
<1> USE DEF IInv
<1>1. /\ PlanInv' /\ OrderInv' /\ Agent!TypeOK'
      /\ step' \in [Runs -> [Resources -> Steps]]
  BY GoesOn DEF Created, Steps
<1>2. /\ step \in [Runs -> [Resources -> Steps]]
      /\ step[r][n] = "calling"
      /\ step' = [step EXCEPT ![r][n] = IF Identified(Kind(n)) THEN "identify"
                                   ELSE IF Recorded(Kind(n)) THEN "record" ELSE "settle"]
      /\ UNCHANGED <<infra, plan, current, phase, outcome>>
  BY DEF Created, Goto, TypeOK, agent
<1>3. /\ UNCHANGED <<osid, address, associated, record, attached>>
      /\ cloud' = cloud \cup {<<r, n>>}
      /\ sg_create_lock' = IF Kind(n) = "SecGroup" THEN Nobody ELSE sg_create_lock
  BY DEF Created, rsrc
<1>4. TypeOK'
  BY <1>1, <1>2, <1>3 DEF TypeOK, Ids
<1>5. IdInv'
  BY <1>2, <1>3 DEF IdInv, Kind
<1>6. LockInv'
  BY <1>2, <1>3 DEF LockInv, Kind
<1>7. FloatingInv'
  BY <1>2, <1>3 DEF FloatingInv, Kind, Uses
<1>8. RecordInv'
  <2>1. step'[r][n] \in {"identify", "record"} \/ Kind(n) = "RouterGateway"
    BY <1>2 DEF Recorded
  <2>2. \A q \in Runs, m \in Resources :
          /\ step'[q][m] = step[q][m] \/ (q = r /\ m = n)
          /\ <<q, m>> \in cloud' => <<q, m>> \in cloud \/ (q = r /\ m = n)
    BY <1>2, <1>3
  <2> QED
    BY <1>2, <1>3, <2>1, <2>2 DEF RecordInv, Kind
<1> QED
  BY <1>1, <1>4, <1>5, <1>6, <1>7, <1>8

(* The id of the resource is set.                                          *)
LEMMA SetOsidStep ==
  ASSUME IInv, NEW r \in Runs, NEW n \in Resources, SetOsid(r, n)
  PROVE  IInv'
<1>0. step[r][n] # "none" => phase[r][n] = "running" /\ (current <= 1 => r = 1)
  BY AtWork
<1> USE DEF IInv
<1>1. /\ PlanInv' /\ OrderInv' /\ Agent!TypeOK'
      /\ step' \in [Runs -> [Resources -> Steps]]
  BY GoesOn DEF SetOsid, Steps
<1>2. /\ step \in [Runs -> [Resources -> Steps]]
      /\ step[r][n] = "identify"
      /\ step' = [step EXCEPT ![r][n] = IF Recorded(Kind(n)) THEN "record" ELSE "settle"]
      /\ UNCHANGED <<infra, plan, current, phase, outcome>>
  BY DEF SetOsid, Goto, TypeOK, agent
<1>3. /\ UNCHANGED <<associated, sg_create_lock, record, cloud, attached>>
      /\ osid' = [osid EXCEPT ![n] = <<r, n>>]
      /\ address' = IF Kind(n) = "FloatingIP" THEN [address EXCEPT ![n] = <<r, n>>] ELSE address
  BY DEF SetOsid, IdOf, outside
<1>4. <<r, n>> \in Ids /\ <<r, n>> # None
  BY ModelAssumption DEF Ids, Runs
<1>5. TypeOK'
  BY <1>1, <1>2, <1>3, <1>4 DEF TypeOK
<1>6. IdInv'
  <2>1. \A m \in Resources : osid[m] # None => osid'[m] # None
    BY <1>3, <1>4 DEF TypeOK
  <2>2. osid'[n] # None
    BY <1>3, <1>4 DEF TypeOK
  <2> QED
    BY <1>2, <2>1, <2>2 DEF IdInv, Kind
<1>7. LockInv'
  BY <1>2, <1>3 DEF LockInv, Kind
<1>8. FloatingInv'
  <2>1. \A m \in Resources : address[m] # None => address'[m] # None
    BY <1>3, <1>4 DEF TypeOK
  <2>2. \A q \in Runs, m \in Resources :
          step'[q][m] \in {"calling", "identify", "record", "settle"} =>
            step[q][m] \in {"calling", "identify", "record", "settle"}
    BY <1>2
  <2> QED
    BY <1>2, <1>3, <2>1, <2>2 DEF FloatingInv, Kind, Uses
<1>9. RecordInv'
  <2> SUFFICES ASSUME current <= 1
               PROVE  \A q \in Runs, m \in Resources :
                        /\ osid'[m] # None => osid'[m] = <<1, m>>
                        /\ <<q, m>> \in cloud /\ Kind(m) # "RouterGateway" =>
                             record[q][m] = <<q, m>> \/ step'[q][m] \in {"identify", "record"}
    BY <1>2, <1>3 DEF RecordInv, Kind
  <2>1. r = 1
    BY <1>0, <1>2
  <2>2. \A m \in Resources : osid'[m] = osid[m] \/ osid'[m] = <<1, m>>
    BY <1>3, <2>1 DEF TypeOK
  <2>3. step'[r][n] = "record" \/ Kind(n) = "RouterGateway"
    BY <1>2 DEF Recorded
  <2>4. \A q \in Runs, m \in Resources : step'[q][m] = step[q][m] \/ (q = r /\ m = n)
    BY <1>2
  <2> QED
    BY <2>2, <2>3, <2>4 DEF RecordInv
<1> QED
  BY <1>1, <1>5, <1>6, <1>7, <1>8, <1>9

(* The id is recorded.                                                     *)
LEMMA AddToRecordStep ==
  ASSUME IInv, NEW r \in Runs, NEW n \in Resources, AddToRecord(r, n)
  PROVE  IInv'
<1>0. step[r][n] # "none" => phase[r][n] = "running" /\ (current <= 1 => r = 1)
  BY AtWork
<1> USE DEF IInv
<1>1. /\ PlanInv' /\ OrderInv' /\ Agent!TypeOK'
      /\ step' \in [Runs -> [Resources -> Steps]]
  BY GoesOn DEF AddToRecord, Steps
<1>2. /\ step \in [Runs -> [Resources -> Steps]]
      /\ step[r][n] = "record"
      /\ step' = [step EXCEPT ![r][n] = "settle"]
      /\ UNCHANGED <<infra, plan, current, phase, outcome>>
  BY DEF AddToRecord, Goto, TypeOK, agent
<1>3. /\ UNCHANGED <<osid, address, associated, sg_create_lock, cloud, attached>>
      /\ record' = [record EXCEPT ![r][n] =
                      IF Kind(n) = "RouterInterface" THEN <<r, n>> ELSE osid[n]]
  BY DEF AddToRecord, rsrc, outside
<1>4. TypeOK'
  BY <1>1, <1>2, <1>3 DEF TypeOK, Ids
<1>5. IdInv' /\ LockInv'
  BY <1>2, <1>3 DEF IdInv, LockInv, Kind
<1>6. FloatingInv'
  BY <1>2, <1>3 DEF FloatingInv, Kind, Uses
<1>7. RecordInv'
  <2> SUFFICES ASSUME current <= 1, NEW q \in Runs, NEW m \in Resources,
                      <<q, m>> \in cloud, Kind(m) # "RouterGateway"
               PROVE  record'[q][m] = <<q, m>> \/ step'[q][m] \in {"identify", "record"}
    BY <1>2, <1>3 DEF RecordInv, Kind
  <2>1. r = 1
    BY <1>0, <1>2
  <2>2. Kind(n) \notin {"RouterGateway", "RouterInterface"} => osid[n] = <<r, n>>
    BY <1>2, <2>1 DEF IdInv, RecordInv, Identified
  <2>3. Kind(n) # "RouterGateway"
    BY <1>2 DEF IdInv, Recorded
  <2>4. record'[r][n] = <<r, n>>
    BY <1>3, <2>2, <2>3 DEF TypeOK
  <2>5. (q = r /\ m = n) \/ (record'[q][m] = record[q][m] /\ step'[q][m] = step[q][m])
    BY <1>2, <1>3 DEF TypeOK
  <2> QED
    BY <2>4, <2>5 DEF RecordInv
<1> QED
  BY <1>1, <1>4, <1>5, <1>6, <1>7

-----------------------------------------------------------------------------
(* A task that ends has nothing in hand that is still to be recorded.      *)

(* Floating ips stay as they are associated when another task ends.        *)
LEMMA FloatingKept ==
  ASSUME FloatingInv, UNCHANGED <<infra, associated, attached>>,
         \A m \in Resources : address[m] # None => address'[m] # None,
         \A q \in Runs, m \in Resources :
           /\ step'[q][m] = step[q][m] \/ step'[q][m] = "none"
           /\ phase'[q][m] = "done" =>
                \/ phase[q][m] = "done"
                \/ Kind(m) # "FloatingIP" /\ (Kind(m) = "Server" => address'[m] # None)
  PROVE  FloatingInv'
<1> SUFFICES ASSUME NEW q \in Runs, NEW m \in Resources
             PROVE  /\ phase'[q][m] = "done" /\ Kind(m) = "Server" => address'[m] # None
                    /\ /\ step'[q][m] \in {"calling", "identify", "record", "settle"}
                       /\ Kind(m) = "FloatingIP" /\ Uses(m) # {}
                       => associated[m] # None
                    /\ phase'[q][m] = "done" /\ Kind(m) = "FloatingIP" /\ Uses(m) # {} =>
                         \E a \in attached : a.ip = <<q, m>> /\ a.server # None
  BY DEF FloatingInv, Kind, Uses
<1>1. /\ step'[q][m] = step[q][m] \/ step'[q][m] = "none"
      /\ phase'[q][m] = "done" =>
           \/ phase[q][m] = "done"
           \/ Kind(m) # "FloatingIP" /\ (Kind(m) = "Server" => address'[m] # None)
  OBVIOUS
<1> QED
  BY <1>1 DEF FloatingInv

(* A worker that gives up leaves nothing that was created out of the       *)
(* record.                                                                 *)
LEMMA GivesUp ==
  ASSUME IInv, NEW r \in Runs, NEW n \in Resources,
         NEW from \in {"begin", "calling", "settle"},
         Goto(r, n, from, "none"), Agent!Abandon(r, n),
         UNCHANGED <<infra, rsrc, record, outside>>,
         \/ sg_create_lock' = sg_create_lock
         \/ from = "calling" /\ Kind(n) = "SecGroup" /\ sg_create_lock' = Nobody
  PROVE  IInv'
<1> USE DEF IInv
<1>1. /\ PlanInv' /\ OrderInv' /\ Agent!TypeOK'
      /\ step' \in [Runs -> [Resources -> Steps]]
      /\ UNCHANGED <<plan, current, outcome>>
      /\ phase' = [phase EXCEPT ![r][n] = "failed"]
      /\ phase \in [Runs -> [Resources -> Agent!Phases]]
  BY Ends DEF Agent!Abandon, Steps
<1>2. /\ step \in [Runs -> [Resources -> Steps]]
      /\ step[r][n] = from
      /\ step' = [step EXCEPT ![r][n] = "none"]
      /\ UNCHANGED <<osid, address, associated, cloud, attached>>
  BY DEF Goto, TypeOK, rsrc, outside
<1>3. TypeOK'
  BY <1>1, <1>2 DEF TypeOK
<1>4. \A q \in Runs, m \in Resources :
        /\ phase'[q][m] = "done" => phase[q][m] = "done"
        /\ step'[q][m] = step[q][m] \/ (q = r /\ m = n /\ step'[q][m] = "none")
  BY <1>1, <1>2
<1>5. IdInv'
  BY <1>2, <1>4 DEF IdInv, Kind
<1>6. FloatingInv'
  BY <1>2, <1>4, FloatingKept
<1>7. LockInv'
  BY <1>2, <1>4 DEF LockInv, Kind
<1>8. RecordInv'
  <2>1. \A q \in Runs, m \in Resources :
          step[q][m] \in {"identify", "record"} => step'[q][m] = step[q][m]
    BY <1>2, <1>4
  <2> QED
    BY <1>1, <1>2, <2>1 DEF RecordInv, Kind
<1> QED
  BY <1>1, <1>3, <1>5, <1>6, <1>7, <1>8

(* A call of the cloud raises.                                             *)
LEMMA CallRaisesStep ==
  ASSUME IInv, NEW r \in Runs, NEW n \in Resources, CallRaises(r, n)
  PROVE  IInv'
BY GivesUp DEF CallRaises, Released

(* A task raises before it calls the cloud, or once its resource is        *)
(* recorded.                                                               *)
LEMMA RaisesStep ==
  ASSUME IInv, NEW r \in Runs, NEW n \in Resources, Raises(r, n)
  PROVE  IInv'
<1>1. PICK from \in {"begin", "settle"} : Goto(r, n, from, "none")
  BY DEF Raises
<1> QED
  BY <1>1, GivesUp DEF Raises

(* What every task that completes has in common.                           *)
LEMMA Completes ==
  ASSUME IInv, NEW r \in Runs, NEW n \in Resources, Complete(r, n), UNCHANGED osid
  PROVE  /\ PlanInv' /\ OrderInv' /\ Agent!TypeOK'
         /\ step' \in [Runs -> [Resources -> Steps]]
         /\ UNCHANGED <<infra, plan, current, outcome, sg_create_lock, record, cloud>>
         /\ step[r][n] = "settle" /\ phase[r][n] = "running"
         /\ \A q \in Runs, m \in Resources :
              /\ phase'[q][m] = "done" => phase[q][m] = "done" \/ (q = r /\ m = n)
              /\ step'[q][m] = step[q][m] \/ (q = r /\ m = n /\ step'[q][m] = "none")
         /\ IdInv' /\ LockInv' /\ RecordInv'
<1> USE DEF IInv
<1>1. /\ PlanInv' /\ OrderInv' /\ Agent!TypeOK'
      /\ step' \in [Runs -> [Resources -> Steps]]
      /\ UNCHANGED <<plan, current, outcome>>
      /\ phase' = [phase EXCEPT ![r][n] = "done"]
      /\ phase \in [Runs -> [Resources -> Agent!Phases]]
  BY Ends DEF Complete, Agent!Complete, Steps
<1>2. /\ step \in [Runs -> [Resources -> Steps]]
      /\ step[r][n] = "settle" /\ phase[r][n] = "running"
      /\ step' = [step EXCEPT ![r][n] = "none"]
      /\ UNCHANGED <<infra, sg_create_lock, record, cloud>>
  BY DEF Complete, Goto, TypeOK, Agent!Complete, Agent!Move
<1>3. \A q \in Runs, m \in Resources :
        /\ phase'[q][m] = "done" => phase[q][m] = "done" \/ (q = r /\ m = n)
        /\ step'[q][m] = step[q][m] \/ (q = r /\ m = n /\ step'[q][m] = "none")
  BY <1>1, <1>2
<1>4. IdInv'
  BY <1>2, <1>3 DEF IdInv, Kind
<1>5. LockInv'
  BY <1>2, <1>3 DEF LockInv, Kind
<1>6. RecordInv'
  BY <1>1, <1>2, <1>3 DEF RecordInv, Kind
<1> QED
  BY <1>1, <1>2, <1>3, <1>4, <1>5, <1>6

(* A task is done with its steps behind it.                                *)
LEMMA FinishStep ==
  ASSUME IInv, NEW r \in Runs, NEW n \in Resources, Finish(r, n)
  PROVE  IInv'
<1>1. Complete(r, n) /\ Kind(n) \notin {"Server", "FloatingIP"}
      /\ UNCHANGED <<osid, address, associated, attached>>
  BY DEF Finish, rsrc
<1>2. UNCHANGED <<infra, sg_create_lock, record, cloud>>
  BY <1>1, Completes
<1>3. TypeOK'
  BY <1>1, <1>2, Completes DEF IInv, TypeOK
<1>4. FloatingInv'
  <2>1. \A q \in Runs, m \in Resources :
          /\ phase'[q][m] = "done" => phase[q][m] = "done" \/ (q = r /\ m = n)
          /\ step'[q][m] = step[q][m] \/ step'[q][m] = "none"
    BY <1>1, Completes
  <2> QED
    BY <1>1, <1>2, <2>1, FloatingKept DEF IInv
<1> QED
  BY <1>1, <1>3, <1>4, Completes DEF IInv

(* The server gets its addresses.                                          *)
LEMMA AddressesComeStep ==
  ASSUME IInv, NEW r \in Runs, NEW n \in Resources, AddressesCome(r, n)
  PROVE  IInv'
<1>1. /\ Complete(r, n) /\ Kind(n) = "Server"
      /\ address' = [address EXCEPT ![n] = <<r, n>>]
      /\ UNCHANGED <<osid, associated, attached>>
  BY DEF AddressesCome
<1>2. UNCHANGED <<infra, sg_create_lock, record, cloud>>
  BY <1>1, Completes
<1>3. <<r, n>> \in Ids /\ <<r, n>> # None
  BY ModelAssumption DEF Ids, Runs
<1>4. TypeOK'
  BY <1>1, <1>2, <1>3, Completes DEF IInv, TypeOK
<1>5. FloatingInv'
  <2>1. /\ address'[n] # None
        /\ \A m \in Resources : address[m] # None => address'[m] # None
    BY <1>1, <1>3 DEF IInv, TypeOK
  <2>2. \A q \in Runs, m \in Resources :
          /\ phase'[q][m] = "done" => phase[q][m] = "done" \/ (q = r /\ m = n)
          /\ step'[q][m] = step[q][m] \/ step'[q][m] = "none"
    BY <1>1, Completes
  <2> QED
    BY <1>1, <1>2, <2>1, <2>2, FloatingKept DEF IInv
<1> QED
  BY <1>1, <1>4, <1>5, Completes DEF IInv

(* The floating ip is associated with the address that was looked up.      *)
LEMMA AssociateStep ==
  ASSUME IInv, NEW r \in Runs, NEW n \in Resources, Associate(r, n)
  PROVE  IInv'
<1>1. Complete(r, n) /\ Kind(n) = "FloatingIP" /\ UNCHANGED <<osid, address, associated>>
  BY DEF Associate, rsrc
<1>2. /\ UNCHANGED <<infra, sg_create_lock, record, cloud>>
      /\ step[r][n] = "settle" /\ phase[r][n] = "running"
  BY <1>1, Completes
<1>3. \A d \in Uses(n) : d \in Resources /\ osid[d] # None
  BY <1>2, UsedIsDone
<1>4. DependsOn(infra, n) = Uses(n)
  BY DependsOnUses DEF IInv, TypeOK
<1>5. /\ attached \subseteq attached'
      /\ attached' \subseteq [ip : Ids, server : Ids \cup {None}, address : Ids]
      /\ Uses(n) # {} => \E a \in attached' : a.ip = <<r, n>> /\ a.server # None
  <2>1. CASE associated[n] = None
    <3>1. Uses(n) = {}
      BY <1>1, <1>2, <2>1 DEF IInv, FloatingInv
    <3> QED
      BY <2>1, <3>1 DEF Associate, IInv, TypeOK
  <2>2. CASE associated[n] # None
    <3>1. PICK d \in Uses(n) :
            attached' = attached \cup
              {[ip |-> <<r, n>>, server |-> osid[d], address |-> associated[n]]}
      BY <1>4, <2>2 DEF Associate
    <3>2. osid[d] \in Ids \cup {None} /\ associated[n] \in Ids /\ <<r, n>> \in Ids
      BY <1>3, <2>2, <3>1 DEF IInv, TypeOK, Ids
    <3> DEFINE a == [ip |-> <<r, n>>, server |-> osid[d], address |-> associated[n]]
    <3>3. a \in [ip : Ids, server : Ids \cup {None}, address : Ids]
      BY <3>2
    <3>4. a.ip = <<r, n>> /\ a.server # None /\ a \in attached'
      BY <1>3, <3>1
    <3> QED
      BY <3>1, <3>3, <3>4 DEF IInv, TypeOK
  <2> QED
    BY <2>1, <2>2
<1>6. TypeOK'
  BY <1>1, <1>2, <1>5, Completes DEF IInv, TypeOK
<1>7. FloatingInv'
  <2> SUFFICES ASSUME NEW q \in Runs, NEW m \in Resources
               PROVE  /\ phase'[q][m] = "done" /\ Kind(m) = "Server" => address[m] # None
                      /\ /\ step'[q][m] \in {"calling", "identify", "record", "settle"}
                         /\ Kind(m) = "FloatingIP" /\ Uses(m) # {}
                         => associated[m] # None
                      /\ phase'[q][m] = "done" /\ Kind(m) = "FloatingIP" /\ Uses(m) # {} =>
                           \E a \in attached' : a.ip = <<q, m>> /\ a.server # None
    BY <1>1, <1>2 DEF FloatingInv, Kind, Uses
  <2>1. /\ phase'[q][m] = "done" => phase[q][m] = "done" \/ (q = r /\ m = n)
        /\ step'[q][m] = step[q][m] \/ step'[q][m] = "none"
    BY <1>1, Completes
  <2>2. phase[q][m] = "done" /\ Kind(m) = "FloatingIP" /\ Uses(m) # {} =>
          \E a \in attached : a.ip = <<q, m>> /\ a.server # None
    BY DEF IInv, FloatingInv
  <2> QED
    BY <1>1, <1>5, <2>1, <2>2 DEF IInv, FloatingInv
<1> QED
  BY <1>1, <1>6, <1>7, Completes DEF IInv

-----------------------------------------------------------------------------
(* The inductive invariant of the provisioner.                             *)
THEOREM InvariantCorrect == Spec => []IInv
<1>1. IInv /\ [Next]_vars => IInv'
  <2> SUFFICES ASSUME IInv, [Next]_vars PROVE IInv'
    OBVIOUS
  <2>1. CASE Provision
    BY <2>1, ProvisionStep
  <2>2. CASE Provisioned \/ UNCHANGED vars
    <3>1. UNCHANGED <<infra, plan, current, phase, step, rsrc, sg_create_lock, record, outside>>
      BY <2>2 DEF Provisioned, Agent!Succeed, Agent!Fail, vars, agent
    <3>2. outcome' \in Agent!Outcomes
      BY <2>2 DEF Provisioned, Agent!Succeed, Agent!Fail, vars, agent, Agent!Outcomes,
         IInv, TypeOK, Agent!TypeOK
    <3> QED
      BY <3>1, <3>2, NothingHappens
  <2>3. ASSUME NEW r \in Runs, NEW n \in Resources, PerformTask(r, n) PROVE IInv'
    BY <2>3, PerformTaskStep
  <2>4. ASSUME NEW r \in Runs, NEW n \in Resources, Worker(r, n) PROVE IInv'
    BY <2>4, AskStep, AcquireLockStep, RefixArgumentsStep, CreatedStep, CallRaisesStep,
       SetOsidStep, AddToRecordStep, FinishStep, AddressesComeStep, AssociateStep,
       RaisesStep DEF Worker
  <2> QED
    BY <2>1, <2>2, <2>3, <2>4 DEF Next
<1> QED
  BY <1>1, InitInv, PTL DEF Spec

(* Types of the resources, the record, the lock and the agents' states.    *)
THEOREM TypeCorrect == Spec => []TypeOK
BY InvariantCorrect, PTL DEF IInv

(* compute_model's dependencies suffice: whatever resource a running task  *)
(* refers to has its Openstack id, in every run, after any failures.       *)
THEOREM IdsAreThereCorrect == Spec => []IdsAreThere
<1>1. IInv => IdsAreThere
  BY UsedIsDone DEF IdsAreThere
<1> QED
  BY <1>1, InvariantCorrect, PTL

(* No floating ip of a server is done without having been associated with  *)
(* an address of it.                                                       *)
THEOREM FloatingIpsAssociatedCorrect == Spec => []FloatingIpsAssociated
<1>1. IInv => FloatingIpsAssociated
  BY DEF IInv, FloatingInv, FloatingIpsAssociated
<1> QED
  BY <1>1, InvariantCorrect, PTL

(* The record of a model's first provisioning names all that the cloud has *)
(* created for it, whatever fails.                                         *)
THEOREM RecordIsCompleteCorrect == Spec => []RecordIsComplete
<1>1. IInv => RecordIsComplete
  <2> SUFFICES ASSUME IInv, current <= 1, NEW id \in cloud, Kind(id[2]) # "RouterGateway"
               PROVE  Named(id) \/ InHand(id)
    BY DEF RecordIsComplete
  <2>1. id[1] \in Runs /\ id[2] \in Resources /\ id = <<id[1], id[2]>>
    BY DEF IInv, TypeOK, Ids
  <2> QED
    BY <2>1 DEF IInv, RecordInv, Named, InHand
<1> QED
  BY <1>1, InvariantCorrect, PTL

(* _sg_create_lock keeps the creation of security groups single-threaded,  *)
(* over the workers of all agents.                                         *)
THEOREM SecGroupsOneAtATimeCorrect == Spec => []SecGroupsOneAtATime
<1>1. IInv => SecGroupsOneAtATime
  <2> SUFFICES ASSUME IInv, NEW a \in Creating PROVE a = sg_create_lock
    BY DEF SecGroupsOneAtATime
  <2>1. a[1] \in Runs /\ a[2] \in Resources /\ a = <<a[1], a[2]>>
    BY DEF Creating, Ids
  <2> QED
    BY <2>1 DEF IInv, LockInv, Creating
<1> QED
  BY <1>1, InvariantCorrect, PTL
==============================================================================

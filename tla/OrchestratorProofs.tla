-------------------------- MODULE OrchestratorProofs --------------------------
(***************************************************************************)
(* The orchestrator's properties, for any resources, config tasks, graphs  *)
(* and number of calls. Module Orchestrator says what each phase may do;   *)
(* here is why no sequence of calls gets a wrong answer out of it: what is *)
(* done stays done, the infra model is computed before it is provisioned   *)
(* and only once, and the caller gets to the config phase only past the    *)
(* provisioning one.                                                       *)
(***************************************************************************)
EXTENDS Orchestrator, TLAPS

(* A call provisions only an infra model, and configures only a config     *)
(* model.                                                                  *)
PhaseInv ==
  /\ caller \in {"prepare", "provision", "provisioning"} => "infra" \in given
  /\ caller = "configuring" => "config" \in given
  /\ answer = "true" => caller = "user"

(* A namespace is given: nothing was provisioned while provisioning_       *)
(* computed is unset, nor when the call that set it comes to provision.    *)
OnceInv ==
  "namespace" \in given =>
    /\ pcurrent <= 1
    /\ caller = "provision" => computed /\ pcurrent = 0
    /\ ~computed => pcurrent = 0

BegunInv ==
  /\ poutcome # "none" => pcurrent > 0
  /\ coutcome # "none" => ccurrent > 0
  /\ ccurrent = 0 => \A r \in C!Runs :
       cplan[r] = C!NoGraph /\ \A t \in ConfigTasks : cphase[r][t] = "waiting"

StoodUpIfInfra == "infra" \in given => pcurrent > 0 /\ StoodUp

(* The config phase, once entered in any call, has its infrastructure.     *)
ReadyInv ==
  /\ caller \in {"config", "configuring"} => StoodUpIfInfra
  /\ ccurrent > 0 => "config" \in given /\ StoodUpIfInfra

IInv == TypeOK /\ PhaseInv /\ OnceInv /\ BegunInv /\ ReadyInv /\ TrueMeansStoodUp

-----------------------------------------------------------------------------
(* Three facts about each agent: its nodes are tasks, beginning a run, and *)
(* the step of a worker, after which what was done is still done.          *)

(* The provisioner's agent has resources for its nodes.                    *)
LEMMA PNodes ==
  ASSUME P!TypeOK, NEW r \in P!Runs
  PROVE  pplan[r].node \subseteq Resources
BY GraphAssumption DEF P!TypeOK, P!NoGraph

(* A run of the provisioner's agent begins: it is the next one.            *)
LEMMA PBegins ==
  ASSUME P!TypeOK, NEW G \in ResourceGraphs, P!Begin(G)
  PROVE  /\ P!TypeOK'
         /\ pcurrent \in Nat /\ pcurrent' = pcurrent + 1
         /\ pcurrent' \in P!Runs
         /\ pphase' = pphase /\ poutcome' = "running"
<1>1. pcurrent + 1 \in P!Runs /\ pcurrent \in Nat
  BY CallsAssumption DEF P!Begin, P!TypeOK, P!Runs
<1>2. P!TypeOK'
  BY <1>1 DEF P!Begin, P!TypeOK, P!Outcomes, P!Runs
<1> QED
  BY <1>1, <1>2 DEF P!Begin

(* A step of its workers: what was done stays done.                        *)
LEMMA PMoves ==
  ASSUME P!TypeOK, NEW r \in P!Runs, NEW t \in Resources,
         P!Start(r, t) \/ P!Complete(r, t) \/ P!Abandon(r, t)
  PROVE  /\ P!TypeOK'
         /\ UNCHANGED <<pplan, pcurrent, poutcome>>
         /\ t \in pplan[r].node \/ pphase[r][t] # "waiting"
         /\ \A q \in P!Runs, u \in Resources :
              pphase[q][u] = "done" => pphase'[q][u] = "done"
<1>1. PICK to \in P!Phases :
        /\ pphase' = [pphase EXCEPT ![r][t] = to]
        /\ UNCHANGED <<pplan, pcurrent, poutcome>>
        /\ pphase[r][t] \in {"waiting", "running"}
        /\ t \in pplan[r].node \/ pphase[r][t] # "waiting"
  BY DEF P!Start, P!Complete, P!Abandon, P!Move, P!Phases
<1>2. P!TypeOK'
  BY <1>1 DEF P!TypeOK
<1>3. \A q \in P!Runs, u \in Resources : pphase[q][u] = "done" => pphase'[q][u] = "done"
  BY <1>1 DEF P!TypeOK
<1> QED
  BY <1>1, <1>2, <1>3

(* The config agent has config tasks for its nodes.                        *)
LEMMA CNodes ==
  ASSUME C!TypeOK, NEW r \in C!Runs
  PROVE  cplan[r].node \subseteq ConfigTasks
BY GraphAssumption DEF C!TypeOK, C!NoGraph

(* A run of the config agent begins.                                       *)
LEMMA CBegins ==
  ASSUME C!TypeOK, NEW G \in ConfigGraphs, C!Begin(G)
  PROVE  /\ C!TypeOK'
         /\ ccurrent \in Nat /\ ccurrent' = ccurrent + 1
         /\ ccurrent' \in C!Runs
         /\ cphase' = cphase /\ coutcome' = "running"
<1>1. ccurrent + 1 \in C!Runs /\ ccurrent \in Nat
  BY CallsAssumption DEF C!Begin, C!TypeOK, C!Runs
<1>2. C!TypeOK'
  BY <1>1 DEF C!Begin, C!TypeOK, C!Outcomes, C!Runs
<1> QED
  BY <1>1, <1>2 DEF C!Begin

(* A step of its workers.                                                  *)
LEMMA CMoves ==
  ASSUME C!TypeOK, NEW r \in C!Runs, NEW t \in ConfigTasks,
         C!Start(r, t) \/ C!Complete(r, t) \/ C!Abandon(r, t)
  PROVE  /\ C!TypeOK'
         /\ UNCHANGED <<cplan, ccurrent, coutcome>>
         /\ t \in cplan[r].node \/ cphase[r][t] # "waiting"
         /\ \A q \in C!Runs, u \in ConfigTasks :
              cphase[q][u] = "done" => cphase'[q][u] = "done"
<1>1. PICK to \in C!Phases :
        /\ cphase' = [cphase EXCEPT ![r][t] = to]
        /\ UNCHANGED <<cplan, ccurrent, coutcome>>
        /\ cphase[r][t] \in {"waiting", "running"}
        /\ t \in cplan[r].node \/ cphase[r][t] # "waiting"
  BY DEF C!Start, C!Complete, C!Abandon, C!Move, C!Phases
<1>2. C!TypeOK'
  BY <1>1 DEF C!TypeOK
<1>3. \A q \in C!Runs, u \in ConfigTasks : cphase[q][u] = "done" => cphase'[q][u] = "done"
  BY <1>1 DEF C!TypeOK
<1> QED
  BY <1>1, <1>2, <1>3

(* Done resources stay done, so infrastructure that stands keeps standing. *)
LEMMA StandsStill ==
  ASSUME TypeOK, TypeOK', pplan' = pplan, pcurrent' = pcurrent, given' = given,
         \A q \in P!Runs, u \in Resources : pphase[q][u] = "done" => pphase'[q][u] = "done",
         StoodUpIfInfra
  PROVE  StoodUpIfInfra'
<1> SUFFICES ASSUME "infra" \in given, NEW t \in pplan[pcurrent].node
             PROVE  pcurrent > 0 /\ pphase'[pcurrent][t] = "done"
  BY DEF StoodUpIfInfra, StoodUp
<1>1. pcurrent > 0 /\ pphase[pcurrent][t] = "done"
  BY DEF StoodUpIfInfra, StoodUp
<1>2. pcurrent \in P!Runs
  BY <1>1, CallsAssumption DEF TypeOK, P!TypeOK, P!Runs
<1> QED
  BY <1>1, <1>2, PNodes DEF TypeOK

(* The invariant holds before the first call.                              *)
LEMMA InitInv == Init => IInv
<1> SUFFICES ASSUME Init PROVE IInv
  OBVIOUS
<1>1. P!TypeOK
  BY CallsAssumption DEF Init, P!Init, P!TypeOK, P!Outcomes, P!Phases
<1>2. C!TypeOK
  BY CallsAssumption DEF Init, C!Init, C!TypeOK, C!Outcomes, C!Phases
<1>3. TypeOK
  <2>1. agent \in 0 .. MaxCalls /\ calls \in 0 .. MaxCalls
    BY CallsAssumption DEF Init
  <2>2. status \in Statuses
    BY DEF Init, Statuses
  <2> QED
    BY <1>1, <1>2, <2>1, <2>2 DEF Init, TypeOK
<1>4. PhaseInv /\ OnceInv /\ TrueMeansStoodUp
  BY DEF Init, PhaseInv, OnceInv, TrueMeansStoodUp, P!Init
<1>5. BegunInv
  BY DEF Init, BegunInv, P!Init, C!Init
<1>6. ReadyInv
  BY DEF Init, ReadyInv, C!Init
<1> QED
  BY <1>3, <1>4, <1>5, <1>6 DEF IInv

(* The steps that leave both agents alone.                                 *)
LEMMA CallerSteps ==
  ASSUME IInv, UNCHANGED <<pvars, cvars>>,
         \/ InitiateSystem \/ Prepare \/ PrepareRaises \/ NoProvisionPlan
         \/ ProvisionRaises \/ SkipConfig \/ PerformConfigRaises \/ UNCHANGED vars
  PROVE  IInv'
<1> USE DEF IInv, pvars, cvars
<1>1. P!TypeOK' /\ C!TypeOK'
  BY DEF TypeOK, P!TypeOK, C!TypeOK
<1>2. BegunInv' /\ (StoodUpIfInfra /\ given' = given => StoodUpIfInfra')
  BY DEF BegunInv, StoodUpIfInfra, StoodUp
<1>3. CASE InitiateSystem
  <2>1. TypeOK'
    BY <1>1, <1>3, CallsAssumption DEF InitiateSystem, TypeOK, Statuses, Running
  <2> QED
    BY <1>2, <1>3, <2>1 DEF InitiateSystem, PhaseInv, OnceInv, ReadyInv, TrueMeansStoodUp,
       StoodUpIfInfra
<1>4. CASE Prepare
  <2>1. TypeOK'
    BY <1>1, <1>4 DEF Prepare, TypeOK
  <2>2. OnceInv'
    BY <1>4 DEF Prepare, NotYetComputed, OnceInv
  <2> QED
    BY <1>2, <1>4, <2>1, <2>2 DEF Prepare, PhaseInv, ReadyInv, TrueMeansStoodUp, StoodUp
<1>5. CASE PrepareRaises \/ NoProvisionPlan \/ ProvisionRaises \/ PerformConfigRaises
  <2>1. TypeOK'
    BY <1>1, <1>5 DEF PrepareRaises, NoProvisionPlan, ProvisionRaises, PerformConfigRaises,
       Ends, TypeOK, Statuses, Running
  <2>2. OnceInv'
    BY <1>5 DEF PrepareRaises, NoProvisionPlan, ProvisionRaises, PerformConfigRaises, Ends,
       OnceInv, TypeOK
  <2> QED
    BY <1>2, <1>5, <2>1, <2>2 DEF PrepareRaises, NoProvisionPlan, ProvisionRaises,
       PerformConfigRaises, Ends, PhaseInv, ReadyInv, TrueMeansStoodUp
<1>6. CASE SkipConfig
  <2>1. TypeOK'
    BY <1>1, <1>6 DEF SkipConfig, Ends, TypeOK, Statuses
  <2> QED
    BY <1>2, <1>6, <2>1 DEF SkipConfig, Ends, PhaseInv, OnceInv, ReadyInv, TrueMeansStoodUp,
       StoodUpIfInfra
<1>7. CASE UNCHANGED vars
  BY <1>1, <1>2, <1>7 DEF vars, orch, TypeOK, PhaseInv, OnceInv, ReadyInv, TrueMeansStoodUp,
     StoodUp
<1> QED
  BY <1>3, <1>4, <1>5, <1>6, <1>7

(* The steps that end a phase, and read the outcome of its agent.          *)
LEMMA PhaseEnds ==
  ASSUME IInv, Provisioned \/ ProvisionAborts \/ ProvisionRefused
               \/ Configured \/ ConfigAborts \/ ConfigRefused
  PROVE  IInv'
<1> USE DEF IInv
<1>1. /\ UNCHANGED <<pplan, pcurrent, pphase, cplan, ccurrent, cphase, given, computed>>
      /\ UNCHANGED poutcome \/ (poutcome = "running" /\ poutcome' \in P!Outcomes)
      /\ UNCHANGED coutcome \/ (coutcome = "running" /\ coutcome' \in C!Outcomes)
  BY DEF Provisioned, ProvisionAborts, ProvisionRefused, Configured, ConfigAborts, ConfigRefused,
     P!Succeed, P!Fail, P!Refuse, C!Succeed, C!Fail, C!Refuse, P!Outcomes, C!Outcomes, pvars, cvars
<1>2. P!TypeOK' /\ C!TypeOK'
  BY <1>1 DEF TypeOK, P!TypeOK, C!TypeOK
<1>3. TypeOK'
  BY <1>1, <1>2 DEF Provisioned, ProvisionAborts, ProvisionRefused, Configured, ConfigAborts,
     ConfigRefused, Ends, TypeOK, Statuses
<1>4. BegunInv' /\ (StoodUpIfInfra => StoodUpIfInfra')
  BY <1>1 DEF BegunInv, StoodUpIfInfra, StoodUp
<1>5. PhaseInv' /\ OnceInv'
  BY <1>1 DEF Provisioned, ProvisionAborts, ProvisionRefused, Configured, ConfigAborts,
     ConfigRefused, Ends, PhaseInv, OnceInv
<1>6. CASE Provisioned
  <2>1. StoodUpIfInfra'
    BY <1>1, <1>6 DEF Provisioned, P!Succeed, StoodUpIfInfra, StoodUp, BegunInv
  <2> QED
    BY <1>1, <1>3, <1>4, <1>5, <1>6, <2>1 DEF Provisioned, ReadyInv, PhaseInv, TrueMeansStoodUp
<1>7. CASE Configured
  <2>1. /\ ccurrent > 0 /\ StoodUpIfInfra'
        /\ \A t \in cplan[ccurrent].node : cphase[ccurrent][t] = "done"
    BY <1>4, <1>7 DEF Configured, C!Succeed, BegunInv, ReadyInv
  <2>2. TrueMeansStoodUp'
    BY <1>1, <1>7, <2>1 DEF Configured, Ends, TrueMeansStoodUp, StoodUpIfInfra
  <2> QED
    BY <1>1, <1>3, <1>4, <1>5, <1>7, <2>1, <2>2 DEF Configured, Ends, ReadyInv
<1>8. CASE ProvisionAborts \/ ProvisionRefused \/ ConfigAborts \/ ConfigRefused
  BY <1>1, <1>3, <1>4, <1>5, <1>8 DEF ProvisionAborts, ProvisionRefused, ConfigAborts,
     ConfigRefused, Ends, ReadyInv, TrueMeansStoodUp
<1> QED
  BY <1>6, <1>7, <1>8

(* The provisioning of a call begins.                                      *)
LEMMA ProvisionBegins ==
  ASSUME IInv, NEW G \in ResourceGraphs, Provision(G)
  PROVE  IInv'
<1> USE DEF IInv
<1>1. /\ P!TypeOK' /\ pcurrent \in Nat /\ pcurrent' = pcurrent + 1 /\ pcurrent' \in P!Runs
      /\ pphase' = pphase /\ poutcome' = "running"
  BY PBegins DEF Provision, TypeOK
<1>2. C!TypeOK' /\ UNCHANGED <<cplan, ccurrent, cphase, coutcome>>
  BY DEF Provision, cvars, TypeOK, C!TypeOK
<1>3. TypeOK'
  BY <1>1, <1>2 DEF Provision, TypeOK, P!Runs
<1>4. "infra" \in given /\ answer # "true"
  BY DEF Provision, PhaseInv
<1>5. ccurrent = 0    \* or the config phase would have been ready before
  <2>1. SUFFICES ASSUME ccurrent # 0 PROVE FALSE
    OBVIOUS
  <2>2. ccurrent > 0
    BY <2>1, CallsAssumption DEF TypeOK, C!TypeOK
  <2>3. "namespace" \in given /\ pcurrent > 0
    BY <1>4, <2>2 DEF ReadyInv, StoodUpIfInfra, TypeOK, Models
  <2> QED
    BY <2>3 DEF Provision, OnceInv
<1>6. OnceInv'
  <2>1. "namespace" \in given => computed /\ pcurrent = 0
    BY CallsAssumption DEF Provision, OnceInv, TypeOK
  <2> QED
    BY <1>1, <2>1 DEF Provision, OnceInv
<1>7. BegunInv'
  BY <1>1, <1>2 DEF BegunInv
<1> QED
  BY <1>2, <1>3, <1>4, <1>5, <1>6, <1>7 DEF Provision, PhaseInv, ReadyInv, TrueMeansStoodUp

(* The configuring of a call begins, with all resources done if there are  *)
(* any.                                                                    *)
LEMMA ConfigBegins ==
  ASSUME IInv, NEW G \in ConfigGraphs, PerformConfig(G)
  PROVE  IInv'
<1> USE DEF IInv
<1>1. /\ C!TypeOK' /\ ccurrent \in Nat /\ ccurrent' = ccurrent + 1
      /\ cphase' = cphase /\ coutcome' = "running"
  BY CBegins DEF PerformConfig, TypeOK
<1>2. P!TypeOK' /\ UNCHANGED <<pplan, pcurrent, pphase, poutcome>>
  BY DEF PerformConfig, pvars, TypeOK, P!TypeOK
<1>3. TypeOK'
  BY <1>1, <1>2 DEF PerformConfig, TypeOK, Statuses, Running
<1>4. StoodUpIfInfra'
  BY <1>2 DEF PerformConfig, ReadyInv, StoodUpIfInfra, StoodUp
<1>5. BegunInv'
  BY <1>1, <1>2 DEF BegunInv
<1> QED
  BY <1>1, <1>2, <1>3, <1>4, <1>5 DEF PerformConfig, PhaseInv, OnceInv, ReadyInv,
     TrueMeansStoodUp

(* The work of the provisioner's agent keeps the invariant.                *)
LEMMA ProvisionWork == ASSUME IInv, Provisioning PROVE IInv'
<1> USE DEF IInv, orch, cvars
<1>1. PICK r \in P!Runs, t \in Resources : P!Start(r, t) \/ P!Complete(r, t) \/ P!Abandon(r, t)
  BY DEF Provisioning
<1>2. /\ P!TypeOK' /\ UNCHANGED <<pplan, pcurrent, poutcome>>
      /\ \A q \in P!Runs, u \in Resources : pphase[q][u] = "done" => pphase'[q][u] = "done"
  BY <1>1, PMoves DEF TypeOK
<1>3. UNCHANGED <<given, status, computed, agent, caller, answer, calls,
                  cplan, ccurrent, cphase, coutcome>>
  BY DEF Provisioning
<1>4. TypeOK'
  BY <1>2, <1>3 DEF TypeOK, C!TypeOK
<1>5. StoodUpIfInfra => StoodUpIfInfra'
  BY <1>2, <1>3, <1>4, StandsStill
<1>6. TrueMeansStoodUp'
  BY <1>2, <1>3, <1>5 DEF TrueMeansStoodUp, StoodUpIfInfra
<1> QED
  BY <1>2, <1>3, <1>4, <1>5, <1>6 DEF PhaseInv, OnceInv, BegunInv, ReadyInv

(* The work of the config agent keeps the invariant.                       *)
LEMMA ConfigWork == ASSUME IInv, Configuring PROVE IInv'
<1> USE DEF IInv, orch, pvars
<1>1. PICK r \in C!Runs, t \in ConfigTasks : C!Start(r, t) \/ C!Complete(r, t) \/ C!Abandon(r, t)
  BY DEF Configuring
<1>2. /\ C!TypeOK' /\ UNCHANGED <<cplan, ccurrent, coutcome>>
      /\ t \in cplan[r].node \/ cphase[r][t] # "waiting"
      /\ \A q \in C!Runs, u \in ConfigTasks : cphase[q][u] = "done" => cphase'[q][u] = "done"
  BY <1>1, CMoves DEF TypeOK
<1>3. UNCHANGED <<given, status, computed, agent, caller, answer, calls,
                  pplan, pcurrent, pphase, poutcome>>
  BY DEF Configuring
<1>4. TypeOK'
  BY <1>2, <1>3 DEF TypeOK, P!TypeOK
<1>5. StoodUpIfInfra => StoodUpIfInfra'
  BY <1>3, <1>2 DEF StoodUpIfInfra, StoodUp
<1>6. ccurrent # 0    \* nothing to work on in a run that has not begun
  BY <1>2 DEF BegunInv, C!NoGraph
<1>7. TrueMeansStoodUp'
  <2>1. ccurrent > 0 => ccurrent \in C!Runs
    BY CallsAssumption DEF TypeOK, C!TypeOK, C!Runs
  <2>2. ccurrent > 0 => cplan[ccurrent].node \subseteq ConfigTasks
    BY <2>1, CNodes DEF TypeOK
  <2> QED
    BY <1>2, <1>3, <2>1, <2>2 DEF TrueMeansStoodUp, StoodUp
<1> QED
  BY <1>2, <1>3, <1>4, <1>5, <1>6, <1>7 DEF PhaseInv, OnceInv, BegunInv, ReadyInv

-----------------------------------------------------------------------------
(* The inductive invariant of the orchestrator.                            *)
THEOREM InvariantCorrect == Spec => []IInv
<1>1. IInv /\ [Next]_vars => IInv'
  <2> SUFFICES ASSUME IInv, [Next]_vars PROVE IInv'
    OBVIOUS
  <2>1. CASE \/ InitiateSystem \/ Prepare \/ PrepareRaises \/ NoProvisionPlan
             \/ ProvisionRaises \/ SkipConfig \/ PerformConfigRaises \/ UNCHANGED vars
    <3>1. UNCHANGED <<pvars, cvars>>
      BY <2>1 DEF InitiateSystem, Prepare, PrepareRaises, NoProvisionPlan, ProvisionRaises,
         SkipConfig, PerformConfigRaises, vars
    <3> QED
      BY <2>1, <3>1, CallerSteps
  <2>2. CASE Provisioned \/ ProvisionAborts \/ ProvisionRefused
             \/ Configured \/ ConfigAborts \/ ConfigRefused
    BY <2>2, PhaseEnds
  <2>3. CASE \E G \in ResourceGraphs : Provision(G)
    BY <2>3, ProvisionBegins
  <2>4. CASE \E G \in ConfigGraphs : PerformConfig(G)
    BY <2>4, ConfigBegins
  <2>5. CASE Provisioning
    BY <2>5, ProvisionWork
  <2>6. CASE Configuring
    BY <2>6, ConfigWork
  <2> QED
    BY <2>1, <2>2, <2>3, <2>4, <2>5, <2>6 DEF Next
<1> QED
  BY <1>1, InitInv, PTL DEF Spec

(* Types of the orchestrator and of both agents' states.                   *)
THEOREM TypeCorrect == Spec => []TypeOK
BY InvariantCorrect, PTL DEF IInv

(* With a namespace no sequence of initiate_system calls provisions an     *)
(* infra model twice.                                                      *)
THEOREM ProvisionedOnceCorrect == Spec => []ProvisionedOnce
<1>1. IInv => ProvisionedOnce
  BY DEF IInv, OnceInv, ProvisionedOnce
<1> QED
  BY <1>1, InvariantCorrect, PTL

(* initiate_system answers True only when all resources and all config     *)
(* tasks of the call completed.                                            *)
THEOREM TrueMeansStoodUpCorrect == Spec => []TrueMeansStoodUp
BY InvariantCorrect, PTL DEF IInv

(* No config task is begun before the infrastructure it runs on is done.   *)
THEOREM ConfigNeedsInfrastructureCorrect == Spec => []ConfigNeedsInfrastructure
<1>1. IInv => ConfigNeedsInfrastructure
  <2> SUFFICES ASSUME IInv, "infra" \in given, NEW r \in C!Runs, NEW t \in ConfigTasks,
                      cphase[r][t] # "waiting"
               PROVE  pcurrent > 0 /\ StoodUp
    BY DEF ConfigNeedsInfrastructure
  <2>1. ccurrent > 0
    BY CallsAssumption DEF IInv, BegunInv, TypeOK, C!TypeOK
  <2> QED
    BY <2>1 DEF IInv, ReadyInv, StoodUpIfInfra
<1> QED
  BY <1>1, InvariantCorrect, PTL
===============================================================================

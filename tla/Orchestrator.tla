---------------------------- MODULE Orchestrator ----------------------------
(***************************************************************************)
(* ActuatorOrchestration (actuator/__init__.py): initiate_system() stands  *)
(* a system up in two phases, each done by an execution agent. The agents  *)
(* appear by what they promise, module TaskGraph, which ExecutionAgent     *)
(* implements: P performs one task per resource, C the tasks of the config *)
(* model. The provisioner makes a new agent for every call, so P's run r   *)
(* is the r-th agent; C is config_ea, made once and used by every call.    *)
(* Workers of an answered agent may still be busy: P and C move whenever   *)
(* TaskGraph lets them.                                                    *)
(*                                                                         *)
(* The pause between the phases changes no state. The orchestrator does    *)
(* nothing for the EXEC states of its status.                              *)
(***************************************************************************)
EXTENDS Naturals

CONSTANTS Resources, ResourceGraphs,  \* the graphs compute_model() may build
          ConfigTasks, ConfigGraphs,  \* the graphs get_graph() may return
          MaxCalls                    \* bound on the calls of initiate_system

ASSUME CallsAssumption == MaxCalls \in Nat
ASSUME GraphAssumption == /\ \A G \in ResourceGraphs : G.node \subseteq Resources
                          /\ \A G \in ConfigGraphs : G.node \subseteq ConfigTasks

VARIABLES given,     \* the arguments of the constructor that are not None
          status,    \* self.status
          computed,  \* infra_model_inst.provisioning_computed
          agent,     \* the run of provisioner.agent, 0 for None
          caller,    \* where the thread in initiate_system is
          answer,    \* what the last call of initiate_system ended in
          calls,     \* how often initiate_system was called
          pplan, pcurrent, pphase, poutcome,   \* the provisioning agents
          cplan, ccurrent, cphase, coutcome    \* the configuration agent

P == INSTANCE TaskGraph WITH Tasks <- Resources, Plans <- ResourceGraphs,
       MaxRuns <- MaxCalls, plan <- pplan, current <- pcurrent,
       phase <- pphase, outcome <- poutcome
C == INSTANCE TaskGraph WITH Tasks <- ConfigTasks, Plans <- ConfigGraphs,
       MaxRuns <- MaxCalls, plan <- cplan, current <- ccurrent,
       phase <- cphase, outcome <- coutcome

pvars == <<pplan, pcurrent, pphase, poutcome>>
cvars == <<cplan, ccurrent, cphase, coutcome>>
orch == <<given, status, computed, agent, caller, answer, calls>>
vars == <<orch, pvars, cvars>>

(* infra is the infra model together with a provisioner: one without the   *)
(* other is as good as neither. A config model needs a namespace, or the   *)
(* constructor raises.                                                     *)
Models == {g \in SUBSET {"infra", "namespace", "config"} :
             "config" \in g => "namespace" \in g}

Running == {"PERFORMING_PROVISION", "PERFORMING_CONFIG"}
Statuses == Running \cup {"NOT_STARTED", "COMPLETE", "ABORT_PROVISION", "ABORT_CONFIG"}

(* Types of the orchestrator and of the two agents.                        *)
TypeOK ==
  /\ given \in Models
  /\ status \in Statuses
  /\ computed \in BOOLEAN
  /\ agent \in 0 .. MaxCalls
  /\ caller \in {"user", "prepare", "provision", "provisioning", "config", "configuring"}
  /\ answer \in {"none", "true", "false", "raised"}
  /\ calls \in 0 .. MaxCalls
  /\ P!TypeOK /\ C!TypeOK

Init ==
  /\ given \in Models
  /\ status = "NOT_STARTED"
  /\ computed = FALSE
  /\ agent = 0
  /\ caller = "user"
  /\ answer = "none"
  /\ calls = 0
  /\ P!Init /\ C!Init

(* initiate_system returns to its caller, or lets an exception through;    *)
(* in the deviation the thread is left nowhere.                            *)
EndsNowhere(a) == caller' = a /\ answer' = a
Ends(a) == caller' = "user" /\ answer' = a

InitiateSystem ==
  /\ caller = "user"
  /\ calls < MaxCalls
  /\ calls' = calls + 1
  /\ answer' = "none"
  /\ IF "infra" \in given
       THEN status' = "PERFORMING_PROVISION" /\ caller' = "prepare"
       ELSE caller' = "config" /\ UNCHANGED status
  /\ UNCHANGED <<given, computed, agent, pvars, cvars>>

(* compute_provisioning_from_refs works once per infra instance.           *)
NeverComputed == TRUE    \* a deviation: the flag is not tested
NotYetComputed == ~computed

Prepare ==
  /\ caller = "prepare"
  /\ IF "namespace" \in given THEN NotYetComputed /\ computed' = TRUE
                              ELSE UNCHANGED computed
  /\ caller' = "provision"
  /\ UNCHANGED <<given, status, agent, answer, calls, pvars, cvars>>

(* InfraException of a second call, or the exception of a reference that   *)
(* cannot be resolved, before or after the flag is set: none of them is a  *)
(* ProvisionerException.                                                   *)
PrepareRaises ==
  /\ caller = "prepare"
  /\ "namespace" \in given
  /\ computed' \in {computed, TRUE}
  /\ Ends("raised")
  /\ UNCHANGED <<given, status, agent, calls, pvars, cvars>>

(* _provision: the agent is kept once its constructor, which computes the  *)
(* graph of the resources, has returned.                                   *)
Provision(G) ==
  /\ caller = "provision"
  /\ P!Begin(G)
  /\ agent' = pcurrent + 1
  /\ caller' = "provisioning"
  /\ UNCHANGED <<given, status, computed, answer, calls, cvars>>

(* A resource without a task class, or that depends on one of another      *)
(* model, is a ProvisionerException; it leaves the last agent in place.    *)
NoProvisionPlan ==
  /\ caller = "provision"
  /\ status' = "ABORT_PROVISION"
  /\ Ends("false")
  /\ UNCHANGED <<given, computed, agent, calls, pvars, cvars>>

(* Everything else the plan may raise (an argument that cannot be fixed,   *)
(* a cycle, an infra model with no resources) goes through.                *)
ProvisionRaises ==
  /\ caller = "provision"
  /\ Ends("raised")
  /\ UNCHANGED <<given, status, computed, agent, calls, pvars, cvars>>

Provisioned ==
  /\ caller = "provisioning"
  /\ P!Succeed
  /\ caller' = "config"
  /\ UNCHANGED <<given, status, computed, agent, answer, calls, cvars>>

(* The agent is new, so a failed task is one of this call.                 *)
OwnFailure == \E t \in Resources : pphase[pcurrent][t] = "failed"

ProvisionAbortsUnnoticed ==    \* a deviation: no return False
  /\ caller = "provisioning"
  /\ OwnFailure /\ P!Fail
  /\ status' = "ABORT_PROVISION"
  /\ caller' = "config"
  /\ UNCHANGED <<given, computed, agent, answer, calls, cvars>>

ProvisionAborts ==
  /\ caller = "provisioning"
  /\ OwnFailure /\ P!Fail
  /\ status' = "ABORT_PROVISION"
  /\ Ends("false")
  /\ UNCHANGED <<given, computed, agent, calls, cvars>>

(* The arguments of a task cannot be fixed: not a ProvisionerException.    *)
ProvisionRefused ==
  /\ caller = "provisioning"
  /\ P!Refuse
  /\ Ends("raised")
  /\ UNCHANGED <<given, status, computed, agent, calls, cvars>>

SkipConfig ==
  /\ caller = "config"
  /\ "config" \notin given
  /\ status' = "COMPLETE"
  /\ Ends("true")
  /\ UNCHANGED <<given, computed, agent, calls, pvars, cvars>>

PerformConfig(G) ==
  /\ caller = "config"
  /\ "config" \in given
  /\ C!Begin(G)
  /\ status' = "PERFORMING_CONFIG"
  /\ caller' = "configuring"
  /\ UNCHANGED <<given, computed, agent, answer, calls, pvars>>

(* The same in the configuration phase: before there is a graph, or before *)
(* a worker is started on it. Neither is an ExecutionException.            *)
PerformConfigRaises ==
  /\ caller = "config"
  /\ "config" \in given
  /\ status' = "PERFORMING_CONFIG"
  /\ Ends("raised")
  /\ UNCHANGED <<given, computed, agent, calls, pvars, cvars>>

ConfigRefused ==
  /\ caller = "configuring"
  /\ C!Refuse
  /\ Ends("raised")
  /\ UNCHANGED <<given, status, computed, agent, calls, pvars>>

Configured ==
  /\ caller = "configuring"
  /\ C!Succeed
  /\ status' = "COMPLETE"
  /\ Ends("true")
  /\ UNCHANGED <<given, computed, agent, calls, pvars>>

ConfigAbortsUnnoticed ==    \* a deviation: falls through to the end
  /\ caller = "configuring"
  /\ C!Fail
  /\ status' = "COMPLETE"
  /\ Ends("true")
  /\ UNCHANGED <<given, computed, agent, calls, pvars>>

ConfigAborts ==
  /\ caller = "configuring"
  /\ C!Fail
  /\ status' = "ABORT_CONFIG"
  /\ Ends("false")
  /\ UNCHANGED <<given, computed, agent, calls, pvars>>

(* The worker threads of the agents.                                       *)
Provisioning ==
  /\ \E r \in P!Runs, t \in Resources :
       P!Start(r, t) \/ P!Complete(r, t) \/ P!Abandon(r, t)
  /\ UNCHANGED <<orch, cvars>>
Configuring ==
  /\ \E r \in C!Runs, t \in ConfigTasks :
       C!Start(r, t) \/ C!Complete(r, t) \/ C!Abandon(r, t)
  /\ UNCHANGED <<orch, pvars>>

Next ==
  \/ InitiateSystem \/ Prepare \/ PrepareRaises
  \/ (\E G \in ResourceGraphs : Provision(G))
  \/ NoProvisionPlan \/ ProvisionRaises \/ Provisioned \/ ProvisionAborts
  \/ ProvisionRefused
  \/ SkipConfig
  \/ (\E G \in ConfigGraphs : PerformConfig(G))
  \/ PerformConfigRaises \/ ConfigRefused \/ Configured \/ ConfigAborts
  \/ Provisioning \/ Configuring

Spec == Init /\ [][Next]_vars

-----------------------------------------------------------------------------
StoodUp == \A t \in pplan[pcurrent].node : pphase[pcurrent][t] = "done"

(* No config task is ever begun on a host that is not there: when the      *)
(* orchestrator provisions, config tasks start, in whatever call, only     *)
(* after all resources of a provisioning were done, and no later call ever *)
(* provisions anew while the workers of the last one are on them.          *)
ConfigNeedsInfrastructure ==
  "infra" \in given =>
    \A r \in C!Runs, t \in ConfigTasks :
      cphase[r][t] # "waiting" => pcurrent > 0 /\ StoodUp

(* initiate_system returns True only when every resource and every config  *)
(* task of that call completed: no phase is skipped, and no failure of an  *)
(* earlier phase or call is passed over.                                   *)
TrueMeansStoodUp ==
  answer = "true" =>
    /\ status = "COMPLETE"
    /\ "infra" \in given => pcurrent > 0 /\ StoodUp
    /\ "config" \in given =>
         /\ ccurrent > 0
         /\ \A t \in cplan[ccurrent].node : cphase[ccurrent][t] = "done"

(* With a namespace an infra model is provisioned at most once, however    *)
(* often initiate_system is called: its resources are not created twice.   *)
ProvisionedOnce == "namespace" \in given => pcurrent <= 1
=============================================================================

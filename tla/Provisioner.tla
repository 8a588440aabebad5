---------------------------- MODULE Provisioner ----------------------------
(***************************************************************************)
(* The Openstack provisioner (provisioners/openstack/): compute_model()    *)
(* makes a task of each resource and a dependency of each reference it     *)
(* recognizes, an agent performs the tasks, and a task asks the cloud for  *)
(* its resource, notes the Openstack id on the resource, and adds it to    *)
(* the agent's record. Every call of _provision() makes a new agent, seen  *)
(* here through TaskGraph, with a new record, over the same resources:     *)
(* what the workers of an earlier agent still do, they do to these.        *)
(*                                                                         *)
(* A resource refers to others by arguments (fields), each of which wants  *)
(* a resource of one class. All that the cloud is known by is that a call  *)
(* creates the resource, with an id of its own, or raises.                 *)
(***************************************************************************)
EXTENDS Naturals

CONSTANTS Resources,    \* the resources there are
          InfraModels,  \* the infra models considered
          MaxRuns,      \* bound on the calls of _provision
          None,         \* an id, address or value not known yet
          Nobody        \* the owner of a free lock

(* The arguments of each class that refer to resources, and the class      *)
(* that each of them wants, tested by isinstance.                          *)
FieldsOf == [Network |-> {}, Subnet |-> {"network"}, SecGroup |-> {},
             SecGroupRule |-> {"slave_secgroup"}, Server |-> {"security_groups", "nics"},
             Router |-> {}, RouterGateway |-> {"router"},
             RouterInterface |-> {"router", "subnet"}, FloatingIP |-> {"server"},
             StaticServer |-> {}]
ClassOf == [network |-> "Network", nics |-> "Network", router |-> "Router",
            subnet |-> "Subnet", server |-> "Server",
            slave_secgroup |-> "SecGroup", security_groups |-> "SecGroup"]
Fields == DOMAIN ClassOf
Kinds == DOMAIN FieldsOf
TaskClasses == Kinds \ {"StaticServer"}    \* no task class is captured for it

ASSUME ModelAssumption ==
  /\ MaxRuns \in Nat
  /\ None \notin Nat \X Resources /\ Nobody \notin Nat \X Resources
  /\ \A M \in InfraModels :
       /\ M.node \subseteq Resources
       /\ M.kind \in [Resources -> Kinds]
       /\ \A n \in Resources : M.ref[n] \subseteq FieldsOf[M.kind[n]] \X Resources

VARIABLES infra,       \* the infra model instance; never changes
          plan, current, phase, outcome,   \* the agents, as in TaskGraph
          step,        \* step[r][n]: where the worker on resource n for agent r is
          osid,        \* resource.osid
          address,     \* the addresses of a server or floating ip
          associated,  \* associated_ip, as last fixed
          sg_create_lock,
          record,      \* record[r]: the maps of agent r's record
          cloud,       \* the resources that exist, by their ids
          attached     \* which floating ip the cloud was told to give which address

agent == <<plan, current, phase, outcome>>
rsrc == <<osid, address, associated>>
outside == <<cloud, attached>>
vars == <<infra, agent, step, rsrc, sg_create_lock, record, outside>>

(* depends_on_list: the references that wanted classes recognize.          *)
RoutersForgotten(M, n) ==    \* a deviation
  {d \in Resources : \E f \in Fields \ {"router"} :
                       <<f, d>> \in M.ref[n] /\ M.kind[d] = ClassOf[f]}
DependsOn(M, n) ==
  {d \in Resources : \E f \in Fields : <<f, d>> \in M.ref[n] /\ M.kind[d] = ClassOf[f]}

(* compute_model.                                                          *)
Plan(M) == [node |-> M.node,
            edge |-> {e \in M.node \X M.node : e[1] \in DependsOn(M, e[2])}]
Plannable(M) ==
  /\ M.node # {}    \* or there is no task variable to delete
  /\ \A n \in M.node : M.kind[n] \in TaskClasses /\ DependsOn(M, n) \subseteq M.node

Plans == {Plan(M) : M \in InfraModels}
Agent == INSTANCE TaskGraph WITH Tasks <- Resources

Runs == 1 .. MaxRuns
NameAsId(r, n) == n    \* a deviation: the logical name instead of the id
IdOf(r, n) == <<r, n>>
Ids == Runs \X Resources
Kind(n) == infra.kind[n]

(* set_osid is called for all but these; only the gateway has no map in    *)
(* the record.                                                             *)
Identified(k) == k \notin {"RouterGateway", "RouterInterface"}
AllButRules(k) == k \notin {"RouterGateway", "SecGroupRule"}    \* a deviation
Recorded(k) == k # "RouterGateway"

(* _get_arg_msg_value raises for what is neither of the class nor a string.*)
WellTyped(n) == \A ref \in infra.ref[n] : infra.kind[ref[2]] = ClassOf[ref[1]]

(* A server looks its groups and networks up by id, in maps it has just    *)
(* refreshed.                                                              *)
Found(n) == \A ref \in infra.ref[n] : osid[ref[2]] \in cloud

Steps == {"none", "begin", "calling", "identify", "record", "settle"}

(* Types of the resources, the records, the lock and what the workers      *)
(* have.                                                                   *)
TypeOK ==
  /\ infra \in InfraModels
  /\ Agent!TypeOK
  /\ step \in [Runs -> [Resources -> Steps]]
  /\ osid \in [Resources -> Ids \cup {None}]
  /\ address \in [Resources -> Ids \cup {None}]
  /\ associated \in [Resources -> Ids \cup {None}]
  /\ sg_create_lock \in Ids \cup {Nobody}
  /\ record \in [Runs -> [Resources -> Ids \cup {None}]]
  /\ cloud \subseteq Ids
  /\ attached \subseteq [ip : Ids, server : Ids \cup {None}, address : Ids]

Nothing == [n \in Resources |-> None]

Init ==
  /\ infra \in InfraModels
  /\ Agent!Init
  /\ step = [r \in Runs |-> [n \in Resources |-> "none"]]
  /\ osid = Nothing /\ address = Nothing /\ associated = Nothing
  /\ sg_create_lock = Nobody
  /\ record = [r \in Runs |-> Nothing]
  /\ cloud = {}
  /\ attached = {}

-----------------------------------------------------------------------------
(* _provision: the graph, a new agent, its record. An infra model that has *)
(* no plan raises, and leaves all as it was but that arguments were fixed, *)
(* which for a floating ip finds no address yet.                           *)
Provision ==
  /\ Plannable(infra)
  /\ Agent!Begin(Plan(infra))
  /\ UNCHANGED <<infra, step, rsrc, sg_create_lock, record, outside>>

(* perform_config returns, or raises ProvisionerException.                 *)
Provisioned ==
  /\ Agent!Succeed \/ Agent!Fail
  /\ UNCHANGED <<infra, step, rsrc, sg_create_lock, record, outside>>

-----------------------------------------------------------------------------
(* The worker of agent r that performs the task of resource n.             *)

Goto(r, n, from, to) ==
  /\ step[r][n] = from
  /\ step' = [step EXCEPT ![r][n] = to]

PerformTask(r, n) ==
  /\ Agent!Start(r, n)
  /\ Goto(r, n, "none", "begin")
  /\ UNCHANGED <<infra, rsrc, sg_create_lock, record, outside>>

(* _provision of most tasks: arguments are looked at, the cloud is called. *)
Ask(r, n) ==
  /\ Kind(n) \notin {"SecGroup", "FloatingIP"}
  /\ WellTyped(n)
  /\ Kind(n) = "Server" => Found(n)
  /\ Goto(r, n, "begin", "calling")
  /\ UNCHANGED <<infra, agent, rsrc, sg_create_lock, record, outside>>

NoLock == TRUE    \* a deviation
LockFree == sg_create_lock = Nobody

AcquireLock(r, n) ==
  /\ Kind(n) = "SecGroup"
  /\ LockFree
  /\ Goto(r, n, "begin", "calling")
  /\ sg_create_lock' = IdOf(r, n)
  /\ UNCHANGED <<infra, agent, rsrc, record, outside>>

(* associated_ip is a reference to an address of the server.               *)
AsFixedBefore(n) == associated[n]    \* a deviation: no refix_arguments
AsFixedNow(n) == IF DependsOn(infra, n) = {} THEN None
                 ELSE LET s == CHOOSE d \in DependsOn(infra, n) : TRUE IN address[s]

RefixArguments(r, n) ==
  /\ Kind(n) = "FloatingIP"
  /\ Goto(r, n, "begin", "calling")
  /\ associated' = [associated EXCEPT ![n] = AsFixedNow(n)]
  /\ UNCHANGED <<infra, agent, osid, address, sg_create_lock, record, outside>>

(* The lock is released whether the call returns or raises.                *)
Held(n) == sg_create_lock    \* a deviation: no finally
Released(n) == IF Kind(n) = "SecGroup" THEN Nobody ELSE sg_create_lock

(* The call returns: the resource exists.                                  *)
Created(r, n) ==
  /\ Goto(r, n, "calling", IF Identified(Kind(n)) THEN "identify"
                           ELSE IF Recorded(Kind(n)) THEN "record" ELSE "settle")
  /\ cloud' = cloud \cup {<<r, n>>}
  /\ sg_create_lock' = IF Kind(n) = "SecGroup" THEN Nobody ELSE sg_create_lock
  /\ UNCHANGED <<infra, agent, rsrc, record, attached>>

CallRaises(r, n) ==
  /\ Goto(r, n, "calling", "none")
  /\ Agent!Abandon(r, n)
  /\ sg_create_lock' = Released(n)
  /\ UNCHANGED <<infra, rsrc, record, outside>>

SetOsid(r, n) ==
  /\ Goto(r, n, "identify", IF Recorded(Kind(n)) THEN "record" ELSE "settle")
  /\ osid' = [osid EXCEPT ![n] = IdOf(r, n)]
  /\ address' = IF Kind(n) = "FloatingIP" THEN [address EXCEPT ![n] = <<r, n>>] ELSE address
  /\ UNCHANGED <<infra, agent, associated, sg_create_lock, record, outside>>

(* What is recorded is read from the resource again; only an interface's   *)
(* id comes from the response.                                             *)
AddToRecord(r, n) ==
  /\ Goto(r, n, "record", "settle")
  /\ record' = [record EXCEPT ![r][n] =
                  IF Kind(n) = "RouterInterface" THEN <<r, n>> ELSE osid[n]]
  /\ UNCHANGED <<infra, agent, rsrc, sg_create_lock, outside>>

Complete(r, n) ==
  /\ Goto(r, n, "settle", "none")
  /\ Agent!Complete(r, n)
  /\ UNCHANGED <<infra, sg_create_lock, record, cloud>>

Finish(r, n) ==
  /\ Kind(n) \notin {"Server", "FloatingIP"}
  /\ Complete(r, n)
  /\ UNCHANGED <<rsrc, attached>>

(* The loop that asks until the server has addresses.                      *)
AddressesCome(r, n) ==
  /\ Kind(n) = "Server"
  /\ Complete(r, n)
  /\ address' = [address EXCEPT ![n] = <<r, n>>]
  /\ UNCHANGED <<osid, associated, attached>>

(* A floating ip without an address to be associated with is left alone.   *)
Associate(r, n) ==
  /\ Kind(n) = "FloatingIP"
  /\ Complete(r, n)
  /\ IF associated[n] = None THEN UNCHANGED attached ELSE
       /\ WellTyped(n)
       /\ \E d \in DependsOn(infra, n) :
            attached' = attached \cup
              {[ip |-> <<r, n>>, server |-> osid[d], address |-> associated[n]]}
  /\ UNCHANGED rsrc

(* A call to refresh or look something up raises, or one after the         *)
(* resource was created and recorded: polling a server, which may also     *)
(* have more interfaces than there is room for, or associating an address. *)
Raises(r, n) ==
  /\ \/ Goto(r, n, "begin", "none") /\ Kind(n) \in {"Server", "RouterGateway"}
     \/ Goto(r, n, "begin", "none") /\ ~WellTyped(n) /\ Kind(n) # "FloatingIP"
     \/ Goto(r, n, "settle", "none") /\ Kind(n) \in {"Server", "FloatingIP"}
  /\ Agent!Abandon(r, n)
  /\ UNCHANGED <<infra, rsrc, sg_create_lock, record, outside>>

Worker(r, n) ==
  \/ Ask(r, n) \/ AcquireLock(r, n) \/ RefixArguments(r, n)
  \/ Created(r, n) \/ CallRaises(r, n) \/ SetOsid(r, n) \/ AddToRecord(r, n)
  \/ Finish(r, n) \/ AddressesCome(r, n) \/ Associate(r, n) \/ Raises(r, n)

Next ==
  \/ Provision \/ Provisioned
  \/ \E r \in Runs, n \in Resources : PerformTask(r, n) \/ Worker(r, n)

Spec == Init /\ [][Next]_vars

(* A thread goes on, and the cloud answers: a call returns or raises, a    *)
(* server gets addresses or an error.                                      *)
FairSpec == Spec /\ \A r \in Runs, n \in Resources : WF_vars(Worker(r, n))

-----------------------------------------------------------------------------
(* Whatever resource a task refers to has its Openstack id by the time the *)
(* task looks: compute_model finds every dependency the arguments make.    *)
Uses(n) == {ref[2] : ref \in {x \in infra.ref[n] : infra.kind[x[2]] = ClassOf[x[1]]}}

IdsAreThere ==
  \A r \in Runs, n \in Resources :
    phase[r][n] = "running" => \A d \in Uses(n) : osid[d] # None

(* A floating ip of a server is associated with an address of the server   *)
(* when its task is done. It is never skipped because the address was      *)
(* looked for too early, which the code would do without an error.         *)
FloatingIpsAssociated ==
  \A r \in Runs, n \in Resources :
    phase[r][n] = "done" /\ Kind(n) = "FloatingIP" /\ Uses(n) # {} =>
      \E a \in attached : a.ip = <<r, n>> /\ a.server # None

(* Whatever fails, the record of a provisioning names all that was created *)
(* in the cloud, but for gateways; what it does not name yet is in the     *)
(* hands of a worker that will add it, as nothing can raise in between.    *)
(* This is for the first provisioning of a model: once there is a second,  *)
(* a late worker of the first and one of the second may each read the id   *)
(* the other has just set, and record that.                                *)
InHand(id) == step[id[1]][id[2]] \in {"identify", "record"}
Named(id) == record[id[1]][id[2]] = id
RecordIsComplete ==
  current <= 1 =>
    \A id \in cloud : Kind(id[2]) # "RouterGateway" => Named(id) \/ InHand(id)

(* Security groups are created one at a time, by the workers of all agents *)
(* together: "this lock will ensure single-threaded operation of this      *)
(* trouble code" (resource_tasks.py:140-141).                              *)
Creating == {id \in Ids : step[id[1]][id[2]] = "calling" /\ Kind(id[2]) = "SecGroup"}
SecGroupsOneAtATime == \A a, b \in Creating : a = b

(* Every task that was begun ends, whatever fails in the others: nobody    *)
(* waits for a lock for ever.                                              *)
TasksEnd ==
  \A r \in Runs, n \in Resources : phase[r][n] = "running" ~> phase[r][n] # "running"

=============================================================================

------------------------------ MODULE Namespace ------------------------------
(***************************************************************************)
(* A namespace model instance (namespace.py): the containers of variables, *)
(* which container each one goes on to when it does not find a name, what  *)
(* each sees, and the hosts of the roles, which decide what is provisioned *)
(* (infra.py).                                                             *)
(*                                                                         *)
(* A container is a path from the model, the empty path: names of          *)
(* attributes, keys of a MultiRole, and Template for the object that a     *)
(* MultiRole makes its instances from. A shape is the model class, with    *)
(* what is tried on it: keys, names, values and infra instances.           *)
(***************************************************************************)
EXTENDS Naturals, SequencesExt

CONSTANTS Shapes,     \* the model classes considered
          Keys,       \* the keys that MultiRoles are indexed with
          Names,      \* names of variables
          Values,     \* values of variables
          RefOf,      \* the component that a value refers to, None for a plain text
          Infras,     \* infra model instances
          Plain,      \* the components that every infra instance starts with
          MaxSets,    \* bound on the Vars added to an instance
          Template,
          None

Root == <<>>
Blank == [n \in Names |-> None]
Kinds == {"model", "role", "group", "multi"}

(* How a role names its host: not at all, as a text that is a variable, as *)
(* a reference to a component, or by an expression that is called and uses *)
(* the key of the role: what is a name, or the path of a component.        *)
Manners == {"none", "text", "ref", "call"}

(* A class has a container for each path, of attributes and Template, and  *)
(* what is in it; what is added later are roles, which nothing is in.      *)
Paths(M) == DOMAIN M.kind
ASSUME NamespaceAssumption ==
  /\ MaxSets \in Nat /\ RefOf \in [Values -> Seq(STRING) \cup {None}]
  /\ None \notin Values /\ None \notin Infras /\ "text" \notin Infras /\ Template \notin Keys
  /\ None \notin Seq({Template} \cup STRING \cup Keys)
  /\ None \notin (Infras \cup {None}) \X Seq({Template} \cup STRING \cup Keys)
  /\ \A M \in Shapes :
       /\ M.kind[Root] = "model" /\ Paths(M) \subseteq Seq({Template} \cup STRING)
       /\ \A p \in Paths(M) : M.kind[p] = "model" => p = Root
       /\ M.kind \in [Paths(M) -> Kinds]
       /\ {M.variables, M.overrides} \subseteq [Paths(M) -> [Names -> Values \cup {None}]]
       /\ Root \in Paths(M)
       /\ \A p \in Paths(M) \ {Root} : Front(p) \in Paths(M) /\ M.kind[Front(p)] # "role"
       /\ \A p \in Paths(M) : Range(p) \cap Keys = {}
       /\ \A p \in Paths(M) : M.host[p].manner \in Manners
       /\ \A p \in Paths(M) :
            M.host[p].manner \in {"ref", "call"} => M.host[p].what \in Seq(STRING)
       /\ M.later \subseteq {p \in Paths(M) : M.kind[p] = "role"}
       /\ M.keys \subseteq Keys /\ M.names \subseteq Names
       /\ M.values \subseteq Values /\ M.infras \subseteq Infras

VARIABLES shape,       \* the model class
          node,        \* the containers there are
          parent,      \* parent_container
          variables, overrides,
          sets,        \* counts the Vars added
          infra,       \* the infra model instance of the namespace
          computed,    \* the infra instances with provisioning_computed
          made,        \* the components of each infra instance
          fixed,       \* the roles, groups and MultiRoles with that flag set
          host,        \* host_ref of each role, as resolved
          excluded, provisioned    \* what was left out and returned, by infra instance

tree == <<shape, node, parent>>
vars_of == <<variables, overrides, sets>>
hosts == <<infra, computed, made, fixed, host, excluded, provisioned>>
vars == <<tree, vars_of, hosts>>

-----------------------------------------------------------------------------
ClassPath(p) == [i \in 1 .. Len(p) |-> IF p[i] \in Keys THEN Template ELSE p[i]]
Kind(p) == shape.kind[ClassPath(p)]
InTemplate(p) == \E i \in DOMAIN p : p[i] = Template
Added(p) == p \in shape.later
Parts == {p \in node \ {Root} : ~InTemplate(p)}
Roles == {p \in Parts : Kind(p) = "role"}

(* The containers that p goes on to, nearest first, and p itself.          *)
Chain == [p \in node |-> LET up[q \in node] == IF parent[q] = None THEN <<q>>
                                               ELSE <<q>> \o up[parent[q]]
                         IN up[p]]

(* find_variable: overrides before variables, then the parent.             *)
VariablesFirst(p, n) ==    \* a deviation
  IF variables[p][n] # None THEN variables[p][n] ELSE overrides[p][n]
Own(p, n) == IF overrides[p][n] # None THEN overrides[p][n] ELSE variables[p][n]

find_variable(p, n) ==
  LET from[q \in node] == IF Own(q, n) # None THEN Own(q, n)
                          ELSE IF parent[q] # None THEN from[parent[q]] ELSE None
  IN from[p]

(* get_visible_vars: the variables of the parents, updated on the way back.*)
Updated(d, e) == [n \in Names |-> IF e[n] # None THEN e[n] ELSE d[n]]
get_visible_vars(p) ==
  LET d[q \in node] ==
        Updated(Updated(IF parent[q] # None THEN d[parent[q]] ELSE Blank,
                        variables[q]), overrides[q])
  IN d[p]

find_infra_model(p, i) == IF Root \in Range(Chain[p]) THEN i ELSE None

-----------------------------------------------------------------------------
(* NamespaceModel.__init__ clones what the class has. A clone of a role    *)
(* drops its overrides, a template has no parent, and what is in a group   *)
(* has the group.                                                          *)
NewParent(p) == IF p = Root \/ Last(p) = Template THEN None ELSE Front(p)
Overrides(p) == IF shape.kind[p] = "role" THEN Blank ELSE shape.overrides[p]

Init ==
  /\ shape \in Shapes
  /\ node = DOMAIN shape.kind \ shape.later
  /\ parent = [p \in node |-> NewParent(p)]
  /\ variables = [p \in node |-> shape.variables[p]]
  /\ overrides = [p \in node |-> Overrides(p)]
  /\ sets = 0
  /\ infra = None /\ computed = {}
  /\ made = [i \in Infras |-> Plain]
  /\ fixed = {} /\ host = [p \in node |-> None]
  /\ excluded = [i \in Infras |-> {}] /\ provisioned = [i \in Infras |-> None]

add_variable(p, n, v) ==
  /\ sets < MaxSets /\ ~InTemplate(p)
  /\ sets' = sets + 1
  /\ variables' = [variables EXCEPT ![p][n] = v]
  /\ UNCHANGED <<tree, overrides, hosts>>

add_override(p, n, v) ==
  /\ sets < MaxSets /\ ~InTemplate(p)
  /\ sets' = sets + 1
  /\ overrides' = [overrides EXCEPT ![p][n] = v]
  /\ UNCHANGED <<tree, variables, hosts>>

(* Containers come to be: what each has, and its place.                    *)
MadeAgain(p) == p \in node /\ (p = Root \/ Last(p) \notin Keys)    \* a deviation
Kept(p) == p \in node

Grow(New, parents, owns, overs) ==    \* functions on the new containers
  /\ node' = node \cup New
  /\ parent' = [p \in node' |-> IF p \in node THEN parent[p] ELSE parents[p]]
  /\ variables' = [p \in node' |-> IF Kept(p) THEN variables[p] ELSE owns[p]]
  /\ overrides' = [p \in node' |-> IF Kept(p) THEN overrides[p] ELSE overs[p]]
  /\ host' = [p \in node' |-> IF p \in node THEN host[p] ELSE None]
  /\ UNCHANGED <<shape, sets, infra, computed, made, fixed, excluded, provisioned>>

(* MultiRole.get_instance for a new key. The constructor of an instance is *)
(* given the attributes of the template and clones them: a role has no     *)
(* parent then, a group or a MultiRole keeps the one it had in the         *)
(* template. Neither the variables nor the overrides of a group are        *)
(* arguments of its constructor. A MultiRole has no name to derive one     *)
(* from, so a template cannot be one.                                      *)
Instances(m, k) ==
  {[x EXCEPT ![Len(m) + 1] = k] : x \in {y \in node : IsPrefix(Append(m, Template), y)}}

NotSet(m, p) == IF Front(p) = m THEN None ELSE NewParent(p)    \* a deviation
SameInTemplate(m, p) ==    \* a deviation
  IF Len(p) = Len(m) + 2 THEN [p EXCEPT ![Len(m) + 1] = Template] ELSE NewParent(p)
InstanceParent(m, p) ==
  CASE Front(p) = m -> m
    [] Last(p) = Template -> None
    [] Len(p) = Len(m) + 2 -> IF Kind(p) = "role" THEN None ELSE Append(m, Template)
    [] OTHER -> Front(p)

get_instance(m, k) ==
  LET New == Instances(m, k)  All == node \cup New IN
  /\ Kind(m) = "multi" /\ ~InTemplate(m)
  /\ Append(m, k) \notin node
  /\ Kind(Append(m, Template)) # "multi"
  /\ Grow(New,
          [p \in New |-> InstanceParent(m, p)],
          [p \in All |-> IF Kind(p) = "group" /\ Front(p) = m THEN Blank
                         ELSE shape.variables[ClassPath(p)]],
          [p \in All |-> IF Front(p) = m THEN Blank ELSE Overrides(ClassPath(p))])

(* add_roles: the clone is given neither a parent nor the model instance.  *)
add_roles(p) ==
  /\ p \in shape.later \ node
  /\ LET All == node \cup {p} IN
     Grow({p}, [q \in All |-> None], [q \in All |-> shape.variables[ClassPath(q)]],
          [q \in All |-> Blank])

-----------------------------------------------------------------------------
set_infra_model(i) ==
  /\ infra = None
  /\ infra' = i
  /\ UNCHANGED <<tree, vars_of, computed, made, fixed, host, excluded, provisioned>>

(* Role._fix_arguments in a namespace with infra model i. A reference that *)
(* finds no infra model stays one into the infra class; an expression      *)
(* raises if the role has no model instance, or that has no infra, and, as *)
(* any callable, it may raise of itself; so may the expansion of a text    *)
(* (Variables). What find_ref_for_obj may make of a text is left to        *)
(* ModelReferences.                                                        *)
Manner(p) == shape.host[ClassPath(p)].manner
CanResolve(p, i) == Manner(p) = "call" => i # None /\ ~Added(p)
MayRaise(p, i) == Manner(p) \in {"text", "call"} \/ ~CanResolve(p, i)
Resolved(p, i) ==
  LET h == shape.host[ClassPath(p)] IN
  CASE h.manner = "none" -> None
    [] h.manner = "text" -> IF find_variable(p, h.what) = None THEN None
                            ELSE <<"text", find_variable(p, h.what)>>
    [] h.manner = "ref"  -> <<find_infra_model(p, i), h.what>>
    [] OTHER             -> <<i, Append(h.what, Last(p))>>

(* fix_arguments begins on the parts in S, and raises on those in failed:  *)
(* fixed is set first, so neither a role that raised nor the containers    *)
(* around it are ever asked again.                                         *)
Fix(S, failed, i) ==
  /\ fixed' = fixed \cup S
  /\ host' = [p \in node |-> IF p \in (S \cap Roles) \ failed THEN Resolved(p, i) ELSE host[p]]

(* What a walk from the model comes to: it stops at what has the flag.     *)
ShutOut(p) == \E k \in 1 .. Len(p) : SubSeq(p, 1, k) \in fixed
Open == {p \in Parts : ~ShutOut(p)}

(* Components come to be in infra instance i when they are referred to.    *)
HostRefs == {host'[p][2] : p \in {q \in Roles : host'[q] # None /\ host'[q][1] # "text"}}
HostsIn(i) == {host'[p][2] : p \in {q \in Roles : host'[q] # None /\ host'[q][1] = i}}
MadeWith(i, X) == IF i = None THEN made ELSE [made EXCEPT ![i] = @ \cup HostsIn(i) \cup X]

(* fix_arguments of one role, as by the agent.                             *)
fix_arguments(p) ==
  /\ p \in Roles \ fixed
  /\ \/ CanResolve(p, infra) /\ Fix({p}, {}, infra)
     \/ MayRaise(p, infra) /\ Fix({p}, {p}, infra)
  /\ made' = MadeWith(infra, {})
  /\ UNCHANGED <<tree, vars_of, infra, computed, excluded, provisioned>>

(* compute_provisioning_for_environ, given components X to exclude: the    *)
(* infra model is set without a look at the one there is, the roles and    *)
(* what is in them are fixed, and compute_provisioning_from_refs makes     *)
(* what the namespace refers to. If a role p raises, the walk ends there:  *)
(* it has begun on what is around p, and is through with whatever else it  *)
(* has begun on, in the order of a dict.                                   *)
WalksTo(p, i) ==
  {S \in SUBSET Open :
     /\ p \in S
     /\ \A q \in S : Front(q) \in S \cup {Root}
     /\ \A q \in S, x \in Open : ~IsPrefix(q, p) /\ IsPrefix(q, x) => x \in S
     /\ \A q \in (S \cap Roles) \ {p} : CanResolve(q, i)}

FixFails(i, X) ==
  /\ \E p \in Open \cap Roles :
       /\ MayRaise(p, i)
       /\ \E S \in WalksTo(p, i) : Fix(S, {p}, i)
  /\ made' = MadeWith(i, X)
  /\ UNCHANGED <<computed, excluded, provisioned>>

(* _get_model_refs: a group asks its leaf roles only, wherever they are in *)
(* it, so the variables of what else is in a group are not looked at; nor  *)
(* is one that is masked by an override in the same container.             *)
InGroup(p) == \E k \in 1 .. Len(p) - 1 : Kind(SubSeq(p, 1, k)) = "group"
Collected(p) == ~InTemplate(p) /\ (Kind(p) = "role" \/ ~InGroup(p))
VariableRefs ==
  {RefOf[Own(x[1], x[2])] : x \in {y \in node \X Names : Collected(y[1]) /\ Own(y[1], y[2]) # None}}
HostsOnly == HostRefs    \* a deviation
ReferredTo == HostRefs \cup (VariableRefs \ {None})

(* The second time it raises; and for a text, which is no reference, when  *)
(* some of the references have been followed.                              *)
TextHost == \E p \in Roles : host'[p] # None /\ host'[p][1] = "text"
BeforeFixing(i) == made[i]    \* a deviation
Components(i) == made'[i]

Compute(i, X) ==
  /\ \A p \in Open \cap Roles : CanResolve(p, i)
  /\ Fix(Open, {}, i)
  /\ computed' = computed \cup {i}
  /\ IF i \in computed \/ TextHost
     THEN /\ \E Y \in SUBSET ReferredTo :
               (i \in computed => Y = {}) /\ made' = MadeWith(i, X \cup Y)
          /\ UNCHANGED <<excluded, provisioned>>
     ELSE /\ made' = MadeWith(i, X \cup ReferredTo)
          /\ excluded' = [excluded EXCEPT ![i] = X]
          /\ provisioned' = [provisioned EXCEPT ![i] = Components(i) \ X]

compute_provisioning_for_environ(i, X) ==
  /\ infra' = i
  /\ FixFails(i, X) \/ Compute(i, X)
  /\ UNCHANGED <<tree, vars_of>>

-----------------------------------------------------------------------------
Next ==
  \/ \E p \in node, n \in shape.names, v \in shape.values : add_variable(p, n, v) \/ add_override(p, n, v)
  \/ \E m \in node, k \in shape.keys : get_instance(m, k)
  \/ \E p \in shape.later : add_roles(p)
  \/ \E i \in shape.infras : set_infra_model(i)
  \/ \E p \in node : fix_arguments(p)
  \/ \E i \in shape.infras, X \in SUBSET (Plain \ {Root}) : compute_provisioning_for_environ(i, X)

Spec == Init /\ [][Next]_vars

-----------------------------------------------------------------------------
(* Types; containers have a place in the class and parents among them, and *)
(* only what is in no template is fixed.                                   *)
TypeOK ==
  /\ shape \in Shapes
  /\ \A p \in node : ClassPath(p) \in DOMAIN shape.kind
  /\ parent \in [node -> node \cup {None}]
  /\ variables \in [node -> [Names -> Values \cup {None}]]
  /\ overrides \in [node -> [Names -> Values \cup {None}]]
  /\ sets \in 0 .. MaxSets
  /\ infra \in Infras \cup {None} /\ computed \subseteq Infras
  /\ fixed \subseteq Parts
  /\ DOMAIN host = node

(* Every search ends: a container goes on to one that is nearer the model, *)
(* or to none, whatever was cloned and indexed.                            *)
ChainsEnd ==
  \A p \in node : parent[p] # None => parent[p] \in node /\ Len(parent[p]) < Len(p)

(* What a container is said to see is what a search from it finds.         *)
VisibleIsFound ==
  \A p \in node : get_visible_vars(p) = [n \in Names |-> find_variable(p, n)]

(* A container sees all containers that enclose it, nearest first, unless  *)
(* it was added or is part of an instance of a group: those are the parts  *)
(* of the class that are cloned without their parents.                     *)
OfInstance(p) == \E i \in 1 .. Len(p) - 1 : p[i] \in Keys /\ Kind(SubSeq(p, 1, i)) = "group"
EnclosingContainersSeen ==
  \A p \in node :
    ~InTemplate(p) /\ ~Added(p) /\ ~OfInstance(p) =>
      Chain[p] = [i \in 1 .. Len(p) + 1 |-> SubSeq(p, 1, Len(p) + 1 - i)]

(* Indexing and adding make new containers and leave what every container  *)
(* there was sees as it was.                                               *)
OthersSeeTheSame ==
  [][node' # node => \A p \in node, n \in Names : find_variable(p, n)' = find_variable(p, n)]_vars

(* When a provisioning is computed, the component that the class names as  *)
(* the host of a role is in it or was to be left out, whatever infra model *)
(* the role was resolved in and whatever failed before; unless fixed was   *)
(* set, before the call, on the role without an outcome or on a container  *)
(* around it.                                                              *)
HostOf(p) ==
  LET h == shape.host[ClassPath(p)] IN
  CASE h.manner = "ref"  -> h.what
    [] h.manner = "call" -> Append(h.what, Last(p))
    [] OTHER             -> None
Holds(i, c) == c = None \/ c \in provisioned'[i] \cup excluded'[i]
HostsAreProvisioned ==
  [][\A i \in Infras :
       provisioned'[i] # provisioned[i] =>
         \A p \in Roles : ~ShutOut(p) \/ host[p] # None => Holds(i, HostOf(p))]_vars

(* When a provisioning is computed, what a variable of the model, of a     *)
(* role, or of a container that is in no group refers to is in it or was   *)
(* to be left out.                                                         *)
VariablesAreProvisioned ==
  [][\A i \in Infras :
       provisioned'[i] # provisioned[i] =>
         \A p \in node, n \in Names :
           ~InTemplate(p) /\ (Kind(p) = "role" \/ ~InGroup(p)) /\ Own(p, n) # None =>
             Holds(i, RefOf[Own(p, n)])]_vars
=============================================================================

---------------------------- MODULE Dependencies ----------------------------
(***************************************************************************)
(* From dependency expressions to the graph an agent performs              *)
(* (actuator/config.py): the | and & operators and TaskGroup, the check    *)
(* for cycles when a config model class is made, and get_graph() of an     *)
(* instance, which expands MultiTask and ConfigClassTask.                  *)
(*                                                                         *)
(* Tasks and expressions are the values the constructors build:            *)
(*   plain   [kind, name]                                                  *)
(*   multi   [kind, name, instances]  MultiTask with its clones, one for   *)
(*                                    each role of its list                *)
(*   class   [kind, name, model]      ConfigClassTask, model the inner one *)
(*   rendezvous [kind, name]          the exit of a multi or a class       *)
(*   dep     [kind, from, to]         from | to                            *)
(*   group   [kind, args]             a & b, TaskGroup(a, b, ...)          *)
(* and a config model is a record of its tasks and the arguments of        *)
(* with_dependencies. Lists are sets: no order of theirs reaches a graph.  *)
(* What the constructors are given exists before what they build, so       *)
(* recursive functions on expressions are well-founded: Depth says how.    *)
(*                                                                         *)
(* What changes is the attribute dependencies of a ConfigClassTask: an     *)
(* iterator, filled by fix_arguments, that gives its edges once. All that  *)
(* get_graph does happens in one thread; a call is one action.             *)
(***************************************************************************)
EXTENDS Naturals, FiniteSets, Graphs

CONSTANTS Models,       \* the config models considered
          Expressions,  \* their tasks and expressions, with all their parts
          Depth,        \* how many constructors are nested in each
          MaxCalls      \* bound on the calls of get_graph

ASSUME MaxCallsAssumption == MaxCalls \in Nat

VARIABLES model,     \* the config model; never changes
          stage,     \* whether its class was made, or the cycle check raised
          expansion, \* for each task: not fixed, fixed, or iterator used up
          graph,     \* what the last get_graph returned
          calls      \* the number of calls of get_graph
vars == <<model, stage, expansion, graph, calls>>

Rendezvous(t) == [kind |-> "rendezvous", name |-> t.name]
IsContainer(t) == t.kind \in {"multi", "class"}
IsTask(e) == e.kind = "plain" \/ IsContainer(e)

(* What an expression is made from.                                        *)
Operands(e) == CASE e.kind = "dep" -> {e.from, e.to}
                 [] e.kind = "group" -> e.args
                 [] OTHER -> {}
Members(t) == CASE t.kind = "multi" -> t.instances
                [] t.kind = "class" -> t.model.tasks
                [] OTHER -> {}
InnerDeps(t) == IF t.kind = "class" THEN t.model.deps ELSE {}
Parts(e) == Operands(e) \cup Members(e) \cup InnerDeps(e)

ASSUME ExpressionsAssumption ==
  /\ IsFiniteSet(Expressions)
  /\ \A e \in Expressions : IsTask(e) \/ e.kind \in {"dep", "group"}
  /\ UNION {Parts(e) : e \in Expressions} \subseteq Expressions
  /\ Depth \in [Expressions -> Nat]
  /\ \A e \in Expressions : \A p \in Parts(e) : Depth[p] < Depth[e]

(* The tasks an expression mentions. A model has them all: clone raises    *)
(* for others.                                                             *)
Mentioned[e \in Expressions] ==
  IF IsTask(e) THEN {e} ELSE UNION {Mentioned[o] : o \in Operands(e)}

WellFormed(tasks, deps) ==
  (\A t \in tasks : IsTask(t)) /\ \A d \in deps : Mentioned[d] \subseteq tasks

ASSUME ModelsAssumption ==
  /\ UNION {M.tasks \cup M.deps : M \in Models} \subseteq Expressions
  /\ \A M \in Models : WellFormed(M.tasks, M.deps)
  /\ \A e \in Expressions : WellFormed(Members(e), InnerDeps(e))

-----------------------------------------------------------------------------
(* The algebra. The deviations are slips the properties must notice.       *)

Firsts(e) == IF e.kind = "dep" THEN {e.from} ELSE Operands(e)
EntryNodes[e \in Expressions] ==
  IF IsTask(e) THEN {e} ELSE UNION {EntryNodes[o] : o \in Firsts(e)}

ExitOf(t) == IF IsContainer(t) THEN Rendezvous(t) ELSE t
Lasts(e) == IF e.kind = "dep" THEN {e.to} ELSE Operands(e)
ExitNodes[e \in Expressions] ==
  IF IsTask(e) THEN {ExitOf(e)} ELSE UNION {ExitNodes[o] : o \in Lasts(e)}

JoinSwapped(e) == ExitNodes[e.to] \X EntryNodes[e.from]    \* a deviation
Join(e) == ExitNodes[e.from] \X EntryNodes[e.to]

Unpack[e \in Expressions] ==
  (UNION {Unpack[o] : o \in Operands(e)}) \cup IF e.kind = "dep" THEN Join(e) ELSE {}

(* The edges of the dependencies of a model, its containers left closed.   *)
ClassEdges(M) == UNION {Unpack[e] : e \in M.deps}

DiGraph(tasks, edges) ==
  [node |-> tasks \cup {e[1] : e \in edges} \cup {e[2] : e \in edges}, edge |-> edges]

(* The pairs of nodes that a path of G, of no edge at least, leads along.  *)
(* As ConnectionsIn of Graphs, but as a set, which can be reasoned about.  *)
Paths(G) ==
  LET Via[N \in SUBSET G.node] ==    \* no other nodes in between
        IF N = {} THEN {<<n, n>> : n \in G.node} \cup G.edge
        ELSE LET u == CHOOSE u \in N : TRUE
                 P == Via[N \ {u}]
             IN  P \cup {x \in G.node : <<x, u>> \in P} \X {y \in G.node : <<u, y>> \in P}
  IN  Via[G.node]

Cyclic(G) == LET P == Paths(G) IN \E e \in G.edge : <<e[2], e[1]>> \in P

ForgivingCheck(M) ==    \* a deviation: nothing but t | t is found
  \A e \in ClassEdges(M) : e[1] # e[2]
Acceptable(M) == ~Cyclic(DiGraph(M.tasks, ClassEdges(M)))

-----------------------------------------------------------------------------
(* The containers. Fresh(t): the edges t.unpack() gives the first time     *)
(* after t was fixed; Again(t): those it gives after that, when the        *)
(* iterators of the ConfigClassTasks in it are used up. In _fix_arguments  *)
(* of a ConfigClassTask the edges inside it are unpacked twice: for the    *)
(* graph whose ends it connects to itself and its rendezvous, and then to  *)
(* be kept.                                                                *)

EntriesForgotten(t, G) == {<<n, Rendezvous(t)>> : n \in Leaves(G)}    \* a deviation
EndsOf(t, G) == {<<t, n>> : n \in Roots(G)} \cup {<<n, Rendezvous(t)>> : n \in Leaves(G)}

InstanceEdges(t) ==
  {<<t, i>> : i \in t.instances} \cup {<<ExitOf(i), Rendezvous(t)>> : i \in t.instances}

Again[t \in Expressions] ==
  (UNION {Again[m] : m \in Members(t)}) \cup IF t.kind = "multi" THEN InstanceEdges(t) ELSE {}

(* Given the edges its members give the first time.                        *)
ModelEdges(t, first) ==
  LET edges == ClassEdges(t.model)
  IN  EndsOf(t, DiGraph(t.model.tasks, edges \cup first))
        \cup edges \cup UNION {Again[m] : m \in t.model.tasks}

FirstEdges(t, inner) ==
  CASE t.kind = "multi" -> InstanceEdges(t) \cup inner
    [] t.kind = "class" -> ModelEdges(t, inner)
    [] OTHER -> {}
Fresh[t \in Expressions] == FirstEdges(t, UNION {Fresh[m] : m \in Members(t)})

(* What t.unpack() gives.                                                  *)
Unpacked(t, state) ==
  CASE state = "unfixed" -> {}
    [] state = "fixed" -> Fresh[t]
    [] state = "used" -> Again[t]

-----------------------------------------------------------------------------
NoGraph == [node |-> {}, edge |-> {}]

Init ==
  /\ model \in Models
  /\ stage = "declared"
  /\ expansion = [t \in model.tasks |-> "unfixed"]
  /\ graph = NoGraph
  /\ calls = 0

(* ConfigModelMeta.__new__ makes the class, or raises ConfigException.     *)
MakeClass ==
  /\ stage = "declared"
  /\ stage' = IF Acceptable(model) THEN "made" ELSE "rejected"
  /\ UNCHANGED <<model, expansion, graph, calls>>

FixedNow(state) == IF state = "unfixed" THEN "fixed" ELSE state

(* Anybody may ask a task of an instance for its role, host or variables,  *)
(* and thereby fix its arguments.                                          *)
FixArguments(t) ==
  /\ stage = "made"
  /\ t \in model.tasks
  /\ expansion' = [expansion EXCEPT ![t] = FixedNow(@)]
  /\ UNCHANGED <<model, stage, graph, calls>>

NoFix(state) == state    \* a deviation: with_fix is ignored
WithFix(state) == FixedNow(state)

(* get_graph(with_fix=True), as perform_config calls it.                   *)
GetGraph ==
  /\ stage = "made"
  /\ calls < MaxCalls
  /\ calls' = calls + 1
  /\ LET now == [t \in model.tasks |-> WithFix(expansion[t])]
     IN  /\ graph' = DiGraph(model.tasks,
                             ClassEdges(model) \cup UNION {Unpacked(t, now[t]) : t \in model.tasks})
         /\ expansion' = [t \in model.tasks |->
                            IF now[t] = "fixed" THEN "used" ELSE now[t]]
  /\ UNCHANGED <<model, stage>>

Next == MakeClass \/ (\E t \in model.tasks : FixArguments(t)) \/ GetGraph

Spec == Init /\ [][Next]_vars

-----------------------------------------------------------------------------
(* What a model says, independent of how it is expanded: for from | to all *)
(* of from comes before all of to, and all that is in a container comes    *)
(* between the container and its rendezvous.                               *)

Inside[e \in Expressions] ==
  (UNION {Inside[p] : p \in Operands(e) \cup Members(e)})
    \cup IF IsTask(e) THEN {e, ExitOf(e)} ELSE {}

Around(t, all) == ({t} \X (all \cup {ExitOf(t)})) \cup (all \X {ExitOf(t)})
SaidBy(e) ==
  CASE e.kind = "dep" -> Inside[e.from] \X Inside[e.to]
    [] IsContainer(e) -> Around(e, UNION {Inside[m] : m \in Members(e)})
    [] OTHER -> {}
Said[e \in Expressions] == SaidBy(e) \cup UNION {Said[p] : p \in Parts(e)}

Order(M) ==
  DiGraph(UNION {Inside[t] : t \in M.tasks},
          UNION {Said[e] : e \in M.deps \cup M.tasks})

(* Containers and rendezvous do nothing themselves; these do.              *)
Work(nodes) == {n \in nodes : n.kind = "plain"}

(* Nothing is left out: whatever is in the model, at any depth, is a node  *)
(* of the graph, so that the agent performs it before it says it is done.  *)
(* And the nodes are tasks, never expressions ("the workflow machinery can *)
(* only operate on dependencies involving performable tasks",              *)
(* config.py:822-823).                                                     *)
NothingLeftOut ==
  calls > 0 => /\ IsDirectedGraph(graph)
               /\ \A n \in graph.node : IsContainer(n) \/ n.kind \in {"plain", "rendezvous"}
               /\ Work(graph.node) = Work(Order(model).node)

(* Whatever the expressions say must come first does: every order they     *)
(* imply between two tasks is a path of the graph, through any nesting of  *)
(* | and & and through the inside of containers.                           *)
OrderKept ==
  calls > 0 =>
    LET work == Work(Order(model).node)
    IN  Order(model).edge \cap (work \X work) \subseteq Paths(graph)

(* "Tasks that aren't subject to explicit '|' dependencies are implicitly  *)
(* treated as being able to be performed in parallel": a path of the graph *)
(* is an order the expressions imply.                                      *)
NothingElseOrdered == calls > 0 => graph.edge \subseteq Paths(Order(model))

(* A model is rejected for a cycle only if its expressions have one, and a *)
(* cycle of plain tasks is always found.                                   *)
CycleCheck ==
  /\ stage = "rejected" => Cyclic(Order(model))
  /\ stage = "made" /\ (\A t \in model.tasks : ~IsContainer(t)) => ~Cyclic(Order(model))

(* The expressions for which nothing is lost: a group or a container with  *)
(* nothing in it cuts the order through it, a ConfigClassTask at any depth *)
(* in another loses its ends (the run deps_nested shows it), and a model   *)
(* that orders its tasks in a circle through a container has no ends.      *)
Regular(e) ==
  /\ e.kind = "group" => e.args # {}
  /\ IsContainer(e) => Members(e) # {}
  /\ e.kind = "class" => /\ \A n \in UNION {Inside[m] : m \in Members(e)} : n.kind # "class"
                         /\ ~Cyclic(Order(e.model))
AllRegular == \A e \in Expressions : Regular(e)
=============================================================================

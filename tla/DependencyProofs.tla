------------------------- MODULE DependencyProofs ---------------------------
(***************************************************************************)
(* The invariants of Dependencies for every config model, its expressions  *)
(* of any size and depth, over plain tasks, MultiTasks and                 *)
(* ConfigClassTasks. DepInv is the inductive invariant; it says which of   *)
(* the edges of its model a graph has, by the state of the iterators, and  *)
(* the rest is about the edges. The upper bound: an edge of a part of an   *)
(* expression is one the expression says, so what get_graph returns is a   *)
(* part of what the model says. The lower bound: whatever is in an         *)
(* expression lies on a path from an entry to an exit of it, so an edge    *)
(* from each exit to each entry orders all that is in the one before all   *)
(* that is in the other. Both go by induction over expressions. At the     *)
(* end TaskGraph, the promise of the agent, and the two together.          *)
(***************************************************************************)
EXTENDS Dependencies, Recursion, FiniteSetTheorems

(* Paths. The recursive definition of them goes over sets of nodes, as     *)
(* the algorithm of Warshall does.                                         *)

(* A relation that is one of paths: transitive, and reflexive on N.        *)
IsPath(R, N) ==
  /\ \A x \in N : <<x, x>> \in R
  /\ \A x, y, z : <<x, y>> \in R /\ <<y, z>> \in R => <<x, z>> \in R

Onward(G, P, u) == P \cup {x \in G.node : <<x, u>> \in P} \X {y \in G.node : <<u, y>> \in P}
Warshall(G, V) ==
  /\ V[{}] = {<<n, n>> : n \in G.node} \cup G.edge
  /\ \A N \in SUBSET G.node : N # {} =>
       \E u \in N : V[N] = Onward(G, V[N \ {u}], u)

(* Paths is what its recursive definition says.                            *)
LEMMA PathsRecursion ==
  ASSUME NEW G, IsFiniteSet(G.node), G.edge \subseteq G.node \X G.node
  PROVE  \E V \in [SUBSET G.node -> SUBSET (G.node \X G.node)] :
           Warshall(G, V) /\ Paths(G) = V[G.node]
<1>. DEFINE T == SUBSET (G.node \X G.node)
            Via[N \in SUBSET G.node] ==
              IF N = {} THEN {<<n, n>> : n \in G.node} \cup G.edge
              ELSE LET u == CHOOSE u \in N : TRUE
                       P == Via[N \ {u}]
                   IN  P \cup {x \in G.node : <<x, u>> \in P} \X {y \in G.node : <<u, y>> \in P}
            first == {<<n, n>> : n \in G.node} \cup G.edge
            pick(N) == CHOOSE u \in N : TRUE
            S == SUBSET G.node
            Base == {{}}
            up == [N \in S |-> N \ {pick(N)}]
            rank == [N \in S |-> Cardinality(N)]
            B == [N \in S |-> first]
            H == [q \in S \X T |-> Onward(G, q[2], pick(q[1]))]
<1>1. \A N \in S : N # {} => pick(N) \in N OBVIOUS
<1>2. Descends(S, Base, up, rank)
  <2>1. \A N \in S : Cardinality(N) \in Nat /\ IsFiniteSet(N) BY FS_Subset, FS_CardinalityType
  <2>2. \A N \in S : \A u \in N : Cardinality(N \ {u}) = Cardinality(N) - 1
    BY <2>1, FS_RemoveElement
  <2>3. rank \in [S -> Nat] BY <2>1
  <2>. HIDE DEF pick
  <2>4. ASSUME NEW N \in S \ Base PROVE up[N] \in S /\ rank[up[N]] < rank[N]
    <3>1. pick(N) \in N BY <1>1
    <3>2. up[N] = N \ {pick(N)} /\ up[N] \in S OBVIOUS
    <3>3. Cardinality(up[N]) = Cardinality(N) - 1 BY <2>2, <3>1, <3>2
    <3>4. rank[up[N]] = Cardinality(up[N]) /\ rank[N] = Cardinality(N) BY <3>2
    <3>5. Cardinality(N) \in Nat BY <2>1
    <3>. QED BY <3>2, <3>3, <3>4, <3>5
  <2>. QED BY <2>3, <2>4 DEF Descends
<1>3. first \in T OBVIOUS
<1>4. \A P \in T, u \in G.node : Onward(G, P, u) \in T BY DEF Onward
<1>5. Recursive(S, Base, up, rank, T, B, H)
  <2>1. \A q \in S \cap Base : B[q] \in T BY <1>3
  <2>2. \A q \in S \ Base, v \in T : H[<<q, v>>] \in T BY <1>1, <1>4
  <2>. HIDE DEF T, first, up, rank, S, Base, H, B
  <2>. QED BY <1>2, <2>1, <2>2 DEF Recursive
<1>6. PICK f \in [S -> T] : f = Step(S, Base, up, B, H, f)
  <2>. HIDE DEF S, T, B, H, up, rank, Base
  <2>. QED BY <1>5, RecursiveFunction
<1>7. \A N \in S : f[N] = IF N = {} THEN first ELSE Onward(G, f[N \ {pick(N)}], pick(N))
  <2>1. \A N \in S : N \ {pick(N)} \in S OBVIOUS
  <2>. HIDE DEF T, first, pick
  <2>. QED BY <1>6, <2>1 DEF Step
<1>8. f = [N \in SUBSET G.node |->
             IF N = {} THEN {<<n, n>> : n \in G.node} \cup G.edge
             ELSE LET u == CHOOSE u \in N : TRUE
                      P == f[N \ {u}]
                  IN  P \cup {x \in G.node : <<x, u>> \in P} \X {y \in G.node : <<u, y>> \in P}]
  BY <1>7 DEF Onward
<1>9. Via = [N \in SUBSET G.node |->
             IF N = {} THEN {<<n, n>> : n \in G.node} \cup G.edge
             ELSE LET u == CHOOSE u \in N : TRUE
                      P == Via[N \ {u}]
                  IN  P \cup {x \in G.node : <<x, u>> \in P} \X {y \in G.node : <<u, y>> \in P}]
  <2>1. \E g : g = [N \in SUBSET G.node |->
             IF N = {} THEN {<<n, n>> : n \in G.node} \cup G.edge
             ELSE LET u == CHOOSE u \in N : TRUE
                      P == g[N \ {u}]
                  IN  P \cup {x \in G.node : <<x, u>> \in P} \X {y \in G.node : <<u, y>> \in P}]
    BY <1>8
  <2>. QED BY <2>1 DEF Via
<1>10. Paths(G) = Via[G.node] BY DEF Paths
<1>. HIDE DEF Via
<1>11. Via[{}] = first BY <1>9
<1>12. \A N \in S : N # {} => Via[N] = Onward(G, Via[N \ {pick(N)}], pick(N))
  BY <1>9 DEF Onward
<1>13. Warshall(G, Via)
  <2>. HIDE DEF pick
  <2>. QED BY <1>1, <1>11, <1>12 DEF Warshall
<1>14. Via \in [S -> T]
  <2>. DEFINE Good == {N \in S : Via[N] \in T}
              part == [N \in S |-> IF N = {} THEN {} ELSE {N \ {pick(N)}}]
  <2>1. Built(S, part, rank)
    <3>. HIDE DEF pick, rank
    <3>1. \A N \in S : N \ {pick(N)} \in S OBVIOUS
    <3>. QED BY <1>2, <3>1 DEF Built, Descends
  <2>2. \A N \in S : part[N] \subseteq Good => N \in Good
    <3>. SUFFICES ASSUME NEW N \in S, part[N] \subseteq Good PROVE Via[N] \in T
      OBVIOUS
    <3>1. CASE N = {} BY <3>1, <1>3, <1>11
    <3>2. CASE N # {}
      <4>. HIDE DEF pick, T
      <4>1. N \ {pick(N)} \in Good BY <3>2
      <4>2. pick(N) \in G.node BY <1>1, <3>2
      <4>3. Via[N \ {pick(N)}] \in T BY <4>1
      <4>4. Via[N] = Onward(G, Via[N \ {pick(N)}], pick(N)) BY <1>12, <3>2
      <4>5. Onward(G, Via[N \ {pick(N)}], pick(N)) \in T BY <1>4, <4>2, <4>3
      <4>. QED BY <4>4, <4>5
    <3>. QED BY <3>1, <3>2
  <2>3. S \subseteq Good
    <3>. HIDE DEF Good, part, rank, S, T
    <3>. QED BY <2>1, <2>2, PartsInduction
  <2>4. Via = [N \in S |-> Via[N]] BY <1>9
  <2>. QED BY <2>3, <2>4
<1>. QED BY <1>10, <1>13, <1>14

(* Paths(G) has the edges of G, and is the least relation of paths that    *)
(* has them.                                                               *)
LEMMA PathsArePaths ==
  ASSUME NEW G, IsFiniteSet(G.node), G.edge \subseteq G.node \X G.node
  PROVE  /\ Paths(G) \subseteq G.node \X G.node
         /\ G.edge \subseteq Paths(G)
         /\ IsPath(Paths(G), G.node)
         /\ \A R : IsPath(R, G.node) /\ G.edge \subseteq R => Paths(G) \subseteq R
<1>1. PICK V \in [SUBSET G.node -> SUBSET (G.node \X G.node)] :
        Warshall(G, V) /\ Paths(G) = V[G.node]
  BY PathsRecursion
<1>. DEFINE S == SUBSET G.node
            rank == [N \in S |-> Cardinality(N)]
            part == [N \in S |-> {M \in S : Cardinality(M) < Cardinality(N)}]
<1>2. \A N \in S : IsFiniteSet(N) /\ Cardinality(N) \in Nat BY FS_Subset, FS_CardinalityType
<1>3. Built(S, part, rank) BY <1>2 DEF Built
<1>4. \A N \in S : \A u \in N : N \ {u} \in part[N]
  <2>. SUFFICES ASSUME NEW N \in S, NEW u \in N
                PROVE N \ {u} \in S /\ Cardinality(N \ {u}) < Cardinality(N)
    OBVIOUS
  <2>1. Cardinality(N \ {u}) = Cardinality(N) - 1 BY <1>2, FS_RemoveElement
  <2>. QED BY <1>2, <2>1
<1>5. \A N \in S : N # {} => \E u \in N : N \ {u} \in part[N] /\ V[N] = Onward(G, V[N \ {u}], u)
  BY <1>1, <1>4 DEF Warshall
<1>. HIDE DEF part, rank
<1>6. \A N \in S : {<<n, n>> : n \in G.node} \cup G.edge \subseteq V[N]
  <2>. DEFINE Good == {N \in S : {<<n, n>> : n \in G.node} \cup G.edge \subseteq V[N]}
  <2>1. \A N \in S : part[N] \subseteq Good => N \in Good
    <3>. SUFFICES ASSUME NEW N \in S, part[N] \subseteq Good
                  PROVE  {<<n, n>> : n \in G.node} \cup G.edge \subseteq V[N]
      OBVIOUS
    <3>1. CASE N = {} BY <1>1, <3>1 DEF Warshall
    <3>2. CASE N # {}
      <4>1. PICK u \in N : N \ {u} \in part[N] /\ V[N] = Onward(G, V[N \ {u}], u) BY <1>5, <3>2
      <4>. QED BY <4>1 DEF Onward
    <3>. QED BY <3>1, <3>2
  <2>2. S \subseteq Good
    <3>. HIDE DEF Good
    <3>. QED BY <1>3, <2>1, PartsInduction
  <2>. QED BY <2>2
<1>7. \A N \in S : \A u \in N, x, y \in G.node : <<x, u>> \in V[N] /\ <<u, y>> \in V[N] => <<x, y>> \in V[N]
  <2>. DEFINE Meets(N) == \A u \in N, x, y \in G.node :
                            <<x, u>> \in V[N] /\ <<u, y>> \in V[N] => <<x, y>> \in V[N]
              Good == {N \in S : Meets(N)}
  <2>1. ASSUME NEW N \in S, part[N] \subseteq Good PROVE Meets(N)
    <3>. SUFFICES ASSUME NEW v \in N, NEW x \in G.node, NEW y \in G.node,
                         <<x, v>> \in V[N], <<v, y>> \in V[N]
                  PROVE  <<x, y>> \in V[N]
      OBVIOUS
    <3>1. PICK u \in N : N \ {u} \in part[N] /\ V[N] = Onward(G, V[N \ {u}], u) BY <1>5
    <3>. DEFINE P == V[N \ {u}]
    <3>2. Meets(N \ {u}) BY <2>1, <3>1
    <3>3. \A a, b \in G.node : <<a, b>> \in V[N] <=> <<a, b>> \in P \/ (<<a, u>> \in P /\ <<u, b>> \in P)
      BY <3>1 DEF Onward
    <3>4. u \in G.node /\ v \in G.node OBVIOUS
    <3>5. CASE v = u BY <3>3, <3>4, <3>5
    <3>6. CASE v # u
      <4>1. \A a, b \in G.node : <<a, v>> \in P /\ <<v, b>> \in P => <<a, b>> \in P BY <3>2, <3>6
      <4>. HIDE DEF P, Meets
      <4>. QED BY <3>3, <3>4, <4>1
    <3>. QED BY <3>5, <3>6
  <2>2. \A N \in S : part[N] \subseteq Good => N \in Good
    <3>. HIDE DEF Meets
    <3>. QED BY <2>1
  <2>3. S \subseteq Good
    <3>. HIDE DEF Good
    <3>. QED BY <1>3, <2>2, PartsInduction
  <2>. QED BY <2>3
<1>8. ASSUME NEW R, IsPath(R, G.node), G.edge \subseteq R PROVE \A N \in S : V[N] \subseteq R
  <2>. DEFINE Good == {N \in S : V[N] \subseteq R}
  <2>1. \A N \in S : part[N] \subseteq Good => N \in Good
    <3>. SUFFICES ASSUME NEW N \in S, part[N] \subseteq Good PROVE V[N] \subseteq R
      OBVIOUS
    <3>1. CASE N = {} BY <1>1, <1>8, <3>1 DEF Warshall, IsPath
    <3>2. CASE N # {}
      <4>1. PICK u \in N : N \ {u} \in part[N] /\ V[N] = Onward(G, V[N \ {u}], u) BY <1>5, <3>2
      <4>2. V[N \ {u}] \subseteq R BY <4>1
      <4>. QED BY <1>8, <4>1, <4>2 DEF Onward, IsPath
    <3>. QED BY <3>1, <3>2
  <2>2. S \subseteq Good
    <3>. HIDE DEF Good
    <3>. QED BY <1>3, <2>1, PartsInduction
  <2>. QED BY <2>2
<1>9. Paths(G) \subseteq G.node \X G.node BY <1>1
<1>10. G.edge \subseteq Paths(G) BY <1>1, <1>6
<1>11. IsPath(Paths(G), G.node)
  <2>1. \A x, y, z : <<x, y>> \in Paths(G) /\ <<y, z>> \in Paths(G) => <<x, z>> \in Paths(G)
    BY <1>1, <1>7, <1>9
  <2>. QED BY <1>1, <1>6, <2>1 DEF IsPath
<1>12. \A R : IsPath(R, G.node) /\ G.edge \subseteq R => Paths(G) \subseteq R BY <1>1, <1>8
<1>. QED BY <1>9, <1>10, <1>11, <1>12

-----------------------------------------------------------------------------
(* The recursive functions on expressions.                                 *)

Tasks == {e \in Expressions : IsTask(e)}
Nodes == Tasks \cup {Rendezvous(t) : t \in Tasks}
Pairs == Nodes \X Nodes

Of(part(_)) == [e \in Expressions |-> part(e)]
InnerParts(e) == Operands(e) \cup Members(e)

(* Every way the constructors of config.py nest an expression goes down    *)
(* in depth.                                                               *)
LEMMA PartsBuilt ==
  /\ Built(Expressions, Of(Parts), Depth)
  /\ Built(Expressions, Of(Operands), Depth)
  /\ Built(Expressions, Of(Members), Depth)
  /\ Built(Expressions, Of(Firsts), Depth)
  /\ Built(Expressions, Of(Lasts), Depth)
  /\ Built(Expressions, Of(InnerParts), Depth)
<1>1. \A e \in Expressions : Firsts(e) \subseteq Operands(e) /\ Lasts(e) \subseteq Operands(e)
  BY DEF Firsts, Lasts, Operands
<1>2. \A e \in Expressions : Parts(e) \subseteq Expressions /\ \A p \in Parts(e) : Depth[p] < Depth[e]
  BY ExpressionsAssumption
<1>3. \A e \in Expressions : Operands(e) \subseteq Parts(e) /\ Members(e) \subseteq Parts(e)
  BY DEF Parts
<1>4. Depth \in [Expressions -> Nat] BY ExpressionsAssumption
<1>. QED BY <1>1, <1>2, <1>3, <1>4 DEF Built, Of, InnerParts

(* A recursive definition over the parts of expressions has a solution.    *)
LEMMA OnExpressions ==
  ASSUME NEW parts, Built(Expressions, parts, Depth), NEW X, NEW H, Given(Expressions, X, H)
  PROVE  \E f \in [Expressions -> SUBSET X] : \A e \in Expressions :
           f[e] = H[<<e, Gathered(parts, f, e)>>] /\ Gathered(parts, f, e) \in SUBSET X
<1>1. PICK f \in [Expressions -> SUBSET X] : Follows(Expressions, parts, H, f) BY RecursionOverParts
<1>2. \A e \in Expressions : Gathered(parts, f, e) \in SUBSET X BY DEF Gathered, Built
<1>. QED BY <1>1, <1>2 DEF Follows

(* Mentioned is what its recursive definition says, and gives tasks. The   *)
(* same is said of the other recursive functions below.                    *)
LEMMA MentionedDef ==
  \A e \in Expressions :
    /\ Mentioned[e] = IF IsTask(e) THEN {e} ELSE UNION {Mentioned[o] : o \in Operands(e)}
    /\ Mentioned[e] \subseteq Tasks
<1>. DEFINE parts == Of(Operands)
            H == [x \in Expressions \X SUBSET Tasks |-> IF IsTask(x[1]) THEN {x[1]} ELSE x[2]]
<1>1. Built(Expressions, parts, Depth) /\ \A e \in Expressions : parts[e] = Operands(e)
  BY PartsBuilt DEF Of
<1>2. \A e \in Expressions : \A U \in SUBSET Tasks : (IF IsTask(e) THEN {e} ELSE U) \in SUBSET Tasks
  BY DEF Tasks
<1>3. Given(Expressions, Tasks, H) BY <1>2 DEF Given
<1>4. PICK f \in [Expressions -> SUBSET Tasks] : \A e \in Expressions :
        f[e] = H[<<e, Gathered(parts, f, e)>>] /\ Gathered(parts, f, e) \in SUBSET Tasks
  <2>. HIDE DEF parts, H
  <2>. QED BY <1>1, <1>3, OnExpressions
<1>5. \A e \in Expressions : f[e] = IF IsTask(e) THEN {e} ELSE Gathered(parts, f, e) BY <1>4
<1>6. \A e \in Expressions : Gathered(parts, f, e) = UNION {f[o] : o \in Operands(e)}
  BY <1>1 DEF Gathered
<1>. HIDE DEF parts, H
<1>7. f = [e \in Expressions |-> IF IsTask(e) THEN {e} ELSE UNION {f[o] : o \in Operands(e)}]
  BY <1>5, <1>6
<1>8. Mentioned = [e \in Expressions |->
        IF IsTask(e) THEN {e} ELSE UNION {Mentioned[o] : o \in Operands(e)}]
  <2>1. \E g : g = [e \in Expressions |->
          IF IsTask(e) THEN {e} ELSE UNION {g[o] : o \in Operands(e)}]
    BY <1>7
  <2>. QED BY <2>1 DEF Mentioned
<1>9. \A e \in Expressions : Mentioned[e] = IF IsTask(e) THEN {e} ELSE UNION {Mentioned[o] : o \in Operands(e)}
  BY <1>8
<1>10. \A e \in Expressions : Gathered(parts, Mentioned, e) = UNION {Mentioned[o] : o \in Operands(e)}
  BY <1>1 DEF Gathered
<1>11. Inherited(Expressions, parts, Tasks, Mentioned)
  <2>1. ASSUME NEW e \in Expressions, Gathered(parts, Mentioned, e) \in SUBSET Tasks
        PROVE Mentioned[e] \in SUBSET Tasks
    <3>. DEFINE U == Gathered(parts, Mentioned, e)
    <3>1. Mentioned[e] = IF IsTask(e) THEN {e} ELSE U BY <1>9, <1>10
    <3>. QED BY <1>2, <2>1, <3>1
  <2>. QED BY <2>1 DEF Inherited
<1>12. \A e \in Expressions : Mentioned[e] \subseteq Tasks BY <1>1, <1>11, GatheredType
<1>. QED BY <1>9, <1>12

(* The nodes a dependency on an expression goes to.                        *)
LEMMA EntryNodesDef ==
  \A e \in Expressions :
    /\ EntryNodes[e] = IF IsTask(e) THEN {e} ELSE UNION {EntryNodes[o] : o \in Firsts(e)}
    /\ EntryNodes[e] \subseteq Nodes
<1>. DEFINE parts == Of(Firsts)
            H == [x \in Expressions \X SUBSET Nodes |-> IF IsTask(x[1]) THEN {x[1]} ELSE x[2]]
<1>1. Built(Expressions, parts, Depth) /\ \A e \in Expressions : parts[e] = Firsts(e)
  BY PartsBuilt DEF Of
<1>2. \A e \in Expressions : \A U \in SUBSET Nodes : (IF IsTask(e) THEN {e} ELSE U) \in SUBSET Nodes
  BY DEF Tasks, Nodes
<1>3. Given(Expressions, Nodes, H) BY <1>2 DEF Given
<1>4. PICK f \in [Expressions -> SUBSET Nodes] : \A e \in Expressions :
        f[e] = H[<<e, Gathered(parts, f, e)>>] /\ Gathered(parts, f, e) \in SUBSET Nodes
  <2>. HIDE DEF parts, H
  <2>. QED BY <1>1, <1>3, OnExpressions
<1>5. \A e \in Expressions : f[e] = IF IsTask(e) THEN {e} ELSE Gathered(parts, f, e) BY <1>4
<1>6. \A e \in Expressions : Gathered(parts, f, e) = UNION {f[o] : o \in Firsts(e)}
  BY <1>1 DEF Gathered
<1>. HIDE DEF parts, H
<1>7. f = [e \in Expressions |-> IF IsTask(e) THEN {e} ELSE UNION {f[o] : o \in Firsts(e)}]
  BY <1>5, <1>6
<1>8. EntryNodes = [e \in Expressions |->
        IF IsTask(e) THEN {e} ELSE UNION {EntryNodes[o] : o \in Firsts(e)}]
  <2>1. \E g : g = [e \in Expressions |-> IF IsTask(e) THEN {e} ELSE UNION {g[o] : o \in Firsts(e)}]
    BY <1>7
  <2>. QED BY <2>1 DEF EntryNodes
<1>9. \A e \in Expressions : EntryNodes[e] = IF IsTask(e) THEN {e} ELSE UNION {EntryNodes[o] : o \in Firsts(e)}
  BY <1>8
<1>10. \A e \in Expressions : Gathered(parts, EntryNodes, e) = UNION {EntryNodes[o] : o \in Firsts(e)}
  BY <1>1 DEF Gathered
<1>11. Inherited(Expressions, parts, Nodes, EntryNodes)
  <2>1. ASSUME NEW e \in Expressions, Gathered(parts, EntryNodes, e) \in SUBSET Nodes
        PROVE EntryNodes[e] \in SUBSET Nodes
    <3>. DEFINE U == Gathered(parts, EntryNodes, e)
    <3>1. EntryNodes[e] = IF IsTask(e) THEN {e} ELSE U BY <1>9, <1>10
    <3>. QED BY <1>2, <2>1, <3>1
  <2>. QED BY <2>1 DEF Inherited
<1>12. \A e \in Expressions : EntryNodes[e] \subseteq Nodes BY <1>1, <1>11, GatheredType
<1>. QED BY <1>9, <1>12

(* The nodes a dependency from an expression starts at.                    *)
LEMMA ExitNodesDef ==
  \A e \in Expressions :
    /\ ExitNodes[e] = IF IsTask(e) THEN {ExitOf(e)} ELSE UNION {ExitNodes[o] : o \in Lasts(e)}
    /\ ExitNodes[e] \subseteq Nodes
<1>. DEFINE parts == Of(Lasts)
            H == [x \in Expressions \X SUBSET Nodes |->
                    IF IsTask(x[1]) THEN {ExitOf(x[1])} ELSE x[2]]
<1>1. Built(Expressions, parts, Depth) /\ \A e \in Expressions : parts[e] = Lasts(e)
  BY PartsBuilt DEF Of
<1>2. \A e \in Expressions : \A U \in SUBSET Nodes : (IF IsTask(e) THEN {ExitOf(e)} ELSE U) \in SUBSET Nodes
  BY DEF Tasks, Nodes, ExitOf
<1>3. Given(Expressions, Nodes, H) BY <1>2 DEF Given
<1>4. PICK f \in [Expressions -> SUBSET Nodes] : \A e \in Expressions :
        f[e] = H[<<e, Gathered(parts, f, e)>>] /\ Gathered(parts, f, e) \in SUBSET Nodes
  <2>. HIDE DEF parts, H
  <2>. QED BY <1>1, <1>3, OnExpressions
<1>5. \A e \in Expressions : f[e] = IF IsTask(e) THEN {ExitOf(e)} ELSE Gathered(parts, f, e) BY <1>4
<1>6. \A e \in Expressions : Gathered(parts, f, e) = UNION {f[o] : o \in Lasts(e)}
  BY <1>1 DEF Gathered
<1>. HIDE DEF parts, H
<1>7. f = [e \in Expressions |-> IF IsTask(e) THEN {ExitOf(e)} ELSE UNION {f[o] : o \in Lasts(e)}]
  BY <1>5, <1>6
<1>8. ExitNodes = [e \in Expressions |->
        IF IsTask(e) THEN {ExitOf(e)} ELSE UNION {ExitNodes[o] : o \in Lasts(e)}]
  <2>1. \E g : g = [e \in Expressions |->
          IF IsTask(e) THEN {ExitOf(e)} ELSE UNION {g[o] : o \in Lasts(e)}]
    BY <1>7
  <2>. QED BY <2>1 DEF ExitNodes
<1>9. \A e \in Expressions : ExitNodes[e] = IF IsTask(e) THEN {ExitOf(e)} ELSE UNION {ExitNodes[o] : o \in Lasts(e)}
  BY <1>8
<1>10. \A e \in Expressions : Gathered(parts, ExitNodes, e) = UNION {ExitNodes[o] : o \in Lasts(e)}
  BY <1>1 DEF Gathered
<1>11. Inherited(Expressions, parts, Nodes, ExitNodes)
  <2>1. ASSUME NEW e \in Expressions, Gathered(parts, ExitNodes, e) \in SUBSET Nodes
        PROVE ExitNodes[e] \in SUBSET Nodes
    <3>. DEFINE U == Gathered(parts, ExitNodes, e)
    <3>1. ExitNodes[e] = IF IsTask(e) THEN {ExitOf(e)} ELSE U BY <1>9, <1>10
    <3>. QED BY <1>2, <2>1, <3>1
  <2>. QED BY <2>1 DEF Inherited
<1>12. \A e \in Expressions : ExitNodes[e] \subseteq Nodes BY <1>1, <1>11, GatheredType
<1>. QED BY <1>9, <1>12

(* The edges that from | to makes, and those of a MultiTask, are pairs of  *)
(* nodes.                                                                  *)
LEMMA JoinType == \A e \in Expressions : e.kind = "dep" => Join(e) \subseteq Pairs
<1>1. \A e \in Expressions : e.kind = "dep" => e.from \in Expressions /\ e.to \in Expressions
  BY ExpressionsAssumption DEF Parts, Operands
<1>. QED BY <1>1, EntryNodesDef, ExitNodesDef DEF Join, Pairs

(* So are those between a MultiTask, its instances and its rendezvous.     *)
LEMMA InstanceEdgesType == \A e \in Expressions : e.kind = "multi" => InstanceEdges(e) \subseteq Pairs
<1>1. \A e \in Expressions : e.kind = "multi" => e \in Tasks /\ e.instances \subseteq Tasks
 
    BY ExpressionsAssumption, ModelsAssumption DEF Parts, Members, WellFormed, Tasks, IsTask, IsContainer
<1>2. \A t \in Tasks : t \in Nodes /\ ExitOf(t) \in Nodes /\ Rendezvous(t) \in Nodes
  BY DEF Nodes, ExitOf
<1>. HIDE DEF Nodes
<1>. QED BY <1>1, <1>2 DEF InstanceEdges, Pairs

(* The edges that unpack() of _Dependency and TaskGroup gives.             *)
LEMMA UnpackDef ==
  \A e \in Expressions :
    /\ Unpack[e] = (UNION {Unpack[o] : o \in Operands(e)})
         \cup IF e.kind = "dep" THEN Join(e) ELSE {}
    /\ Unpack[e] \subseteq Pairs
<1>. DEFINE parts == Of(Operands)
            H == [x \in Expressions \X SUBSET Pairs |-> x[2]
                    \cup IF x[1].kind = "dep" THEN Join(x[1]) ELSE {}]
<1>1. Built(Expressions, parts, Depth) /\ \A e \in Expressions : parts[e] = Operands(e)
  BY PartsBuilt DEF Of
<1>2. \A e \in Expressions : \A U \in SUBSET Pairs : (U
        \cup IF e.kind = "dep" THEN Join(e) ELSE {}) \in SUBSET Pairs
  BY JoinType
<1>3. Given(Expressions, Pairs, H) BY <1>2 DEF Given
<1>4. PICK f \in [Expressions -> SUBSET Pairs] : \A e \in Expressions :
        f[e] = H[<<e, Gathered(parts, f, e)>>] /\ Gathered(parts, f, e) \in SUBSET Pairs
  <2>. HIDE DEF parts, H
  <2>. QED BY <1>1, <1>3, OnExpressions
<1>5. \A e \in Expressions : f[e] = Gathered(parts, f, e)
        \cup IF e.kind = "dep" THEN Join(e) ELSE {}
  BY <1>4
<1>6. \A e \in Expressions : Gathered(parts, f, e) = UNION {f[o] : o \in Operands(e)}
  BY <1>1 DEF Gathered
<1>. HIDE DEF parts, H
<1>7. f = [e \in Expressions |-> (UNION {f[o] : o \in Operands(e)})
        \cup IF e.kind = "dep" THEN Join(e) ELSE {}]
  BY <1>5, <1>6
<1>8. Unpack = [e \in Expressions |-> (UNION {Unpack[o] : o \in Operands(e)})
        \cup IF e.kind = "dep" THEN Join(e) ELSE {}]
  <2>1. \E g : g = [e \in Expressions |-> (UNION {g[o] : o \in Operands(e)})
          \cup IF e.kind = "dep" THEN Join(e) ELSE {}]
    BY <1>7
  <2>. QED BY <2>1 DEF Unpack
<1>9. \A e \in Expressions : Unpack[e] = (UNION {Unpack[o] : o \in Operands(e)})
        \cup IF e.kind = "dep" THEN Join(e) ELSE {}
  BY <1>8
<1>10. \A e \in Expressions : Gathered(parts, Unpack, e) = UNION {Unpack[o] : o \in Operands(e)}
  BY <1>1 DEF Gathered
<1>11. Inherited(Expressions, parts, Pairs, Unpack)
  <2>1. ASSUME NEW e \in Expressions, Gathered(parts, Unpack, e) \in SUBSET Pairs
        PROVE Unpack[e] \in SUBSET Pairs
    <3>. DEFINE U == Gathered(parts, Unpack, e)
    <3>1. Unpack[e] = U \cup IF e.kind = "dep" THEN Join(e) ELSE {} BY <1>9, <1>10
    <3>. QED BY <1>2, <2>1, <3>1
  <2>. QED BY <2>1 DEF Inherited
<1>12. \A e \in Expressions : Unpack[e] \subseteq Pairs BY <1>1, <1>11, GatheredType
<1>. QED BY <1>9, <1>12

(* The edges a container gives when the iterators in it are used up.       *)
LEMMA AgainDef ==
  \A e \in Expressions :
    /\ Again[e] = (UNION {Again[o] : o \in Members(e)})
         \cup IF e.kind = "multi" THEN InstanceEdges(e) ELSE {}
    /\ Again[e] \subseteq Pairs
<1>. DEFINE parts == Of(Members)
            H == [x \in Expressions \X SUBSET Pairs |-> x[2]
                    \cup IF x[1].kind = "multi" THEN InstanceEdges(x[1]) ELSE {}]
<1>1. Built(Expressions, parts, Depth) /\ \A e \in Expressions : parts[e] = Members(e)
  BY PartsBuilt DEF Of
<1>2. \A e \in Expressions : \A U \in SUBSET Pairs : (U
        \cup IF e.kind = "multi" THEN InstanceEdges(e) ELSE {}) \in SUBSET Pairs
  BY InstanceEdgesType
<1>3. Given(Expressions, Pairs, H) BY <1>2 DEF Given
<1>4. PICK f \in [Expressions -> SUBSET Pairs] : \A e \in Expressions :
        f[e] = H[<<e, Gathered(parts, f, e)>>] /\ Gathered(parts, f, e) \in SUBSET Pairs
  <2>. HIDE DEF parts, H
  <2>. QED BY <1>1, <1>3, OnExpressions
<1>5. \A e \in Expressions : f[e] = Gathered(parts, f, e)
        \cup IF e.kind = "multi" THEN InstanceEdges(e) ELSE {}
  BY <1>4
<1>6. \A e \in Expressions : Gathered(parts, f, e) = UNION {f[o] : o \in Members(e)}
  BY <1>1 DEF Gathered
<1>. HIDE DEF parts, H
<1>7. f = [e \in Expressions |-> (UNION {f[o] : o \in Members(e)})
        \cup IF e.kind = "multi" THEN InstanceEdges(e) ELSE {}]
  BY <1>5, <1>6
<1>8. Again = [e \in Expressions |-> (UNION {Again[o] : o \in Members(e)})
        \cup IF e.kind = "multi" THEN InstanceEdges(e) ELSE {}]
  <2>1. \E g : g = [e \in Expressions |-> (UNION {g[o] : o \in Members(e)})
          \cup IF e.kind = "multi" THEN InstanceEdges(e) ELSE {}]
    BY <1>7
  <2>. QED BY <2>1 DEF Again
<1>9. \A e \in Expressions : Again[e] = (UNION {Again[o] : o \in Members(e)})
        \cup IF e.kind = "multi" THEN InstanceEdges(e) ELSE {}
  BY <1>8
<1>10. \A e \in Expressions : Gathered(parts, Again, e) = UNION {Again[o] : o \in Members(e)}
  BY <1>1 DEF Gathered
<1>11. Inherited(Expressions, parts, Pairs, Again)
  <2>1. ASSUME NEW e \in Expressions, Gathered(parts, Again, e) \in SUBSET Pairs
        PROVE Again[e] \in SUBSET Pairs
    <3>. DEFINE U == Gathered(parts, Again, e)
    <3>1. Again[e] = U \cup IF e.kind = "multi" THEN InstanceEdges(e) ELSE {} BY <1>9, <1>10
    <3>. QED BY <1>2, <2>1, <3>1
  <2>. QED BY <2>1 DEF Inherited
<1>12. \A e \in Expressions : Again[e] \subseteq Pairs BY <1>1, <1>11, GatheredType
<1>. QED BY <1>9, <1>12

(* What is in an expression, at any depth.                                 *)
LEMMA InsideDef ==
  \A e \in Expressions :
    /\ Inside[e] = (UNION {Inside[p] : p \in Operands(e) \cup Members(e)})
         \cup IF IsTask(e) THEN {e, ExitOf(e)} ELSE {}
    /\ Inside[e] \subseteq Nodes
<1>. DEFINE parts == Of(InnerParts)
            H == [x \in Expressions \X SUBSET Nodes |-> x[2]
                    \cup IF IsTask(x[1]) THEN {x[1], ExitOf(x[1])} ELSE {}]
<1>1. Built(Expressions, parts, Depth) /\ \A e \in Expressions : parts[e] = InnerParts(e)
  BY PartsBuilt DEF Of
<1>2. \A e \in Expressions : \A U \in SUBSET Nodes : (U
        \cup IF IsTask(e) THEN {e, ExitOf(e)} ELSE {}) \in SUBSET Nodes
  BY DEF Tasks, Nodes, ExitOf
<1>3. Given(Expressions, Nodes, H) BY <1>2 DEF Given
<1>4. PICK f \in [Expressions -> SUBSET Nodes] : \A e \in Expressions :
        f[e] = H[<<e, Gathered(parts, f, e)>>] /\ Gathered(parts, f, e) \in SUBSET Nodes
  <2>. HIDE DEF parts, H
  <2>. QED BY <1>1, <1>3, OnExpressions
<1>5. \A e \in Expressions : f[e] = Gathered(parts, f, e)
        \cup IF IsTask(e) THEN {e, ExitOf(e)} ELSE {}
  BY <1>4
<1>6. \A e \in Expressions : Gathered(parts, f, e) = UNION {f[p] : p \in Operands(e) \cup Members(e)}
  BY <1>1 DEF Gathered, InnerParts
<1>. HIDE DEF parts, H
<1>7. f = [e \in Expressions |-> (UNION {f[p] : p \in Operands(e) \cup Members(e)})
        \cup IF IsTask(e) THEN {e, ExitOf(e)} ELSE {}]
  BY <1>5, <1>6
<1>8. Inside = [e \in Expressions |-> (UNION {Inside[p] : p \in Operands(e) \cup Members(e)})
        \cup IF IsTask(e) THEN {e, ExitOf(e)} ELSE {}]
  <2>1. \E g : g = [e \in Expressions |-> (UNION {g[p] : p \in Operands(e) \cup Members(e)})
          \cup IF IsTask(e) THEN {e, ExitOf(e)} ELSE {}]
    BY <1>7
  <2>. QED BY <2>1 DEF Inside
<1>9. \A e \in Expressions : Inside[e] = (UNION {Inside[p] : p \in Operands(e) \cup Members(e)})
        \cup IF IsTask(e) THEN {e, ExitOf(e)} ELSE {}
  BY <1>8
<1>10. \A e \in Expressions : Gathered(parts, Inside, e) = UNION {Inside[p] : p \in Operands(e) \cup Members(e)}
  BY <1>1 DEF Gathered, InnerParts
<1>11. Inherited(Expressions, parts, Nodes, Inside)
  <2>1. ASSUME NEW e \in Expressions, Gathered(parts, Inside, e) \in SUBSET Nodes
        PROVE Inside[e] \in SUBSET Nodes
    <3>. DEFINE U == Gathered(parts, Inside, e)
    <3>1. Inside[e] = U \cup IF IsTask(e) THEN {e, ExitOf(e)} ELSE {} BY <1>9, <1>10
    <3>. QED BY <1>2, <2>1, <3>1
  <2>. QED BY <2>1 DEF Inherited
<1>12. \A e \in Expressions : Inside[e] \subseteq Nodes BY <1>1, <1>11, GatheredType
<1>. QED BY <1>9, <1>12

OverNodes(S, D) == S \subseteq Nodes /\ D \subseteq Pairs

(* A graph over nodes has its edges between its nodes.                     *)
LEMMA DiGraphType ==
  ASSUME NEW S, NEW D, OverNodes(S, D), NEW G, G = DiGraph(S, D)
  PROVE  /\ G.node \subseteq Nodes /\ S \subseteq G.node /\ G.edge = D
         /\ G.edge \subseteq G.node \X G.node
         /\ \A p \in D : p = <<p[1], p[2]>>
         /\ Roots(G) \subseteq Nodes /\ Leaves(G) \subseteq Nodes
BY DEF DiGraph, Pairs, Roots, Leaves, OverNodes

(* What a task contains: the clones of a MultiTask, the model of a         *)
(* ConfigClassTask.                                                        *)
LEMMA InsideClass ==
  \A e \in Expressions :
    /\ Members(e) \subseteq Tasks /\ InnerDeps(e) \subseteq Expressions
    /\ \A d \in InnerDeps(e) : Mentioned[d] \subseteq Members(e)
    /\ e.kind = "multi" => Members(e) = e.instances
    /\ e.kind = "class" => Members(e) = e.model.tasks /\ InnerDeps(e) = e.model.deps
    /\ ~IsTask(e) => Members(e) = {} /\ InnerDeps(e) = {}
    /\ e.kind \in {"plain", "multi"} => InnerDeps(e) = {}
    /\ e.kind = "plain" => Members(e) = {}
    /\ IsTask(e) => Operands(e) = {}
<1>1. \A e \in Expressions : Members(e) \subseteq Expressions /\ InnerDeps(e) \subseteq Expressions
  BY ExpressionsAssumption DEF Parts
<1>2. \A e \in Expressions : \A m \in Members(e) : IsTask(m)
  BY ModelsAssumption DEF WellFormed
<1>3. \A e \in Expressions : \A d \in InnerDeps(e) : Mentioned[d] \subseteq Members(e)
  BY ModelsAssumption DEF WellFormed
<1>. QED BY <1>1, <1>2, <1>3 DEF Tasks, Members, InnerDeps, IsTask, IsContainer, Operands

(* The edges of a ConfigClassTask are pairs of nodes.                      *)
LEMMA ModelEdgesType ==
  \A e \in Expressions : \A U \in SUBSET Pairs : e.kind = "class" => ModelEdges(e, U) \subseteq Pairs
<1>. SUFFICES ASSUME NEW e \in Expressions, NEW U \in SUBSET Pairs, e.kind = "class"
              PROVE  ModelEdges(e, U) \subseteq Pairs
  OBVIOUS
<1>1. e.model.tasks \subseteq Tasks /\ e.model.deps \subseteq Expressions BY InsideClass
<1>2. ClassEdges(e.model) \subseteq Pairs BY <1>1, UnpackDef DEF ClassEdges
<1>3. UNION {Again[m] : m \in e.model.tasks} \subseteq Pairs BY <1>1, AgainDef DEF Tasks
<1>. DEFINE D == ClassEdges(e.model) \cup U
            G == DiGraph(e.model.tasks, D)
<1>4. Roots(G) \subseteq Nodes /\ Leaves(G) \subseteq Nodes
  <2>1. OverNodes(e.model.tasks, D) BY <1>1, <1>2 DEF Nodes, OverNodes
  <2>2. G = DiGraph(e.model.tasks, D) OBVIOUS
  <2>. HIDE DEF D, G
  <2>. QED BY <2>1, <2>2, DiGraphType
<1>5. e \in Nodes /\ Rendezvous(e) \in Nodes BY DEF Nodes, Tasks, IsTask, IsContainer
<1>6. EndsOf(e, G) \subseteq Pairs
  <2>. HIDE DEF G
  <2>. QED BY <1>4, <1>5 DEF EndsOf, Pairs
<1>. QED BY <1>2, <1>3, <1>6 DEF ModelEdges

(* Fresh is what its definition says: what unpack() gives after            *)
(* fix_arguments.                                                          *)
LEMMA FreshDef ==
  \A e \in Expressions :
    /\ Fresh[e] = FirstEdges(e, UNION {Fresh[m] : m \in Members(e)})
    /\ Fresh[e] \subseteq Pairs
<1>. DEFINE parts == Of(Members)
            H == [x \in Expressions \X SUBSET Pairs |-> FirstEdges(x[1], x[2])]
<1>1. Built(Expressions, parts, Depth) /\ \A e \in Expressions : parts[e] = Members(e)
  BY PartsBuilt DEF Of
<1>2. \A e \in Expressions : \A U \in SUBSET Pairs : (FirstEdges(e, U)) \in SUBSET Pairs
  BY InstanceEdgesType, ModelEdgesType DEF FirstEdges
<1>3. Given(Expressions, Pairs, H) BY <1>2 DEF Given
<1>4. PICK f \in [Expressions -> SUBSET Pairs] : \A e \in Expressions :
        f[e] = H[<<e, Gathered(parts, f, e)>>] /\ Gathered(parts, f, e) \in SUBSET Pairs
  <2>. HIDE DEF parts, H
  <2>. QED BY <1>1, <1>3, OnExpressions
<1>5. \A e \in Expressions : f[e] = FirstEdges(e, Gathered(parts, f, e)) BY <1>4
<1>6. \A e \in Expressions : Gathered(parts, f, e) = UNION {f[m] : m \in Members(e)}
  BY <1>1 DEF Gathered
<1>. HIDE DEF parts, H
<1>7. f = [e \in Expressions |-> FirstEdges(e, UNION {f[m] : m \in Members(e)})]
  BY <1>5, <1>6
<1>8. Fresh = [e \in Expressions |-> FirstEdges(e, UNION {Fresh[m] : m \in Members(e)})]
  <2>1. \E g : g = [e \in Expressions |-> FirstEdges(e, UNION {g[m] : m \in Members(e)})] BY <1>7
  <2>. QED BY <2>1 DEF Fresh
<1>9. \A e \in Expressions : Fresh[e] = FirstEdges(e, UNION {Fresh[m] : m \in Members(e)})
  BY <1>8
<1>10. \A e \in Expressions : Gathered(parts, Fresh, e) = UNION {Fresh[m] : m \in Members(e)}
  BY <1>1 DEF Gathered
<1>11. Inherited(Expressions, parts, Pairs, Fresh)
  <2>1. ASSUME NEW e \in Expressions, Gathered(parts, Fresh, e) \in SUBSET Pairs
        PROVE Fresh[e] \in SUBSET Pairs
    <3>. DEFINE U == Gathered(parts, Fresh, e)
    <3>1. Fresh[e] = FirstEdges(e, U) BY <1>9, <1>10
    <3>. QED BY <1>2, <2>1, <3>1
  <2>. QED BY <2>1 DEF Inherited
<1>12. \A e \in Expressions : Fresh[e] \subseteq Pairs BY <1>1, <1>11, GatheredType
<1>. QED BY <1>9, <1>12

(* What an expression says, it says of nodes.                              *)
LEMMA RelatedType ==
  \A e \in Expressions :
    /\ e.kind = "dep" => e.from \in Expressions /\ e.to \in Expressions
    /\ e.kind = "dep" => Inside[e.from] \X Inside[e.to] \subseteq Pairs
    /\ IsContainer(e) => Around(e, UNION {Inside[m] : m \in Members(e)}) \subseteq Pairs
<1>1. \A e \in Expressions : e.kind = "dep" => e.from \in Expressions /\ e.to \in Expressions
  BY ExpressionsAssumption DEF Parts, Operands
<1>2. ASSUME NEW e \in Expressions, IsContainer(e)
      PROVE  Around(e, UNION {Inside[m] : m \in Members(e)}) \subseteq Pairs
  <2>. DEFINE all == UNION {Inside[m] : m \in Members(e)}
  <2>1. all \subseteq Nodes BY InsideClass, InsideDef DEF Tasks
  <2>2. e \in Nodes /\ ExitOf(e) \in Nodes BY <1>2 DEF Nodes, Tasks, IsTask, ExitOf
  <2>. HIDE DEF all
  <2>3. Around(e, all) \subseteq Pairs BY <2>1, <2>2 DEF Around, Pairs
  <2>. QED BY <2>3 DEF all
<1>. QED BY <1>1, <1>2, InsideDef DEF Pairs

(* Said is what its definition says.                                       *)
LEMMA SaidDef ==
  \A e \in Expressions :
    /\ Said[e] = SaidBy(e) \cup UNION {Said[p] : p \in Parts(e)}
    /\ Said[e] \subseteq Pairs
<1>. DEFINE parts == Of(Parts)
            H == [x \in Expressions \X SUBSET Pairs |-> SaidBy(x[1]) \cup x[2]]
<1>1. Built(Expressions, parts, Depth) /\ \A e \in Expressions : parts[e] = Parts(e)
  BY PartsBuilt DEF Of
<1>2. \A e \in Expressions : \A U \in SUBSET Pairs : (SaidBy(e) \cup U) \in SUBSET Pairs
  BY RelatedType DEF SaidBy
<1>3. Given(Expressions, Pairs, H) BY <1>2 DEF Given
<1>4. PICK f \in [Expressions -> SUBSET Pairs] : \A e \in Expressions :
        f[e] = H[<<e, Gathered(parts, f, e)>>] /\ Gathered(parts, f, e) \in SUBSET Pairs
  <2>. HIDE DEF parts, H
  <2>. QED BY <1>1, <1>3, OnExpressions
<1>5. \A e \in Expressions : f[e] = SaidBy(e) \cup Gathered(parts, f, e) BY <1>4
<1>6. \A e \in Expressions : Gathered(parts, f, e) = UNION {f[p] : p \in Parts(e)}
  BY <1>1 DEF Gathered
<1>. HIDE DEF parts, H
<1>7. f = [e \in Expressions |-> SaidBy(e) \cup UNION {f[p] : p \in Parts(e)}]
  BY <1>5, <1>6
<1>8. Said = [e \in Expressions |-> SaidBy(e) \cup UNION {Said[p] : p \in Parts(e)}]
  <2>1. \E g : g = [e \in Expressions |-> SaidBy(e) \cup UNION {g[p] : p \in Parts(e)}] BY <1>7
  <2>. QED BY <2>1 DEF Said
<1>9. \A e \in Expressions : Said[e] = SaidBy(e) \cup UNION {Said[p] : p \in Parts(e)}
  BY <1>8
<1>10. \A e \in Expressions : Gathered(parts, Said, e) = UNION {Said[p] : p \in Parts(e)}
  BY <1>1 DEF Gathered
<1>11. Inherited(Expressions, parts, Pairs, Said)
  <2>1. ASSUME NEW e \in Expressions, Gathered(parts, Said, e) \in SUBSET Pairs
        PROVE Said[e] \in SUBSET Pairs
    <3>. DEFINE U == Gathered(parts, Said, e)
    <3>1. Said[e] = SaidBy(e) \cup U BY <1>9, <1>10
    <3>. QED BY <1>2, <2>1, <3>1
  <2>. QED BY <2>1 DEF Inherited
<1>12. \A e \in Expressions : Said[e] \subseteq Pairs BY <1>1, <1>11, GatheredType
<1>. QED BY <1>9, <1>12

-----------------------------------------------------------------------------
(* The upper bound: every edge is one the expressions say.                 *)

Inductive(T) == \A e \in Expressions : Parts(e) \subseteq T => e \in T

(* Induction over expressions: what holds of an expression when it holds   *)
(* of its parts holds of all.                                              *)
LEMMA ExpressionInduction ==
  ASSUME NEW T, Inductive(T)
  PROVE  Expressions \subseteq T
<1>1. Built(Expressions, Of(Parts), Depth) BY PartsBuilt
<1>2. \A e \in Expressions : Of(Parts)[e] \subseteq T => e \in T BY DEF Inductive, Of
<1>. QED BY <1>1, <1>2, PartsInduction

(* What the kinds of expressions are made from.                            *)
LEMMA Kinds ==
  \A e \in Expressions :
    /\ Parts(e) \subseteq Expressions
    /\ Operands(e) \subseteq Parts(e) /\ Members(e) \subseteq Parts(e) /\ InnerDeps(e) \subseteq Parts(e)
    /\ IsTask(e) \/ e.kind \in {"dep", "group"}
    /\ e.kind = "dep" => Operands(e) = {e.from, e.to} /\ Firsts(e) = {e.from} /\ Lasts(e) = {e.to}
    /\ e.kind = "group" => Firsts(e) = Operands(e) /\ Lasts(e) = Operands(e)
    /\ e.kind \in {"dep", "group"} => ~IsTask(e) /\ ~IsContainer(e)
    /\ IsTask(e) => e.kind = "plain" \/ e.kind = "multi" \/ e.kind = "class"
    /\ IsContainer(e) <=> e.kind \in {"multi", "class"}
    /\ IsContainer(e) => IsTask(e) /\ ExitOf(e) = Rendezvous(e)
    /\ e.kind = "plain" => IsTask(e) /\ ~IsContainer(e) /\ ExitOf(e) = e
BY ExpressionsAssumption DEF Parts, Operands, Firsts, Lasts, IsTask, IsContainer, ExitOf

(* The ends of an expression are in it.                                    *)
LEMMA EndsInside ==
  \A e \in Expressions : EntryNodes[e] \subseteq Inside[e] /\ ExitNodes[e] \subseteq Inside[e]
<1>. DEFINE T == {e \in Expressions : EntryNodes[e] \subseteq Inside[e] /\ ExitNodes[e] \subseteq Inside[e]}
<1>1. ASSUME NEW e \in Expressions, Parts(e) \subseteq T
      PROVE  EntryNodes[e] \subseteq Inside[e] /\ ExitNodes[e] \subseteq Inside[e]
  <2>1. CASE IsTask(e) BY <2>1, EntryNodesDef, ExitNodesDef, InsideDef
  <2>2. CASE ~IsTask(e)
    <3>1. EntryNodes[e] = UNION {EntryNodes[o] : o \in Firsts(e)}
          /\ ExitNodes[e] = UNION {ExitNodes[o] : o \in Lasts(e)}
      BY <2>2, EntryNodesDef, ExitNodesDef
    <3>2. \A o \in Operands(e) : Inside[o] \subseteq Inside[e] BY InsideDef
    <3>3. Firsts(e) \subseteq Operands(e) /\ Lasts(e) \subseteq Operands(e) BY <2>2, Kinds
    <3>4. Operands(e) \subseteq T BY <1>1, Kinds
    <3>. QED BY <3>1, <3>2, <3>3, <3>4
  <2>. QED BY <2>1, <2>2
<1>2. Inductive(T) BY <1>1 DEF Inductive
<1>3. Expressions \subseteq T
  <2>. HIDE DEF T
  <2>. QED BY <1>2, ExpressionInduction
<1>. QED BY <1>3

(* What is in an expression is in the tasks it mentions.                   *)
LEMMA InsideMentioned ==
  \A e \in Expressions : \A x \in Inside[e] : \E m \in Mentioned[e] : x \in Inside[m]
<1>. DEFINE T == {e \in Expressions : \A x \in Inside[e] : \E m \in Mentioned[e] : x \in Inside[m]}
<1>1. ASSUME NEW e \in Expressions, Parts(e) \subseteq T, NEW x \in Inside[e]
      PROVE  \E m \in Mentioned[e] : x \in Inside[m]
  <2>1. CASE IsTask(e) BY <2>1, MentionedDef
  <2>2. CASE ~IsTask(e)
    <3>1. Mentioned[e] = UNION {Mentioned[o] : o \in Operands(e)} BY <2>2, MentionedDef
    <3>2. Members(e) = {} BY <2>2, InsideClass
    <3>3. PICK o \in Operands(e) : x \in Inside[o] BY <2>2, <3>2, InsideDef
    <3>4. o \in T BY <1>1, Kinds
    <3>. QED BY <3>1, <3>3, <3>4
  <2>. QED BY <2>1, <2>2
<1>2. Inductive(T) BY <1>1 DEF Inductive
<1>3. Expressions \subseteq T
  <2>. HIDE DEF T
  <2>. QED BY <1>2, ExpressionInduction
<1>. QED BY <1>3

(* What an expression orders is in it.                                     *)
LEMMA SaidInside ==
  \A e \in Expressions : Said[e] \subseteq Inside[e] \X Inside[e]
<1>. DEFINE T == {e \in Expressions : Said[e] \subseteq Inside[e] \X Inside[e]}
<1>1. ASSUME NEW e \in Expressions, Parts(e) \subseteq T
      PROVE  Said[e] \subseteq Inside[e] \X Inside[e]
  <2>1. \A p \in Operands(e) \cup Members(e) : Inside[p] \subseteq Inside[e] BY InsideDef
  <2>2. \A d \in InnerDeps(e) : Inside[d] \subseteq Inside[e]
    <3>. SUFFICES ASSUME NEW d \in InnerDeps(e), NEW x \in Inside[d] PROVE x \in Inside[e]
      OBVIOUS
    <3>1. d \in Expressions /\ Mentioned[d] \subseteq Members(e) BY InsideClass
    <3>. QED BY <2>1, <3>1, InsideMentioned
  <2>3. \A p \in Parts(e) : Inside[p] \subseteq Inside[e] BY <2>1, <2>2 DEF Parts
  <2>4. \A p \in Parts(e) : Said[p] \subseteq Inside[e] \X Inside[e] BY <1>1, <2>3
  <2>5. SaidBy(e) \subseteq Inside[e] \X Inside[e]
    <3>1. CASE e.kind = "dep"
      <4>1. e.from \in Operands(e) /\ e.to \in Operands(e) BY <3>1, Kinds
      <4>2. SaidBy(e) = Inside[e.from] \X Inside[e.to] BY <3>1, Kinds DEF SaidBy
      <4>3. Inside[e.from] \subseteq Inside[e] /\ Inside[e.to] \subseteq Inside[e] BY <2>1, <4>1
      <4>. QED BY <4>2, <4>3
    <3>2. CASE IsContainer(e)
      <4>. DEFINE all == UNION {Inside[m] : m \in Members(e)}
      <4>1. all \subseteq Inside[e] BY <2>1
      <4>2. e \in Inside[e] /\ ExitOf(e) \in Inside[e] BY <3>2, Kinds, InsideDef
      <4>3. SaidBy(e) = Around(e, all) BY <3>2, Kinds DEF SaidBy
      <4>. HIDE DEF all
      <4>4. Around(e, all) \subseteq Inside[e] \X Inside[e] BY <4>1, <4>2 DEF Around
      <4>. QED BY <4>3, <4>4
    <3>3. CASE e.kind # "dep" /\ ~IsContainer(e) BY <3>3 DEF SaidBy
    <3>. QED BY <3>1, <3>2, <3>3
  <2>6. Said[e] = SaidBy(e) \cup UNION {Said[p] : p \in Parts(e)} BY SaidDef
  <2>. QED BY <2>4, <2>5, <2>6
<1>2. Inductive(T) BY <1>1 DEF Inductive
<1>3. Expressions \subseteq T
  <2>. HIDE DEF T
  <2>. QED BY <1>2, ExpressionInduction
<1>. QED BY <1>3

(* An edge of the graph is an order that was said.                         *)
LEMMA UnpackSaid == \A e \in Expressions : Unpack[e] \subseteq Said[e]
<1>. DEFINE T == {e \in Expressions : Unpack[e] \subseteq Said[e]}
<1>1. ASSUME NEW e \in Expressions, Parts(e) \subseteq T
      PROVE  Unpack[e] \subseteq Said[e]
  <2>1. Said[e] = SaidBy(e) \cup UNION {Said[p] : p \in Parts(e)} BY SaidDef
  <2>2. \A o \in Operands(e) : Unpack[o] \subseteq Said[e] BY <1>1, <2>1, Kinds
  <2>3. e.kind = "dep" => Join(e) \subseteq Said[e]
    <3>. SUFFICES ASSUME e.kind = "dep" PROVE Join(e) \subseteq SaidBy(e)
      BY <2>1
    <3>1. e.from \in Expressions /\ e.to \in Expressions BY RelatedType
    <3>2. SaidBy(e) = Inside[e.from] \X Inside[e.to] BY Kinds DEF SaidBy
    <3>3. ExitNodes[e.from] \subseteq Inside[e.from] /\ EntryNodes[e.to] \subseteq Inside[e.to]
      BY <3>1, EndsInside
    <3>. QED BY <3>2, <3>3 DEF Join
  <2>. QED BY <2>2, <2>3, UnpackDef
<1>2. Inductive(T) BY <1>1 DEF Inductive
<1>3. Expressions \subseteq T
  <2>. HIDE DEF T
  <2>. QED BY <1>2, ExpressionInduction
<1>. QED BY <1>3

(* An iterator that is used up gives no other edges than it gave.          *)
LEMMA AgainFresh == \A e \in Expressions : Again[e] \subseteq Fresh[e]
<1>. DEFINE T == {e \in Expressions : Again[e] \subseteq Fresh[e]}
<1>1. ASSUME NEW e \in Expressions, Parts(e) \subseteq T
      PROVE  Again[e] \subseteq Fresh[e]
  <2>. DEFINE again == UNION {Again[m] : m \in Members(e)}
              fresh == UNION {Fresh[m] : m \in Members(e)}
  <2>1. Again[e] = again \cup IF e.kind = "multi" THEN InstanceEdges(e) ELSE {} BY AgainDef
  <2>2. Fresh[e] = FirstEdges(e, fresh) BY FreshDef
  <2>3. Members(e) \subseteq T BY <1>1, Kinds
  <2>4. again \subseteq fresh BY <2>3
  <2>5. CASE e.kind = "multi"
    <3>. HIDE DEF again, fresh
    <3>. QED BY <2>1, <2>2, <2>4, <2>5 DEF FirstEdges
  <2>6. CASE e.kind = "class"
    <3>1. again \subseteq ModelEdges(e, fresh) BY <2>6, InsideClass DEF ModelEdges
    <3>. HIDE DEF again, fresh
    <3>. QED BY <2>1, <2>2, <2>6, <3>1 DEF FirstEdges
  <2>7. CASE e.kind # "multi" /\ e.kind # "class"
    <3>1. Members(e) = {} BY <2>7 DEF Members
    <3>. QED BY <2>1, <2>7, <3>1
  <2>. QED BY <2>5, <2>6, <2>7
<1>2. Inductive(T) BY <1>1 DEF Inductive
<1>3. Expressions \subseteq T
  <2>. HIDE DEF T
  <2>. QED BY <1>2, ExpressionInduction
<1>. QED BY <1>3

(* What the class at e says about its inside.                              *)
LEMMA ClassInside ==
  ASSUME NEW e \in Expressions, e.kind = "class",
         \A m \in Members(e) : Fresh[m] \subseteq Said[m]
  PROVE  LET all == UNION {Inside[m] : m \in Members(e)}
             G == DiGraph(e.model.tasks, ClassEdges(e.model) \cup UNION {Fresh[m] : m \in Members(e)})
         IN  G.edge \subseteq UNION {Said[p] : p \in Parts(e)} /\ G.node \subseteq all
<1>. DEFINE all == UNION {Inside[m] : m \in Members(e)}
            edges == ClassEdges(e.model) \cup UNION {Fresh[m] : m \in Members(e)}
            G == DiGraph(e.model.tasks, edges)
<1>1. Members(e) = e.model.tasks /\ InnerDeps(e) = e.model.deps
      /\ Members(e) \subseteq Tasks /\ InnerDeps(e) \subseteq Expressions
  BY InsideClass
<1>2. \A d \in InnerDeps(e) : Inside[d] \subseteq all
  <2>. SUFFICES ASSUME NEW d \in InnerDeps(e), NEW x \in Inside[d] PROVE x \in all
    OBVIOUS
  <2>1. d \in Expressions /\ Mentioned[d] \subseteq Members(e) BY InsideClass
  <2>. QED BY <2>1, InsideMentioned
<1>3. \A m \in Members(e) : m \in Inside[m] /\ Inside[m] \subseteq all /\ m \in Expressions
  BY <1>1, InsideDef DEF Tasks
<1>4. ASSUME NEW p \in edges
      PROVE  p \in UNION {Said[q] : q \in Parts(e)} /\ p[1] \in all /\ p[2] \in all
  <2>1. CASE p \in ClassEdges(e.model)
    <3>1. PICK d \in InnerDeps(e) : p \in Unpack[d] BY <1>1, <2>1 DEF ClassEdges
    <3>2. p \in Said[d] /\ d \in Parts(e) BY <1>1, <3>1, UnpackSaid, Kinds
    <3>3. p \in Inside[d] \X Inside[d] BY <1>1, <3>1, <3>2, SaidInside
    <3>. QED BY <1>2, <3>2, <3>3
  <2>2. CASE p \in UNION {Fresh[m] : m \in Members(e)}
    <3>1. PICK m \in Members(e) : p \in Fresh[m] BY <2>2
    <3>2. p \in Said[m] /\ m \in Parts(e) BY <3>1, Kinds
    <3>3. p \in Inside[m] \X Inside[m] BY <1>3, <3>1, <3>2, SaidInside
    <3>. QED BY <1>3, <3>2, <3>3
  <2>. QED BY <2>1, <2>2
<1>5. G.edge = edges /\ G.node = e.model.tasks \cup {p[1] : p \in edges} \cup {p[2] : p \in edges}
  BY DEF DiGraph
<1>6. e.model.tasks \subseteq all BY <1>1, <1>3
<1>7. G.node \subseteq all
  <2>. HIDE DEF all, edges, G
  <2>. QED BY <1>4, <1>5, <1>6
<1>8. G.edge \subseteq UNION {Said[p] : p \in Parts(e)}
  <2>. HIDE DEF all, edges, G
  <2>. QED BY <1>4, <1>5
<1>. QED BY <1>7, <1>8

(* No container, when it is expanded, makes an edge it does not say.       *)
LEMMA FreshSaid == \A e \in Expressions : Fresh[e] \subseteq Said[e]
<1>. DEFINE T == {e \in Expressions : Fresh[e] \subseteq Said[e]}
<1>1. ASSUME NEW e \in Expressions, Parts(e) \subseteq T
      PROVE  Fresh[e] \subseteq Said[e]
  <2>. DEFINE fresh == UNION {Fresh[m] : m \in Members(e)}
              said == UNION {Said[p] : p \in Parts(e)}
              all == UNION {Inside[m] : m \in Members(e)}
  <2>1. Fresh[e] = FirstEdges(e, fresh) BY FreshDef
  <2>2. Said[e] = SaidBy(e) \cup said BY SaidDef
  <2>3. \A m \in Members(e) : Fresh[m] \subseteq Said[m] /\ m \in Parts(e) BY <1>1, Kinds
  <2>4. fresh \subseteq said BY <2>3
  <2>5. IsContainer(e) => SaidBy(e) = Around(e, all) BY Kinds DEF SaidBy
  <2>6. CASE e.kind = "multi"
    <3>1. \A i \in e.instances : i \in all /\ ExitOf(i) \in all
      BY <2>6, InsideClass, InsideDef DEF Tasks
    <3>2. IsContainer(e) /\ ExitOf(e) = Rendezvous(e) BY <2>6, Kinds
    <3>. HIDE DEF all, fresh, said
    <3>3. InstanceEdges(e) \subseteq Around(e, all) BY <3>1, <3>2 DEF InstanceEdges, Around
    <3>. QED BY <2>1, <2>2, <2>4, <2>5, <2>6, <3>2, <3>3 DEF FirstEdges
  <2>7. CASE e.kind = "class"
    <3>. DEFINE G == DiGraph(e.model.tasks, ClassEdges(e.model) \cup fresh)
    <3>1. G.edge \subseteq said /\ G.node \subseteq all BY <2>3, <2>7, ClassInside
    <3>2. IsContainer(e) /\ ExitOf(e) = Rendezvous(e) /\ Members(e) = e.model.tasks
      BY <2>7, Kinds, InsideClass
    <3>3. EndsOf(e, G) \subseteq Around(e, all)
      <4>. HIDE DEF G, all
      <4>. QED BY <3>1, <3>2 DEF EndsOf, Around, Roots, Leaves
    <3>4. ClassEdges(e.model) \subseteq said BY <3>1 DEF DiGraph
    <3>5. UNION {Again[m] : m \in e.model.tasks} \subseteq fresh
      BY <3>2, AgainFresh, InsideClass DEF Tasks
    <3>6. Fresh[e] = ModelEdges(e, fresh) BY <2>1, <2>7 DEF FirstEdges
    <3>. HIDE DEF fresh, said, all
    <3>7. Fresh[e] = EndsOf(e, G) \cup ClassEdges(e.model) \cup UNION {Again[m] : m \in e.model.tasks}
      BY <3>6 DEF ModelEdges
    <3>. HIDE DEF G
    <3>. QED BY <2>2, <2>4, <2>5, <3>2, <3>3, <3>4, <3>5, <3>7
  <2>8. CASE e.kind # "multi" /\ e.kind # "class" BY <2>1, <2>8 DEF FirstEdges
  <2>. QED BY <2>6, <2>7, <2>8
<1>2. Inductive(T) BY <1>1 DEF Inductive
<1>3. Expressions \subseteq T
  <2>. HIDE DEF T
  <2>. QED BY <1>2, ExpressionInduction
<1>. QED BY <1>3

-----------------------------------------------------------------------------
(* The invariant.                                                          *)

(* All the edges a graph of M can have.                                    *)
AllEdges(M) == ClassEdges(M) \cup UNION {Fresh[t] : t \in M.tasks}
Grown(M, state) == ClassEdges(M) \cup UNION {Unpacked(t, state[t]) : t \in M.tasks}

(* There are finitely many nodes.                                          *)
LEMMA NodesFinite == IsFiniteSet(Nodes)
<1>1. IsFiniteSet(Tasks) BY ExpressionsAssumption, FS_Subset DEF Tasks
<1>2. IsFiniteSet({Rendezvous(t) : t \in Tasks})
  <2>. DEFINE f == [t \in Tasks |-> Rendezvous(t)]
              R == {Rendezvous(t) : t \in Tasks}
  <2>1. f \in Surjection(Tasks, R) BY DEF Surjection
  <2>. QED BY <1>1, <2>1, FS_Surjection
<1>. QED BY <1>1, <1>2, FS_Union DEF Nodes

IsModel(M) == M.tasks \cup M.deps \subseteq Expressions /\ WellFormed(M.tasks, M.deps)

(* The models considered, and those inside ConfigClassTasks, have all the  *)
(* tasks that their dependencies mention.                                  *)
LEMMA ModelsAreModels ==
  /\ \A M \in Models : IsModel(M)
  /\ \A e \in Expressions : e.kind = "class" => IsModel(e.model)
<1>1. \A M \in Models : IsModel(M) BY ModelsAssumption DEF IsModel
<1>2. ASSUME NEW e \in Expressions, e.kind = "class" PROVE IsModel(e.model)
  <2>1. Members(e) = e.model.tasks /\ InnerDeps(e) = e.model.deps BY <1>2, InsideClass
  <2>2. Members(e) \subseteq Expressions /\ InnerDeps(e) \subseteq Expressions
    BY InsideClass DEF Tasks
  <2>3. WellFormed(Members(e), InnerDeps(e)) BY ModelsAssumption
  <2>. QED BY <2>1, <2>2, <2>3 DEF IsModel
<1>. QED BY <1>1, <1>2

(* What a model says is a graph over all that is in it.                    *)
LEMMA OrderGraph ==
  ASSUME NEW M, IsModel(M)
  PROVE  /\ M.tasks \subseteq Tasks /\ M.deps \subseteq Expressions
         /\ \A d \in M.deps : Mentioned[d] \subseteq M.tasks
         /\ Order(M).edge = UNION {Said[e] : e \in M.deps \cup M.tasks}
         /\ Order(M).node = UNION {Inside[t] : t \in M.tasks}
         /\ Order(M).edge \subseteq Order(M).node \X Order(M).node
         /\ Order(M).node \subseteq Nodes
         /\ IsFiniteSet(Order(M).node)
         /\ M.tasks \subseteq Order(M).node
<1>. DEFINE all == UNION {Inside[t] : t \in M.tasks}
            said == UNION {Said[e] : e \in M.deps \cup M.tasks}
<1>1. M.tasks \subseteq Tasks /\ M.deps \subseteq Expressions
      /\ \A d \in M.deps : Mentioned[d] \subseteq M.tasks
  BY DEF IsModel, WellFormed, Tasks
<1>2. \A d \in M.deps : Inside[d] \subseteq all BY <1>1, InsideMentioned
<1>3. \A e \in M.deps \cup M.tasks : e \in Expressions /\ Inside[e] \subseteq all
  BY <1>1, <1>2 DEF Tasks
<1>4. said \subseteq all \X all
  <2>1. \A e \in M.deps \cup M.tasks : Said[e] \subseteq all \X all BY <1>3, SaidInside
  <2>. HIDE DEF all
  <2>. QED BY <2>1
<1>5. Order(M).edge = said /\ Order(M).node = all \cup {p[1] : p \in said} \cup {p[2] : p \in said}
  BY DEF Order, DiGraph
<1>6. Order(M).node = all
  <2>. HIDE DEF all, said
  <2>. QED BY <1>4, <1>5
<1>7. all \subseteq Nodes BY <1>1, InsideDef DEF Tasks
<1>8. M.tasks \subseteq all BY <1>1, InsideDef DEF Tasks
<1>9. IsFiniteSet(all)
  <2>. HIDE DEF all
  <2>. QED BY <1>7, NodesFinite, FS_Subset
<1>. HIDE DEF all, said
<1>10. Order(M).edge \subseteq Order(M).node \X Order(M).node BY <1>4, <1>5, <1>6
<1>. QED BY <1>1, <1>5, <1>6, <1>7, <1>8, <1>9, <1>10 DEF all, said

(* A graph of M is part of what M says.                                    *)
PartOf(D, M) == D \subseteq AllEdges(M)

(* A graph with some of the edges of a model is a part of what the model   *)
(* says.                                                                   *)
LEMMA GraphInOrder ==
  ASSUME NEW M, IsModel(M), NEW D, PartOf(D, M), NEW G, G = DiGraph(M.tasks, D)
  PROVE  /\ G.edge = D /\ G.edge \subseteq Order(M).edge
         /\ M.tasks \subseteq G.node /\ G.node \subseteq Order(M).node /\ IsFiniteSet(G.node)
         /\ G.edge \subseteq G.node \X G.node
         /\ G = [node |-> G.node, edge |-> G.edge]
<1>1. AllEdges(M) \subseteq Order(M).edge
  <2>1. M.tasks \subseteq Expressions /\ M.deps \subseteq Expressions BY OrderGraph DEF Tasks
  <2>2. \A t \in M.tasks : Fresh[t] \subseteq Said[t] BY <2>1, FreshSaid
  <2>3. \A d \in M.deps : Unpack[d] \subseteq Said[d] BY <2>1, UnpackSaid
  <2>4. Order(M).edge = UNION {Said[e] : e \in M.deps \cup M.tasks} BY OrderGraph
  <2>. QED BY <2>2, <2>3, <2>4 DEF AllEdges, ClassEdges
<1>2. D \subseteq Order(M).edge /\ D \subseteq Order(M).node \X Order(M).node
  BY <1>1, OrderGraph DEF PartOf
<1>3. G.edge = D /\ G.node = M.tasks \cup {p[1] : p \in D} \cup {p[2] : p \in D}
      /\ G = [node |-> G.node, edge |-> G.edge]
  BY DEF DiGraph
<1>4. M.tasks \subseteq Order(M).node /\ IsFiniteSet(Order(M).node) BY OrderGraph
<1>5. G.node \subseteq Order(M).node BY <1>2, <1>3, <1>4
<1>6. IsFiniteSet(G.node) BY <1>4, <1>5, FS_Subset
<1>7. G.edge \subseteq G.node \X G.node
  <2>1. \A p \in D : p = <<p[1], p[2]>> BY <1>2
  <2>2. \A p \in D : p[1] \in G.node /\ p[2] \in G.node BY <1>3
  <2>. QED BY <1>3, <2>1, <2>2
<1>. QED BY <1>2, <1>3, <1>5, <1>6, <1>7

IsGraph(G) == IsFiniteSet(G.node) /\ G.edge \subseteq G.node \X G.node

(* A part of a graph has no path that the graph has not.                   *)
LEMMA PathsOfPart ==
  ASSUME NEW G, IsGraph(G), NEW H, IsGraph(H), G.node \subseteq H.node, G.edge \subseteq H.edge
  PROVE  Paths(G) \subseteq Paths(H)
<1>1. IsPath(Paths(H), H.node) /\ H.edge \subseteq Paths(H) BY PathsArePaths DEF IsGraph
<1>2. IsPath(Paths(H), G.node) BY <1>1 DEF IsPath
<1>. QED BY <1>1, <1>2, PathsArePaths DEF IsGraph

(* A cycle between the closed containers is a cycle of what M says.        *)
LEMMA RejectedRightly ==
  ASSUME NEW M, IsModel(M), ~Acceptable(M)
  PROVE  Cyclic(Order(M))
<1>. DEFINE G == DiGraph(M.tasks, ClassEdges(M))
<1>1. PartOf(ClassEdges(M), M) BY DEF AllEdges, PartOf
<1>2. G = DiGraph(M.tasks, ClassEdges(M)) OBVIOUS
<1>3. PICK e \in G.edge : <<e[2], e[1]>> \in Paths(G) BY DEF Acceptable, Cyclic
<1>. HIDE DEF G
<1>4. IsGraph(G) /\ IsGraph(Order(M)) BY <1>1, <1>2, GraphInOrder, OrderGraph DEF IsGraph
<1>5. G.edge \subseteq Order(M).edge /\ G.node \subseteq Order(M).node
  BY <1>1, <1>2, GraphInOrder
<1>6. Paths(G) \subseteq Paths(Order(M)) BY <1>4, <1>5, PathsOfPart
<1>. QED BY <1>3, <1>5, <1>6 DEF Cyclic

-----------------------------------------------------------------------------
States == {"unfixed", "fixed", "used"}

DepInv ==
  /\ model \in Models
  /\ stage \in {"declared", "made", "rejected"}
  /\ stage = "made" => Acceptable(model)
  /\ stage = "rejected" => ~Acceptable(model)
  /\ calls \in Nat /\ calls <= MaxCalls
  /\ expansion \in [model.tasks -> States]
  /\ calls = 0 => \A t \in model.tasks : expansion[t] # "used"
  /\ calls > 0 => \E state \in [model.tasks -> {"fixed", "used"}] :
                    /\ graph = DiGraph(model.tasks, Grown(model, state))
                    /\ calls = 1 => \A t \in model.tasks : state[t] = "fixed"

(* The invariant holds when the class is being made.                       *)
LEMMA DepInvInit == Init => DepInv
BY MaxCallsAssumption DEF Init, DepInv, States

(* Neither making the class, nor fixing arguments, nor get_graph breaks    *)
(* it.                                                                     *)
LEMMA DepInvNext == DepInv /\ [Next]_vars => DepInv'
<1>. SUFFICES ASSUME DepInv, [Next]_vars PROVE DepInv'
  OBVIOUS
<1>. USE MaxCallsAssumption
<1>1. CASE MakeClass BY <1>1 DEF MakeClass, DepInv
<1>2. ASSUME NEW t \in model.tasks, FixArguments(t) PROVE DepInv'
  <2>1. expansion' = [expansion EXCEPT ![t] = FixedNow(@)] /\ UNCHANGED <<model, stage, graph, calls>>
    BY <1>2 DEF FixArguments
  <2>2. \A s \in States : FixedNow(s) \in States /\ (s # "used" => FixedNow(s) # "used")
    BY DEF FixedNow, States
  <2>3. expansion' \in [model.tasks -> States] BY <2>1, <2>2 DEF DepInv
  <2>4. calls = 0 => \A u \in model.tasks : expansion'[u] # "used" BY <2>1, <2>2 DEF DepInv
  <2>. QED BY <2>1, <2>3, <2>4 DEF DepInv
<1>3. CASE GetGraph
  <2>. DEFINE now == [t \in model.tasks |-> WithFix(expansion[t])]
  <2>1. /\ graph' = DiGraph(model.tasks, Grown(model, now))
        /\ expansion' = [t \in model.tasks |-> IF now[t] = "fixed" THEN "used" ELSE now[t]]
        /\ calls' = calls + 1 /\ calls < MaxCalls /\ UNCHANGED <<model, stage>>
    BY <1>3 DEF GetGraph, Grown
  <2>2. \A s \in States : WithFix(s) \in {"fixed", "used"} /\ (s # "used" => WithFix(s) = "fixed")
    BY DEF WithFix, FixedNow, States
  <2>3. now \in [model.tasks -> {"fixed", "used"}] BY <2>2 DEF DepInv
  <2>4. calls = 0 => \A t \in model.tasks : now[t] = "fixed" BY <2>2 DEF DepInv
  <2>5. expansion' \in [model.tasks -> States] BY <2>1, <2>3 DEF States
  <2>. HIDE DEF now
  <2>6. calls' \in Nat /\ calls' <= MaxCalls /\ calls' # 0 /\ (calls' = 1 => calls = 0)
    BY <2>1 DEF DepInv
  <2>7. \E state \in [model.tasks -> {"fixed", "used"}] :
          /\ graph' = DiGraph(model.tasks, Grown(model, state))
          /\ calls' = 1 => \A t \in model.tasks : state[t] = "fixed"
    BY <2>1, <2>3, <2>4, <2>6
  <2>. QED BY <2>1, <2>5, <2>6, <2>7 DEF DepInv
<1>4. CASE UNCHANGED vars BY <1>4 DEF vars, DepInv
<1>. QED BY <1>1, <1>2, <1>3, <1>4 DEF Next

(* The edges of the graph are some of those it can have.                   *)
LEMMA GrownEdges ==
  ASSUME DepInv, calls > 0
  PROVE  \E state \in [model.tasks -> {"fixed", "used"}] :
           /\ graph = DiGraph(model.tasks, Grown(model, state))
           /\ Grown(model, state) \subseteq AllEdges(model)
           /\ calls = 1 \/ (\A t \in model.tasks : Again[t] = Fresh[t]) =>
                Grown(model, state) = AllEdges(model)
<1>1. PICK state \in [model.tasks -> {"fixed", "used"}] :
                    /\ graph = DiGraph(model.tasks, Grown(model, state))
                    /\ calls = 1 => \A t \in model.tasks : state[t] = "fixed"
  BY DEF DepInv
<1>2. \A t \in model.tasks : /\ Unpacked(t, state[t]) = Fresh[t] \/ Unpacked(t, state[t]) = Again[t]
                             /\ state[t] = "fixed" => Unpacked(t, state[t]) = Fresh[t]
  BY DEF Unpacked
<1>3. \A t \in model.tasks : Again[t] \subseteq Fresh[t]
  BY ModelsAreModels, OrderGraph, AgainFresh DEF DepInv, Tasks
<1>4. \A t \in model.tasks : Unpacked(t, state[t]) \subseteq Fresh[t] BY <1>2, <1>3
<1>5. Grown(model, state) \subseteq AllEdges(model) BY <1>4 DEF Grown, AllEdges
<1>6. ASSUME calls = 1 \/ (\A t \in model.tasks : Again[t] = Fresh[t])
      PROVE  Grown(model, state) = AllEdges(model)
  <2>1. \A t \in model.tasks : Unpacked(t, state[t]) = Fresh[t] BY <1>1, <1>2, <1>6
  <2>. QED BY <2>1 DEF Grown, AllEdges
<1>. QED BY <1>1, <1>5, <1>6

(* A graph of the model has only edges that the model says.                *)
LEMMA DepInvNothingElse == DepInv => NothingElseOrdered
<1>. SUFFICES ASSUME DepInv, calls > 0 PROVE graph.edge \subseteq Paths(Order(model))
  BY DEF NothingElseOrdered
<1>0. IsModel(model) BY ModelsAreModels DEF DepInv
<1>1. graph.edge \subseteq Order(model).edge BY <1>0, GrownEdges, GraphInOrder DEF PartOf
<1>2. Order(model).edge \subseteq Paths(Order(model)) BY <1>0, OrderGraph, PathsArePaths
<1>. QED BY <1>1, <1>2

(* "Tasks that aren't subject to explicit '|' dependencies are implicitly  *)
(* treated as being able to be performed in parallel"                      *)
(* (ConfigModel.with_dependencies): whatever the model and however often   *)
(* get_graph is called, each edge it returns is an order the expressions   *)
(* imply.                                                                  *)
THEOREM NothingElseOrderedCorrect == Spec => []NothingElseOrdered
<1>1. Spec => []DepInv BY DepInvInit, DepInvNext, PTL DEF Spec
<1>. QED BY <1>1, DepInvNothingElse, PTL

-----------------------------------------------------------------------------
(* What the lower bound rests on: a finite graph without cycles has ends,  *)
(* and so has an expression.                                               *)

(* In a finite graph without cycles every node is reached from a root.     *)
LEMMA RootReaches ==
  ASSUME NEW G, IsGraph(G), ~Cyclic(G)
  PROVE  \A n \in G.node : \E r \in Roots(G) : <<r, n>> \in Paths(G)
<1>. DEFINE P == Paths(G)
            B(n) == {x \in G.node : <<x, n>> \in P}
            before == [n \in G.node |-> Predecessors(G, n)]
            rank == [n \in G.node |-> Cardinality(B(n))]
            T == {n \in G.node : \E r \in Roots(G) : <<r, n>> \in P}
<1>1. P \subseteq G.node \X G.node /\ G.edge \subseteq P /\ IsPath(P, G.node)
  BY PathsArePaths DEF IsGraph
<1>2. \A e \in G.edge : <<e[2], e[1]>> \notin P BY DEF Cyclic
<1>. HIDE DEF P
<1>3. \A n \in G.node : IsFiniteSet(B(n)) /\ Cardinality(B(n)) \in Nat
  BY FS_Subset, FS_CardinalityType DEF IsGraph
<1>4. ASSUME NEW n \in G.node, NEW m \in Predecessors(G, n) PROVE m \in G.node /\ rank[m] < rank[n]
  <2>1. m \in G.node /\ <<m, n>> \in G.edge BY <1>4 DEF Predecessors
  <2>2. <<m, n>> \in P /\ <<n, m>> \notin P
    <3>. DEFINE e == <<m, n>>
    <3>1. e \in G.edge /\ e[1] = m /\ e[2] = n BY <2>1
    <3>. HIDE DEF e
    <3>2. <<n, m>> \notin P BY <1>2, <3>1
    <3>. QED BY <1>1, <2>1, <3>2
  <2>3. B(m) \subseteq B(n) BY <1>1, <2>2 DEF IsPath
  <2>4. n \in B(n) /\ n \notin B(m) BY <1>1, <2>2 DEF IsPath
  <2>. HIDE DEF B
  <2>5. Cardinality(B(m)) <= Cardinality(B(n)) /\ Cardinality(B(m)) # Cardinality(B(n))
    BY <1>3, <2>3, <2>4, FS_Subset
  <2>6. Cardinality(B(m)) \in Nat /\ Cardinality(B(n)) \in Nat BY <1>3, <2>1
  <2>. QED BY <2>1, <2>5, <2>6
<1>5. Built(G.node, before, rank)
  <2>1. rank \in [G.node -> Nat] BY <1>3
  <2>. HIDE DEF rank
  <2>. QED BY <1>4, <2>1 DEF Built
<1>6. \A n \in G.node : before[n] \subseteq T => n \in T
  <2>. SUFFICES ASSUME NEW n \in G.node, before[n] \subseteq T
                PROVE \E r \in Roots(G) : <<r, n>> \in P
    OBVIOUS
  <2>1. CASE Predecessors(G, n) = {}
    <3>1. n \in Roots(G) BY <2>1 DEF Roots
    <3>. QED BY <1>1, <3>1 DEF IsPath
  <2>2. CASE Predecessors(G, n) # {}
    <3>1. PICK m \in Predecessors(G, n) : m \in T BY <2>2
    <3>2. <<m, n>> \in P BY <1>1 DEF Predecessors
    <3>3. PICK r \in Roots(G) : <<r, m>> \in P BY <3>1
    <3>. QED BY <1>1, <3>2, <3>3 DEF IsPath
  <2>. QED BY <2>1, <2>2
<1>7. G.node \subseteq T
  <2>. HIDE DEF T, before, rank
  <2>. QED BY <1>5, <1>6, PartsInduction
<1>. QED BY <1>7 DEF P

(* And every node reaches a leaf.                                          *)
LEMMA LeafReached ==
  ASSUME NEW G, IsGraph(G), ~Cyclic(G)
  PROVE  \A n \in G.node : \E l \in Leaves(G) : <<n, l>> \in Paths(G)
<1>. DEFINE P == Paths(G)
            B(n) == {x \in G.node : <<n, x>> \in P}
            after == [n \in G.node |-> Successors(G, n)]
            rank == [n \in G.node |-> Cardinality(B(n))]
            T == {n \in G.node : \E l \in Leaves(G) : <<n, l>> \in P}
<1>1. P \subseteq G.node \X G.node /\ G.edge \subseteq P /\ IsPath(P, G.node)
  BY PathsArePaths DEF IsGraph
<1>2. \A e \in G.edge : <<e[2], e[1]>> \notin P BY DEF Cyclic
<1>. HIDE DEF P
<1>3. \A n \in G.node : IsFiniteSet(B(n)) /\ Cardinality(B(n)) \in Nat
  BY FS_Subset, FS_CardinalityType DEF IsGraph
<1>4. ASSUME NEW n \in G.node, NEW m \in Successors(G, n) PROVE m \in G.node /\ rank[m] < rank[n]
  <2>1. m \in G.node /\ <<n, m>> \in G.edge BY <1>4 DEF Successors
  <2>2. <<n, m>> \in P /\ <<m, n>> \notin P
    <3>. DEFINE e == <<n, m>>
    <3>1. e \in G.edge /\ e[1] = n /\ e[2] = m BY <2>1
    <3>. HIDE DEF e
    <3>2. <<m, n>> \notin P BY <1>2, <3>1
    <3>. QED BY <1>1, <2>1, <3>2
  <2>3. B(m) \subseteq B(n) BY <1>1, <2>2 DEF IsPath
  <2>4. n \in B(n) /\ n \notin B(m) BY <1>1, <2>2 DEF IsPath
  <2>. HIDE DEF B
  <2>5. Cardinality(B(m)) <= Cardinality(B(n)) /\ Cardinality(B(m)) # Cardinality(B(n))
    BY <1>3, <2>3, <2>4, FS_Subset
  <2>6. Cardinality(B(m)) \in Nat /\ Cardinality(B(n)) \in Nat BY <1>3, <2>1
  <2>. QED BY <2>1, <2>5, <2>6
<1>5. Built(G.node, after, rank)
  <2>1. rank \in [G.node -> Nat] BY <1>3
  <2>. HIDE DEF rank
  <2>. QED BY <1>4, <2>1 DEF Built
<1>6. \A n \in G.node : after[n] \subseteq T => n \in T
  <2>. SUFFICES ASSUME NEW n \in G.node, after[n] \subseteq T
                PROVE \E l \in Leaves(G) : <<n, l>> \in P
    OBVIOUS
  <2>1. CASE Successors(G, n) = {}
    <3>1. n \in Leaves(G) BY <2>1 DEF Leaves
    <3>. QED BY <1>1, <3>1 DEF IsPath
  <2>2. CASE Successors(G, n) # {}
    <3>1. PICK m \in Successors(G, n) : m \in T BY <2>2
    <3>2. <<n, m>> \in P BY <1>1 DEF Successors
    <3>3. PICK l \in Leaves(G) : <<m, l>> \in P BY <3>1
    <3>. QED BY <1>1, <3>2, <3>3 DEF IsPath
  <2>. QED BY <2>1, <2>2
<1>7. G.node \subseteq T
  <2>. HIDE DEF T, after, rank
  <2>. QED BY <1>5, <1>6, PartsInduction
<1>. QED BY <1>7 DEF P

(* Without a ConfigClassTask in it, a container gives the same edges again.*)
LEMMA AgainIsFresh ==
  \A e \in Expressions : (\A n \in Inside[e] : n.kind # "class") => Again[e] = Fresh[e]
<1>. DEFINE T == {e \in Expressions : (\A n \in Inside[e] : n.kind # "class") => Again[e] = Fresh[e]}
<1>1. ASSUME NEW e \in Expressions, Parts(e) \subseteq T, \A n \in Inside[e] : n.kind # "class"
      PROVE  Again[e] = Fresh[e]
  <2>. DEFINE again == UNION {Again[m] : m \in Members(e)}
              fresh == UNION {Fresh[m] : m \in Members(e)}
  <2>1. Again[e] = again \cup IF e.kind = "multi" THEN InstanceEdges(e) ELSE {} BY AgainDef
  <2>2. Fresh[e] = FirstEdges(e, fresh) BY FreshDef
  <2>3. \A m \in Members(e) : Again[m] = Fresh[m]
    <3>1. \A m \in Members(e) : Inside[m] \subseteq Inside[e] BY InsideDef
    <3>2. Members(e) \subseteq T BY <1>1, Kinds
    <3>. QED BY <1>1, <3>1, <3>2
  <2>4. again = fresh BY <2>3
  <2>5. e.kind # "class"
    <3>1. e.kind = "class" => e \in Inside[e] BY Kinds, InsideDef
    <3>. QED BY <1>1, <3>1
  <2>6. CASE e.kind = "multi"
    <3>. HIDE DEF again, fresh
    <3>. QED BY <2>1, <2>2, <2>4, <2>6 DEF FirstEdges
  <2>7. CASE e.kind # "multi"
    <3>1. Members(e) = {} BY <2>5, <2>7 DEF Members
    <3>2. again = {} BY <3>1
    <3>. HIDE DEF again, fresh
    <3>. QED BY <2>1, <2>2, <2>5, <2>7, <3>2 DEF FirstEdges
  <2>. QED BY <2>6, <2>7
<1>2. Inductive(T) BY <1>1 DEF Inductive
<1>3. Expressions \subseteq T
  <2>. HIDE DEF T
  <2>. QED BY <1>2, ExpressionInduction
<1>. QED BY <1>3

GroupsFilled == \A e \in Expressions : e.kind = "group" => e.args # {}

(* An expression without an empty group in it has an entry and an exit.    *)
LEMMA EndsExist ==
  ASSUME GroupsFilled
  PROVE  \A e \in Expressions : EntryNodes[e] # {} /\ ExitNodes[e] # {}
<1>. DEFINE T == {e \in Expressions : EntryNodes[e] # {} /\ ExitNodes[e] # {}}
<1>1. ASSUME NEW e \in Expressions, Parts(e) \subseteq T
      PROVE  EntryNodes[e] # {} /\ ExitNodes[e] # {}
  <2>1. CASE IsTask(e) BY <2>1, EntryNodesDef, ExitNodesDef
  <2>2. CASE ~IsTask(e)
    <3>1. EntryNodes[e] = UNION {EntryNodes[o] : o \in Firsts(e)}
          /\ ExitNodes[e] = UNION {ExitNodes[o] : o \in Lasts(e)}
      BY <2>2, EntryNodesDef, ExitNodesDef
    <3>2. (\E o \in Firsts(e) : o \in Operands(e)) /\ (\E o \in Lasts(e) : o \in Operands(e))
      <4>1. CASE e.kind = "dep" BY <4>1, Kinds
      <4>2. CASE e.kind = "group"
        <5>1. Operands(e) # {} BY <4>2 DEF GroupsFilled, Operands
        <5>. QED BY <4>2, <5>1, Kinds
      <4>. QED BY <2>2, <4>1, <4>2, Kinds
    <3>3. Operands(e) \subseteq T BY <1>1, Kinds
    <3>. QED BY <3>1, <3>2, <3>3
  <2>. QED BY <2>1, <2>2
<1>2. Inductive(T) BY <1>1 DEF Inductive
<1>3. Expressions \subseteq T
  <2>. HIDE DEF T
  <2>. QED BY <1>2, ExpressionInduction
<1>. QED BY <1>3

-----------------------------------------------------------------------------
(* The lower bound: what is in an expression lies between its ends.        *)

(* R has the edges that e gives, and that the tasks in it give.            *)
Carried(R, e) == Unpack[e] \subseteq R /\ \A m \in Mentioned[e] : Fresh[m] \subseteq R

(* Whatever is in e is between an entry and an exit of e, and what e says  *)
(* is so.                                                                  *)
Enclosed(R, e) == \A x \in Inside[e] : /\ \E n \in EntryNodes[e] : <<n, x>> \in R
                                       /\ \E n \in ExitNodes[e] : <<x, n>> \in R
Kept(R, e) == Enclosed(R, e) /\ Said[e] \subseteq R

(* What carrying and enclosing mean for a task.                            *)
LEMMA TaskCarried ==
  ASSUME NEW e \in Tasks, NEW R
  PROVE  /\ Carried(R, e) <=> Fresh[e] \subseteq R
         /\ Enclosed(R, e) <=> \A x \in Inside[e] : <<e, x>> \in R /\ <<x, ExitOf(e)>> \in R
<1>1. e \in Expressions /\ IsTask(e) BY DEF Tasks
<1>2. e.kind # "dep" BY <1>1, Kinds
<1>3. Operands(e) = {} BY <1>1, InsideClass
<1>4. Unpack[e] = {} BY <1>1, <1>2, <1>3, UnpackDef
<1>5. Mentioned[e] = {e} /\ EntryNodes[e] = {e} /\ ExitNodes[e] = {ExitOf(e)}
  BY <1>1, MentionedDef, EntryNodesDef, ExitNodesDef
<1>. QED BY <1>4, <1>5 DEF Carried, Enclosed

(* A container with its members between itself and its rendezvous.         *)
LEMMA ContainerKept ==
  ASSUME NEW R, IsPath(R, Nodes), NEW e \in Expressions, IsContainer(e), Members(e) # {},
         \A m \in Members(e) : <<e, m>> \in R /\ <<ExitOf(m), ExitOf(e)>> \in R /\ Enclosed(R, m),
         \A p \in Parts(e) : Said[p] \subseteq R
  PROVE  Kept(R, e)
<1>. DEFINE all == UNION {Inside[m] : m \in Members(e)}
<1>1. e \in Tasks /\ Members(e) \subseteq Tasks BY Kinds, InsideClass DEF Tasks
<1>2. \A m \in Members(e) : \A x \in Inside[m] : <<m, x>> \in R /\ <<x, ExitOf(m)>> \in R
  BY <1>1, TaskCarried
<1>3. ASSUME NEW x \in all PROVE <<e, x>> \in R /\ <<x, ExitOf(e)>> \in R
  <2>1. PICK m \in Members(e) : x \in Inside[m] OBVIOUS
  <2>2. <<m, x>> \in R /\ <<x, ExitOf(m)>> \in R BY <1>2, <2>1
  <2>3. <<e, m>> \in R /\ <<ExitOf(m), ExitOf(e)>> \in R OBVIOUS
  <2>. QED BY <2>2, <2>3 DEF IsPath
<1>4. <<e, e>> \in R /\ <<ExitOf(e), ExitOf(e)>> \in R /\ <<e, ExitOf(e)>> \in R
  <2>1. PICK m \in Members(e) : TRUE OBVIOUS
  <2>2. m \in Inside[m] BY <1>1, InsideDef DEF Tasks
  <2>3. m \in all BY <2>2
  <2>4. e \in Nodes /\ ExitOf(e) \in Nodes BY <1>1 DEF Nodes, ExitOf
  <2>. HIDE DEF all
  <2>. QED BY <1>3, <2>3, <2>4 DEF IsPath
<1>5. Inside[e] = all \cup {e, ExitOf(e)}
  <2>1. Operands(e) = {} BY <1>1, InsideClass DEF Tasks
  <2>. QED BY <1>1, <2>1, InsideDef DEF Tasks
<1>. HIDE DEF all
<1>6. Enclosed(R, e) BY <1>1, <1>3, <1>4, <1>5, TaskCarried
<1>7. SaidBy(e) = Around(e, all) BY Kinds DEF SaidBy, all
<1>8. ASSUME NEW p \in Around(e, all) PROVE p \in R
  <2>1. p \in ({e} \X (all \cup {ExitOf(e)})) \/ p \in (all \X {ExitOf(e)}) BY DEF Around
  <2>2. CASE p \in {e} \X (all \cup {ExitOf(e)})
    <3>1. p = <<e, p[2]>> /\ p[2] \in all \cup {ExitOf(e)} BY <2>2
    <3>. QED BY <1>3, <1>4, <3>1
  <2>3. CASE p \in all \X {ExitOf(e)}
    <3>1. p = <<p[1], ExitOf(e)>> /\ p[1] \in all BY <2>3
    <3>. QED BY <1>3, <3>1
  <2>. QED BY <2>1, <2>2, <2>3
<1>9. Said[e] = SaidBy(e) \cup UNION {Said[p] : p \in Parts(e)} BY SaidDef
<1>. QED BY <1>6, <1>7, <1>8, <1>9 DEF Kept

(* The rendezvous of a container, and a plain task, is in the graph.       *)
LEMMA ExitInGraph ==
  ASSUME AllRegular, NEW m \in Tasks, m.kind # "class", NEW G, IsGraph(G),
         m \in G.node, Fresh[m] \subseteq G.edge
  PROVE  ExitOf(m) \in G.node
<1>1. m \in Expressions BY DEF Tasks
<1>2. CASE m.kind = "plain" BY <1>1, <1>2, Kinds
<1>3. CASE m.kind = "multi"
  <2>1. IsContainer(m) /\ ExitOf(m) = Rendezvous(m) /\ Members(m) = m.instances
    BY <1>1, <1>3, Kinds, InsideClass
  <2>2. PICK i \in m.instances : TRUE BY <1>1, <2>1 DEF AllRegular, Regular
  <2>3. <<ExitOf(i), Rendezvous(m)>> \in InstanceEdges(m) BY DEF InstanceEdges
  <2>4. InstanceEdges(m) \subseteq Fresh[m] BY <1>1, <1>3, FreshDef DEF FirstEdges
  <2>5. <<ExitOf(i), Rendezvous(m)>> \in G.edge BY <2>3, <2>4
  <2>. QED BY <2>1, <2>5 DEF IsGraph
<1>. QED BY <1>1, <1>2, <1>3, Kinds DEF Tasks

(* The edges of a ConfigClassTask with no other in it.                     *)
LEMMA ClassFresh ==
  ASSUME AllRegular, NEW e \in Expressions, e.kind = "class",
         NEW G, G = DiGraph(e.model.tasks, AllEdges(e.model))
  PROVE  /\ Fresh[e] = EndsOf(e, G) \cup AllEdges(e.model)
         /\ IsGraph(G) /\ ~Cyclic(G) /\ G.edge = AllEdges(e.model)
         /\ Members(e) = e.model.tasks /\ Members(e) \subseteq G.node /\ G.node \subseteq Nodes
<1>1. Members(e) = e.model.tasks /\ IsModel(e.model) /\ IsContainer(e)
  BY InsideClass, ModelsAreModels, Kinds
<1>2. \A m \in Members(e) : Again[m] = Fresh[m]
  <2>1. \A n \in UNION {Inside[m] : m \in Members(e)} : n.kind # "class" BY DEF AllRegular, Regular
  <2>2. \A m \in Members(e) : \A n \in Inside[m] : n.kind # "class" BY <2>1
  <2>. QED BY <2>2, AgainIsFresh, InsideClass DEF Tasks
<1>3. Fresh[e] = ModelEdges(e, UNION {Fresh[m] : m \in Members(e)}) BY FreshDef DEF FirstEdges
<1>4. AllEdges(e.model) = ClassEdges(e.model) \cup UNION {Fresh[m] : m \in Members(e)}
  BY <1>1 DEF AllEdges
<1>5. UNION {Again[m] : m \in e.model.tasks} = UNION {Fresh[m] : m \in Members(e)} BY <1>1, <1>2
<1>6. Fresh[e] = EndsOf(e, G) \cup AllEdges(e.model)
  <2>. DEFINE fresh == UNION {Fresh[m] : m \in Members(e)}
  <2>1. G = DiGraph(e.model.tasks, ClassEdges(e.model) \cup fresh) BY <1>4
  <2>2. Fresh[e] = ModelEdges(e, fresh) BY <1>3
  <2>. HIDE DEF fresh
  <2>3. Fresh[e] = EndsOf(e, G) \cup ClassEdges(e.model) \cup UNION {Again[m] : m \in e.model.tasks}
    BY <2>1, <2>2 DEF ModelEdges
  <2>. QED BY <1>4, <1>5, <2>3
<1>7. PartOf(AllEdges(e.model), e.model) BY DEF PartOf
<1>8. /\ G.edge = AllEdges(e.model) /\ G.edge \subseteq Order(e.model).edge
      /\ G.node \subseteq Order(e.model).node /\ e.model.tasks \subseteq G.node /\ IsGraph(G)
  BY <1>1, <1>7, GraphInOrder DEF IsGraph
<1>9. IsGraph(Order(e.model)) /\ Order(e.model).node \subseteq Nodes BY <1>1, OrderGraph DEF IsGraph
<1>10. Paths(G) \subseteq Paths(Order(e.model)) BY <1>8, <1>9, PathsOfPart
<1>11. ~Cyclic(Order(e.model)) BY DEF AllRegular, Regular
<1>12. ~Cyclic(G) BY <1>8, <1>10, <1>11 DEF Cyclic
<1>. QED BY <1>1, <1>6, <1>8, <1>9, <1>12

(* A ConfigClassTask keeps what is in it: the ends of the inside are       *)
(* joined to the task and its rendezvous.                                  *)
LEMMA ClassKept ==
  ASSUME AllRegular, NEW R, IsPath(R, Nodes), NEW e \in Expressions, e.kind = "class",
         Fresh[e] \subseteq R, \A p \in Parts(e) : Carried(R, p) => Kept(R, p)
  PROVE  Kept(R, e)
<1>. DEFINE G == DiGraph(e.model.tasks, AllEdges(e.model))
<1>0. G = DiGraph(e.model.tasks, AllEdges(e.model)) OBVIOUS
<1>. HIDE DEF G
<1>1. /\ Fresh[e] = EndsOf(e, G) \cup AllEdges(e.model)
      /\ IsGraph(G) /\ ~Cyclic(G) /\ G.edge = AllEdges(e.model)
      /\ Members(e) = e.model.tasks /\ Members(e) \subseteq G.node /\ G.node \subseteq Nodes
  BY <1>0, ClassFresh
<1>2. IsContainer(e) /\ ExitOf(e) = Rendezvous(e) /\ Members(e) \subseteq Tasks
      /\ InnerDeps(e) = e.model.deps
  BY Kinds, InsideClass
<1>3. AllEdges(e.model) \subseteq R BY <1>1
<1>4. Paths(G) \subseteq R
  <2>1. IsPath(R, G.node) BY <1>1 DEF IsPath
  <2>. QED BY <1>1, <1>3, <2>1, PathsArePaths DEF IsGraph
<1>5. ASSUME NEW m \in Members(e)
      PROVE  Kept(R, m) /\ <<e, m>> \in R /\ <<ExitOf(m), ExitOf(e)>> \in R
  <2>1. Fresh[m] \subseteq AllEdges(e.model) BY <1>1 DEF AllEdges
  <2>2. Carried(R, m) BY <1>2, <1>3, <2>1, TaskCarried
  <2>3. m \in Parts(e) /\ m \in Expressions BY <1>2, Kinds DEF Tasks
  <2>4. m.kind # "class"
    <3>1. m \in Inside[m] BY <1>2, <2>3, InsideDef DEF Tasks
    <3>2. \A n \in UNION {Inside[k] : k \in Members(e)} : n.kind # "class"
      BY DEF AllRegular, Regular
    <3>. QED BY <3>1, <3>2
  <2>5. m \in G.node /\ ExitOf(m) \in G.node
    <3>1. m \in Tasks /\ m \in G.node /\ Fresh[m] \subseteq G.edge BY <1>1, <1>2, <2>1
    <3>. QED BY <1>1, <2>4, <3>1, ExitInGraph
  <2>6. PICK r \in Roots(G) : <<r, m>> \in Paths(G) BY <1>1, <2>5, RootReaches
  <2>7. PICK l \in Leaves(G) : <<ExitOf(m), l>> \in Paths(G) BY <1>1, <2>5, LeafReached
  <2>8. <<e, r>> \in R /\ <<l, Rendezvous(e)>> \in R BY <1>1 DEF EndsOf
  <2>9. <<r, m>> \in R /\ <<ExitOf(m), l>> \in R BY <1>4, <2>6, <2>7
  <2>10. <<e, m>> \in R /\ <<ExitOf(m), ExitOf(e)>> \in R BY <1>2, <2>8, <2>9 DEF IsPath
  <2>. QED BY <2>2, <2>3, <2>10
<1>6. ASSUME NEW d \in InnerDeps(e) PROVE Said[d] \subseteq R
  <2>1. Unpack[d] \subseteq AllEdges(e.model) BY <1>2 DEF AllEdges, ClassEdges
  <2>2. Mentioned[d] \subseteq Members(e) /\ d \in Parts(e) BY InsideClass, Kinds
  <2>3. \A m \in Mentioned[d] : Fresh[m] \subseteq AllEdges(e.model) BY <1>1, <2>2 DEF AllEdges
  <2>4. Carried(R, d) BY <1>3, <2>1, <2>3 DEF Carried
  <2>. QED BY <2>2, <2>4 DEF Kept
<1>7. \A p \in Parts(e) : Said[p] \subseteq R
  <2>1. Operands(e) = {} BY <1>2, Kinds, InsideClass
  <2>. QED BY <1>5, <1>6, <2>1 DEF Parts, Kept
<1>8. Members(e) # {} BY <1>2 DEF AllRegular, Regular
<1>9. \A m \in Members(e) : <<e, m>> \in R /\ <<ExitOf(m), ExitOf(e)>> \in R /\ Enclosed(R, m)
  BY <1>5 DEF Kept
<1>. QED BY <1>2, <1>7, <1>8, <1>9, ContainerKept

(* So does a MultiTask, whose instances are all joined to it.              *)
LEMMA MultiKept ==
  ASSUME AllRegular, NEW R, IsPath(R, Nodes), NEW e \in Expressions, e.kind = "multi",
         Fresh[e] \subseteq R, \A p \in Parts(e) : Carried(R, p) => Kept(R, p)
  PROVE  Kept(R, e)
<1>1. IsContainer(e) /\ ExitOf(e) = Rendezvous(e) /\ Members(e) \subseteq Tasks
      /\ InnerDeps(e) = {} /\ Members(e) = e.instances /\ Operands(e) = {}
  BY Kinds, InsideClass
<1>2. Fresh[e] = InstanceEdges(e) \cup UNION {Fresh[m] : m \in Members(e)}
  BY FreshDef DEF FirstEdges
<1>3. ASSUME NEW m \in Members(e)
      PROVE  Kept(R, m) /\ <<e, m>> \in R /\ <<ExitOf(m), ExitOf(e)>> \in R
  <2>1. Fresh[m] \subseteq R BY <1>2
  <2>2. Carried(R, m) BY <1>1, <2>1, TaskCarried
  <2>3. m \in Parts(e) BY Kinds
  <2>4. <<e, m>> \in R /\ <<ExitOf(m), Rendezvous(e)>> \in R BY <1>1, <1>2 DEF InstanceEdges
  <2>. QED BY <1>1, <2>2, <2>3, <2>4
<1>4. \A p \in Parts(e) : Said[p] \subseteq R BY <1>1, <1>3 DEF Parts, Kept
<1>5. Members(e) # {} BY <1>1 DEF AllRegular, Regular
<1>6. \A m \in Members(e) : <<e, m>> \in R /\ <<ExitOf(m), ExitOf(e)>> \in R /\ Enclosed(R, m)
  BY <1>3 DEF Kept
<1>. QED BY <1>1, <1>4, <1>5, <1>6, ContainerKept

(* There is nothing to keep in a plain task.                               *)
LEMMA PlainKept ==
  ASSUME NEW R, IsPath(R, Nodes), NEW e \in Expressions, e.kind = "plain"
  PROVE  Kept(R, e)
<1>1. IsTask(e) /\ ~IsContainer(e) /\ ExitOf(e) = e /\ Operands(e) = {} /\ Members(e) = {} /\ InnerDeps(e) = {}
  BY Kinds, InsideClass
<1>2. Inside[e] = {e} BY <1>1, InsideDef
<1>3. e \in Tasks /\ e \in Nodes BY <1>1 DEF Tasks, Nodes
<1>4. Enclosed(R, e) BY <1>1, <1>2, <1>3, TaskCarried DEF IsPath
<1>5. Said[e] = {}
  <2>1. SaidBy(e) = {} BY <1>1, Kinds DEF SaidBy
  <2>2. Parts(e) = {} BY <1>1 DEF Parts
  <2>3. Said[e] = SaidBy(e) \cup UNION {Said[p] : p \in Parts(e)} BY SaidDef
  <2>. QED BY <2>1, <2>2, <2>3
<1>. QED BY <1>4, <1>5 DEF Kept

(* In from | to every exit of from is joined to every entry of to.         *)
LEMMA DepKept ==
  ASSUME GroupsFilled, NEW R, IsPath(R, Nodes), NEW e \in Expressions, e.kind = "dep",
         Carried(R, e), \A p \in Parts(e) : Carried(R, p) => Kept(R, p)
  PROVE  Kept(R, e)
<1>1. Operands(e) = {e.from, e.to} /\ Firsts(e) = {e.from} /\ Lasts(e) = {e.to}
      /\ ~IsTask(e) /\ Operands(e) \subseteq Parts(e) /\ Parts(e) \subseteq Expressions
      /\ Members(e) = {} /\ InnerDeps(e) = {}
  BY Kinds, InsideClass
<1>2. \A o \in Operands(e) : Carried(R, o)
  <2>1. \A o \in Operands(e) : Unpack[o] \subseteq Unpack[e] BY UnpackDef
  <2>2. Mentioned[e] = UNION {Mentioned[o] : o \in Operands(e)}
    <3>1. ~IsTask(e) BY <1>1
    <3>. QED BY <3>1, MentionedDef
  <2>. QED BY <2>1, <2>2 DEF Carried
<1>3. Kept(R, e.from) /\ Kept(R, e.to) BY <1>1, <1>2
<1>4. \A x \in ExitNodes[e.from], y \in EntryNodes[e.to] : <<x, y>> \in R
  <2>1. Join(e) \subseteq Unpack[e] BY UnpackDef
  <2>. QED BY <2>1 DEF Carried, Join
<1>5. EntryNodes[e] = EntryNodes[e.from] /\ ExitNodes[e] = ExitNodes[e.to]
  <2>1. ~IsTask(e) /\ Firsts(e) = {e.from} /\ Lasts(e) = {e.to} BY <1>1
  <2>2. EntryNodes[e] = UNION {EntryNodes[o] : o \in Firsts(e)}
        /\ ExitNodes[e] = UNION {ExitNodes[o] : o \in Lasts(e)}
    BY <2>1, EntryNodesDef, ExitNodesDef
  <2>. QED BY <2>1, <2>2
<1>6. Inside[e] = Inside[e.from] \cup Inside[e.to] BY <1>1, InsideDef
<1>7. ASSUME NEW x \in Inside[e.from], NEW y \in Inside[e.to] PROVE <<x, y>> \in R
  <2>1. PICK n \in ExitNodes[e.from] : <<x, n>> \in R BY <1>3 DEF Kept, Enclosed
  <2>2. PICK k \in EntryNodes[e.to] : <<k, y>> \in R BY <1>3 DEF Kept, Enclosed
  <2>3. <<n, k>> \in R BY <1>4
  <2>. QED BY <2>1, <2>2, <2>3 DEF IsPath
<1>8. e.from \in Expressions /\ e.to \in Expressions BY <1>1
<1>9. Enclosed(R, e)
  <2>1. PICK n \in EntryNodes[e.from] : TRUE BY <1>8, EndsExist
  <2>2. PICK k \in ExitNodes[e.to] : TRUE BY <1>8, EndsExist
  <2>3. n \in Inside[e.from] /\ k \in Inside[e.to] BY <1>8, EndsInside
  <2>4. \A y \in Inside[e.to] : <<n, y>> \in R BY <1>7, <2>3
  <2>5. \A x \in Inside[e.from] : <<x, k>> \in R BY <1>7, <2>3
  <2>6. \A x \in Inside[e.from] : \E l \in EntryNodes[e.from] : <<l, x>> \in R
    BY <1>3 DEF Kept, Enclosed
  <2>7. \A y \in Inside[e.to] : \E l \in ExitNodes[e.to] : <<y, l>> \in R
    BY <1>3 DEF Kept, Enclosed
  <2>. QED BY <1>5, <1>6, <2>4, <2>5, <2>6, <2>7 DEF Enclosed
<1>10. Said[e] \subseteq R
  <2>1. SaidBy(e) = Inside[e.from] \X Inside[e.to] BY Kinds DEF SaidBy
  <2>2. SaidBy(e) \subseteq R BY <1>7, <2>1
  <2>3. \A p \in Parts(e) : Said[p] \subseteq R BY <1>1, <1>3 DEF Kept, Parts
  <2>4. Said[e] = SaidBy(e) \cup UNION {Said[p] : p \in Parts(e)} BY SaidDef
  <2>. QED BY <2>2, <2>3, <2>4
<1>. QED BY <1>9, <1>10 DEF Kept

(* A group has the ends of its arguments.                                  *)
LEMMA GroupKept ==
  ASSUME NEW R, NEW e \in Expressions, e.kind = "group",
         Carried(R, e), \A p \in Parts(e) : Carried(R, p) => Kept(R, p)
  PROVE  Kept(R, e)
<1>1. Firsts(e) = Operands(e) /\ Lasts(e) = Operands(e)
      /\ ~IsTask(e) /\ Operands(e) \subseteq Parts(e)
      /\ Members(e) = {} /\ InnerDeps(e) = {}
  BY Kinds, InsideClass
<1>2. \A o \in Operands(e) : Carried(R, o)
  <2>1. \A o \in Operands(e) : Unpack[o] \subseteq Unpack[e] BY UnpackDef
  <2>2. Mentioned[e] = UNION {Mentioned[o] : o \in Operands(e)}
    <3>1. ~IsTask(e) BY <1>1
    <3>. QED BY <3>1, MentionedDef
  <2>. QED BY <2>1, <2>2 DEF Carried
<1>3. \A o \in Operands(e) : Kept(R, o) BY <1>1, <1>2
<1>4. \A o \in Operands(e) : EntryNodes[o] \subseteq EntryNodes[e] /\ ExitNodes[o] \subseteq ExitNodes[e]
  <2>1. ~IsTask(e) /\ Firsts(e) = Operands(e) /\ Lasts(e) = Operands(e) BY <1>1
  <2>2. EntryNodes[e] = UNION {EntryNodes[o] : o \in Firsts(e)}
        /\ ExitNodes[e] = UNION {ExitNodes[o] : o \in Lasts(e)}
    BY <2>1, EntryNodesDef, ExitNodesDef
  <2>. QED BY <2>1, <2>2
<1>5. Enclosed(R, e)
  <2>. SUFFICES ASSUME NEW x \in Inside[e]
                PROVE  /\ \E n \in EntryNodes[e] : <<n, x>> \in R
                       /\ \E n \in ExitNodes[e] : <<x, n>> \in R
    BY DEF Enclosed
  <2>1. PICK o \in Operands(e) : x \in Inside[o] BY <1>1, InsideDef
  <2>2. (\E n \in EntryNodes[o] : <<n, x>> \in R) /\ (\E n \in ExitNodes[o] : <<x, n>> \in R)
    BY <1>3, <2>1 DEF Kept, Enclosed
  <2>. QED BY <1>4, <2>2
<1>6. Said[e] \subseteq R
  <2>1. SaidBy(e) = {} BY Kinds DEF SaidBy
  <2>2. \A p \in Parts(e) : Said[p] \subseteq R BY <1>1, <1>3 DEF Kept, Parts
  <2>3. Said[e] = SaidBy(e) \cup UNION {Said[p] : p \in Parts(e)} BY SaidDef
  <2>. QED BY <2>1, <2>2, <2>3
<1>. QED BY <1>5, <1>6 DEF Kept

(* Every expression, of any depth, keeps what it says, in any relation of  *)
(* paths that has its edges.                                               *)
LEMMA EverythingKept ==
  ASSUME AllRegular, NEW R, IsPath(R, Nodes)
  PROVE  \A e \in Expressions : Carried(R, e) => Kept(R, e)
<1>. DEFINE T == {e \in Expressions : Carried(R, e) => Kept(R, e)}
<1>1. ASSUME NEW e \in Expressions, Parts(e) \subseteq T, Carried(R, e)
      PROVE  Kept(R, e)
  <2>1. \A p \in Parts(e) : Carried(R, p) => Kept(R, p) BY <1>1
  <2>2. IsTask(e) => Fresh[e] \subseteq R BY <1>1, TaskCarried DEF Tasks
  <2>3. CASE e.kind = "plain" BY <2>3, PlainKept
  <2>4. CASE e.kind = "multi" BY <2>1, <2>2, <2>4, MultiKept, Kinds
  <2>5. CASE e.kind = "class" BY <2>1, <2>2, <2>5, ClassKept, Kinds
  <2>6. CASE e.kind = "dep"
    <3>1. GroupsFilled BY DEF AllRegular, Regular, GroupsFilled
    <3>. QED BY <1>1, <2>1, <2>6, <3>1, DepKept
  <2>7. CASE e.kind = "group" BY <1>1, <2>1, <2>7, GroupKept
  <2>. QED BY <2>3, <2>4, <2>5, <2>6, <2>7, Kinds
<1>2. Inductive(T) BY <1>1 DEF Inductive
<1>3. Expressions \subseteq T
  <2>. HIDE DEF T
  <2>. QED BY <1>2, ExpressionInduction
<1>. QED BY <1>3

-----------------------------------------------------------------------------
(* The graph that get_graph returns when nothing is lost.                  *)

(* A plain task in t is t, or at an end of an edge that t gives.           *)
LEMMA PlainAtAnEnd ==
  ASSUME AllRegular
  PROVE  \A t \in Tasks : \A x \in Inside[t] :
           x.kind = "plain" => x = t \/ \E p \in Fresh[t] : x = p[1] \/ x = p[2]
<1>. DEFINE At(t, x) == x = t \/ \E p \in Fresh[t] : x = p[1] \/ x = p[2]
            T == {e \in Expressions : IsTask(e) => \A x \in Inside[e] : x.kind = "plain" => At(e, x)}
<1>1. ASSUME NEW e \in Expressions, Parts(e) \subseteq T, IsTask(e), NEW x \in Inside[e], x.kind = "plain"
      PROVE  At(e, x)
  <2>1. Operands(e) = {} /\ Members(e) \subseteq T /\ Members(e) \subseteq Tasks
    BY <1>1, InsideClass, Kinds
  <2>2. x # Rendezvous(e) BY <1>1 DEF Rendezvous
  <2>3. CASE \A m \in Members(e) : x \notin Inside[m]
    <3>1. x = e \/ x = ExitOf(e) BY <1>1, <2>1, <2>3, InsideDef
    <3>. QED BY <2>2, <3>1 DEF ExitOf
  <2>4. CASE \E m \in Members(e) : x \in Inside[m]
    <3>1. PICK m \in Members(e) : x \in Inside[m] BY <2>4
    <3>2. At(m, x) BY <1>1, <2>1, <3>1 DEF Tasks
    <3>3. CASE e.kind = "multi"
      <4>1. Members(e) = e.instances BY <3>3, InsideClass
      <4>2. <<e, m>> \in InstanceEdges(e) BY <4>1 DEF InstanceEdges
      <4>3. Fresh[e] = InstanceEdges(e) \cup UNION {Fresh[k] : k \in Members(e)}
        BY <3>3, FreshDef DEF FirstEdges
      <4>4. <<e, m>> \in Fresh[e] /\ Fresh[m] \subseteq Fresh[e] BY <4>2, <4>3
      <4>5. <<e, m>>[2] = m OBVIOUS
      <4>. QED BY <3>2, <4>4, <4>5
    <3>4. CASE e.kind = "class"
      <4>. DEFINE G == DiGraph(e.model.tasks, AllEdges(e.model))
      <4>0. G = DiGraph(e.model.tasks, AllEdges(e.model)) OBVIOUS
      <4>. HIDE DEF G
      <4>1. /\ Fresh[e] = EndsOf(e, G) \cup AllEdges(e.model)
            /\ IsGraph(G) /\ G.edge = AllEdges(e.model)
            /\ Members(e) = e.model.tasks /\ Members(e) \subseteq G.node
        BY <3>4, <4>0, ClassFresh
      <4>2. Fresh[m] \subseteq Fresh[e] BY <4>1 DEF AllEdges
      <4>3. \E p \in Fresh[e] : m = p[2]
        <5>1. CASE m \in Roots(G)
          <6>1. <<e, m>> \in Fresh[e] BY <4>1, <5>1 DEF EndsOf
          <6>2. <<e, m>>[2] = m OBVIOUS
          <6>. QED BY <6>1, <6>2
        <5>2. CASE m \notin Roots(G)
          <6>1. PICK k \in G.node : <<k, m>> \in G.edge BY <4>1, <5>2 DEF Roots, Predecessors
          <6>2. <<k, m>> \in Fresh[e] BY <4>1, <6>1
          <6>3. <<k, m>>[2] = m OBVIOUS
          <6>. QED BY <6>2, <6>3
        <5>. QED BY <5>1, <5>2
      <4>. QED BY <3>2, <4>2, <4>3
    <3>5. e.kind # "multi" /\ e.kind # "class" => Members(e) = {} BY DEF Members
    <3>. QED BY <3>1, <3>3, <3>4, <3>5
  <2>. QED BY <2>3, <2>4
<1>2. Inductive(T) BY <1>1 DEF Inductive
<1>3. Expressions \subseteq T
  <2>. HIDE DEF T
  <2>. QED BY <1>2, ExpressionInduction
<1>. QED BY <1>3 DEF Tasks

(* No iterator that was used up is asked again for edges it had.           *)
OnceOnly == MaxCalls <= 1 \/ \A e \in Expressions : e.kind # "class"

(* Then get_graph returns all the edges of the model.                      *)
LEMMA GraphComplete ==
  ASSUME DepInv, calls > 0, OnceOnly
  PROVE  graph = DiGraph(model.tasks, AllEdges(model)) /\ IsModel(model)
<1>1. IsModel(model) BY ModelsAreModels DEF DepInv
<1>2. calls = 1 \/ \A t \in model.tasks : Again[t] = Fresh[t]
  <2>1. CASE MaxCalls <= 1 BY <2>1, MaxCallsAssumption DEF DepInv
  <2>2. CASE \A e \in Expressions : e.kind # "class"
    <3>1. ASSUME NEW t \in model.tasks PROVE Again[t] = Fresh[t]
      <4>1. t \in Expressions BY <1>1, OrderGraph DEF Tasks
      <4>2. \A n \in Nodes : n.kind # "class" BY <2>2 DEF Nodes, Tasks, Rendezvous
      <4>3. \A n \in Inside[t] : n.kind # "class" BY <4>1, <4>2, InsideDef
      <4>. QED BY <4>1, <4>3, AgainIsFresh
    <3>. QED BY <3>1
  <2>. QED BY <2>1, <2>2 DEF OnceOnly
<1>. QED BY <1>1, <1>2, GrownEdges

(* A graph with all the edges of the model has all its plain tasks.        *)
LEMMA DepInvNothingLeftOut ==
  ASSUME AllRegular, OnceOnly
  PROVE  DepInv => NothingLeftOut
<1>. SUFFICES ASSUME DepInv, calls > 0
              PROVE  /\ IsDirectedGraph(graph)
                     /\ \A n \in graph.node : IsContainer(n) \/ n.kind \in {"plain", "rendezvous"}
                     /\ Work(graph.node) = Work(Order(model).node)
  BY DEF NothingLeftOut
<1>1. graph = DiGraph(model.tasks, AllEdges(model)) /\ IsModel(model) BY GraphComplete
<1>2. PartOf(AllEdges(model), model) BY DEF PartOf
<1>3. /\ graph.edge = AllEdges(model)
      /\ model.tasks \subseteq graph.node /\ graph.node \subseteq Order(model).node
      /\ graph.edge \subseteq graph.node \X graph.node
      /\ graph = [node |-> graph.node, edge |-> graph.edge]
  BY <1>1, <1>2, GraphInOrder
<1>4. IsDirectedGraph(graph) BY <1>3 DEF IsDirectedGraph
<1>5. \A n \in graph.node : IsContainer(n) \/ n.kind \in {"plain", "rendezvous"}
  <2>1. Order(model).node \subseteq Nodes BY <1>1, OrderGraph
  <2>2. \A n \in Nodes : IsContainer(n) \/ n.kind \in {"plain", "rendezvous"}
    BY DEF Nodes, Tasks, IsTask, Rendezvous
  <2>. QED BY <1>3, <2>1, <2>2
<1>6. ASSUME NEW x \in Order(model).node, x.kind = "plain" PROVE x \in graph.node
  <2>1. PICK t \in model.tasks : x \in Inside[t] BY <1>1, OrderGraph
  <2>2. t \in Tasks BY <1>1, OrderGraph
  <2>3. x = t \/ \E p \in Fresh[t] : x = p[1] \/ x = p[2] BY <1>6, <2>1, <2>2, PlainAtAnEnd
  <2>4. Fresh[t] \subseteq graph.edge BY <1>3 DEF AllEdges
  <2>5. \A p \in graph.edge : p[1] \in graph.node /\ p[2] \in graph.node BY <1>3
  <2>. QED BY <1>3, <2>3, <2>4, <2>5
<1>7. Work(graph.node) = Work(Order(model).node) BY <1>3, <1>6 DEF Work
<1>. QED BY <1>4, <1>5, <1>7

(* What a model says is so in the paths of a graph with all its edges.     *)
LEMMA SaidIsPath ==
  ASSUME AllRegular, NEW M, IsModel(M), NEW G, IsGraph(G), G.node \subseteq Nodes, AllEdges(M) \subseteq G.edge
  PROVE  \A p \in Order(M).edge : p \in Paths(G) \/ \E n \in Nodes : p = <<n, n>>
<1>. DEFINE Same == {<<n, n>> : n \in Nodes}
            R == Paths(G) \cup Same
<1>1. Paths(G) \subseteq G.node \X G.node /\ G.edge \subseteq Paths(G) /\ IsPath(Paths(G), G.node)
  BY PathsArePaths DEF IsGraph
<1>2. \A x, y : <<x, y>> \in Same => x = y OBVIOUS
<1>3. \A n \in Nodes : <<n, n>> \in Same OBVIOUS
<1>. HIDE DEF Same
<1>4. IsPath(R, Nodes) BY <1>1, <1>2, <1>3 DEF IsPath
<1>5. AllEdges(M) \subseteq R BY <1>1
<1>6. M.tasks \subseteq Tasks /\ M.deps \subseteq Expressions
      /\ \A d \in M.deps : Mentioned[d] \subseteq M.tasks
  BY OrderGraph
<1>. HIDE DEF R
<1>7. ASSUME NEW e \in M.deps \cup M.tasks PROVE Said[e] \subseteq R
  <2>1. e \in Expressions BY <1>6 DEF Tasks
  <2>2. CASE e \in M.tasks
    <3>1. Fresh[e] \subseteq R BY <1>5, <2>2 DEF AllEdges
    <3>2. Carried(R, e) BY <1>6, <2>2, <3>1, TaskCarried
    <3>. QED BY <1>4, <2>1, <3>2, EverythingKept DEF Kept
  <2>3. CASE e \in M.deps
    <3>1. Unpack[e] \subseteq R BY <1>5, <2>3 DEF AllEdges, ClassEdges
    <3>2. \A m \in Mentioned[e] : Fresh[m] \subseteq R BY <1>5, <1>6, <2>3 DEF AllEdges
    <3>3. Carried(R, e) BY <3>1, <3>2 DEF Carried
    <3>. QED BY <1>4, <2>1, <3>3, EverythingKept DEF Kept
  <2>. QED BY <2>2, <2>3
<1>8. Order(M).edge \subseteq R BY <1>7, OrderGraph
<1>. QED BY <1>8 DEF R, Same

(* And a path for each order between them.                                 *)
LEMMA DepInvOrderKept ==
  ASSUME AllRegular, OnceOnly
  PROVE  DepInv => OrderKept
<1>. SUFFICES ASSUME DepInv, calls > 0, NEW x \in Work(Order(model).node), NEW y \in Work(Order(model).node),
                     <<x, y>> \in Order(model).edge
              PROVE  <<x, y>> \in Paths(graph)
  <2>1. ASSUME DepInv, calls > 0, \A x, y \in Work(Order(model).node) :
                 <<x, y>> \in Order(model).edge => <<x, y>> \in Paths(graph)
        PROVE  OrderKept
    <3>. DEFINE work == Work(Order(model).node)
    <3>1. Order(model).edge \cap (work \X work) \subseteq Paths(graph)
      <4>. SUFFICES ASSUME NEW p \in Order(model).edge, p \in work \X work PROVE p \in Paths(graph)
        OBVIOUS
      <4>1. p = <<p[1], p[2]>> /\ p[1] \in work /\ p[2] \in work OBVIOUS
      <4>. HIDE DEF work
      <4>. QED BY <2>1, <4>1 DEF work
    <3>. QED BY <3>1 DEF OrderKept
  <2>. QED BY <2>1 DEF OrderKept
<1>1. graph = DiGraph(model.tasks, AllEdges(model)) /\ IsModel(model) BY GraphComplete
<1>2. PartOf(AllEdges(model), model) BY DEF PartOf
<1>3. /\ graph.edge = AllEdges(model) /\ graph.node \subseteq Order(model).node /\ IsGraph(graph)
  BY <1>1, <1>2, GraphInOrder DEF IsGraph
<1>4. graph.node \subseteq Nodes BY <1>1, <1>3, OrderGraph
<1>5. <<x, y>> \in Paths(graph) \/ \E n \in Nodes : <<x, y>> = <<n, n>>
  <2>. DEFINE p == <<x, y>>
  <2>1. p \in Order(model).edge OBVIOUS
  <2>. HIDE DEF p
  <2>2. p \in Paths(graph) \/ \E n \in Nodes : p = <<n, n>> BY <1>1, <1>3, <1>4, <2>1, SaidIsPath
  <2>. QED BY <2>2 DEF p
<1>6. x \in graph.node
  <2>1. NothingLeftOut BY DepInvNothingLeftOut
  <2>. QED BY <2>1 DEF NothingLeftOut, Work
<1>7. <<x, x>> \in Paths(graph) BY <1>3, <1>6, PathsArePaths DEF IsGraph, IsPath
<1>. QED BY <1>5, <1>7

(* Whatever the model, and whoever fixed the arguments of which tasks      *)
(* before (AbstractModelingEntity.fix_arguments), the graph that           *)
(* get_graph returns has every plain task that is in the model at any      *)
(* depth, and nothing but tasks. This is so when no group, role list or    *)
(* inner model is empty, no ConfigClassTask is inside another and no       *)
(* iterator of one is asked twice (ConfigClassTask.unpack): in each of     *)
(* these cases the code loses tasks or orders.                             *)
THEOREM NothingLeftOutCorrect ==
  ASSUME AllRegular, OnceOnly
  PROVE  Spec => []NothingLeftOut
<1>1. Spec => []DepInv BY DepInvInit, DepInvNext, PTL DEF Spec
<1>2. DepInv => NothingLeftOut BY DepInvNothingLeftOut
<1>. QED BY <1>1, <1>2, PTL

(* Under the same conditions, every order that the expressions imply       *)
(* between two tasks, through any nesting of | and & and of containers     *)
(* (with_dependencies in config.py), is a path of the graph: the agent     *)
(* has no way to perform them in another one.                              *)
THEOREM OrderKeptCorrect ==
  ASSUME AllRegular, OnceOnly
  PROVE  Spec => []OrderKept
<1>1. Spec => []DepInv BY DepInvInit, DepInvNext, PTL DEF Spec
<1>2. DepInv => OrderKept BY DepInvOrderKept
<1>. QED BY <1>1, <1>2, PTL

(* The graph of M with the edges of all its containers.                    *)
WholeGraph(M) == DiGraph(M.tasks, AllEdges(M))

(* Whoever fixed the arguments of which tasks before, and however often    *)
(* get_graph is called, it returns the whole graph of its model; with a    *)
(* ConfigClassTask (ConfigClassTask.unpack, whose iterator gives its       *)
(* edges once) on the first call only.                                     *)
THEOREM GraphIsWhole ==
  ASSUME OnceOnly
  PROVE  Spec => [](calls > 0 => graph = WholeGraph(model))
<1>1. Spec => []DepInv BY DepInvInit, DepInvNext, PTL DEF Spec
<1>2. DepInv => (calls > 0 => graph = WholeGraph(model)) BY GraphComplete DEF WholeGraph
<1>. QED BY <1>1, <1>2, PTL

-----------------------------------------------------------------------------
(* The check for cycles. It runs on the edges of the class, so that it     *)
(* finds a cycle only if each order that closes it goes over one of them.  *)

(* An order that is said goes over an edge.                                *)
OverEdge(R, e, p) == \E q \in Unpack[e] : <<p[1], q[1]>> \in R /\ <<q[2], p[2]>> \in R
OverEdges(R, e) == \A p \in Said[e] : OverEdge(R, e, p)
AllPlain(e) == \A m \in Mentioned[e] : m.kind = "plain"

(* From all that is in from to all that is in to, the order goes over an   *)
(* edge of from | to.                                                      *)
LEMMA DepOverEdge ==
  ASSUME NEW R, NEW e \in Expressions, e.kind = "dep", Kept(R, e.from), Kept(R, e.to),
         NEW x \in Inside[e.from], NEW y \in Inside[e.to]
  PROVE  \E q \in Unpack[e] : <<x, q[1]>> \in R /\ <<q[2], y>> \in R
<1>1. PICK n \in ExitNodes[e.from] : <<x, n>> \in R BY DEF Kept, Enclosed
<1>2. PICK k \in EntryNodes[e.to] : <<k, y>> \in R BY DEF Kept, Enclosed
<1>. DEFINE q == <<n, k>>
<1>3. q \in Join(e) BY DEF Join
<1>4. Join(e) \subseteq Unpack[e] BY UnpackDef
<1>5. <<x, q[1]>> \in R /\ <<q[2], y>> \in R BY <1>1, <1>2
<1>. HIDE DEF q
<1>. QED BY <1>3, <1>4, <1>5

(* Among plain tasks, every order that is said goes over an edge.          *)
LEMMA PlainOverEdges ==
  ASSUME GroupsFilled, NEW R, IsPath(R, Nodes)
  PROVE  \A e \in Expressions : Unpack[e] \subseteq R /\ AllPlain(e) => Kept(R, e) /\ OverEdges(R, e)
<1>. DEFINE T == {e \in Expressions : Unpack[e] \subseteq R /\ AllPlain(e) => Kept(R, e) /\ OverEdges(R, e)}
<1>1. ASSUME NEW e \in Expressions, Parts(e) \subseteq T, Unpack[e] \subseteq R, AllPlain(e)
      PROVE  Kept(R, e) /\ OverEdges(R, e)
  <2>1. Said[e] = SaidBy(e) \cup UNION {Said[p] : p \in Parts(e)} BY SaidDef
  <2>2. CASE IsTask(e)
    <3>1. e.kind = "plain" BY <1>1, <2>2, MentionedDef DEF AllPlain
    <3>2. Kept(R, e) BY <3>1, PlainKept
    <3>3. SaidBy(e) = {} BY <3>1, Kinds DEF SaidBy
    <3>4. Parts(e) = {} BY <2>2, <3>1, InsideClass DEF Parts
    <3>. QED BY <2>1, <3>2, <3>3, <3>4 DEF OverEdges
  <2>3. CASE ~IsTask(e)
    <3>1. Members(e) = {} /\ InnerDeps(e) = {} /\ Parts(e) \subseteq Expressions
      BY <2>3, InsideClass, Kinds
    <3>2. Parts(e) = Operands(e) BY <3>1 DEF Parts
    <3>3. Mentioned[e] = UNION {Mentioned[o] : o \in Operands(e)} BY <2>3, MentionedDef
    <3>4. \A o \in Operands(e) : Unpack[o] \subseteq Unpack[e] BY UnpackDef
    <3>5. \A o \in Operands(e) : AllPlain(o) BY <1>1, <3>3 DEF AllPlain
    <3>6. \A o \in Operands(e) : Kept(R, o) /\ OverEdges(R, o) BY <1>1, <3>2, <3>4, <3>5
    <3>7. \A t \in Tasks : t.kind = "plain" => Fresh[t] = {} BY FreshDef DEF FirstEdges, Tasks
    <3>8. Carried(R, e) BY <1>1, <3>7, MentionedDef DEF Carried, AllPlain
    <3>9. Kept(R, e)
      <4>1. \A p \in Parts(e) : Carried(R, p) => Kept(R, p) BY <3>2, <3>6
      <4>2. CASE e.kind = "dep" BY <3>8, <4>1, <4>2, DepKept
      <4>3. CASE e.kind = "group" BY <3>8, <4>1, <4>3, GroupKept
      <4>. QED BY <2>3, <4>2, <4>3, Kinds
    <3>10. \A o \in Operands(e) : \A p \in Said[o] : OverEdge(R, e, p)
      BY <3>4, <3>6 DEF OverEdges, OverEdge
    <3>11. \A p \in SaidBy(e) : OverEdge(R, e, p)
      <4>1. CASE e.kind = "dep"
        <5>1. SaidBy(e) = Inside[e.from] \X Inside[e.to] BY <4>1, Kinds DEF SaidBy
        <5>2. Kept(R, e.from) /\ Kept(R, e.to) BY <3>6, <4>1, Kinds
        <5>. SUFFICES ASSUME NEW x \in Inside[e.from], NEW y \in Inside[e.to]
                      PROVE  \E q \in Unpack[e] : <<x, q[1]>> \in R /\ <<q[2], y>> \in R
          BY <5>1 DEF OverEdge
        <5>. QED BY <4>1, <5>2, DepOverEdge
      <4>2. CASE e.kind = "group" BY <4>2, Kinds DEF SaidBy
      <4>. QED BY <2>3, <4>1, <4>2, Kinds
    <3>. QED BY <2>1, <3>2, <3>9, <3>10, <3>11 DEF OverEdges
  <2>. QED BY <2>2, <2>3
<1>2. Inductive(T) BY <1>1 DEF Inductive
<1>3. Expressions \subseteq T
  <2>. HIDE DEF T
  <2>. QED BY <1>2, ExpressionInduction
<1>. QED BY <1>3

(* Between plain tasks no cycle is missed.                                 *)
LEMMA CyclesAreFound ==
  ASSUME GroupsFilled, NEW M, IsModel(M), Acceptable(M), \A t \in M.tasks : ~IsContainer(t)
  PROVE  ~Cyclic(Order(M))
<1>. DEFINE G == DiGraph(M.tasks, ClassEdges(M))
            Same == {<<n, n>> : n \in Nodes}
            P == Paths(G)
            R == P \cup Same
<1>0. G = DiGraph(M.tasks, ClassEdges(M)) OBVIOUS
<1>1. ~Cyclic(G) BY DEF Acceptable
<1>. HIDE DEF G
<1>2. PartOf(ClassEdges(M), M) BY DEF PartOf, AllEdges
<1>3. G.edge = ClassEdges(M) /\ IsGraph(G) /\ M.tasks \subseteq G.node
  BY <1>0, <1>2, GraphInOrder DEF IsGraph
<1>4. P \subseteq G.node \X G.node /\ G.edge \subseteq P /\ IsPath(P, G.node)
  BY <1>3, PathsArePaths DEF IsGraph
<1>5. /\ M.tasks \subseteq Tasks /\ M.deps \subseteq Expressions
      /\ \A d \in M.deps : Mentioned[d] \subseteq M.tasks
      /\ Order(M).edge = UNION {Said[e] : e \in M.deps \cup M.tasks}
      /\ Order(M).node = UNION {Inside[t] : t \in M.tasks}
      /\ Order(M).edge \subseteq Order(M).node \X Order(M).node
      /\ IsFiniteSet(Order(M).node)
  BY OrderGraph
<1>6. \A t \in M.tasks : t.kind = "plain" /\ t \in Expressions BY <1>5, Kinds DEF Tasks
<1>7. \A t \in M.tasks : Inside[t] = {t} /\ Said[t] = {}
  <2>. SUFFICES ASSUME NEW t \in M.tasks PROVE Inside[t] = {t} /\ Said[t] = {}
    OBVIOUS
  <2>1. /\ t \in Expressions /\ IsTask(t) /\ Operands(t) = {} /\ Members(t) = {} /\ InnerDeps(t) = {}
        /\ t.kind = "plain" /\ ExitOf(t) = t
    BY <1>6, Kinds, InsideClass
  <2>2. Inside[t] = {t} BY <2>1, InsideDef
  <2>3. SaidBy(t) = {} BY <2>1, Kinds DEF SaidBy
  <2>4. Parts(t) = {} BY <2>1 DEF Parts
  <2>5. Said[t] = SaidBy(t) \cup UNION {Said[p] : p \in Parts(t)} BY <2>1, SaidDef
  <2>. QED BY <2>2, <2>3, <2>4, <2>5
<1>8. Order(M).node = M.tasks BY <1>5, <1>7
<1>. HIDE DEF P
<1>9. IsPath(R, Nodes)
  <2>1. (\A x, y : <<x, y>> \in Same => x = y) /\ \A n \in Nodes : <<n, n>> \in Same OBVIOUS
  <2>. HIDE DEF Same
  <2>. QED BY <1>4, <2>1 DEF IsPath
<1>10. \A x, y \in G.node : <<x, y>> \in R => <<x, y>> \in P BY <1>4 DEF IsPath
<1>. HIDE DEF R
<1>11. ASSUME NEW p \in Order(M).edge
       PROVE  \E q \in G.edge : <<p[1], q[1]>> \in P /\ <<q[2], p[2]>> \in P
  <2>1. PICK d \in M.deps : p \in Said[d] BY <1>5, <1>7
  <2>2. Unpack[d] \subseteq G.edge BY <1>3 DEF ClassEdges
  <2>3. Unpack[d] \subseteq R BY <1>4, <2>2 DEF R
  <2>4. AllPlain(d) BY <1>5, <1>6 DEF AllPlain
  <2>5. OverEdges(R, d) BY <1>5, <1>9, <2>3, <2>4, PlainOverEdges
  <2>6. PICK q \in Unpack[d] : <<p[1], q[1]>> \in R /\ <<q[2], p[2]>> \in R
    BY <2>1, <2>5 DEF OverEdges, OverEdge
  <2>7. q \in G.edge /\ q[1] \in G.node /\ q[2] \in G.node BY <1>3, <2>2 DEF IsGraph
  <2>8. p[1] \in G.node /\ p[2] \in G.node BY <1>3, <1>5, <1>8
  <2>. QED BY <1>10, <2>6, <2>7, <2>8
<1>12. Paths(Order(M)) \subseteq P
  <2>1. IsPath(P, Order(M).node) BY <1>3, <1>4, <1>8 DEF IsPath
  <2>2. Order(M).edge \subseteq P
    <3>. SUFFICES ASSUME NEW p \in Order(M).edge PROVE p \in P
      OBVIOUS
    <3>1. PICK q \in G.edge : <<p[1], q[1]>> \in P /\ <<q[2], p[2]>> \in P BY <1>11
    <3>2. q = <<q[1], q[2]>> /\ q \in P BY <1>3, <1>4 DEF IsGraph
    <3>3. <<q[1], q[2]>> \in P BY <3>2
    <3>4. \A x, y, z : <<x, y>> \in P /\ <<y, z>> \in P => <<x, z>> \in P BY <1>4 DEF IsPath
    <3>5. <<p[1], q[2]>> \in P BY <3>1, <3>3, <3>4
    <3>6. <<p[1], p[2]>> \in P BY <3>1, <3>4, <3>5
    <3>. QED BY <1>5, <3>6
  <2>. QED BY <1>5, <2>1, <2>2, PathsArePaths
<1>. SUFFICES ASSUME NEW p \in Order(M).edge, <<p[2], p[1]>> \in Paths(Order(M)) PROVE FALSE
  BY DEF Cyclic
<1>13. PICK q \in G.edge : <<p[1], q[1]>> \in P /\ <<q[2], p[2]>> \in P BY <1>11
<1>14. <<p[2], p[1]>> \in P BY <1>12
<1>15. <<q[2], q[1]>> \in P BY <1>4, <1>13, <1>14 DEF IsPath
<1>. QED BY <1>1, <1>15 DEF Cyclic, P

(* ConfigModelMeta.__new__ refuses a model for a cycle only when what its  *)
(* expressions say has one; and when the tasks are plain, it refuses       *)
(* every model that has. Only a group without arguments would let one      *)
(* through.                                                                *)
THEOREM CycleCheckCorrect ==
  ASSUME GroupsFilled
  PROVE  Spec => []CycleCheck
<1>1. Spec => []DepInv BY DepInvInit, DepInvNext, PTL DEF Spec
<1>2. DepInv => CycleCheck
  <2>. SUFFICES ASSUME DepInv PROVE CycleCheck
    OBVIOUS
  <2>1. IsModel(model) BY ModelsAreModels DEF DepInv
  <2>2. stage = "rejected" => Cyclic(Order(model)) BY <2>1, RejectedRightly DEF DepInv
  <2>3. stage = "made" /\ (\A t \in model.tasks : ~IsContainer(t)) => ~Cyclic(Order(model))
    BY <2>1, CyclesAreFound DEF DepInv
  <2>. QED BY <2>2, <2>3 DEF CycleCheck
<1>. QED BY <1>1, <1>2, PTL

-----------------------------------------------------------------------------
(* The agent. TaskGraph keeps the promise it is named for: its start       *)
(* guard, with no more than a predecessor's being done for good, gives     *)
(* the order of with_dependencies for every graph and any number of runs.  *)

CONSTANTS Performed, Planned, MaxRuns
VARIABLES plan, current, phase, outcome
T == INSTANCE TaskGraph WITH Tasks <- Performed, Plans <- Planned

(* What the constants must satisfy.                                        *)
GraphsOK ==
  /\ MaxRuns \in Nat
  /\ \A G \in Planned : G = [node |-> G.node, edge |-> G.edge] /\ G.node \subseteq Performed

(* Before a run has begun there is nothing in it.                          *)
NotBegun == \A r \in T!Runs : r > current =>
  plan[r] = T!NoGraph /\ \A t \in Performed : phase[r][t] = "waiting"

OrderInv ==
  /\ T!TypeOK
  /\ \A r \in T!Runs : plan[r].node \subseteq Performed
  /\ NotBegun
  /\ T!DependenciesHonoured

(* Every reachable state of TaskGraph is well typed and honours the order: *)
(* each task that has started, in whatever run, has only predecessors that *)
(* are done (with_dependencies in config.py).                              *)
THEOREM DependenciesHonouredCorrect ==
  ASSUME GraphsOK
  PROVE  T!Spec => [](T!TypeOK /\ T!DependenciesHonoured)
<1> USE DEF GraphsOK
<1>1. T!Init => OrderInv
  BY DEF T!Init, OrderInv, T!TypeOK, NotBegun, T!DependenciesHonoured,
     T!Runs, T!NoGraph, T!Phases, T!Outcomes
<1>2. OrderInv /\ [T!Next]_(T!vars) => OrderInv'
  <2> SUFFICES ASSUME OrderInv, [T!Next]_(T!vars)
               PROVE  OrderInv'
    OBVIOUS
  <2> USE DEF OrderInv
  <2>1. ASSUME NEW G \in Planned, T!Begin(G)
        PROVE  OrderInv'
    <3>1. current + 1 \in T!Runs /\ current \in Nat /\ current' = current + 1
      BY <2>1 DEF T!Begin, T!TypeOK, T!Runs
    <3>2. plan' = [plan EXCEPT ![current + 1] = G] /\ phase' = phase /\ outcome' = "running"
      BY <2>1 DEF T!Begin
    <3>3. T!TypeOK'
      BY <3>1, <3>2 DEF T!TypeOK, T!Outcomes, T!Runs
    <3>4. \A r \in T!Runs : plan'[r].node \subseteq Performed
      BY <3>1, <3>2 DEF T!TypeOK
    <3>5. NotBegun'
      BY <3>1, <3>2 DEF NotBegun, T!TypeOK, T!Runs
    <3>6. \A t \in Performed : phase[current + 1][t] = "waiting"
      BY <3>1 DEF NotBegun
    <3>7. T!DependenciesHonoured'
      <4> SUFFICES ASSUME NEW r \in T!Runs, NEW t \in plan'[r].node,
                          phase[r][t] # "waiting"
                   PROVE  \A p \in T!Preds(plan'[r], t) : phase[r][p] = "done"
        BY <3>2 DEF T!DependenciesHonoured
      <4>1. r # current + 1
        BY <3>4, <3>6
      <4>2. plan'[r] = plan[r]
        BY <3>1, <3>2, <4>1 DEF T!TypeOK
      <4> QED
        BY <4>2 DEF T!DependenciesHonoured
    <3> QED
      BY <3>3, <3>4, <3>5, <3>7
  <2>2. ASSUME NEW r \in T!Runs, NEW t \in Performed,
               T!Start(r, t) \/ T!Complete(r, t) \/ T!Abandon(r, t)
        PROVE  OrderInv'
    <3>1. PICK to \in T!Phases : /\ phase' = [phase EXCEPT ![r][t] = to]
                               /\ UNCHANGED <<plan, current, outcome>>
                               /\ phase[r][t] \in {"waiting", "running"}
      BY <2>2 DEF T!Start, T!Complete, T!Abandon, T!Move, T!Phases
    <3>2. phase'[r][t] = to /\ r <= current
      <4>1. phase'[r][t] = to
        BY <3>1 DEF T!TypeOK
      <4>2. phase[r][t] = "waiting" => t \in plan[r].node
        BY <2>2 DEF T!Start, T!Complete, T!Abandon, T!Move
      <4>3. r <= current
        BY <4>2, <3>1 DEF NotBegun, T!NoGraph, T!Runs, T!TypeOK
      <4> QED
        BY <4>1, <4>3
    <3>3. T!TypeOK'
      BY <3>1 DEF T!TypeOK
    <3>4. NotBegun'
      BY <3>1, <3>2 DEF NotBegun, T!TypeOK, T!Runs
    <3>5. \A q \in T!Runs, u \in Performed : phase[q][u] = "done" => phase'[q][u] = "done"
      BY <3>1 DEF T!TypeOK
    <3>6. T!DependenciesHonoured'
      <4> SUFFICES ASSUME NEW q \in T!Runs, NEW u \in plan[q].node,
                          phase'[q][u] # "waiting",
                          NEW p \in T!Preds(plan[q], u)
                   PROVE  phase'[q][p] = "done"
        BY <3>1 DEF T!DependenciesHonoured
      <4>1. u \in Performed /\ p \in Performed
        BY DEF T!Preds
      <4>2. phase[q][p] = "done"
        <5>1. CASE phase[q][u] # "waiting"
          BY <5>1 DEF T!DependenciesHonoured
        <5>2. CASE phase[q][u] = "waiting"
          <6>1. q = r /\ u = t
            BY <3>1, <4>1, <5>2 DEF T!TypeOK
          <6>2. T!Start(r, t)
            BY <2>2, <5>2, <6>1 DEF T!Complete, T!Abandon, T!Move
          <6> QED
            BY <6>1, <6>2 DEF T!Start
        <5> QED
          BY <5>1, <5>2
      <4> QED
        BY <3>5, <4>1, <4>2
    <3> QED
      BY <3>1, <3>3, <3>4, <3>6
  <2>3. CASE T!Succeed \/ T!Fail \/ T!Refuse
    BY <2>3 DEF T!Succeed, T!Fail, T!Refuse, T!TypeOK, NotBegun, T!DependenciesHonoured, T!Outcomes
  <2>4. CASE UNCHANGED T!vars
    BY <2>4 DEF T!vars, T!TypeOK, NotBegun, T!DependenciesHonoured
  <2> QED
    BY <2>1, <2>2, <2>3, <2>4 DEF T!Next
<1> QED
  BY <1>1, <1>2, PTL DEF T!Spec, OrderInv

(* What a path of the graph orders, at any distance, is performed so.      *)
PathsHonoured ==
  \A r \in T!Runs : \A x, y \in plan[r].node :
    <<x, y>> \in Paths(plan[r]) /\ x # y /\ phase[r][y] # "waiting" => phase[r][x] = "done"

(* It follows from the promise, which is about edges.                      *)
LEMMA HonouredAlongPaths ==
  ASSUME \A G \in Planned : IsGraph(G)
  PROVE  T!TypeOK /\ T!DependenciesHonoured => PathsHonoured
<1>. SUFFICES ASSUME T!TypeOK, T!DependenciesHonoured, NEW r \in T!Runs
              PROVE  \A x, y \in plan[r].node :
                       <<x, y>> \in Paths(plan[r]) /\ x # y /\ phase[r][y] # "waiting" => phase[r][x] = "done"
  BY DEF PathsHonoured
<1>. DEFINE G == plan[r]
            R == {p \in G.node \X G.node :
                    p[1] = p[2] \/ (phase[r][p[2]] # "waiting" => phase[r][p[1]] = "done")}
<1>1. IsGraph(G)
  <2>1. G \in Planned \cup {T!NoGraph} BY DEF T!TypeOK
  <2>2. IsGraph(T!NoGraph) BY FS_EmptySet DEF IsGraph, T!NoGraph
  <2>. QED BY <2>1, <2>2
<1>2. \A x, y \in G.node : <<x, y>> \in R <=> x = y \/ (phase[r][y] # "waiting" => phase[r][x] = "done")
  OBVIOUS
<1>3. R \subseteq G.node \X G.node OBVIOUS
<1>4. G.edge \subseteq R
  <2>. SUFFICES ASSUME NEW x \in G.node, NEW y \in G.node, <<x, y>> \in G.edge
                PROVE  phase[r][y] # "waiting" => phase[r][x] = "done"
    BY <1>1 DEF IsGraph
  <2>1. x \in T!Preds(plan[r], y) BY DEF T!Preds
  <2>. QED BY <2>1 DEF T!DependenciesHonoured
<1>. HIDE DEF R, G
<1>5. IsPath(R, G.node)
  <2>1. \A x \in G.node : <<x, x>> \in R BY <1>2
  <2>2. ASSUME NEW x, NEW y, NEW z, <<x, y>> \in R, <<y, z>> \in R PROVE <<x, z>> \in R
    <3>1. x \in G.node /\ y \in G.node /\ z \in G.node BY <1>3, <2>2
    <3>2. (x = y \/ (phase[r][y] # "waiting" => phase[r][x] = "done"))
          /\ (y = z \/ (phase[r][z] # "waiting" => phase[r][y] = "done"))
      BY <1>2, <2>2, <3>1
    <3>. QED BY <1>2, <3>1, <3>2
  <2>. QED BY <2>1, <2>2 DEF IsPath
<1>6. Paths(G) \subseteq R BY <1>1, <1>4, <1>5, PathsArePaths DEF IsGraph
<1>. QED BY <1>2, <1>6 DEF G

(* The two ends together: if the runs perform the graph that get_graph     *)
(* makes of M, then for from | to, through any nesting of expressions and  *)
(* containers, no task of to starts before each task of from is done.      *)
PerformedAsSaid(M) ==
  \A r \in T!Runs : \A x, y \in plan[r].node :
    /\ <<x, y>> \in Order(M).edge /\ x # y
    /\ phase[r][y] # "waiting"
    => phase[r][x] = "done"

(* From with_dependencies to the threads: let an agent perform, any        *)
(* number of times, the graph that get_graph makes of a model. Then in     *)
(* every state, for from | to through any nesting of expressions and       *)
(* containers, no task of to has started before each task of from was      *)
(* done. ExecutionAgent implements TaskGraph (ExecutionAgentProofs), so    *)
(* this is about the agent.                                                *)
THEOREM PerformedAsSaidCorrect ==
  ASSUME AllRegular, NEW M \in Models, MaxRuns \in Nat,
         Planned = {WholeGraph(M)}, Order(M).node \subseteq Performed
  PROVE  T!Spec => []PerformedAsSaid(M)
<1>. DEFINE G == WholeGraph(M)
<1>0. G = DiGraph(M.tasks, AllEdges(M)) /\ Planned = {G} BY DEF WholeGraph
<1>. HIDE DEF G
<1>1. IsModel(M) /\ PartOf(AllEdges(M), M) BY ModelsAreModels DEF PartOf
<1>2. /\ IsGraph(G) /\ G.edge = AllEdges(M) /\ G.node \subseteq Order(M).node
      /\ G = [node |-> G.node, edge |-> G.edge]
  BY <1>0, <1>1, GraphInOrder DEF IsGraph
<1>3. G.node \subseteq Nodes BY <1>1, <1>2, OrderGraph
<1>4. GraphsOK BY <1>0, <1>2 DEF GraphsOK
<1>5. T!Spec => [](T!TypeOK /\ T!DependenciesHonoured) BY <1>4, DependenciesHonouredCorrect
<1>6. T!TypeOK /\ T!DependenciesHonoured => PerformedAsSaid(M)
  <2>. SUFFICES ASSUME T!TypeOK, T!DependenciesHonoured, NEW r \in T!Runs,
                       NEW x \in plan[r].node, NEW y \in plan[r].node,
                       <<x, y>> \in Order(M).edge, x # y, phase[r][y] # "waiting"
                PROVE  phase[r][x] = "done"
    BY DEF PerformedAsSaid
  <2>1. PathsHonoured BY <1>0, <1>2, HonouredAlongPaths
  <2>2. plan[r] = G
    <3>1. plan[r] \in Planned \cup {T!NoGraph} BY DEF T!TypeOK
    <3>. QED BY <1>0, <3>1 DEF T!NoGraph
  <2>3. <<x, y>> \in Paths(G)
    <3>. DEFINE p == <<x, y>>
    <3>1. p \in Order(M).edge /\ \A n : p # <<n, n>> OBVIOUS
    <3>. HIDE DEF p
    <3>2. p \in Paths(G) BY <1>1, <1>2, <1>3, <3>1, SaidIsPath
    <3>. QED BY <3>2 DEF p
  <2>. QED BY <2>1, <2>2, <2>3 DEF PathsHonoured
<1>. QED BY <1>5, <1>6, PTL
=============================================================================

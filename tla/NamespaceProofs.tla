--------------------------- MODULE NamespaceProofs ---------------------------
(***************************************************************************)
(* Facts about every namespace, however it grows and whatever is provided, *)
(* and about every question that is asked of it:                           *)
(*   - its types; that a container goes on to one nearer the model, so that *)
(*     every search ends; that what a container is said to see is what a   *)
(*     search from it finds, and includes what encloses it; that what comes *)
(*     to be changes nothing for the others;                               *)
(*   - that hosts, and what variables refer to, are provisioned;           *)
(*   - that the set of names in expansion and the calls in progress agree: *)
(*     a call that returns takes from the set the name it was made for,    *)
(*     which no other call in progress was made for;                       *)
(*   - that an answer is the value of the text, or the error that it has to *)
(*     be. While calls are in progress the text of each has the value it   *)
(*     began with (Right): what a call returns has no names left, so its own *)
(*     name reaches no loop, and what replaces a pattern is its value.     *)
(* What is found, seen, reached and meant is defined by recursive functions. *)
(* That they are what their definitions say is by RecursiveFunction, and   *)
(* induction goes along the containers (AlongChains), the steps of the     *)
(* definitions and the letters of a text.                                  *)
(***************************************************************************)
EXTENDS Variables, Recursion, SequenceTheorems, FiniteSetTheorems, TLAPS

Elements == {Template} \cup STRING \cup Keys

(* The part of the invariant that is about the tree: it is closed under    *)
(* Front, and a container goes on to a shorter path in it.                 *)
PathsAreSequences == node \subseteq Seq(Elements)
Closed == \A p \in node \ {Root} : Front(p) \in node
ClassIn == shape \in Shapes /\ Paths(shape) \ shape.later \subseteq node
TreeInv == PathsAreSequences /\ Closed /\ ClassIn /\ DOMAIN parent = node /\ ChainsEnd

-----------------------------------------------------------------------------
(* What Front does to a path.                                              *)
LEMMA FrontOfPath ==
  ASSUME NEW S, NEW p \in Seq(S), p # Root
  PROVE  /\ Front(p) \in Seq(S) /\ Len(p) \in Nat \ {0} /\ Len(Front(p)) = Len(p) - 1
         /\ \A i \in 1 .. Len(p) - 1 : Front(p)[i] = p[i]
<1>. DEFINE n == Len(p)
            f == SubSeq(p, 1, n - 1)
<1>1. n \in Nat /\ n # 0 BY EmptySeq DEF Root
<1>2. \A i \in 1 .. n - 1 : p[i] \in S BY <1>1, ElementOfSeq
<1>3. 1 \in Int /\ n - 1 \in Int BY <1>1
<1>4. /\ f \in Seq(S) /\ Len(f) = IF 1 <= n - 1 THEN (n - 1) - 1 + 1 ELSE 0
      /\ \A i \in 1 .. (n - 1) - 1 + 1 : f[i] = p[1 + i - 1]
  BY <1>2, <1>3, SubSeqProperties
<1>5. Front(p) = f BY DEF Front
<1>. HIDE DEF f, n
<1>6. f \in Seq(S) /\ n \in Nat \ {0} BY <1>1, <1>4
<1>7. Len(f) = n - 1 BY <1>1, <1>4
<1>8. \A i \in 1 .. n - 1 : f[i] = p[i] BY <1>1, <1>4
<1>. QED BY <1>5, <1>6, <1>7, <1>8 DEF n

(* Root is a path, and the only empty one.                                 *)
LEMMA RootIsEmpty ==
  ASSUME NEW S
  PROVE  Root \in Seq(S) /\ Len(Root) = 0 /\ \A p \in Seq(S) : Len(p) = 0 => p = Root
BY EmptySeq DEF Root

(* A path with another key is a path, as long and otherwise the same.      *)
LEMMA ReKeyed ==
  ASSUME NEW S, NEW p \in Seq(S), NEW k \in S, NEW n \in 1 .. Len(p)
  PROVE  LET q == [p EXCEPT ![n] = k] IN
         /\ q \in Seq(S) /\ Len(q) = Len(p) /\ q[n] = k
         /\ \A i \in 1 .. Len(p) : i # n => q[i] = p[i]
BY ExceptSeq, LenProperties

-----------------------------------------------------------------------------
(* What a class has is closed under Front, without what is added later.    *)
LEMMA ClassTree ==
  ASSUME NEW M \in Shapes
  PROVE  /\ Paths(M) \subseteq Seq(Elements) /\ Root \in Paths(M) \ M.later
         /\ \A p \in Paths(M) \ {Root} : Front(p) \in Paths(M) \ M.later
<1>1. /\ Paths(M) \subseteq Seq({Template} \cup STRING) /\ Root \in Paths(M)
      /\ M.kind[Root] = "model"
      /\ \A p \in Paths(M) \ {Root} : Front(p) \in Paths(M) /\ M.kind[Front(p)] # "role"
      /\ M.later \subseteq {p \in Paths(M) : M.kind[p] = "role"}
  BY NamespaceAssumption
<1>2. Paths(M) \subseteq Seq(Elements) BY <1>1, SeqMonotonic DEF Elements
<1>. QED BY <1>1, <1>2

LEMMA InitTree == Init => TreeInv
<1>. SUFFICES ASSUME Init PROVE TreeInv
  OBVIOUS
<1>1. shape \in Shapes /\ node = Paths(shape) \ shape.later /\ parent = [p \in node |-> NewParent(p)]
  BY DEF Init, Paths
<1>2. PathsAreSequences /\ Closed /\ ClassIn
  BY <1>1, ClassTree DEF PathsAreSequences, Closed, ClassIn
<1>3. ChainsEnd
  <2>. SUFFICES ASSUME NEW p \in node, parent[p] # None
                PROVE  parent[p] \in node /\ Len(parent[p]) < Len(p)
    BY DEF ChainsEnd
  <2>1. p # Root /\ parent[p] = Front(p) BY <1>1 DEF NewParent
  <2>2. Front(p) \in node BY <1>2, <2>1 DEF Closed
  <2>3. Len(Front(p)) < Len(p) BY <1>2, <2>1, FrontOfPath DEF PathsAreSequences
  <2>. QED BY <2>1, <2>2, <2>3
<1>. QED BY <1>1, <1>2, <1>3 DEF TreeInv

(* New containers keep the tree, when they are closed with what there is   *)
(* and each goes on to a shorter path.                                     *)
LEMMA GrowTree ==
  ASSUME TreeInv, NEW New, NEW parents, NEW owns, NEW overs, Grow(New, parents, owns, overs),
         New \subseteq Seq(Elements), \A p \in New \ {Root} : Front(p) \in node \cup New,
         \A p \in New \ node : parents[p] # None =>
            parents[p] \in node \cup New /\ Len(parents[p]) < Len(p)
  PROVE  TreeInv'
<1>1. /\ node' = node \cup New /\ UNCHANGED shape
      /\ parent' = [p \in node' |-> IF p \in node THEN parent[p] ELSE parents[p]]
  BY DEF Grow
<1>2. PathsAreSequences' /\ Closed' /\ ClassIn'
  BY <1>1 DEF TreeInv, PathsAreSequences, Closed, ClassIn
<1>3. ChainsEnd' BY <1>1 DEF TreeInv, ChainsEnd
<1>. QED BY <1>1, <1>2, <1>3 DEF TreeInv

LEMMA RolesTree ==
  ASSUME TreeInv, NEW p, add_roles(p)
  PROVE  TreeInv'
<1>. DEFINE All == node \cup {p}
            parents == [q \in All |-> None]
            owns == [q \in All |-> shape.variables[ClassPath(q)]]
            overs == [q \in All |-> Blank]
<1>1. p \in shape.later /\ Grow({p}, parents, owns, overs) BY DEF add_roles
<1>2. shape \in Shapes /\ Paths(shape) \ shape.later \subseteq node BY DEF TreeInv, ClassIn
<1>3. p \in Paths(shape) BY <1>1, <1>2, NamespaceAssumption
<1>4. {p} \subseteq Seq(Elements) /\ (p # Root => Front(p) \in node) BY <1>2, <1>3, ClassTree
<1>5. parents[p] = None OBVIOUS
<1>. HIDE DEF parents, owns, overs
<1>. QED BY <1>1, <1>4, <1>5, GrowTree

(* A prefix is shorter and agrees.                                         *)
LEMMA PrefixAgrees ==
  ASSUME NEW S, NEW t \in Seq(S), NEW y \in Seq(S)
  PROVE  IsPrefix(t, y) <=> Len(t) <= Len(y) /\ \A i \in 1 .. Len(t) : t[i] = y[i]
<1>. DEFINE n == Len(t)
            u == SubSeq(t, 1, n)
            v == SubSeq(y, 1, n)
<1>. SUFFICES ASSUME n <= Len(y) PROVE u = v <=> \A i \in 1 .. n : t[i] = y[i]
  BY DEF IsPrefix
<1>1. n \in Nat /\ Len(y) \in Nat BY LenProperties
<1>2. 1 \in Int /\ n \in Int BY <1>1
<1>3. \A i \in 1 .. n : t[i] \in S /\ y[i] \in S BY <1>1, <1>2, ElementOfSeq
<1>4. /\ u \in Seq(S) /\ Len(u) = IF 1 <= n THEN n - 1 + 1 ELSE 0
      /\ \A i \in 1 .. n - 1 + 1 : u[i] = t[1 + i - 1]
  BY <1>2, <1>3, SubSeqProperties
<1>5. /\ v \in Seq(S) /\ Len(v) = IF 1 <= n THEN n - 1 + 1 ELSE 0
      /\ \A i \in 1 .. n - 1 + 1 : v[i] = y[1 + i - 1]
  BY <1>2, <1>3, SubSeqProperties
<1>. HIDE DEF n, u, v
<1>6. Len(u) = n /\ Len(v) = n /\ \A i \in 1 .. n : u[i] = t[i] /\ v[i] = y[i]
  BY <1>1, <1>4, <1>5
<1>7. (\A i \in 1 .. n : u[i] = v[i]) => u = v BY <1>4, <1>5, <1>6, SeqEqual
<1>. QED BY <1>6, <1>7

(* What is made for a key: the paths of the template with the key in them. *)
LEMMA InstancePaths ==
  ASSUME TreeInv, NEW m \in node, NEW k \in Keys, NEW p \in Instances(m, k)
  PROVE  /\ p \in Seq(Elements) /\ Len(p) > Len(m) /\ Len(m) \in Nat /\ p[Len(m) + 1] = k
         /\ p # Root /\ p # m
         /\ Front(p) = m \/ Front(p) \in Instances(m, k)
         /\ Len(p) = Len(m) + 2 => Append(m, Template) \in node
         /\ ClassPath([p EXCEPT ![Len(m) + 1] = Template]) = ClassPath(p)
         /\ [p EXCEPT ![Len(m) + 1] = Template] \in node
<1>. DEFINE n == Len(m) + 1
            t == Append(m, Template)
<1>1. m \in Seq(Elements) /\ node \subseteq Seq(Elements) BY DEF TreeInv, PathsAreSequences
<1>2. k \in Elements /\ Template \in Elements BY DEF Elements
<1>3. /\ t \in Seq(Elements) /\ Len(t) = n /\ t[n] = Template /\ n \in Nat \ {0} /\ Len(m) = n - 1
      /\ \A i \in 1 .. n - 1 : t[i] = m[i]
  BY <1>1, <1>2, AppendProperties, LenProperties
<1>4. PICK y \in node : IsPrefix(t, y) /\ p = [y EXCEPT ![n] = k] BY DEF Instances
<1>. HIDE DEF t, n
<1>5. y \in Seq(Elements) /\ Len(y) \in Nat /\ Len(y) >= n /\ \A i \in 1 .. n : y[i] = t[i]
  BY <1>1, <1>3, <1>4, PrefixAgrees, LenProperties
<1>6. n \in 1 .. Len(y) BY <1>3, <1>5
<1>7. /\ p \in Seq(Elements) /\ Len(p) = Len(y) /\ p[n] = k
      /\ \A i \in 1 .. Len(y) : i # n => p[i] = y[i]
  BY <1>2, <1>4, <1>5, <1>6, ReKeyed
<1>8. Len(p) > Len(m) /\ p # Root /\ p # m /\ y # Root BY <1>3, <1>5, <1>7, RootIsEmpty
<1>9. [p EXCEPT ![n] = Template] = y
  <2>. DEFINE q == [p EXCEPT ![n] = Template]
  <2>1. /\ q \in Seq(Elements) /\ Len(q) = Len(p) /\ q[n] = Template
        /\ \A i \in 1 .. Len(p) : i # n => q[i] = p[i]
    BY <1>2, <1>6, <1>7, ReKeyed
  <2>. HIDE DEF q
  <2>2. \A i \in 1 .. Len(q) : q[i] = y[i] BY <1>3, <1>5, <1>6, <1>7, <2>1
  <2>3. q = y BY <1>5, <1>7, <2>1, <2>2, SeqEqual
  <2>. QED BY <2>3 DEF q
<1>10. ClassPath(y) = ClassPath(p)
  <2>1. y[n] \notin Keys /\ y[n] = Template BY <1>3, <1>5, NamespaceAssumption
  <2>2. \A i \in 1 .. Len(y) : (IF p[i] \in Keys THEN Template ELSE p[i])
                                = IF y[i] \in Keys THEN Template ELSE y[i]
    BY <1>7, <2>1
  <2>. QED BY <1>7, <2>2 DEF ClassPath
<1>11. /\ p \in Seq(Elements) /\ Len(p) > Len(m) /\ Len(m) \in Nat /\ p[Len(m) + 1] = k
       /\ p # Root /\ p # m
       /\ ClassPath([p EXCEPT ![Len(m) + 1] = Template]) = ClassPath(p)
       /\ [p EXCEPT ![Len(m) + 1] = Template] \in node
  <2>1. Len(m) \in Nat BY <1>1, LenProperties
  <2>2. n = Len(m) + 1 BY DEF n
  <2>3. ClassPath([p EXCEPT ![n] = Template]) = ClassPath(p) BY <1>9, <1>10
  <2>4. [p EXCEPT ![n] = Template] \in node BY <1>4, <1>9
  <2>. QED BY <1>7, <1>8, <2>1, <2>2, <2>3, <2>4
<1>12. /\ Front(y) \in Seq(Elements) /\ Len(Front(y)) = Len(y) - 1
       /\ \A i \in 1 .. Len(y) - 1 : Front(y)[i] = y[i]
  BY <1>5, <1>8, FrontOfPath
<1>13. Front(y) \in node BY <1>4, <1>8 DEF TreeInv, Closed
<1>14. /\ Front(p) \in Seq(Elements) /\ Len(Front(p)) = Len(y) - 1
       /\ \A i \in 1 .. Len(y) - 1 : Front(p)[i] = p[i]
  BY <1>7, <1>8, FrontOfPath
<1>15. CASE Len(y) = n
  <2>1. \A i \in 1 .. n - 1 : Front(p)[i] = m[i] BY <1>3, <1>5, <1>7, <1>14, <1>15
  <2>2. Front(p) = m BY <1>1, <1>3, <1>14, <1>15, <2>1, SeqEqual
  <2>3. Len(p) # Len(m) + 2 BY <1>3, <1>7, <1>15
  <2>. QED BY <1>11, <2>2, <2>3
<1>16. CASE Len(y) # n
  <2>. DEFINE z == Front(y)
              q == [z EXCEPT ![n] = k]
  <2>1. n \in 1 .. Len(z) /\ n <= Len(z) BY <1>3, <1>5, <1>12, <1>16
  <2>2. \A i \in 1 .. n : t[i] = z[i] BY <1>5, <1>12, <2>1
  <2>3. IsPrefix(t, z) BY <1>3, <1>12, <2>1, <2>2, PrefixAgrees
  <2>4. q \in Instances(m, k) BY <1>13, <2>3 DEF Instances, t, n
  <2>5. /\ q \in Seq(Elements) /\ Len(q) = Len(z) /\ q[n] = k
        /\ \A i \in 1 .. Len(z) : i # n => q[i] = z[i]
    BY <1>2, <1>12, <2>1, ReKeyed
  <2>. HIDE DEF q, z
  <2>6. Front(p) = q
    <3>1. Len(q) = Len(y) - 1 /\ Len(y) \in Nat BY <1>5, <1>12, <2>5 DEF z
    <3>2. \A i \in 1 .. Len(y) - 1 : Front(p)[i] = q[i] BY <1>7, <1>12, <1>14, <2>5, <3>1 DEF z
    <3>. QED BY <1>14, <2>5, <3>1, <3>2, SeqEqual
  <2>7. ASSUME Len(p) = Len(m) + 2 PROVE t \in node
    <3>1. Len(z) = n BY <1>3, <1>7, <1>12, <2>7 DEF z
    <3>2. t = z BY <1>3, <1>12, <2>2, <3>1, SeqEqual DEF z
    <3>. QED BY <1>13, <3>2 DEF z
  <2>. QED BY <1>11, <2>4, <2>6, <2>7 DEF t
<1>. QED BY <1>15, <1>16

LEMMA IndexTree ==
  ASSUME TreeInv, NEW m \in node, NEW k \in Keys, get_instance(m, k)
  PROVE  TreeInv'
<1>. DEFINE New == Instances(m, k)
            parents == [p \in New |-> InstanceParent(m, p)]
            All == node \cup New
            owns == [p \in All |-> IF Kind(p) = "group" /\ Front(p) = m THEN Blank
                                   ELSE shape.variables[ClassPath(p)]]
            overs == [p \in All |-> IF Front(p) = m THEN Blank ELSE Overrides(ClassPath(p))]
<1>1. Grow(New, parents, owns, overs) BY DEF get_instance
<1>2. New \subseteq Seq(Elements) /\ \A p \in New \ {Root} : Front(p) \in node \cup New
  BY InstancePaths
<1>3. ASSUME NEW p \in New, parents[p] # None
      PROVE  parents[p] \in node \cup New /\ Len(parents[p]) < Len(p)
  <2>1. /\ p \in Seq(Elements) /\ Len(p) > Len(m) /\ Len(m) \in Nat /\ p # Root
        /\ Front(p) = m \/ Front(p) \in New
        /\ Len(p) = Len(m) + 2 => Append(m, Template) \in node
    BY InstancePaths
  <2>2. Len(Front(p)) = Len(p) - 1 /\ Len(p) \in Nat BY <2>1, FrontOfPath
  <2>3. m \in Seq(Elements) /\ Template \in Elements BY DEF TreeInv, PathsAreSequences, Elements
  <2>4. Len(Append(m, Template)) = Len(m) + 1 BY <2>3, AppendProperties
  <2>5. parents[p] = InstanceParent(m, p) OBVIOUS
  <2>. HIDE DEF parents, New
  <2>6. \/ InstanceParent(m, p) = m
        \/ InstanceParent(m, p) = Append(m, Template) /\ Len(p) = Len(m) + 2
        \/ InstanceParent(m, p) = Front(p)
        \/ InstanceParent(m, p) = None
    BY DEF InstanceParent
  <2>7. Front(p) \in node \cup New BY <2>1
  <2>8. CASE parents[p] = m BY <2>1, <2>8
  <2>9. CASE parents[p] = Append(m, Template) /\ Len(p) = Len(m) + 2 BY <2>1, <2>4, <2>9
  <2>10. CASE parents[p] = Front(p) BY <2>2, <2>7, <2>10
  <2>. QED BY <1>3, <2>5, <2>6, <2>8, <2>9, <2>10
<1>. HIDE DEF parents, owns, overs, New
<1>. QED BY <1>1, <1>2, <1>3, GrowTree

LEMMA NextTree == TreeInv /\ [Next]_vars => TreeInv'
<1>. SUFFICES ASSUME TreeInv, [Next]_vars PROVE TreeInv'
  OBVIOUS
<1>1. CASE UNCHANGED tree
  BY <1>1 DEF tree, TreeInv, PathsAreSequences, Closed, ClassIn, ChainsEnd
<1>2. ASSUME NEW m \in node, NEW k \in shape.keys, get_instance(m, k) PROVE TreeInv'
  <2>1. k \in Keys BY NamespaceAssumption DEF TreeInv, ClassIn
  <2>. QED BY <1>2, <2>1, IndexTree
<1>. QED
  BY <1>1, <1>2, RolesTree
  DEF Next, vars, add_variable, add_override, set_infra_model, fix_arguments,
      compute_provisioning_for_environ

-----------------------------------------------------------------------------
(* The types, on top of the tree.                                          *)
Contents == [Names -> Values \cup {None}]
TypeInv == TypeOK /\ TreeInv

LEMMA BlankContents == Blank \in Contents
BY DEF Blank, Contents

LEMMA OfClass ==
  ASSUME NEW M \in Shapes, NEW p \in Paths(M)
  PROVE  M.variables[p] \in Contents /\ M.overrides[p] \in Contents
BY NamespaceAssumption DEF Contents

(* The path of a class is its own.                                         *)
LEMMA OwnClassPath ==
  ASSUME NEW M \in Shapes, NEW p \in Paths(M)
  PROVE  ClassPath(p) = p
<1>1. Range(p) \cap Keys = {} /\ p \in Seq(Elements) BY NamespaceAssumption, ClassTree
<1>2. Len(p) \in Nat /\ DOMAIN p = 1 .. Len(p) BY <1>1, LenProperties
<1>3. \A i \in 1 .. Len(p) : p[i] \notin Keys BY <1>1, <1>2 DEF Range
<1>4. p = [i \in 1 .. Len(p) |-> p[i]] BY <1>1
<1>. QED BY <1>3, <1>4 DEF ClassPath

LEMMA InitTypes == Init => TypeInv
<1>. SUFFICES ASSUME Init PROVE TypeOK
  BY InitTree DEF TypeInv
<1>1. /\ shape \in Shapes /\ node = Paths(shape) \ shape.later
      /\ parent = [p \in node |-> NewParent(p)]
      /\ variables = [p \in node |-> shape.variables[p]]
      /\ overrides = [p \in node |-> Overrides(p)]
  BY DEF Init, Paths
<1>2. \A p \in node : ClassPath(p) \in DOMAIN shape.kind BY <1>1, OwnClassPath DEF Paths
<1>3. parent \in [node -> node \cup {None}]
  <2>1. \A p \in node : NewParent(p) \in node \cup {None} BY <1>1, ClassTree DEF NewParent
  <2>. QED BY <1>1, <2>1
<1>4. variables \in [node -> Contents] BY <1>1, OfClass
<1>5. overrides \in [node -> Contents]
  <2>1. \A p \in node : Overrides(p) \in Contents BY <1>1, OfClass, BlankContents DEF Overrides
  <2>. QED BY <1>1, <2>1
<1>6. /\ sets \in 0 .. MaxSets /\ infra \in Infras \cup {None} /\ computed \subseteq Infras
      /\ fixed \subseteq Parts /\ DOMAIN host = node
  BY NamespaceAssumption DEF Init
<1>. QED BY <1>1, <1>2, <1>3, <1>4, <1>5, <1>6 DEF TypeOK, Contents

(* New containers have the types, when their paths are of the class.       *)
LEMMA GrowTypes ==
  ASSUME TypeInv, NEW New, NEW parents, NEW owns, NEW overs, Grow(New, parents, owns, overs),
         TreeInv',
         \A p \in New \ node : /\ ClassPath(p) \in Paths(shape)
                               /\ owns[p] \in Contents /\ overs[p] \in Contents
  PROVE  TypeInv'
<1>1. /\ node' = node \cup New /\ UNCHANGED <<shape, sets, infra, computed, fixed>>
      /\ parent' = [p \in node' |-> IF p \in node THEN parent[p] ELSE parents[p]]
      /\ variables' = [p \in node' |-> IF p \in node THEN variables[p] ELSE owns[p]]
      /\ overrides' = [p \in node' |-> IF p \in node THEN overrides[p] ELSE overs[p]]
      /\ host' = [p \in node' |-> IF p \in node THEN host[p] ELSE None]
  BY DEF Grow, Kept
<1>2. TypeOK BY DEF TypeInv
<1>3. \A p \in node' : ClassPath(p)' \in DOMAIN shape'.kind
  BY <1>1, <1>2 DEF TypeOK, ClassPath, Paths
<1>4. parent' \in [node' -> node' \cup {None}]
  <2>1. \A p \in node' : parent'[p] \in node' \cup {None} BY DEF TreeInv, ChainsEnd
  <2>. QED BY <1>1, <2>1
<1>5. variables' \in [node' -> Contents] /\ overrides' \in [node' -> Contents]
  <2>1. variables \in [node -> Contents] /\ overrides \in [node -> Contents]
    BY <1>2 DEF TypeOK, Contents
  <2>. QED BY <1>1, <2>1
<1>6. fixed' \subseteq Parts' BY <1>1, <1>2 DEF TypeOK, Parts, InTemplate
<1>7. DOMAIN host' = node' BY <1>1
<1>8. /\ shape' \in Shapes /\ sets' \in 0 .. MaxSets /\ infra' \in Infras \cup {None}
      /\ computed' \subseteq Infras
  BY <1>1, <1>2 DEF TypeOK
<1>9. TypeOK' BY <1>3, <1>4, <1>5, <1>6, <1>7, <1>8 DEF TypeOK, Contents
<1>. QED BY <1>9 DEF TypeInv

LEMMA RolesTypes ==
  ASSUME TypeInv, NEW p, add_roles(p)
  PROVE  TypeInv'
<1>. DEFINE All == node \cup {p}
            parents == [q \in All |-> None]
            owns == [q \in All |-> shape.variables[ClassPath(q)]]
            overs == [q \in All |-> Blank]
<1>1. p \in shape.later /\ Grow({p}, parents, owns, overs) BY DEF add_roles
<1>2. shape \in Shapes BY DEF TypeInv, TypeOK
<1>3. p \in Paths(shape) BY <1>1, <1>2, NamespaceAssumption
<1>4. ClassPath(p) = p BY <1>2, <1>3, OwnClassPath
<1>5. owns[p] = shape.variables[p] /\ overs[p] = Blank BY <1>4
<1>6. owns[p] \in Contents /\ overs[p] \in Contents BY <1>2, <1>3, <1>5, OfClass, BlankContents
<1>7. TreeInv' BY RolesTree DEF TypeInv
<1>. HIDE DEF parents, owns, overs
<1>. QED BY <1>1, <1>3, <1>4, <1>6, <1>7, GrowTypes

LEMMA IndexTypes ==
  ASSUME TypeInv, NEW m \in node, NEW k \in Keys, get_instance(m, k)
  PROVE  TypeInv'
<1>. DEFINE New == Instances(m, k)
            All == node \cup New
            parents == [p \in New |-> InstanceParent(m, p)]
            owns == [p \in All |-> IF Kind(p) = "group" /\ Front(p) = m THEN Blank
                                   ELSE shape.variables[ClassPath(p)]]
            overs == [p \in All |-> IF Front(p) = m THEN Blank ELSE Overrides(ClassPath(p))]
<1>1. Grow(New, parents, owns, overs) BY DEF get_instance
<1>2. TypeOK /\ TreeInv /\ shape \in Shapes BY DEF TypeInv, TypeOK
<1>3. ASSUME NEW p \in New
      PROVE  /\ ClassPath(p) \in Paths(shape)
             /\ owns[p] \in Contents /\ overs[p] \in Contents
  <2>. DEFINE y == [p EXCEPT ![Len(m) + 1] = Template]
  <2>1. y \in node /\ ClassPath(y) = ClassPath(p) BY <1>2, InstancePaths
  <2>. HIDE DEF y
  <2>2. ClassPath(p) \in Paths(shape) BY <1>2, <2>1 DEF TypeOK, Paths
  <2>3. /\ owns[p] = Blank \/ owns[p] = shape.variables[ClassPath(p)]
        /\ \/ overs[p] = Blank
           \/ overs[p] = shape.overrides[ClassPath(p)]
    BY DEF Overrides
  <2>. HIDE DEF owns, overs
  <2>. QED BY <1>2, <2>2, <2>3, OfClass, BlankContents
<1>4. TreeInv' BY <1>2, IndexTree
<1>. HIDE DEF parents, owns, overs, New
<1>. QED BY <1>1, <1>3, <1>4, GrowTypes

(* Only the hosts change.                                                  *)
LEMMA FixTypes ==
  ASSUME TypeInv, TreeInv', UNCHANGED <<tree, vars_of>>,
         infra' \in Infras \cup {None}, computed' \subseteq Infras,
         NEW S, S \subseteq Parts, NEW failed, NEW i, Fix(S, failed, i)
  PROVE  TypeInv'
<1>1. UNCHANGED <<shape, node, parent, variables, overrides, sets>> BY DEF tree, vars_of
<1>2. TypeOK BY DEF TypeInv
<1>3. fixed' = fixed \cup S /\ DOMAIN host' = node' BY <1>1 DEF Fix
<1>4. Parts' = Parts BY <1>1 DEF Parts, InTemplate
<1>5. \A p \in node' : ClassPath(p)' \in DOMAIN shape'.kind BY <1>1, <1>2 DEF TypeOK, ClassPath
<1>6. TypeOK' BY <1>1, <1>2, <1>3, <1>4, <1>5 DEF TypeOK
<1>. QED BY <1>6 DEF TypeInv

LEMMA NextTypes == TypeInv /\ [Next]_vars => TypeInv'
<1>. SUFFICES ASSUME TypeInv, [Next]_vars PROVE TypeInv'
  OBVIOUS
<1>1. TypeOK /\ shape \in Shapes /\ TreeInv' BY NextTree DEF TypeInv, TypeOK
<1>2. ASSUME NEW p \in node, NEW n \in shape.names, NEW v \in shape.values,
             add_variable(p, n, v) \/ add_override(p, n, v)
      PROVE  TypeInv'
  <2>1. UNCHANGED <<tree, hosts>> /\ sets' = sets + 1 /\ sets < MaxSets
    BY <1>2 DEF add_variable, add_override
  <2>2. UNCHANGED <<shape, node, parent, infra, computed, fixed, host>>
    BY <2>1 DEF tree, hosts
  <2>3. n \in Names /\ v \in Values /\ MaxSets \in Nat BY <1>1, NamespaceAssumption
  <2>4. variables' \in [node -> Contents] /\ overrides' \in [node -> Contents]
    <3>1. variables \in [node -> Contents] /\ overrides \in [node -> Contents]
      BY <1>1 DEF TypeOK, Contents
    <3>2. \A c \in Contents : [c EXCEPT ![n] = v] \in Contents BY <2>3 DEF Contents
    <3>3. /\ [variables EXCEPT ![p][n] = v] \in [node -> Contents]
          /\ [overrides EXCEPT ![p][n] = v] \in [node -> Contents]
      BY <3>1, <3>2
    <3>. QED BY <1>2, <3>1, <3>3 DEF add_variable, add_override
  <2>5. sets' \in 0 .. MaxSets BY <1>1, <2>1, <2>3 DEF TypeOK
  <2>6. Parts' = Parts BY <2>2 DEF Parts, InTemplate
  <2>7. \A q \in node' : ClassPath(q)' \in DOMAIN shape'.kind
    BY <1>1, <2>2 DEF TypeOK, ClassPath
  <2>8. TypeOK' BY <1>1, <2>2, <2>4, <2>5, <2>6, <2>7 DEF TypeOK, Contents
  <2>. QED BY <1>1, <2>8 DEF TypeInv
<1>3. ASSUME NEW m \in node, NEW k \in shape.keys, get_instance(m, k) PROVE TypeInv'
  <2>1. k \in Keys BY <1>1, NamespaceAssumption
  <2>. QED BY <1>3, <2>1, IndexTypes
<1>4. ASSUME NEW i \in shape.infras, set_infra_model(i) PROVE TypeInv'
  <2>1. i \in Infras BY <1>1, NamespaceAssumption
  <2>2. UNCHANGED <<shape, node, parent, variables, overrides, sets, computed, fixed, host>>
        /\ infra' = i
    BY <1>4 DEF set_infra_model, tree, vars_of
  <2>3. Parts' = Parts BY <2>2 DEF Parts, InTemplate
  <2>4. \A q \in node' : ClassPath(q)' \in DOMAIN shape'.kind
    BY <1>1, <2>2 DEF TypeOK, ClassPath
  <2>5. TypeOK' BY <1>1, <2>1, <2>2, <2>3, <2>4 DEF TypeOK
  <2>. QED BY <1>1, <2>5 DEF TypeInv
<1>5. ASSUME NEW p \in node, fix_arguments(p) PROVE TypeInv'
  <2>1. /\ {p} \subseteq Parts /\ UNCHANGED <<tree, vars_of, infra, computed>>
        /\ \E failed : Fix({p}, failed, infra)
    BY <1>5 DEF fix_arguments, Roles
  <2>2. infra' \in Infras \cup {None} /\ computed' \subseteq Infras BY <1>1, <2>1 DEF TypeOK
  <2>. QED BY <1>1, <2>1, <2>2, FixTypes
<1>6. ASSUME NEW i \in shape.infras, NEW X, compute_provisioning_for_environ(i, X)
      PROVE  TypeInv'
  <2>1. i \in Infras BY <1>1, NamespaceAssumption
  <2>2. infra' = i /\ UNCHANGED <<tree, vars_of>> BY <1>6 DEF compute_provisioning_for_environ
  <2>3. CASE FixFails(i, X)
    <3>1. PICK S \in SUBSET Parts : \E failed : Fix(S, failed, i)
      BY <2>3 DEF FixFails, WalksTo, Open
    <3>2. computed' \subseteq Infras BY <1>1, <2>3 DEF FixFails, TypeOK
    <3>. QED BY <1>1, <2>1, <2>2, <3>1, <3>2, FixTypes
  <2>4. CASE Compute(i, X)
    <3>1. /\ Fix(Open, {}, i) /\ Open \subseteq Parts
          /\ computed' \subseteq Infras
      BY <1>1, <2>1, <2>4 DEF Compute, TypeOK, Open
    <3>. QED BY <1>1, <2>1, <2>2, <3>1, FixTypes
  <2>. QED BY <1>6, <2>3, <2>4 DEF compute_provisioning_for_environ
<1>7. CASE UNCHANGED vars
  <2>1. UNCHANGED <<shape, node, parent, variables, overrides, sets, infra, computed, fixed,
                    host>>
    BY <1>7 DEF vars, tree, vars_of, hosts
  <2>2. Parts' = Parts BY <2>1 DEF Parts, InTemplate
  <2>3. \A q \in node' : ClassPath(q)' \in DOMAIN shape'.kind
    BY <1>1, <2>1 DEF TypeOK, ClassPath
  <2>4. TypeOK' BY <1>1, <2>1, <2>2, <2>3 DEF TypeOK
  <2>. QED BY <1>1, <2>4 DEF TypeInv
<1>. QED BY <1>2, <1>3, <1>4, <1>5, <1>6, <1>7, RolesTypes DEF Next

-----------------------------------------------------------------------------
(* Whatever infra model a role was resolved in, what it was resolved to is *)
(* the component that the class says.                                      *)
HostsShape ==
  DOMAIN made = Infras /\ DOMAIN excluded = Infras /\ DOMAIN provisioned = Infras
AsTheClassSays ==
  \A p \in node : host[p] # None /\ HostOf(p) # None => host[p][2] = HostOf(p)
HostInv == TypeInv /\ HostsShape /\ AsTheClassSays

LEMMA InitHosts == Init => HostInv
BY InitTypes DEF Init, HostInv, HostsShape, AsTheClassSays

LEMMA ResolvedAsSaid ==
  ASSUME NEW p, NEW i, HostOf(p) # None
  PROVE  Resolved(p, i)[2] = HostOf(p)
BY DEF HostOf, Resolved

(* New containers have no hosts.                                           *)
LEMMA GrowHosts ==
  ASSUME HostInv, NEW New, NEW parents, NEW owns, NEW overs, Grow(New, parents, owns, overs)
  PROVE  HostsShape' /\ AsTheClassSays'
<1>1. /\ host' = [p \in node' |-> IF p \in node THEN host[p] ELSE None]
      /\ UNCHANGED <<shape, made, excluded, provisioned>>
  BY DEF Grow
<1>2. \A p : HostOf(p)' = HostOf(p) BY <1>1 DEF HostOf, ClassPath
<1>. QED BY <1>1, <1>2 DEF HostInv, HostsShape, AsTheClassSays

LEMMA FixHosts ==
  ASSUME HostInv, NEW S, NEW failed, NEW i, Fix(S, failed, i), UNCHANGED tree
  PROVE  AsTheClassSays'
<1>1. /\ host' = [p \in node |-> IF p \in (S \cap Roles) \ failed THEN Resolved(p, i) ELSE host[p]]
      /\ UNCHANGED <<shape, node>>
  BY DEF Fix, tree
<1>2. \A p : HostOf(p)' = HostOf(p) BY <1>1 DEF HostOf, ClassPath
<1>. QED BY <1>1, <1>2, ResolvedAsSaid DEF HostInv, AsTheClassSays

LEMMA MadeDomain ==
  ASSUME HostInv, NEW i, NEW X, made' = MadeWith(i, X)
  PROVE  DOMAIN made' = Infras
BY DEF MadeWith, HostInv, HostsShape

LEMMA ComputeKeeps ==
  ASSUME HostInv, NEW i, NEW X, Compute(i, X), UNCHANGED tree
  PROVE  HostsShape' /\ AsTheClassSays'
<1>1. AsTheClassSays' BY FixHosts DEF Compute
<1>2. \E Y : made' = MadeWith(i, Y) BY DEF Compute
<1>3. DOMAIN made' = Infras BY <1>2, MadeDomain
<1>4. DOMAIN excluded' = Infras /\ DOMAIN provisioned' = Infras
  BY DEF Compute, HostInv, HostsShape
<1>. QED BY <1>1, <1>3, <1>4 DEF HostsShape

LEMMA NextHosts == HostInv /\ [Next]_vars => HostInv'
<1>. SUFFICES ASSUME HostInv, [Next]_vars PROVE HostsShape' /\ AsTheClassSays'
  BY NextTypes DEF HostInv
<1>1. CASE UNCHANGED <<shape, node, made, host, excluded, provisioned>>
  <2>1. \A p : HostOf(p)' = HostOf(p) BY <1>1 DEF HostOf, ClassPath
  <2>. QED BY <1>1, <2>1 DEF HostInv, HostsShape, AsTheClassSays
<1>2. ASSUME NEW m, NEW k, get_instance(m, k) PROVE HostsShape' /\ AsTheClassSays'
  <2>1. PICK parents, owns, overs : Grow(Instances(m, k), parents, owns, overs)
    BY <1>2 DEF get_instance
  <2>. QED BY <2>1, GrowHosts
<1>3. ASSUME NEW p, add_roles(p) PROVE HostsShape' /\ AsTheClassSays'
  <2>1. PICK parents, owns, overs : Grow({p}, parents, owns, overs) BY <1>3 DEF add_roles
  <2>. QED BY <2>1, GrowHosts
<1>4. ASSUME NEW p, fix_arguments(p) PROVE HostsShape' /\ AsTheClassSays'
  <2>1. /\ UNCHANGED <<tree, excluded, provisioned>> /\ made' = MadeWith(infra, {})
        /\ \E failed : Fix({p}, failed, infra)
    BY <1>4 DEF fix_arguments
  <2>. QED BY <2>1, FixHosts, MadeDomain DEF HostInv, HostsShape
<1>5. ASSUME NEW i, NEW X, compute_provisioning_for_environ(i, X)
      PROVE  HostsShape' /\ AsTheClassSays'
  <2>1. UNCHANGED tree BY <1>5 DEF compute_provisioning_for_environ
  <2>2. CASE FixFails(i, X)
    <3>1. /\ UNCHANGED <<excluded, provisioned>> /\ made' = MadeWith(i, X)
          /\ \E S, failed : Fix(S, failed, i)
      BY <2>2 DEF FixFails
    <3>. QED BY <2>1, <3>1, FixHosts, MadeDomain DEF HostInv, HostsShape
  <2>3. CASE Compute(i, X) BY <2>1, <2>3, ComputeKeeps
  <2>. QED BY <1>5, <2>2, <2>3 DEF compute_provisioning_for_environ
<1>6. CASE UNCHANGED vars BY <1>1, <1>6 DEF vars, tree, hosts
<1>7. ASSUME NEW p, NEW n, NEW v, add_variable(p, n, v) \/ add_override(p, n, v)
      PROVE  HostsShape' /\ AsTheClassSays'
  BY <1>1, <1>7 DEF add_variable, add_override, tree, hosts
<1>8. ASSUME NEW i, set_infra_model(i) PROVE HostsShape' /\ AsTheClassSays'
  BY <1>1, <1>8 DEF set_infra_model, tree
<1>. QED BY <1>2, <1>3, <1>4, <1>5, <1>6, <1>7, <1>8 DEF Next

-----------------------------------------------------------------------------
(* A provisioning that is computed holds what was referred to at the time. *)
LEMMA ComputedHolds ==
  ASSUME HostInv, NEW i \in Infras, NEW X, Compute(i, X),
         NEW j \in Infras, provisioned'[j] # provisioned[j]
  PROVE  j = i /\ ~TextHost /\ \A c \in ReferredTo : Holds(j, c)
<1>1. /\ ~TextHost /\ made' = MadeWith(i, X \cup ReferredTo)
      /\ excluded' = [excluded EXCEPT ![i] = X]
      /\ provisioned' = [provisioned EXCEPT ![i] = Components(i) \ X]
  BY DEF Compute
<1>2. j = i BY <1>1 DEF HostInv, HostsShape
<1>3. provisioned'[i] = made'[i] \ X /\ excluded'[i] = X
  BY <1>1 DEF HostInv, HostsShape, Components
<1>4. ReferredTo \subseteq made'[i]
  <2>1. i # None BY NamespaceAssumption
  <2>. QED BY <1>1, <2>1 DEF MadeWith, HostInv, HostsShape
<1>. QED BY <1>1, <1>2, <1>3, <1>4 DEF Holds

(* What is resolved to a component is not None.                            *)
LEMMA ResolvedIsSome ==
  ASSUME HostInv, NEW p \in Roles, NEW i \in Infras, HostOf(p) # None
  PROVE  Resolved(p, i) # None
<1>. DEFINE h == shape.host[ClassPath(p)]
<1>1. /\ p \in node /\ p # Root /\ p \in Seq(Elements) /\ shape \in Shapes
      /\ ClassPath(p) \in Paths(shape)
  BY DEF HostInv, TypeInv, TypeOK, TreeInv, PathsAreSequences, Roles, Parts, Paths
<1>2. h.manner \in {"ref", "call"} BY DEF HostOf
<1>3. h.what \in Seq(STRING)
  <2>1. \A M \in Shapes : \A q \in Paths(M) :
          M.host[q].manner \in {"ref", "call"} => M.host[q].what \in Seq(STRING)
    BY Zenon, NamespaceAssumption
  <2>. QED BY <1>1, <1>2, <2>1
<1>4. h.what \in Seq(Elements) BY <1>3 DEF Elements
<1>5. Last(p) \in Elements
  <2>1. Len(p) \in Nat \ {0} BY <1>1, FrontOfPath
  <2>2. Len(p) \in 1 .. Len(p) BY <2>1
  <2>. QED BY <1>1, <2>2, ElementOfSeq DEF Last
<1>. HIDE DEF h
<1>. DEFINE Pairs == (Infras \cup {None}) \X Seq(Elements)
<1>6. Resolved(p, i) \in Pairs
  <2>1. CASE h.manner = "ref"
    <3>1. Resolved(p, i) = <<find_infra_model(p, i), h.what>> BY <2>1 DEF Resolved, h
    <3>2. find_infra_model(p, i) \in Infras \cup {None} BY DEF find_infra_model
    <3>. QED BY <1>4, <3>1, <3>2
  <2>2. CASE h.manner = "call"
    <3>1. Resolved(p, i) = <<i, Append(h.what, Last(p))>> BY <2>2 DEF Resolved, h
    <3>2. Append(h.what, Last(p)) \in Seq(Elements) BY <1>4, <1>5, AppendProperties
    <3>. DEFINE c == Append(h.what, Last(p))
    <3>. HIDE DEF c
    <3>3. Resolved(p, i) = <<i, c>> /\ c \in Seq(Elements) BY <3>1, <3>2 DEF c
    <3>. QED BY <3>3
  <2>. QED BY <1>2, <2>1, <2>2
<1>7. None \notin Pairs BY NamespaceAssumption DEF Elements
<1>. QED BY <1>6, <1>7

(* What the walk comes to is resolved then, and what it does not come to   *)
(* keeps the host that it has.                                             *)
HostHolds(p) ==
  \A i \in Infras :
    /\ provisioned'[i] # provisioned[i]
    /\ ~ShutOut(p) \/ host[p] # None
    => Holds(i, HostOf(p))

LEMMA ComputeHosts ==
  ASSUME HostInv, NEW i \in Infras, NEW X, Compute(i, X), UNCHANGED tree, NEW p \in Roles
  PROVE  HostHolds(p)
<1>. SUFFICES ASSUME NEW j \in Infras, provisioned'[j] # provisioned[j],
                     ~ShutOut(p) \/ host[p] # None, HostOf(p) # None
              PROVE  Holds(j, HostOf(p))
  BY DEF HostHolds, Holds
<1>1. p \in Parts /\ p \in node BY DEF Roles, Parts
<1>2. host' = [q \in node |-> IF q \in Open \cap Roles THEN Resolved(q, i) ELSE host[q]]
  BY DEF Compute, Fix
<1>3. host'[p] # None /\ host'[p][2] = HostOf(p)
  <2>1. CASE p \in Open
    BY <1>1, <1>2, <2>1, ResolvedIsSome, ResolvedAsSaid
  <2>2. CASE p \notin Open
    <3>1. host[p] # None BY <1>1, <2>2 DEF Open
    <3>. QED BY <1>1, <1>2, <2>2, <3>1 DEF HostInv, AsTheClassSays
  <2>. QED BY <2>1, <2>2
<1>4. host'[p][1] # "text" BY <1>3, ComputedHolds DEF TextHost
<1>5. HostOf(p) \in HostRefs BY <1>3, <1>4 DEF HostRefs
<1>. QED BY <1>5, ComputedHolds DEF ReferredTo

LEMMA ComputeVariables ==
  ASSUME HostInv, NEW i \in Infras, NEW X, Compute(i, X), NEW p \in node, NEW n \in Names,
         NEW j \in Infras, provisioned'[j] # provisioned[j], Collected(p), Own(p, n) # None
  PROVE  Holds(j, RefOf[Own(p, n)])
<1>1. RefOf[Own(p, n)] \in VariableRefs
  <2>. DEFINE y == <<p, n>>
  <2>1. y \in node \X Names /\ y[1] = p /\ y[2] = n OBVIOUS
  <2>. HIDE DEF y
  <2>2. y \in {x \in node \X Names : Collected(x[1]) /\ Own(x[1], x[2]) # None} BY <2>1
  <2>. QED BY <2>1, <2>2 DEF VariableRefs
<1>2. CASE RefOf[Own(p, n)] = None BY <1>2 DEF Holds
<1>3. CASE RefOf[Own(p, n)] # None BY <1>1, <1>3, ComputedHolds DEF ReferredTo
<1>. QED BY <1>2, <1>3

VariableHolds(p, n) ==
  \A i \in Infras :
    provisioned'[i] # provisioned[i] /\ Collected(p) /\ Own(p, n) # None
    => Holds(i, RefOf[Own(p, n)])

(* Nothing else computes a provisioning.                                   *)
LEMMA OnlyComputed ==
  ASSUME HostInv, [Next]_vars, NEW j \in Infras, provisioned'[j] # provisioned[j]
  PROVE  \E i \in Infras : \E X : Compute(i, X) /\ UNCHANGED tree
<1>1. PICK i \in shape.infras : \E X : compute_provisioning_for_environ(i, X)
  BY DEF Next, vars, hosts, add_variable, add_override, get_instance, add_roles, Grow,
         set_infra_model, fix_arguments
<1>2. i \in Infras BY NamespaceAssumption DEF HostInv, TypeInv, TypeOK
<1>. QED BY <1>1, <1>2 DEF compute_provisioning_for_environ, FixFails

LEMMA NextHolds ==
  ASSUME HostInv, [Next]_vars
  PROVE  /\ \A p \in Roles : HostHolds(p)
         /\ \A p \in node, n \in Names : VariableHolds(p, n)
<1>1. ASSUME NEW p \in Roles PROVE HostHolds(p)
  <2>1. CASE \A j \in Infras : provisioned'[j] = provisioned[j] BY <2>1 DEF HostHolds
  <2>. QED BY <2>1, OnlyComputed, ComputeHosts
<1>2. ASSUME NEW p \in node, NEW n \in Names PROVE VariableHolds(p, n)
  BY OnlyComputed, ComputeVariables DEF VariableHolds
<1>. QED BY <1>1, <1>2

-----------------------------------------------------------------------------
LEMMA TreeDescends ==
  TreeInv => Descends(node, {q \in node : parent[q] = None}, parent, [q \in node |-> Len(q)])
<1>. SUFFICES ASSUME TreeInv
              PROVE  Descends(node, {q \in node : parent[q] = None}, parent,
                              [q \in node |-> Len(q)])
  OBVIOUS
<1>1. \A q \in node : Len(q) \in Nat BY LenProperties DEF TreeInv, PathsAreSequences
<1>2. [q \in node |-> Len(q)] \in [node -> Nat] BY <1>1
<1>. QED BY <1>2 DEF Descends, TreeInv, ChainsEnd

(* What holds of a container when it holds of the one it goes on to, holds *)
(* of all of them.                                                         *)
LEMMA AlongChains ==
  ASSUME TreeInv, NEW T, \A p \in node : (parent[p] # None => parent[p] \in T) => p \in T
  PROVE  node \subseteq T
<1>. DEFINE Bad == {Len(q) : q \in node \ T}
<1>. SUFFICES ASSUME Bad # {} PROVE FALSE
  OBVIOUS
<1>1. \A q \in node : Len(q) \in Nat BY LenProperties DEF TreeInv, PathsAreSequences
<1>2. Bad \subseteq Nat BY <1>1
<1>3. PICK m \in Bad : \A k \in Bad : m <= k BY <1>2, Least
<1>4. PICK q \in node \ T : Len(q) = m BY <1>3
<1>5. parent[q] # None /\ parent[q] \notin T BY <1>4
<1>6. parent[q] \in node /\ Len(parent[q]) < m BY <1>4, <1>5 DEF TreeInv, ChainsEnd
<1>7. Len(parent[q]) \in Bad BY <1>5, <1>6
<1>. QED BY <1>1, <1>2, <1>3, <1>6, <1>7

-----------------------------------------------------------------------------
FoundIn(p, n) ==
  IF Own(p, n) # None THEN Own(p, n)
  ELSE IF parent[p] # None THEN find_variable(parent[p], n) ELSE None

LEMMA Found ==
  TypeInv => \A p \in node, n \in Names :
    find_variable(p, n) = FoundIn(p, n) /\ find_variable(p, n) \in Values \cup {None}
<1>. SUFFICES ASSUME TypeInv, NEW n \in Names
              PROVE  \A p \in node : /\ find_variable(p, n) = FoundIn(p, n)
                                     /\ find_variable(p, n) \in Values \cup {None}
  OBVIOUS
<1>. DEFINE from[q \in node] == IF Own(q, n) # None THEN Own(q, n)
                                ELSE IF parent[q] # None THEN from[parent[q]] ELSE None
            T == Values \cup {None}
            Outermost == {q \in node : parent[q] = None}
            rank == [q \in node |-> Len(q)]
            B == [q \in node |-> Own(q, n)]
            H == [x \in node \X T |-> IF Own(x[1], n) # None THEN Own(x[1], n) ELSE x[2]]
<1>1. \A q \in node : Own(q, n) \in T /\ (parent[q] # None => parent[q] \in node)
  BY DEF Own, TypeInv, TypeOK, TreeInv, ChainsEnd
<1>2. \E f \in [node -> T] : f = Step(node, Outermost, parent, B, H, f)
  <2>1. Descends(node, Outermost, parent, rank) BY TreeDescends DEF TypeInv
  <2>2. \A q \in node \cap Outermost : B[q] \in T BY <1>1
  <2>3. \A q \in node \ Outermost, v \in T : H[<<q, v>>] \in T BY <1>1
  <2>. HIDE DEF B, H, T, rank, Outermost, from
  <2>4. Recursive(node, Outermost, parent, rank, T, B, H) BY <2>1, <2>2, <2>3 DEF Recursive
  <2>. QED BY <2>4, RecursiveFunction
<1>3. PICK f \in [node -> T] : f = Step(node, Outermost, parent, B, H, f) BY <1>2
<1>4. f = [q \in node |-> IF Own(q, n) # None THEN Own(q, n)
                          ELSE IF parent[q] # None THEN f[parent[q]] ELSE None]
  BY <1>1, <1>3 DEF Step
<1>5. from = [q \in node |-> IF Own(q, n) # None THEN Own(q, n)
                             ELSE IF parent[q] # None THEN from[parent[q]] ELSE None]
  <2>1. \E g : g = [q \in node |-> IF Own(q, n) # None THEN Own(q, n)
                                   ELSE IF parent[q] # None THEN g[parent[q]] ELSE None]
    BY <1>4
  <2>. QED BY <2>1 DEF from
<1>6. \A p \in node : find_variable(p, n) = from[p] BY DEF find_variable
<1>. HIDE DEF from
<1>7. \A p \in node : find_variable(p, n) = FoundIn(p, n) BY <1>1, <1>5, <1>6 DEF FoundIn
<1>8. \A p \in node : find_variable(p, n) \in T
  <2>. DEFINE Good == {p \in node : find_variable(p, n) \in T}
  <2>1. \A p \in node : (parent[p] # None => parent[p] \in Good) => p \in Good
    BY <1>1, <1>7 DEF FoundIn
  <2>. HIDE DEF Good
  <2>2. node \subseteq Good BY <2>1, AlongChains DEF TypeInv
  <2>. QED BY <2>2 DEF Good
<1>. QED BY <1>7, <1>8

(* What a container sees, in terms of what the one it goes on to sees.     *)
SeenFrom(p) ==
  Updated(Updated(IF parent[p] # None THEN get_visible_vars(parent[p]) ELSE Blank,
                  variables[p]), overrides[p])

LEMMA Seen == TypeInv => \A p \in node : get_visible_vars(p) = SeenFrom(p)
<1>. SUFFICES ASSUME TypeInv PROVE \A p \in node : get_visible_vars(p) = SeenFrom(p)
  OBVIOUS
<1>. DEFINE d[q \in node] ==
              Updated(Updated(IF parent[q] # None THEN d[parent[q]] ELSE Blank,
                              variables[q]), overrides[q])
            Outermost == {q \in node : parent[q] = None}
            rank == [q \in node |-> Len(q)]
            With(q, e) == Updated(Updated(e, variables[q]), overrides[q])
            B == [q \in node |-> With(q, Blank)]
            H == [x \in node \X Contents |-> With(x[1], x[2])]
<1>1. \A q \in node : /\ variables[q] \in Contents /\ overrides[q] \in Contents
                      /\ parent[q] # None => parent[q] \in node
  BY DEF TypeInv, TypeOK, TreeInv, ChainsEnd, Contents
<1>2. \A e, c \in Contents : Updated(e, c) \in Contents BY DEF Updated, Contents
<1>3. \A q \in node, e \in Contents : With(q, e) \in Contents BY <1>1, <1>2
<1>. HIDE DEF With
<1>4. \E f \in [node -> Contents] : f = Step(node, Outermost, parent, B, H, f)
  <2>1. Descends(node, Outermost, parent, rank) BY TreeDescends DEF TypeInv
  <2>2. \A q \in node \cap Outermost : B[q] \in Contents BY <1>3, BlankContents
  <2>3. \A q \in node \ Outermost, v \in Contents : H[<<q, v>>] \in Contents BY <1>3
  <2>. HIDE DEF B, H, rank, Outermost, d
  <2>4. Recursive(node, Outermost, parent, rank, Contents, B, H) BY <2>1, <2>2, <2>3 DEF Recursive
  <2>. QED BY <2>4, RecursiveFunction
<1>5. PICK f \in [node -> Contents] : f = Step(node, Outermost, parent, B, H, f) BY <1>4
<1>6. f = [q \in node |-> With(q, IF parent[q] # None THEN f[parent[q]] ELSE Blank)]
  <2>1. \A q \in node : (IF q \in Outermost THEN B[q] ELSE H[<<q, f[parent[q]]>>])
                        = With(q, IF parent[q] # None THEN f[parent[q]] ELSE Blank)
    BY <1>1
  <2>. HIDE DEF B, H
  <2>. QED BY <1>5, <2>1 DEF Step
<1>7. d = [q \in node |-> With(q, IF parent[q] # None THEN d[parent[q]] ELSE Blank)]
  <2>1. \E g : g = [q \in node |-> With(q, IF parent[q] # None THEN g[parent[q]] ELSE Blank)]
    BY <1>6
  <2>2. \E g : g = [q \in node |->
                      Updated(Updated(IF parent[q] # None THEN g[parent[q]] ELSE Blank,
                                      variables[q]), overrides[q])]
    BY <2>1 DEF With
  <2>. QED BY <2>2 DEF d, With
<1>8. \A p \in node : get_visible_vars(p) = d[p] BY DEF get_visible_vars
<1>. HIDE DEF d
<1>. QED BY <1>1, <1>7, <1>8 DEF SeenFrom, With

LEMMA VisibleFound == TypeInv => VisibleIsFound
<1>. SUFFICES ASSUME TypeInv PROVE VisibleIsFound
  OBVIOUS
<1>. DEFINE Good == {p \in node : get_visible_vars(p) = [n \in Names |-> find_variable(p, n)]}
<1>1. ASSUME NEW p \in node, parent[p] # None => parent[p] \in Good
      PROVE  get_visible_vars(p) = [n \in Names |-> find_variable(p, n)]
  <2>. DEFINE e == IF parent[p] # None THEN get_visible_vars(parent[p]) ELSE Blank
  <2>1. \A n \in Names : e[n] = IF parent[p] # None THEN find_variable(parent[p], n) ELSE None
    BY <1>1 DEF Blank
  <2>. HIDE DEF e
  <2>2. get_visible_vars(p)
          = [n \in Names |-> IF overrides[p][n] # None THEN overrides[p][n]
                             ELSE IF variables[p][n] # None THEN variables[p][n] ELSE e[n]]
    BY Seen DEF SeenFrom, Updated, e
  <2>3. \A n \in Names : find_variable(p, n) = FoundIn(p, n) BY Found
  <2>. QED BY <2>1, <2>2, <2>3 DEF FoundIn, Own
<1>2. \A p \in node : (parent[p] # None => parent[p] \in Good) => p \in Good BY <1>1
<1>. HIDE DEF Good
<1>3. node \subseteq Good BY <1>2, AlongChains DEF TypeInv
<1>. QED BY <1>3 DEF VisibleIsFound, Good

(* A step that makes containers leaves what was there.                     *)
LEMMA GrowthKeeps ==
  ASSUME TypeInv, [Next]_vars, node' # node
  PROVE  /\ node \subseteq node'
         /\ \A p \in node : /\ parent'[p] = parent[p]
                            /\ variables'[p] = variables[p] /\ overrides'[p] = overrides[p]
<1>1. \E New, parents, owns, overs : Grow(New, parents, owns, overs)
  BY Zenon
  DEF Next, vars, tree, add_variable, add_override, get_instance, add_roles, set_infra_model,
      fix_arguments, compute_provisioning_for_environ
<1>. QED BY <1>1 DEF Grow, Kept

LEMMA FoundStays == TypeInv /\ [Next]_vars /\ node' # node =>
  \A p \in node, n \in Names : find_variable(p, n)' = find_variable(p, n)
<1>1. (TypeInv => \A p \in node, n \in Names :
         find_variable(p, n) = FoundIn(p, n) /\ find_variable(p, n) \in Values \cup {None})'
  BY Found, PTL
<1>. SUFFICES ASSUME TypeInv, [Next]_vars, node' # node, NEW n \in Names
              PROVE  \A p \in node : find_variable(p, n)' = find_variable(p, n)
  OBVIOUS
<1>2. TypeInv' BY NextTypes
<1>. DEFINE Good == {p \in node : find_variable(p, n)' = find_variable(p, n)}
<1>3. ASSUME NEW p \in node, parent[p] # None => parent[p] \in Good
      PROVE  find_variable(p, n)' = find_variable(p, n)
  <2>1. p \in node' /\ Own(p, n)' = Own(p, n) /\ parent'[p] = parent[p]
    BY GrowthKeeps DEF Own
  <2>2. find_variable(p, n) = FoundIn(p, n) BY Found
  <2>3. find_variable(p, n)' = FoundIn(p, n)' BY <1>1, <1>2, <2>1
  <2>4. FoundIn(p, n)' = IF Own(p, n)' # None THEN Own(p, n)'
                         ELSE IF parent'[p] # None THEN find_variable(parent[p], n)' ELSE None
    BY <2>1 DEF FoundIn
  <2>. QED BY <1>3, <2>1, <2>2, <2>3, <2>4 DEF FoundIn
<1>4. \A p \in node : (parent[p] # None => parent[p] \in Good) => p \in Good BY <1>3
<1>. HIDE DEF Good
<1>5. node \subseteq Good BY <1>4, AlongChains DEF TypeInv
<1>. QED BY <1>5 DEF Good

-----------------------------------------------------------------------------
(* The prefixes of a path, and of the path without its last element.       *)
LEMMA PrefixOfPath ==
  ASSUME NEW S, NEW p \in Seq(S), NEW k \in 0 .. Len(p)
  PROVE  /\ SubSeq(p, 1, k) \in Seq(S) /\ Len(SubSeq(p, 1, k)) = k
         /\ \A i \in 1 .. k : SubSeq(p, 1, k)[i] = p[i]
         /\ k < Len(p) => SubSeq(Front(p), 1, k) = SubSeq(p, 1, k)
<1>1. Len(p) \in Nat /\ k \in Nat /\ k <= Len(p) BY LenProperties
<1>2. \A i \in 1 .. k : p[i] \in S BY <1>1, ElementOfSeq
<1>3. 1 \in Int /\ k \in Int BY <1>1
<1>4. /\ SubSeq(p, 1, k) \in Seq(S) /\ Len(SubSeq(p, 1, k)) = IF 1 <= k THEN k - 1 + 1 ELSE 0
      /\ \A i \in 1 .. k - 1 + 1 : SubSeq(p, 1, k)[i] = p[1 + i - 1]
  BY <1>2, <1>3, SubSeqProperties
<1>5. Len(SubSeq(p, 1, k)) = k /\ \A i \in 1 .. k : SubSeq(p, 1, k)[i] = p[i] BY <1>1, <1>4
<1>6. ASSUME k < Len(p) PROVE SubSeq(Front(p), 1, k) = SubSeq(p, 1, k)
  <2>1. p # Root BY <1>1, <1>6, RootIsEmpty
  <2>2. /\ Front(p) \in Seq(S) /\ Len(Front(p)) = Len(p) - 1
        /\ \A i \in 1 .. Len(p) - 1 : Front(p)[i] = p[i]
    BY <2>1, FrontOfPath
  <2>3. \A i \in 1 .. k : Front(p)[i] = p[i] BY <1>1, <1>6, <2>2
  <2>4. \A i \in 1 .. k : Front(p)[i] \in S BY <1>2, <2>3
  <2>5. /\ SubSeq(Front(p), 1, k) \in Seq(S)
        /\ Len(SubSeq(Front(p), 1, k)) = IF 1 <= k THEN k - 1 + 1 ELSE 0
        /\ \A i \in 1 .. k - 1 + 1 : SubSeq(Front(p), 1, k)[i] = Front(p)[1 + i - 1]
    BY <1>3, <2>4, SubSeqProperties
  <2>6. Len(SubSeq(Front(p), 1, k)) = k /\ \A i \in 1 .. k : SubSeq(Front(p), 1, k)[i] = p[i]
    BY <1>1, <2>3, <2>5
  <2>. QED BY <1>4, <1>5, <2>5, <2>6, SeqEqual
<1>. QED BY <1>4, <1>5, <1>6

LEMMA ClassOfFront ==
  ASSUME NEW S, NEW p \in Seq(S), p # Root
  PROVE  ClassPath(Front(p)) = Front(ClassPath(p)) /\ ClassPath(p) # Root
<1>. DEFINE U == S \cup {Template}
            c == ClassPath(p)
            d == ClassPath(Front(p))
            n == Len(p)
<1>1. /\ Front(p) \in Seq(S) /\ n \in Nat \ {0} /\ Len(Front(p)) = n - 1
      /\ \A i \in 1 .. n - 1 : Front(p)[i] = p[i]
  BY FrontOfPath
<1>2. \A i \in 1 .. n : p[i] \in S BY <1>1, ElementOfSeq
<1>3. c \in [1 .. n -> U] BY <1>2 DEF ClassPath
<1>4. c \in Seq(U) /\ Len(c) = n BY <1>1, <1>3
<1>5. d \in [1 .. n - 1 -> U] BY <1>1, <1>2 DEF ClassPath
<1>6. d \in Seq(U) /\ Len(d) = n - 1 BY <1>1, <1>5
<1>7. c # Root BY <1>1, <1>4, RootIsEmpty
<1>8. /\ Front(c) \in Seq(U) /\ Len(Front(c)) = n - 1
      /\ \A i \in 1 .. n - 1 : Front(c)[i] = c[i]
  BY <1>4, <1>7, FrontOfPath
<1>9. \A i \in 1 .. n - 1 : c[i] = d[i] BY <1>1 DEF ClassPath
<1>. HIDE DEF c, d, n, U
<1>10. Front(c) = d BY <1>6, <1>8, <1>9, SeqEqual
<1>. QED BY <1>7, <1>10 DEF c, d

(* Of the class, the container that a path is in is no role.               *)
LEMMA FrontIsNoRole ==
  ASSUME TypeInv, NEW p \in node, p # Root
  PROVE  Front(p) \in node /\ Kind(Front(p)) # "role" /\ ClassPath(Front(p)) \in Paths(shape)
<1>1. Front(p) \in node BY DEF TypeInv, TreeInv, Closed
<1>2. ClassPath(p) \in Paths(shape) /\ ClassPath(Front(p)) \in Paths(shape) /\ shape \in Shapes
  BY <1>1 DEF TypeInv, TypeOK, Paths
<1>3. ClassPath(Front(p)) = Front(ClassPath(p)) /\ ClassPath(p) # Root
  BY ClassOfFront DEF TypeInv, TreeInv, PathsAreSequences
<1>. QED BY <1>1, <1>2, <1>3, NamespaceAssumption DEF Kind

LEMMA FrontsAreNoRoles ==
  TypeInv => \A x \in node : x # Root => Kind(Front(x)) # "role"
BY FrontIsNoRole

(* The containers that have their place: the containers they are in have   *)
(* it too.                                                                 *)
InPlace(p) == ~InTemplate(p) /\ ~Added(p) /\ ~OfInstance(p)

LEMMA FrontInPlace ==
  ASSUME TypeInv, NEW p \in node, p # Root, InPlace(p)
  PROVE  Front(p) \in node /\ InPlace(Front(p))
<1>1. p \in Seq(Elements) BY DEF TypeInv, TreeInv, PathsAreSequences
<1>2. /\ Front(p) \in Seq(Elements) /\ Len(p) \in Nat \ {0} /\ Len(Front(p)) = Len(p) - 1
      /\ \A i \in 1 .. Len(p) - 1 : Front(p)[i] = p[i]
  BY <1>1, FrontOfPath
<1>3. DOMAIN p = 1 .. Len(p) /\ DOMAIN Front(p) = 1 .. Len(p) - 1 BY <1>1, <1>2, LenProperties
<1>4. ~InTemplate(Front(p)) BY <1>2, <1>3 DEF InPlace, InTemplate
<1>5. ~OfInstance(Front(p))
  <2>. SUFFICES ASSUME NEW i \in 1 .. Len(p) - 2, Front(p)[i] \in Keys,
                       Kind(SubSeq(Front(p), 1, i)) = "group"
                PROVE  FALSE
    BY <1>2 DEF OfInstance
  <2>1. i \in 0 .. Len(p) /\ i < Len(p) /\ i \in 1 .. Len(p) - 1 BY <1>2
  <2>2. SubSeq(Front(p), 1, i) = SubSeq(p, 1, i) BY <1>1, <2>1, PrefixOfPath
  <2>. QED BY <1>2, <2>1, <2>2 DEF InPlace, OfInstance
<1>6. ~Added(Front(p))
  <2>. SUFFICES ASSUME Front(p) \in shape.later PROVE FALSE
    BY DEF Added
  <2>1. shape \in Shapes BY DEF TypeInv, TypeOK
  <2>2. Front(p) \in Paths(shape) /\ shape.kind[Front(p)] = "role" BY <2>1, NamespaceAssumption
  <2>3. ClassPath(Front(p)) = Front(p) BY <2>1, <2>2, OwnClassPath
  <2>. QED BY <2>2, <2>3, FrontIsNoRole DEF Kind
<1>. QED BY <1>4, <1>5, <1>6, FrontIsNoRole DEF InPlace

(* A container in its place goes on to the one it is in.                   *)
PlaceInv == \A p \in node : InPlace(p) => parent[p] = IF p = Root THEN None ELSE Front(p)
EnclosedInv == TypeInv /\ PlaceInv

LEMMA InitPlaces == Init => PlaceInv
<1>. SUFFICES ASSUME Init, NEW p \in node, InPlace(p), p # Root PROVE parent[p] = Front(p)
  BY DEF Init, PlaceInv, NewParent
<1>1. p \in Seq(Elements) BY InitTree DEF TreeInv, PathsAreSequences
<1>2. Len(p) \in Nat \ {0} /\ DOMAIN p = 1 .. Len(p) BY <1>1, FrontOfPath, LenProperties
<1>3. Last(p) # Template BY <1>2 DEF Last, InPlace, InTemplate
<1>. QED BY <1>3 DEF Init, NewParent

(* An instance that goes on to the container it has in the template is     *)
(* part of an instance of a group.                                         *)
LEMMA InstanceOfGroup ==
  ASSUME TypeInv, TypeInv', NEW m \in node, NEW k \in Keys, get_instance(m, k),
         NEW p \in Instances(m, k), Len(p) = Len(m) + 2
  PROVE  OfInstance(p)
<1>. DEFINE n == Len(m) + 1
            t == Append(m, Template)
            q == Front(p)
<1>1. m \in Seq(Elements) /\ node \subseteq Seq(Elements) BY DEF TypeInv, TreeInv, PathsAreSequences
<1>2. Template \in Elements BY DEF Elements
<1>3. /\ t \in Seq(Elements) /\ Len(t) = n /\ t[n] = Template /\ n \in Nat \ {0} /\ Len(m) = n - 1
      /\ \A i \in 1 .. n - 1 : t[i] = m[i]
  BY <1>1, <1>2, AppendProperties, LenProperties
<1>4. p \in Seq(Elements) /\ p # Root /\ p[n] = k /\ t \in node
  BY InstancePaths DEF TypeInv
<1>5. PICK y \in node : IsPrefix(t, y) /\ p = [y EXCEPT ![n] = k] BY DEF Instances
<1>. HIDE DEF t, n, q
<1>6. y \in Seq(Elements) /\ Len(y) \in Nat /\ Len(y) >= n /\ \A i \in 1 .. n : y[i] = t[i]
  <2>1. y \in Seq(Elements) BY <1>1, <1>5
  <2>2. Len(y) \in Nat BY <2>1, LenProperties
  <2>3. IsPrefix(t, y) <=> Len(t) <= Len(y) /\ \A i \in 1 .. Len(t) : t[i] = y[i]
    BY <1>3, <2>1, PrefixAgrees
  <2>. QED BY <1>3, <1>5, <2>1, <2>2, <2>3
<1>7. \A i \in 1 .. n : i # n => p[i] = t[i] BY <1>5, <1>6
<1>8. q \in Seq(Elements) /\ Len(q) = n /\ \A i \in 1 .. n : q[i] = p[i]
  BY <1>3, <1>4, FrontOfPath DEF q, n
<1>9. ClassPath(q) = ClassPath(t)
  <2>1. t[n] \notin Keys BY <1>3, NamespaceAssumption
  <2>2. \A i \in 1 .. n : (IF q[i] \in Keys THEN Template ELSE q[i])
                          = IF t[i] \in Keys THEN Template ELSE t[i]
    BY <1>3, <1>4, <1>7, <1>8, <2>1
  <2>. QED BY <1>3, <1>8, <2>2 DEF ClassPath
<1>10. q = SubSeq(p, 1, n) BY <1>3 DEF Front, q, n
<1>11. p \in node' /\ UNCHANGED shape BY DEF get_instance, Grow
<1>12. Kind(q)' # "role"
  <2>1. (TypeInv => \A x \in node : x # Root => Kind(Front(x)) # "role")' BY FrontsAreNoRoles, PTL
  <2>. QED BY <1>4, <1>11, <2>1 DEF q
<1>13. Kind(q) # "role" /\ Kind(q) # "multi" /\ Kind(q) = Kind(t)
  <2>1. Kind(q)' = Kind(q) BY <1>11 DEF Kind, ClassPath
  <2>. QED BY <1>9, <1>12, <2>1 DEF get_instance, Kind, t
<1>14. ClassPath(t) \in Paths(shape) /\ shape \in Shapes BY <1>4 DEF t, TypeInv, TypeOK, Paths
<1>15. ClassPath(t) # Root BY <1>1, <1>3, <1>4, RootIsEmpty, ClassOfFront
<1>16. Kind(q) = "group" BY <1>9, <1>13, <1>14, <1>15, NamespaceAssumption DEF Kind, Kinds
<1>17. n \in 1 .. Len(p) - 1 BY <1>3 DEF n
<1>. QED BY <1>4, <1>10, <1>16, <1>17 DEF OfInstance

LEMMA NextPlaces == TypeInv /\ PlaceInv /\ [Next]_vars => PlaceInv'
<1>. SUFFICES ASSUME TypeInv, PlaceInv, [Next]_vars, NEW p \in node', InPlace(p)'
              PROVE  parent'[p] = IF p = Root THEN None ELSE Front(p)
  BY DEF PlaceInv
<1>1. TypeInv' BY NextTypes
<1>2. UNCHANGED shape
  BY DEF Next, vars, tree, add_variable, add_override, get_instance, add_roles, Grow,
         set_infra_model, fix_arguments, compute_provisioning_for_environ
<1>3. InPlace(p) BY <1>2 DEF InPlace, InTemplate, Added, OfInstance, Kind, ClassPath
<1>4. ASSUME p \in node, parent'[p] = parent[p]
      PROVE  parent'[p] = IF p = Root THEN None ELSE Front(p)
  BY <1>3, <1>4 DEF PlaceInv
<1>5. CASE UNCHANGED <<node, parent>> BY <1>4, <1>5
<1>6. ASSUME NEW m \in node, NEW k \in shape.keys, get_instance(m, k)
      PROVE  parent'[p] = IF p = Root THEN None ELSE Front(p)
  <2>1. /\ node' = node \cup Instances(m, k)
        /\ p \in node => parent'[p] = parent[p]
        /\ p \notin node => parent'[p] = InstanceParent(m, p)
    BY <1>6 DEF get_instance, Grow
  <2>2. k \in Keys BY NamespaceAssumption DEF TypeInv, TypeOK
  <2>3. CASE p \in node BY <1>4, <2>1, <2>3
  <2>4. CASE p \notin node
    <3>1. p \in Instances(m, k) BY <2>1, <2>4
    <3>2. p # Root /\ p \in Seq(Elements) BY <2>2, <3>1, InstancePaths DEF TypeInv
    <3>3. Len(p) # Len(m) + 2 BY <1>1, <1>3, <1>6, <2>2, <3>1, InstanceOfGroup DEF InPlace
    <3>4. Len(p) \in Nat \ {0} /\ DOMAIN p = 1 .. Len(p) BY <3>2, FrontOfPath, LenProperties
    <3>5. Last(p) # Template BY <1>3, <3>4 DEF Last, InPlace, InTemplate
    <3>. QED BY <2>1, <2>4, <3>2, <3>3, <3>5 DEF InstanceParent
  <2>. QED BY <2>3, <2>4
<1>7. ASSUME NEW r \in shape.later, add_roles(r)
      PROVE  parent'[p] = IF p = Root THEN None ELSE Front(p)
  <2>1. node' = node \cup {r} /\ (p \in node => parent'[p] = parent[p])
    BY <1>7 DEF add_roles, Grow
  <2>2. p # r BY <1>3 DEF InPlace, Added
  <2>. QED BY <1>4, <2>1, <2>2
<1>. QED
  BY <1>5, <1>6, <1>7
  DEF Next, vars, tree, add_variable, add_override, set_infra_model, fix_arguments,
      compute_provisioning_for_environ

-----------------------------------------------------------------------------
(* The containers that are gone through, as one after the other.           *)
LEMMA ChainAlong ==
  ASSUME TypeInv
  PROVE  \A p \in node :
           /\ Chain[p] = IF parent[p] = None THEN <<p>> ELSE <<p>> \o Chain[parent[p]]
           /\ Chain[p] \in Seq(node)
<1>. DEFINE up[q \in node] == IF parent[q] = None THEN <<q>> ELSE <<q>> \o up[parent[q]]
            Base == {q \in node : parent[q] = None}
            rank == [q \in node |-> Len(q)]
            T == Seq(node)
            B == [q \in node |-> <<q>>]
            H == [x \in node \X T |-> <<x[1]>> \o x[2]]
<1>1. \A q \in node : parent[q] # None => parent[q] \in node BY DEF TypeInv, TreeInv, ChainsEnd
<1>2. \A q \in node, s \in T : <<q>> \in T /\ <<q>> \o s \in T BY ConcatProperties
<1>3. \E f \in [node -> T] : f = Step(node, Base, parent, B, H, f)
  <2>1. Descends(node, Base, parent, rank) BY TreeDescends DEF TypeInv
  <2>2. \A q \in node \cap Base : B[q] \in T BY <1>2
  <2>3. \A q \in node \ Base, v \in T : H[<<q, v>>] \in T BY <1>2
  <2>. HIDE DEF B, H, T, rank, Base, up
  <2>4. Recursive(node, Base, parent, rank, T, B, H) BY <2>1, <2>2, <2>3 DEF Recursive
  <2>. QED BY <2>4, RecursiveFunction
<1>4. PICK f \in [node -> T] : f = Step(node, Base, parent, B, H, f) BY <1>3
<1>. HIDE DEF T
<1>5. f = [q \in node |-> IF parent[q] = None THEN <<q>> ELSE <<q>> \o f[parent[q]]]
  BY <1>1, <1>4 DEF Step
<1>6. up = [q \in node |-> IF parent[q] = None THEN <<q>> ELSE <<q>> \o up[parent[q]]]
  <2>1. \E g : g = [q \in node |-> IF parent[q] = None THEN <<q>> ELSE <<q>> \o g[parent[q]]]
    BY <1>5
  <2>. QED BY <2>1 DEF up
<1>7. \A p \in node : Chain[p] = up[p] BY DEF Chain
<1>. HIDE DEF up
<1>8. \A p \in node : Chain[p] = IF parent[p] = None THEN <<p>> ELSE <<p>> \o Chain[parent[p]]
  BY <1>1, <1>6, <1>7
<1>9. \A p \in node : Chain[p] \in T
  <2>. DEFINE Good == {p \in node : Chain[p] \in T}
  <2>1. \A p \in node : (parent[p] # None => parent[p] \in Good) => p \in Good
    BY <1>1, <1>2, <1>8
  <2>. HIDE DEF Good
  <2>2. node \subseteq Good BY <2>1, AlongChains DEF TypeInv
  <2>. QED BY <2>2 DEF Good
<1>. QED BY <1>8, <1>9 DEF T

Enclosing(p) == [i \in 1 .. Len(p) + 1 |-> SubSeq(p, 1, Len(p) + 1 - i)]

LEMMA EnclosingOfFront ==
  ASSUME NEW S, NEW p \in Seq(S), p # Root
  PROVE  Enclosing(p) = <<p>> \o Enclosing(Front(p))
<1>. DEFINE n == Len(p)
            U == Seq(S)
            e == Enclosing(p)
            d == Enclosing(Front(p))
<1>1. /\ Front(p) \in Seq(S) /\ n \in Nat \ {0} /\ Len(Front(p)) = n - 1
  BY FrontOfPath
<1>2. \A k \in 0 .. n : SubSeq(p, 1, k) \in U /\ (k < n => SubSeq(Front(p), 1, k) = SubSeq(p, 1, k))
  BY PrefixOfPath
<1>3. SubSeq(p, 1, n) = p BY SubSeqFull
<1>4. e = [i \in 1 .. n + 1 |-> SubSeq(p, 1, n + 1 - i)] BY DEF Enclosing
<1>5. \A i \in 1 .. n + 1 : n + 1 - i \in 0 .. n BY <1>1
<1>6. e \in [1 .. n + 1 -> U] BY <1>2, <1>4, <1>5
<1>7. d = [i \in 1 .. n |-> SubSeq(Front(p), 1, n - i)] BY <1>1 DEF Enclosing
<1>8. \A i \in 1 .. n : n - i \in 0 .. n /\ n - i < n BY <1>1
<1>9. \A i \in 1 .. n : d[i] = SubSeq(p, 1, n - i) /\ d[i] \in U BY <1>2, <1>7, <1>8
<1>10. d \in [1 .. n -> U] BY <1>7, <1>9
<1>. HIDE DEF e, d, n, U
<1>11. n \in Nat /\ n + 1 \in Nat BY <1>1
<1>12. e \in Seq(U) /\ Len(e) = n + 1 BY <1>6, <1>11
<1>13. d \in Seq(U) /\ Len(d) = n BY <1>10, <1>11
<1>14. p \in U /\ <<p>> \in Seq(U) /\ Len(<<p>>) = 1 /\ <<p>>[1] = p BY DEF U
<1>15. /\ <<p>> \o d \in Seq(U) /\ Len(<<p>> \o d) = 1 + n
       /\ \A i \in 1 .. 1 + n : (<<p>> \o d)[i] = IF i <= 1 THEN <<p>>[i] ELSE d[i - 1]
  BY <1>13, <1>14, ConcatProperties
<1>16. \A i \in 1 .. n + 1 : e[i] = (<<p>> \o d)[i]
  <2>. SUFFICES ASSUME NEW i \in 1 .. n + 1 PROVE e[i] = (<<p>> \o d)[i]
    OBVIOUS
  <2>1. CASE i = 1
    <3>1. e[1] = SubSeq(p, 1, n + 1 - 1) /\ n + 1 - 1 = n BY <1>4, <1>11
    <3>. QED BY <1>3, <1>11, <1>14, <1>15, <2>1, <3>1
  <2>2. CASE i # 1
    <3>1. i - 1 \in 1 .. n /\ n + 1 - i = n - (i - 1) BY <1>11, <2>2
    <3>2. e[i] = SubSeq(p, 1, n - (i - 1)) BY <1>4, <3>1
    <3>3. d[i - 1] = SubSeq(p, 1, n - (i - 1)) BY <1>9, <3>1
    <3>. QED BY <1>11, <1>15, <2>2, <3>2, <3>3
  <2>. QED BY <2>1, <2>2
<1>17. e = <<p>> \o d BY <1>11, <1>12, <1>15, <1>16, SeqEqual
<1>. QED BY <1>17 DEF e, d

LEMMA AllEnclosing == TypeInv /\ PlaceInv => EnclosingContainersSeen
<1>. SUFFICES ASSUME TypeInv, PlaceInv PROVE \A p \in node : InPlace(p) => Chain[p] = Enclosing(p)
  BY DEF EnclosingContainersSeen, InPlace, Enclosing
<1>. DEFINE Good == {p \in node : InPlace(p) => Chain[p] = Enclosing(p)}
<1>1. ASSUME NEW p \in node, parent[p] # None => parent[p] \in Good, InPlace(p)
      PROVE  Chain[p] = Enclosing(p)
  <2>1. p \in Seq(Elements) BY DEF TypeInv, TreeInv, PathsAreSequences
  <2>2. CASE p = Root
    <3>1. Chain[p] = <<p>> BY <1>1, <2>2, ChainAlong DEF PlaceInv
    <3>2. Len(Root) = 0 BY RootIsEmpty
    <3>3. Enclosing(Root) = [i \in 1 .. 1 |-> SubSeq(Root, 1, 1 - i)] BY <3>2 DEF Enclosing
    <3>4. SubSeq(Root, 1, 0) = Root BY SubSeqEmpty DEF Root
    <3>5. Enclosing(Root) = [i \in 1 .. 1 |-> Root] BY <3>3, <3>4
    <3>6. <<Root>> = [i \in 1 .. 1 |-> Root] OBVIOUS
    <3>. QED BY <2>2, <3>1, <3>5, <3>6
  <2>3. CASE p # Root
    <3>1. Front(p) \in node /\ InPlace(Front(p)) BY <1>1, <2>3, FrontInPlace
    <3>2. parent[p] = Front(p) BY <1>1, <2>3 DEF PlaceInv
    <3>3. Front(p) # None
      BY <3>1, NamespaceAssumption DEF TypeInv, TreeInv, PathsAreSequences, Elements
    <3>4. Chain[Front(p)] = Enclosing(Front(p)) BY <1>1, <3>1, <3>2, <3>3
    <3>5. Chain[p] = <<p>> \o Chain[Front(p)] BY <3>2, <3>3, ChainAlong
    <3>. QED BY <2>1, <2>3, <3>4, <3>5, EnclosingOfFront
  <2>. QED BY <2>2, <2>3
<1>2. \A p \in node : (parent[p] # None => parent[p] \in Good) => p \in Good BY <1>1
<1>. HIDE DEF Good
<1>3. node \subseteq Good BY <1>2, AlongChains DEF TypeInv
<1>. QED BY <1>3 DEF Good

-----------------------------------------------------------------------------
(* Every search for a variable ends, in every namespace.                   *)
THEOREM ChainsAlwaysEnd == SpecV => []ChainsEnd
<1>1. TreeInv /\ [NextV]_varsV => TreeInv'
  BY NextTree DEF NextV, varsV, Expansion, Loop, Missing, Expand, Return, Ask
<1>2. TreeInv => ChainsEnd BY DEF TreeInv
<1>3. InitV => TreeInv BY InitTree DEF InitV
<1>. QED BY <1>1, <1>2, <1>3, PTL DEF SpecV

(* What a container is said to see is what a search finds, in every        *)
(* namespace.                                                              *)
THEOREM VisibleIsAlwaysFound == SpecV => []VisibleIsFound
<1>1. TypeInv /\ [NextV]_varsV => TypeInv'
  BY NextTypes DEF NextV, varsV, Expansion, Loop, Missing, Expand, Return, Ask
<1>2. TypeInv => VisibleIsFound BY VisibleFound
<1>3. InitV => TypeInv BY InitTypes DEF InitV
<1>. QED BY <1>1, <1>2, <1>3, PTL DEF SpecV

(* All enclosing containers are seen, nearest first, but from the parts of *)
(* a class that are cloned without their parents.                          *)
THEOREM EnclosingContainersAlwaysSeen == SpecV => []EnclosingContainersSeen
<1>1. EnclosedInv /\ [NextV]_varsV => EnclosedInv'
  BY NextTypes, NextPlaces
  DEF EnclosedInv, NextV, varsV, Expansion, Loop, Missing, Expand, Return, Ask
<1>2. EnclosedInv => EnclosingContainersSeen BY AllEnclosing DEF EnclosedInv
<1>3. InitV => EnclosedInv BY InitTypes, InitPlaces DEF InitV, EnclosedInv
<1>. QED BY <1>1, <1>2, <1>3, PTL DEF SpecV

(* Indexing and adding change nothing for the containers there were.       *)
THEOREM OthersAlwaysSeeTheSame == SpecV => OthersSeeTheSame
<1>. DEFINE A == node' # node =>
                   \A p \in node, n \in Names : find_variable(p, n)' = find_variable(p, n)
<1>1. TypeInv /\ [NextV]_varsV => TypeInv' /\ [Next]_vars
  BY NextTypes DEF NextV, varsV, Expansion, Loop, Missing, Expand, Return, Ask
<1>2. TypeInv /\ [NextV]_varsV => [A]_vars BY <1>1, FoundStays
<1>3. InitV => TypeInv BY InitTypes DEF InitV
<1>. HIDE DEF A
<1>4. SpecV => [][A]_vars BY <1>1, <1>2, <1>3, PTL DEF SpecV
<1>. QED BY <1>4 DEF A, OthersSeeTheSame

(* The host that the class names for a role is provisioned, or left out,   *)
(* unless the role was shut out of the walk, for every namespace.          *)
THEOREM HostsAreAlwaysProvisioned == SpecV => HostsAreProvisioned
<1>. DEFINE A == \A i \in Infras :
                   provisioned'[i] # provisioned[i] =>
                     \A p \in Roles : ~ShutOut(p) \/ host[p] # None => Holds(i, HostOf(p))
<1>1. HostInv /\ [NextV]_varsV => HostInv' /\ [Next]_vars
  BY NextHosts DEF NextV, varsV, Expansion, Loop, Missing, Expand, Return, Ask
<1>2. HostInv /\ [NextV]_varsV => [A]_vars BY <1>1, NextHolds DEF HostHolds
<1>3. InitV => HostInv BY InitHosts DEF InitV
<1>. HIDE DEF A
<1>4. SpecV => [][A]_vars BY <1>1, <1>2, <1>3, PTL DEF SpecV
<1>. QED BY <1>4 DEF A, HostsAreProvisioned

(* What a variable refers to is provisioned, or left out, if it is one of  *)
(* the model, of a role, or of a container that is in no group.            *)
THEOREM VariablesAreAlwaysProvisioned == SpecV => VariablesAreProvisioned
<1>. DEFINE A == \A i \in Infras :
                   provisioned'[i] # provisioned[i] =>
                     \A p \in node, n \in Names :
                       ~InTemplate(p) /\ (Kind(p) = "role" \/ ~InGroup(p)) /\ Own(p, n) # None =>
                         Holds(i, RefOf[Own(p, n)])
<1>1. HostInv /\ [NextV]_varsV => HostInv' /\ [Next]_vars
  BY NextHosts DEF NextV, varsV, Expansion, Loop, Missing, Expand, Return, Ask
<1>2. HostInv /\ [NextV]_varsV => [A]_vars
  BY <1>1, NextHolds DEF VariableHolds, Collected
<1>3. InitV => HostInv BY InitHosts DEF InitV
<1>. HIDE DEF A
<1>4. SpecV => [][A]_vars BY <1>1, <1>2, <1>3, PTL DEF SpecV
<1>. QED BY <1>4 DEF A, VariablesAreProvisioned

(* The namespace has its types, however it grows.                          *)
THEOREM NamespaceTypes == SpecV => []TypeOK
<1>1. TypeInv /\ [NextV]_varsV => TypeInv'
  BY NextTypes DEF NextV, varsV, Expansion, Loop, Missing, Expand, Return, Ask
<1>2. TypeInv => TypeOK BY DEF TypeInv
<1>3. InitV => TypeInv BY InitTypes DEF InitV
<1>. QED BY <1>1, <1>2, <1>3, PTL DEF SpecV

-----------------------------------------------------------------------------
(* The calls in progress.                                                  *)
Fields == {"name", "text", "done"}
Frames(s) == (\E S : s \in Seq(S)) /\ \A i \in 1 .. Len(s) : DOMAIN s[i] = Fields

IInv == Frames(stack) /\ HistoryIsTheStack

-----------------------------------------------------------------------------
(* A frame that is changed in another field keeps its name.                *)
LEMMA NamesStay ==
  ASSUME NEW f, DOMAIN f = Fields, NEW x, NEW y
  PROVE  /\ DOMAIN [f EXCEPT !.text = x] = Fields /\ [f EXCEPT !.text = x].name = f.name
         /\ DOMAIN [f EXCEPT !.done = y, !.text = x] = Fields
         /\ [f EXCEPT !.done = y, !.text = x].name = f.name
BY DEF Fields

(* Replacing the last frame by one of the same name.                       *)
LEMMA LastReplaced ==
  ASSUME NEW S, NEW s \in Seq(S), Len(s) > 0, NEW f, f.name = s[Len(s)].name,
         DOMAIN f = Fields, \A i \in 1 .. Len(s) : DOMAIN s[i] = Fields
  PROVE  LET r == [s EXCEPT ![Len(s)] = f] IN
         /\ r \in Seq(S \cup {f}) /\ Len(r) = Len(s)
         /\ \A i \in 1 .. Len(s) : r[i].name = s[i].name /\ DOMAIN r[i] = Fields
<1>1. DOMAIN s = 1 .. Len(s) /\ Len(s) \in Nat OBVIOUS
<1>2. s \in Seq(S \cup {f}) BY SeqMonotonic
<1>3. [s EXCEPT ![Len(s)] = f] \in Seq(S \cup {f}) /\ Len([s EXCEPT ![Len(s)] = f]) = Len(s)
  BY <1>1, <1>2, ExceptSeq
<1>. QED BY <1>1, <1>3

-----------------------------------------------------------------------------
(* There is no call at first.                                              *)
LEMMA InitKeeps == InitV => IInv
<1>. SUFFICES ASSUME InitV PROVE IInv
  OBVIOUS
<1>1. stack = <<>> /\ history = {} BY DEF InitV, InitExpansion
<1>2. <<>> \in Seq({}) /\ Len(<<>>) = 0 BY EmptySeq
<1>3. Frames(stack) BY <1>1, <1>2 DEF Frames
<1>4. HistoryIsTheStack BY <1>1, <1>2 DEF HistoryIsTheStack
<1>. QED BY <1>3, <1>4 DEF IInv

(* An answer leaves no call.                                               *)
LEMMA GiveKeeps ==
  ASSUME stack' = <<>>, history' = {}
  PROVE  IInv'
<1>1. <<>> \in Seq({}) /\ Len(<<>>) = 0 BY EmptySeq
<1>2. \E S : stack' \in Seq(S) BY <1>1, Zenon
<1>3. Frames(stack)' BY <1>1, <1>2 DEF Frames
<1>4. HistoryIsTheStack' BY <1>1 DEF HistoryIsTheStack
<1>. QED BY <1>3, <1>4 DEF IInv

(* The outermost call is not in the history.                               *)
LEMMA AskKeeps ==
  ASSUME IInv, NEW c, NEW n, NEW mode, Ask(c, n, mode)
  PROVE  IInv'
<1>. DEFINE e == Entered(n, c)
<1>1. CASE Enters(n, c)
  <2>1. stack' = <<e>> /\ history' = {} BY <1>1 DEF Ask
  <2>2. DOMAIN e = Fields BY DEF Entered, Fields
  <2>. HIDE DEF e
  <2>3. <<e>> \in Seq({e}) /\ Len(<<e>>) = 1 OBVIOUS
  <2>a. \E S : stack' \in Seq(S) BY <2>1, <2>3, Zenon
  <2>4. Frames(stack)' BY <2>1, <2>2, <2>3, <2>a DEF Frames
  <2>5. HistoryIsTheStack' BY <2>1, <2>3 DEF HistoryIsTheStack
  <2>. QED BY <2>4, <2>5 DEF IInv
<1>2. CASE ~Enters(n, c) BY <1>2, GiveKeeps DEF Ask
<1>. QED BY <1>1, <1>2

(* A call that finds a variable missing keeps its name.                    *)
LEMMA MissingKeeps ==
  ASSUME IInv, Missing
  PROVE  IInv'
<1>1. CASE Raises BY <1>1, GiveKeeps DEF Missing, Give
<1>2. CASE ~Raises
  <2>. DEFINE f == [Top EXCEPT !.done = TRUE, !.text = Allowed(Top.text)]
  <2>1. PICK S : stack \in Seq(S) BY DEF IInv, Frames
  <2>2. stack # <<>> /\ Len(stack) > 0 /\ Len(stack) \in 1 .. Len(stack)
    BY <2>1, EmptySeq DEF Missing, Searching
  <2>3. DOMAIN Top = Fields BY <2>2 DEF Top, IInv, Frames
  <2>4. DOMAIN f = Fields /\ f.name = Top.name BY <2>3, NamesStay
  <2>5. stack' = [stack EXCEPT ![Len(stack)] = f] /\ UNCHANGED history
    BY <1>2, <2>1, <2>2 DEF Missing, Top
  <2>. HIDE DEF f
  <2>6. /\ stack' \in Seq(S \cup {f}) /\ Len(stack') = Len(stack)
        /\ \A i \in 1 .. Len(stack) : stack'[i].name = stack[i].name
        /\ \A i \in 1 .. Len(stack) : DOMAIN stack'[i] = Fields
    BY <2>1, <2>2, <2>4, <2>5, LastReplaced DEF Top, IInv, Frames
  <2>a. \E S0 : stack' \in Seq(S0) BY <2>6, Zenon
  <2>7. Frames(stack)' BY <2>6, <2>a DEF Frames
  <2>8. HistoryIsTheStack'
    <3>1. HistoryIsTheStack /\ Len(stack) \in Nat BY <2>1 DEF IInv
    <3>2. \A i \in 2 .. Len(stack) : stack'[i].name = stack[i].name BY <2>6, <3>1
    <3>3. {stack'[i].name : i \in 2 .. Len(stack)} = {stack[i].name : i \in 2 .. Len(stack)}
      BY <3>2
    <3>. QED BY <2>5, <2>6, <3>1, <3>2, <3>3 DEF HistoryIsTheStack
  <2>. QED BY <2>7, <2>8 DEF IInv
<1>. QED BY <1>1, <1>2

(* A call is made for a name that no call but the outermost was made for.  *)
LEMMA ExpandKeeps ==
  ASSUME IInv, Expand
  PROVE  IInv'
<1>1. CASE Enters(NextName, asked.context)
  <2>. DEFINE e == Entered(NextName, asked.context)
  <2>1. PICK S : stack \in Seq(S) BY DEF IInv, Frames
  <2>2. stack # <<>> /\ NextName \notin history BY DEF Expand, Searching
  <2>3. stack' = Append(stack, e) /\ history' = history \cup {NextName} BY <1>1 DEF Expand
  <2>4. DOMAIN e = Fields /\ e.name = NextName BY DEF Entered, Fields
  <2>. HIDE DEF e
  <2>5. Len(stack) \in Nat /\ Len(stack) > 0 BY <2>1, <2>2, EmptySeq
  <2>6. stack \in Seq(S \cup {e}) BY <2>1, SeqMonotonic
  <2>7. /\ stack' \in Seq(S \cup {e}) /\ Len(stack') = Len(stack) + 1
        /\ \A i \in 1 .. Len(stack) : stack'[i] = stack[i]
        /\ stack'[Len(stack) + 1] = e
    BY <2>3, <2>6, AppendProperties
  <2>8. \E S0 : stack' \in Seq(S0) BY <2>7, Zenon
  <2>9. Frames(stack)' BY <2>4, <2>5, <2>7, <2>8 DEF IInv, Frames
  <2>10. HistoryIsTheStack'
    <3>1. HistoryIsTheStack BY DEF IInv
    <3>2. \A i \in 2 .. Len(stack') : i \in 2 .. Len(stack) \/ i = Len(stack) + 1 BY <2>5, <2>7
    <3>3. \A i \in 2 .. Len(stack) : stack'[i] = stack[i] /\ stack[i].name # NextName
      BY <2>2, <2>5, <2>7, <3>1 DEF HistoryIsTheStack
    <3>4. stack'[Len(stack) + 1].name = NextName BY <2>4, <2>7
    <3>5. history' = {stack'[i].name : i \in 2 .. Len(stack')}
      <4>1. \A x \in history' : \E i \in 2 .. Len(stack') : x = stack'[i].name
        <5>1. \A i \in 2 .. Len(stack) : i \in 2 .. Len(stack') BY <2>5, <2>7
        <5>2. Len(stack) + 1 \in 2 .. Len(stack') BY <2>5, <2>7
        <5>. QED BY <2>3, <3>1, <3>3, <3>4, <5>1, <5>2 DEF HistoryIsTheStack
      <4>2. \A i \in 2 .. Len(stack') : stack'[i].name \in history'
        BY <2>3, <3>1, <3>2, <3>3, <3>4 DEF HistoryIsTheStack
      <4>. QED BY <4>1, <4>2
    <3>6. \A i, j \in 2 .. Len(stack') : stack'[i].name = stack'[j].name => i = j
      BY <3>1, <3>2, <3>3, <3>4 DEF HistoryIsTheStack
    <3>. QED BY <3>5, <3>6 DEF HistoryIsTheStack
  <2>. QED BY <2>9, <2>10 DEF IInv
<1>2. CASE ~Enters(NextName, asked.context) BY <1>2, GiveKeeps DEF Expand, Give
<1>. QED BY <1>1, <1>2

(* A call that returns takes its own name away, and nobody else's.         *)
LEMMA ReturnKeeps ==
  ASSUME IInv, Return
  PROVE  IInv'
<1>1. CASE Len(stack) = 1 BY <1>1, GiveKeeps DEF Return, Give
<1>2. CASE Len(stack) # 1
  <2>. DEFINE n == Len(stack)
              s == Front(stack)
              f == Spliced(s[n - 1], Str(Top.text))
  <2>1. PICK S : stack \in Seq(S) BY DEF IInv, Frames
  <2>2. n \in Nat /\ n > 1 /\ stack # <<>>
    <3>1. stack # <<>> BY DEF Return
    <3>2. Len(stack) \in Nat \ {0} BY <2>1, <3>1, EmptySeq
    <3>a. Len(stack) \in Nat /\ Len(stack) # 0 BY <3>2, Zenon
    <3>b. \A i \in Nat : i # 0 /\ i # 1 => i > 1 OBVIOUS
    <3>3. Len(stack) \in Nat /\ Len(stack) > 1 BY <1>2, <3>a, <3>b, Zenon
    <3>. QED BY <3>1, <3>3, Zenon
  <2>3. stack' = [s EXCEPT ![n - 1] = f] /\ history' = history \ {stack[n].name}
    BY <1>2 DEF Return, Forget, Top
  <2>4. /\ s \in Seq(S) /\ Len(s) = n - 1 /\ \A i \in 1 .. n - 1 : s[i] = stack[i]
    <3>1. \A i \in 1 .. n - 1 : stack[i] \in S BY <2>1, <2>2, ElementOfSeq
    <3>2. n - 1 \in Int /\ 1 \in Int /\ 1 <= n - 1 BY <2>2
    <3>3. s = SubSeq(stack, 1, n - 1) BY DEF Front
    <3>4. /\ SubSeq(stack, 1, n - 1) \in Seq(S)
          /\ Len(SubSeq(stack, 1, n - 1)) = IF 1 <= n - 1 THEN (n - 1) - 1 + 1 ELSE 0
          /\ \A i \in 1 .. (n - 1) - 1 + 1 : SubSeq(stack, 1, n - 1)[i] = stack[1 + i - 1]
      BY <3>1, <3>2, SubSeqProperties
    <3>. HIDE DEF s, n
    <3>. QED BY <2>2, <3>2, <3>3, <3>4
  <2>5. DOMAIN s[n - 1] = Fields BY <2>2, <2>4 DEF IInv, Frames
  <2>6. DOMAIN f = Fields /\ f.name = s[n - 1].name
    <3>1. \E x : f = [s[n - 1] EXCEPT !.text = x] BY DEF Spliced
    <3>. QED BY <2>5, <3>1, NamesStay
  <2>7. \A i \in 1 .. Len(s) : DOMAIN s[i] = Fields BY <2>2, <2>4 DEF IInv, Frames
  <2>. HIDE DEF f, s
  <2>8. /\ stack' \in Seq(S \cup {f}) /\ Len(stack') = n - 1
        /\ \A i \in 1 .. n - 1 : stack'[i].name = stack[i].name /\ DOMAIN stack'[i] = Fields
    BY <2>2, <2>3, <2>4, <2>6, <2>7, LastReplaced
  <2>9. \E S0 : stack' \in Seq(S0) BY <2>8, Zenon
  <2>10. Frames(stack)' BY <2>8, <2>9 DEF Frames
  <2>11. HistoryIsTheStack'
    <3>1. HistoryIsTheStack BY DEF IInv
    <3>2. \A i \in 2 .. n : i \in 2 .. n - 1 \/ i = n BY <2>2
    <3>3. \A i \in 2 .. n - 1 : i \in 2 .. n /\ i # n /\ stack'[i].name = stack[i].name
      BY <2>2, <2>8
    <3>4. history' = {stack'[i].name : i \in 2 .. Len(stack')}
      <4>1. n \in 2 .. n BY <2>2
      <4>2. \A i \in 2 .. n - 1 : stack'[i].name \in history'
        <5>. SUFFICES ASSUME NEW i \in 2 .. n - 1 PROVE stack'[i].name \in history'
          OBVIOUS
        <5>1. i \in 2 .. n /\ i # n /\ stack'[i].name = stack[i].name BY <3>3
        <5>2. stack[i].name \in history BY <3>1, <5>1 DEF HistoryIsTheStack
        <5>3. stack[i].name # stack[n].name BY <3>1, <4>1, <5>1 DEF HistoryIsTheStack
        <5>. QED BY <2>3, <5>1, <5>2, <5>3
      <4>3. ASSUME NEW x \in history' PROVE \E i \in 2 .. n - 1 : x = stack'[i].name
        <5>1. x \in history /\ x # stack[n].name BY <2>3
        <5>2. history = {stack[i].name : i \in 2 .. n} BY <3>1 DEF HistoryIsTheStack
        <5>3. PICK i \in 2 .. n : x = stack[i].name BY <5>1, <5>2
        <5>4. i \in 2 .. n - 1 BY <3>2, <5>1, <5>3
        <5>. QED BY <3>3, <5>3, <5>4
      <4>. QED BY <2>8, <4>2, <4>3
    <3>5. \A i, j \in 2 .. n - 1 : stack'[i].name = stack'[j].name => i = j
      BY <3>1, <3>3 DEF HistoryIsTheStack
    <3>. QED BY <2>8, <3>4, <3>5 DEF HistoryIsTheStack
  <2>. QED BY <2>10, <2>11 DEF IInv
<1>. QED BY <1>1, <1>2

LEMMA NextKeeps == IInv /\ [NextV]_varsV => IInv'
<1>. SUFFICES ASSUME IInv, [NextV]_varsV PROVE IInv'
  OBVIOUS
<1>1. CASE UNCHANGED question
  <2>1. UNCHANGED <<stack, history>> BY <1>1 DEF question
  <2>. QED BY <2>1 DEF IInv, Frames, HistoryIsTheStack
<1>2. CASE Loop BY <1>2, GiveKeeps DEF Loop, Give
<1>3. CASE \E q \in shape.asks : q[1] \in node /\ Ask(q[1], q[2], q[3])
  BY <1>3, AskKeeps
<1>4. CASE UNCHANGED varsV BY <1>1, <1>4 DEF varsV, question
<1>. QED
  BY <1>1, <1>2, <1>3, <1>4, MissingKeeps, ExpandKeeps, ReturnKeeps DEF NextV, Expansion

(* Loops are found by a history that is that of the calls in progress, in  *)
(* every namespace and for every question.                                 *)
THEOREM HistoryIsTheStackHolds == SpecV => []HistoryIsTheStack
<1>1. IInv => HistoryIsTheStack BY DEF IInv
<1>. QED BY <1>1, InitKeeps, NextKeeps, PTL DEF SpecV

-----------------------------------------------------------------------------
Letters == Names \cup Words
Texts == Seq(Letters)
Frame == [name : Names, text : Texts \cup {None}, done : BOOLEAN]
Question == [context : node, name : Names, mode : Modes]
Answer(a) ==
  \/ a = Fresh
  \/ a.is = "text" /\ a.text \in Seq(Words \cup Names)
  \/ a.is = "error" /\ a.text \in Errors

(* The part of the types that is about a question.                         *)
TypeInvV ==
  /\ TypeInv
  /\ asked \in Question \cup {None}
  /\ stack \in Seq(Frame) /\ (stack # <<>> => asked # None)
  /\ history \subseteq Names
  /\ Answer(answer)

(* The first pattern of a text that has one.                               *)
LEMMA FirstIsFirst ==
  ASSUME NEW t \in Texts, Patterns(t) # {}
  PROVE  /\ FirstPattern(t) \in 1 .. Len(t) /\ t[FirstPattern(t)] \in Names
<1>1. Patterns(t) \subseteq Nat /\ Patterns(t) \subseteq 1 .. Len(t)
      /\ \A i \in Patterns(t) : t[i] \in Names
  BY LenProperties DEF Patterns, IsPattern, Texts
<1>2. \E i \in Patterns(t) : \A j \in Patterns(t) : i <= j BY <1>1, Least
<1>3. FirstPattern(t) \in Patterns(t) BY <1>2 DEF FirstPattern
<1>. QED BY <1>1, <1>3

(* The text around the first pattern.                                      *)
Before(t) == SubSeq(t, 1, FirstPattern(t) - 1)
After(t) == SubSeq(t, FirstPattern(t) + 1, Len(t))

LEMMA AroundPattern ==
  ASSUME NEW t \in Texts, Patterns(t) # {}
  PROVE  /\ Before(t) \in Texts /\ After(t) \in Texts
         /\ t = Then(Then(Before(t), <<t[FirstPattern(t)]>>), After(t))
         /\ \A r \in Texts : Before(t) \o r \o After(t) = Then(Then(Before(t), r), After(t))
<1>. DEFINE i == FirstPattern(t)
            n == Len(t)
<1>1. i \in 1 .. n /\ n \in Nat BY FirstIsFirst, LenProperties DEF Texts
<1>. HIDE DEF i
<1>2. \A j \in 1 .. n : t[j] \in Letters BY ElementOfSeq DEF Texts
<1>3. i \in Int /\ i - 1 \in Int /\ i + 1 \in Int /\ 1 \in Int /\ n \in Int BY <1>1
<1>4. /\ \A j \in 1 .. i - 1 : t[j] \in Letters
      /\ \A j \in i + 1 .. n : t[j] \in Letters
  BY <1>1, <1>2
<1>5. SubSeq(t, 1, i - 1) \in Texts BY <1>3, <1>4, SubSeqProperties DEF Texts
<1>6. SubSeq(t, i + 1, n) \in Texts BY <1>3, <1>4, SubSeqProperties DEF Texts
<1>7. SubSeq(t, 1, i - 1) \o <<t[i]>> = SubSeq(t, 1, i)
  <2>1. 1 \in 1 .. Len(t) /\ i \in 1 .. Len(t) BY <1>1
  <2>2. t \in Seq(Letters) BY DEF Texts
  <2>. QED BY <2>1, <2>2, SubSeqRecursiveSecond
<1>8. SubSeq(t, 1, i) \o SubSeq(t, i + 1, n) = t
  <2>1. 1 \in 1 .. Len(t) + 1 /\ i \in 1 - 1 .. Len(t) /\ n \in i .. Len(t) BY <1>1
  <2>2. t \in Seq(Letters) BY DEF Texts
  <2>3. SubSeq(t, 1, i) \o SubSeq(t, i + 1, n) = SubSeq(t, 1, n)
    BY <2>1, <2>2, ConcatAdjacentSubSeq
  <2>4. SubSeq(t, 1, n) = t BY <2>2, SubSeqFull
  <2>. QED BY <2>3, <2>4
<1>. QED BY <1>5, <1>6, <1>7, <1>8 DEF Before, After, Then, i

LEMMA SplicedText ==
  ASSUME NEW f \in Frame, Patterns(f.text) # {}, NEW r \in Texts
  PROVE  /\ Spliced(f, r) \in Frame
         /\ Spliced(f, r).name = f.name /\ Spliced(f, r).done = f.done
         /\ Spliced(f, r).text = Then(Then(Before(f.text), r), After(f.text))
<1>1. f.text \in Texts BY DEF Patterns, Frame
<1>2. Then(Then(Before(f.text), r), After(f.text)) \in Texts
  BY <1>1, AroundPattern, ThenAppends DEF Texts
<1>3. Spliced(f, r) = [f EXCEPT !.text = Then(Then(Before(f.text), r), After(f.text))]
  BY <1>1, AroundPattern DEF Spliced, Before, After
<1>. QED BY <1>2, <1>3 DEF Frame

(* What a call begins with.                                                *)
LEMMA EnteredType ==
  ASSUME TypeInv, NEW c \in node, NEW n \in Names, find_variable(c, n) # None
  PROVE  Entered(n, c) \in Frame /\ Entered(n, c).name = n
<1>1. find_variable(c, n) \in Values BY Found
<1>2. Value(find_variable(c, n)) BY <1>1, VariablesAssumption
<1>3. Begins(n, c) \in Texts \cup {None}
  <2>1. <<Known>> \in Texts /\ <<Called>> \in Texts
    <3>1. Known \in Letters /\ Called \in Letters BY VariablesAssumption DEF Letters
    <3>. QED BY <3>1 DEF Texts
  <2>. QED BY <1>2, <2>1 DEF Begins, Value, Texts, Letters
<1>. QED BY <1>3 DEF Entered, Frame

LEMMA StrType == ASSUME NEW t \in Texts \cup {None} PROVE Str(t) \in Texts
<1>1. NoneWord \in Letters BY VariablesAssumption DEF Letters
<1>2. <<NoneWord>> \in Texts BY <1>1 DEF Texts
<1>. QED BY <1>2 DEF Str

LEMMA TopFrame ==
  ASSUME stack \in Seq(Frame), stack # <<>>
  PROVE  Top \in Frame /\ Len(stack) \in Nat \ {0}
<1>1. Len(stack) \in Nat \ {0} BY EmptySeq
<1>. QED BY <1>1, ElementOfSeq DEF Top

LEMMA InitTypesV == InitV => TypeInvV
<1>. SUFFICES ASSUME InitV PROVE TypeInvV
  OBVIOUS
<1>1. TypeInv BY InitTypes DEF InitV
<1>. QED BY <1>1, EmptySeq DEF InitV, InitExpansion, TypeInvV, Answer

LEMMA GiveTypes ==
  ASSUME TypeInvV, NEW a, Answer(a), Give(a), UNCHANGED vars
  PROVE  TypeInvV'
<1>1. TypeInv' /\ node' = node
  <2>1. [Next]_vars OBVIOUS
  <2>. QED BY <2>1, NextTypes DEF TypeInvV, vars, tree
<1>2. stack' = <<>> /\ history' = {} /\ answer' = a /\ asked' = asked BY DEF Give
<1>3. stack' \in Seq(Frame) BY <1>2, EmptySeq
<1>4. asked' \in Question' \cup {None} BY <1>1, <1>2 DEF TypeInvV, Question
<1>5. Answer(a)' BY DEF Answer, Fresh, Errors
<1>6. (\/ answer = Fresh
       \/ answer.is = "text" /\ answer.text \in Seq(Words \cup Names)
       \/ answer.is = "error" /\ answer.text \in Errors)'
  BY <1>2 DEF Answer, Fresh, Errors
<1>. QED BY <1>1, <1>2, <1>3, <1>4, <1>6 DEF TypeInvV, Answer

(* A step of the expansion that leaves the frames typed.                   *)
LEMMA StackTypes ==
  ASSUME TypeInvV, stack # <<>>, stack' \in Seq(Frame), history' \subseteq Names,
         UNCHANGED <<asked, answer, vars>>
  PROVE  TypeInvV'
<1>1. TypeInv' /\ node' = node
  <2>1. [Next]_vars OBVIOUS
  <2>. QED BY <2>1, NextTypes DEF TypeInvV, vars, tree
<1>. QED BY <1>1 DEF TypeInvV, Question, Answer, Fresh, Errors

LEMMA AskTypes ==
  ASSUME TypeInvV, NEW c \in node, NEW n \in Names, NEW mode \in Modes, Ask(c, n, mode)
  PROVE  TypeInvV'
<1>1. TypeInv' /\ node' = node
  <2>1. [Next]_vars BY DEF Ask
  <2>. QED BY <2>1, NextTypes DEF TypeInvV, Ask, vars, tree
<1>2. Entered(n, c) \in Frame BY EnteredType DEF Ask, TypeInvV
<1>3. <<Entered(n, c)>> \in Seq(Frame) BY <1>2
<1>4. stack' \in Seq(Frame) BY <1>3, EmptySeq DEF Ask
<1>5. asked' \in Question /\ history' = {} BY DEF Ask, Question
<1>6. \/ answer' = answer \/ answer' = Error("not callable") BY DEF Ask
<1>7. asked' # None
  <2>1. c \in Seq({Template} \cup STRING \cup Keys)
    BY DEF TypeInvV, TypeInv, TreeInv, PathsAreSequences, Elements
  <2>2. asked' \in [context : Seq({Template} \cup STRING \cup Keys), name : Names, mode : Modes]
    BY <2>1 DEF Ask
  <2>. QED BY <2>2, VariablesAssumption
<1>8. Answer(answer)'
  <2>1. Answer(Error("not callable")) BY DEF Answer, Error, Errors
  <2>2. Answer(answer) BY DEF TypeInvV
  <2>3. (\/ answer = Fresh
         \/ answer.is = "text" /\ answer.text \in Seq(Words \cup Names)
         \/ answer.is = "error" /\ answer.text \in Errors)'
    <3>1. CASE answer' = answer BY <2>2, <3>1 DEF Answer, Fresh, Errors
    <3>2. CASE answer' = Error("not callable") BY <3>2 DEF Error, Errors
    <3>. QED BY <1>6, <3>1, <3>2
  <2>. QED BY <2>3 DEF Answer
<1>. QED BY <1>1, <1>4, <1>5, <1>7, <1>8 DEF TypeInvV, Question

LEMMA MissingTypes == ASSUME TypeInvV, Missing PROVE TypeInvV'
<1>1. CASE Raises
  <2>1. Answer(Error("unable")) BY DEF Answer, Error, Errors
  <2>. QED BY <1>1, <2>1, GiveTypes DEF Missing
<1>2. CASE ~Raises
  <2>. DEFINE f == [Top EXCEPT !.done = TRUE, !.text = Allowed(Top.text)]
              n == Len(stack)
  <2>1. stack # <<>> BY DEF Missing, Searching
  <2>2. Top \in Frame /\ n \in Nat \ {0} BY <2>1, TopFrame DEF TypeInvV
  <2>3. f \in Frame BY <2>2 DEF Frame, Allowed
  <2>4. stack' = [stack EXCEPT ![n] = f] BY <1>2, <2>2 DEF Missing, Top, TypeInvV
  <2>. HIDE DEF f
  <2>5. stack' \in Seq(Frame) BY <2>2, <2>3, <2>4, ExceptSeq DEF TypeInvV
  <2>. QED BY <1>2, <2>1, <2>5, StackTypes DEF Missing, TypeInvV
<1>. QED BY <1>1, <1>2

(* The name of the first pattern of the innermost call.                    *)
LEMMA NextNameType ==
  ASSUME TypeInvV, Searching
  PROVE  /\ stack # <<>> /\ Top \in Frame /\ Len(stack) \in Nat \ {0}
         /\ Top.text \in Texts /\ Patterns(Top.text) # {} /\ NextName \in Names
         /\ asked \in Question
<1>1. stack # <<>> /\ Patterns(Top.text) # {} BY DEF Searching
<1>2. Top \in Frame /\ Len(stack) \in Nat \ {0} BY <1>1, TopFrame DEF TypeInvV
<1>3. Top.text \in Texts BY <1>1, <1>2 DEF Patterns, Frame
<1>. QED BY <1>1, <1>2, <1>3, FirstIsFirst DEF NextName, TypeInvV

LEMMA ExpandTypes == ASSUME TypeInvV, Expand PROVE TypeInvV'
<1>1. /\ stack # <<>> /\ NextName \in Names /\ asked \in Question
      /\ find_variable(asked.context, NextName) # None
  BY NextNameType DEF Expand, Finds
<1>2. CASE Enters(NextName, asked.context)
  <2>1. asked.context \in node BY <1>1 DEF Question
  <2>2. Entered(NextName, asked.context) \in Frame BY <1>1, <2>1, EnteredType DEF TypeInvV
  <2>3. stack' = Append(stack, Entered(NextName, asked.context)) BY <1>2 DEF Expand
  <2>4. stack' \in Seq(Frame) BY <2>2, <2>3, AppendProperties DEF TypeInvV
  <2>5. history' \subseteq Names BY <1>1, <1>2 DEF Expand, TypeInvV
  <2>. QED BY <1>1, <1>2, <2>4, <2>5, StackTypes DEF Expand, TypeInvV
<1>3. CASE ~Enters(NextName, asked.context)
  <2>1. Answer(Error("not callable")) BY DEF Answer, Error, Errors
  <2>. QED BY <1>3, <2>1, GiveTypes DEF Expand
<1>. QED BY <1>2, <1>3

LEMMA LoopTypes == ASSUME TypeInvV, Loop PROVE TypeInvV'
<1>1. Answer(Error("loop")) BY DEF Answer, Error, Errors
<1>. QED BY <1>1, GiveTypes DEF Loop

(* A call was made for the first pattern in the text of the one that made  *)
(* it, which is still there when the result is to replace it.              *)
Calling(i) == ~stack[i].done /\ Patterns(stack[i].text) # {}
CalledFor(i) == stack[i].text[FirstPattern(stack[i].text)]
CallsInv == \A i \in 1 .. Len(stack) - 1 : Calling(i) /\ stack[i + 1].name = CalledFor(i)

LEMMA FrontOfStack ==
  ASSUME NEW S, NEW s \in Seq(S), NEW n \in Nat, Len(s) = n, n > 1, NEW f \in S
  PROVE  LET r == [Front(s) EXCEPT ![n - 1] = f] IN
         /\ r \in Seq(S) /\ Len(r) = n - 1 /\ r[n - 1] = f
         /\ \A i \in 1 .. n - 1 : i # n - 1 => r[i] = s[i]
         /\ Front(s)[n - 1] = s[n - 1]
<1>1. s # Root BY RootIsEmpty
<1>2. Front(s) \in Seq(S) /\ Len(Front(s)) = n - 1 /\ \A i \in 1 .. n - 1 : Front(s)[i] = s[i]
  BY <1>1, FrontOfPath
<1>3. n - 1 \in 1 .. Len(Front(s)) BY <1>2
<1>4. LET r == [Front(s) EXCEPT ![n - 1] = f] IN
      /\ r \in Seq(S) /\ Len(r) = Len(Front(s))
      /\ \A j \in 1 .. Len(Front(s)) : r[j] = IF j = n - 1 THEN f ELSE Front(s)[j]
  BY <1>2, <1>3, ExceptSeq
<1>. QED BY <1>2, <1>3, <1>4

(* What a return does to the call that is returned to.                     *)
Upper == stack[Len(stack) - 1]
Result == Str(Top.text)

LEMMA Returned ==
  ASSUME TypeInvV, CallsInv, Return, Len(stack) # 1
  PROVE  /\ Len(stack) \in Nat /\ Len(stack) > 1 /\ asked \in Question
         /\ Top \in Frame /\ Upper \in Frame /\ Result \in Texts
         /\ Patterns(Upper.text) # {} /\ ~Upper.done /\ Upper.text \in Texts
         /\ Top.name = Upper.text[FirstPattern(Upper.text)]
         /\ stack' \in Seq(Frame) /\ Len(stack') = Len(stack) - 1
         /\ \A i \in 1 .. Len(stack) - 1 : i # Len(stack) - 1 => stack'[i] = stack[i]
         /\ LET f == stack'[Len(stack) - 1] IN
            /\ f \in Frame /\ f.name = Upper.name /\ f.done = Upper.done
            /\ f.text = Then(Then(Before(Upper.text), Result), After(Upper.text))
         /\ history' = history \ {Top.name} /\ UNCHANGED <<asked, answer, vars>>
<1>. DEFINE n == Len(stack)
<1>1. stack # <<>> /\ Top \in Frame /\ n \in Nat \ {0} /\ stack \in Seq(Frame) /\ asked \in Question
  BY TopFrame DEF TypeInvV, Return
<1>2. n > 1 /\ n - 1 \in 1 .. n /\ n - 1 \in 1 .. Len(stack) - 1 /\ n - 1 + 1 = n
  <2>1. \A k \in Nat \ {0} : k # 1 => k > 1 /\ k - 1 \in 1 .. k /\ k - 1 \in 1 .. k - 1 /\ k - 1 + 1 = k
    OBVIOUS
  <2>. QED BY <1>1, <2>1, Zenon
<1>3. Upper \in Frame BY <1>1, <1>2, ElementOfSeq DEF Upper
<1>4. /\ Patterns(Upper.text) # {} /\ ~Upper.done
      /\ Top.name = Upper.text[FirstPattern(Upper.text)]
  BY <1>2 DEF CallsInv, Calling, CalledFor, Upper, Top
<1>5. Upper.text \in Texts BY <1>3, <1>4 DEF Patterns, Frame
<1>6. Result \in Texts
  <2>1. Top.text \in Texts \cup {None} BY <1>1 DEF Frame
  <2>. QED BY <2>1, StrType DEF Result
<1>. DEFINE f == Spliced(Upper, Result)
<1>7. /\ f \in Frame /\ f.name = Upper.name /\ f.done = Upper.done
      /\ f.text = Then(Then(Before(Upper.text), Result), After(Upper.text))
  BY <1>3, <1>4, <1>6, SplicedText
<1>8. stack' = [Front(stack) EXCEPT ![n - 1] = Spliced(Front(stack)[n - 1], Result)]
  BY <1>1, <1>2 DEF Return, Result
<1>9. Front(stack)[n - 1] = Upper
  BY <1>1, <1>2, <1>3, FrontOfStack DEF Upper
<1>10. stack' = [Front(stack) EXCEPT ![n - 1] = f] BY <1>8, <1>9
<1>. HIDE DEF f, n
<1>a. n \in Nat /\ Len(stack) = n BY <1>1 DEF n
<1>11. /\ stack' \in Seq(Frame) /\ Len(stack') = n - 1 /\ stack'[n - 1] = f
       /\ \A i \in 1 .. n - 1 : i # n - 1 => stack'[i] = stack[i]
  BY <1>a, <1>1, <1>2, <1>7, <1>10, FrontOfStack
<1>12. history' = history \ {Top.name} /\ UNCHANGED <<asked, answer, vars>>
  BY DEF Return, Forget
<1>. QED BY <1>1, <1>2, <1>3, <1>4, <1>5, <1>6, <1>7, <1>11, <1>12 DEF n

LEMMA ReturnTypes == ASSUME TypeInvV, CallsInv, Return PROVE TypeInvV'
<1>1. CASE Len(stack) = 1
  <2>1. stack # <<>> BY DEF Return
  <2>2. Top \in Frame BY <2>1, TopFrame DEF TypeInvV
  <2>. DEFINE a == IF Top.text = None THEN Fresh ELSE Text(Top.text)
  <2>3. Answer(a)
    <3>1. Words \cup Names = Letters BY DEF Letters
    <3>2. Top.text # None => Top.text \in Seq(Words \cup Names) BY <2>2, <3>1 DEF Frame, Texts
    <3>. QED BY <3>2 DEF Answer, Text
  <2>4. Give(a) BY <1>1 DEF Return
  <2>5. UNCHANGED vars BY DEF Return
  <2>. HIDE DEF a
  <2>. QED BY <2>3, <2>4, <2>5, GiveTypes
<1>2. CASE Len(stack) # 1
  <2>1. /\ stack' \in Seq(Frame) /\ history' \subseteq Names /\ stack # <<>>
        /\ UNCHANGED <<asked, answer, vars>>
    BY <1>2, Returned DEF TypeInvV, Return
  <2>. QED BY <2>1, StackTypes
<1>. QED BY <1>1, <1>2

LEMMA NoCalls == ASSUME stack' = <<>> PROVE CallsInv'
<1>1. Len(stack') = 0 BY EmptySeq
<1>2. 1 .. Len(stack') - 1 = {} BY <1>1
<1>. QED BY <1>2 DEF CallsInv

(* A call that ends by a missing variable.                                 *)
LEMMA Missed ==
  ASSUME TypeInvV, Missing, ~Raises
  PROVE  /\ stack' \in Seq(Frame) /\ Len(stack') = Len(stack)
         /\ \A i \in 1 .. Len(stack) : i # Len(stack) => stack'[i] = stack[i]
         /\ LET f == stack'[Len(stack)] IN f.name = Top.name /\ f.text = Allowed(Top.text)
         /\ Len(stack) \in Nat \ {0} /\ Top \in Frame
         /\ UNCHANGED <<asked, history, answer, vars>>
<1>. DEFINE f == [Top EXCEPT !.done = TRUE, !.text = Allowed(Top.text)]
            n == Len(stack)
<1>1. stack # <<>> BY DEF Missing, Searching
<1>2. Top \in Frame /\ n \in Nat \ {0} BY <1>1, TopFrame DEF TypeInvV
<1>3. f \in Frame /\ f.name = Top.name /\ f.text = Allowed(Top.text) BY <1>2 DEF Frame, Allowed
<1>4. stack' = [stack EXCEPT ![n] = f] BY <1>2 DEF Missing, Top, TypeInvV
<1>. HIDE DEF f
<1>5. n \in 1 .. n /\ stack \in Seq(Frame) BY <1>2 DEF TypeInvV
<1>6. /\ stack' \in Seq(Frame) /\ Len(stack') = n
      /\ \A i \in 1 .. n : stack'[i] = IF i = n THEN f ELSE stack[i]
  BY <1>3, <1>4, <1>5, ExceptSeq
<1>7. UNCHANGED <<asked, history, answer, vars>> BY DEF Missing
<1>. QED BY <1>2, <1>3, <1>5, <1>6, <1>7

(* A call that is made.                                                    *)
LEMMA CalledInto ==
  ASSUME TypeInvV, Expand, Enters(NextName, asked.context)
  PROVE  LET e == Entered(NextName, asked.context) IN
         /\ stack' \in Seq(Frame) /\ Len(stack') = Len(stack) + 1
         /\ \A i \in 1 .. Len(stack) : stack'[i] = stack[i]
         /\ stack'[Len(stack) + 1] = e /\ e \in Frame /\ e.name = NextName
         /\ asked \in Question /\ Len(stack) \in Nat \ {0}
         /\ history' = history \cup {NextName}
         /\ UNCHANGED <<asked, answer, vars>>
<1>. DEFINE e == Entered(NextName, asked.context)
<1>1. /\ stack # <<>> /\ NextName \in Names /\ asked \in Question /\ Len(stack) \in Nat \ {0}
      /\ find_variable(asked.context, NextName) # None
  BY NextNameType DEF Expand, Finds
<1>2. asked.context \in node BY <1>1 DEF Question
<1>3. e \in Frame /\ e.name = NextName BY <1>1, <1>2, EnteredType DEF TypeInvV
<1>4. /\ stack' = Append(stack, e) /\ history' = history \cup {NextName}
      /\ UNCHANGED <<asked, answer, vars>>
  BY DEF Expand
<1>. HIDE DEF e
<1>5. /\ stack' \in Seq(Frame) /\ Len(stack') = Len(stack) + 1
      /\ \A i \in 1 .. Len(stack) : stack'[i] = stack[i]
      /\ stack'[Len(stack) + 1] = e
  BY <1>3, <1>4, AppendProperties DEF TypeInvV
<1>. QED BY <1>1, <1>3, <1>4, <1>5 DEF e

LEMMA CallsKept ==
  ASSUME TypeInvV, CallsInv, Expansion
  PROVE  CallsInv'
<1>0. CASE stack' = <<>> BY <1>0, NoCalls
<1>1. CASE Loop BY <1>1, <1>0 DEF Loop, Give
<1>2. CASE Missing
  <2>1. CASE Raises BY <1>2, <1>0, <2>1 DEF Missing, Give
  <2>2. CASE ~Raises
    <3>1. /\ Len(stack') = Len(stack)
          /\ \A i \in 1 .. Len(stack) : i # Len(stack) => stack'[i] = stack[i]
          /\ stack'[Len(stack)].name = stack[Len(stack)].name
          /\ Len(stack) \in Nat \ {0}
      BY <1>2, <2>2, Missed DEF Top
    <3>. SUFFICES ASSUME NEW i \in 1 .. Len(stack) - 1
                  PROVE  (Calling(i) /\ stack[i + 1].name = CalledFor(i))'
      BY <3>1 DEF CallsInv
    <3>2. i \in 1 .. Len(stack) /\ i # Len(stack) /\ i + 1 \in 1 .. Len(stack) BY <3>1
    <3>3. stack'[i] = stack[i] BY <3>1, <3>2
    <3>4. stack'[i + 1].name = stack[i + 1].name BY <3>1, <3>2
    <3>5. Calling(i) /\ stack[i + 1].name = CalledFor(i) BY DEF CallsInv
    <3>. QED BY <3>3, <3>4, <3>5 DEF Calling, CalledFor, Patterns, FirstPattern, IsPattern
  <2>. QED BY <2>1, <2>2
<1>3. CASE Expand
  <2>1. CASE ~Enters(NextName, asked.context) BY <1>3, <1>0, <2>1 DEF Expand, Give
  <2>2. CASE Enters(NextName, asked.context)
    <3>1. /\ Len(stack') = Len(stack) + 1 /\ Len(stack) \in Nat \ {0}
          /\ \A i \in 1 .. Len(stack) : stack'[i] = stack[i]
          /\ stack'[Len(stack) + 1].name = NextName
      BY <1>3, <2>2, CalledInto
    <3>. SUFFICES ASSUME NEW i \in 1 .. Len(stack)
                  PROVE  (Calling(i) /\ stack[i + 1].name = CalledFor(i))'
      BY <3>1 DEF CallsInv
    <3>2. stack'[i] = stack[i] BY <3>1
    <3>3. CASE i = Len(stack)
      <4>1. Calling(i) /\ stack'[i + 1].name = CalledFor(i)
        BY <1>3, <3>1, <3>3 DEF Expand, Searching, Calling, CalledFor, Top, NextName
      <4>. QED BY <3>2, <4>1 DEF Calling, CalledFor, Patterns, FirstPattern, IsPattern
    <3>4. CASE i # Len(stack)
      <4>1. i \in 1 .. Len(stack) - 1 /\ i + 1 \in 1 .. Len(stack) BY <3>1, <3>4
      <4>2. Calling(i) /\ stack'[i + 1].name = CalledFor(i) BY <3>1, <4>1 DEF CallsInv
      <4>. QED BY <3>2, <4>2 DEF Calling, CalledFor, Patterns, FirstPattern, IsPattern
    <3>. QED BY <3>3, <3>4
  <2>. QED BY <2>1, <2>2
<1>4. CASE Return
  <2>1. CASE Len(stack) = 1 BY <1>4, <1>0, <2>1 DEF Return, Give
  <2>2. CASE Len(stack) # 1
    <3>1. /\ Len(stack) \in Nat /\ Len(stack) > 1 /\ Len(stack') = Len(stack) - 1
          /\ \A i \in 1 .. Len(stack) - 1 : i # Len(stack) - 1 => stack'[i] = stack[i]
          /\ stack'[Len(stack) - 1].name = stack[Len(stack) - 1].name
      BY <1>4, <2>2, Returned DEF Upper
    <3>. SUFFICES ASSUME NEW i \in 1 .. Len(stack) - 1 - 1
                  PROVE  (Calling(i) /\ stack[i + 1].name = CalledFor(i))'
      BY <3>1 DEF CallsInv
    <3>2. /\ i \in 1 .. Len(stack) - 1 /\ i # Len(stack) - 1
          /\ i + 1 \in 1 .. Len(stack) - 1
      BY <3>1
    <3>3. stack'[i] = stack[i] BY <3>1, <3>2
    <3>4. stack'[i + 1].name = stack[i + 1].name BY <3>1, <3>2
    <3>5. Calling(i) /\ stack[i + 1].name = CalledFor(i) BY <3>2 DEF CallsInv
    <3>. QED BY <3>3, <3>4, <3>5 DEF Calling, CalledFor, Patterns, FirstPattern, IsPattern
  <2>. QED BY <2>1, <2>2
<1>. QED BY <1>1, <1>2, <1>3, <1>4 DEF Expansion

LEMMA AskCalls == ASSUME NEW c, NEW n, NEW mode, Ask(c, n, mode) PROVE CallsInv'
<1>. DEFINE e == Entered(n, c)
<1>1. stack' = <<e>> \/ stack' = <<>> BY DEF Ask
<1>. HIDE DEF e
<1>2. CASE stack' = <<e>>
  <2>1. Len(stack') = 1 BY <1>2
  <2>2. 1 .. Len(stack') - 1 = {} BY <2>1
  <2>. QED BY <2>2 DEF CallsInv
<1>. QED BY <1>1, <1>2, NoCalls

QuestionInv == TypeInvV /\ CallsInv

LEMMA InitQuestion == InitV => QuestionInv
<1>. SUFFICES ASSUME InitV PROVE CallsInv
  BY InitTypesV DEF QuestionInv
<1>1. Len(stack) = 0 BY EmptySeq DEF InitV, InitExpansion
<1>2. 1 .. Len(stack) - 1 = {} BY <1>1
<1>. QED BY <1>2 DEF CallsInv

(* What is asked is a question.                                            *)
LEMMA AsksTyped ==
  ASSUME TypeInvV, NEW q \in shape.asks
  PROVE  q[2] \in Names /\ q[3] \in Modes
BY VariablesAssumption DEF TypeInvV, TypeInv, TypeOK

LEMMA NextQuestion == QuestionInv /\ [NextV]_varsV => QuestionInv'
<1>. SUFFICES ASSUME TypeInvV, CallsInv, [NextV]_varsV PROVE TypeInvV' /\ CallsInv'
  BY DEF QuestionInv
<1>1. CASE UNCHANGED varsV
  <2>1. TypeInv' BY <1>1, NextTypes DEF TypeInvV, varsV
  <2>2. UNCHANGED <<node, asked, stack, history, answer>> BY <1>1 DEF varsV, vars, tree, question
  <2>3. (Question \cup {None})' = Question \cup {None} BY <2>2 DEF Question
  <2>4. Answer(answer)' BY <2>2 DEF TypeInvV, Answer, Fresh, Errors
  <2>5. TypeInvV' BY <2>1, <2>2, <2>3, <2>4 DEF TypeInvV
  <2>. QED
    BY <2>2, <2>5 DEF CallsInv, Calling, CalledFor, Patterns, FirstPattern, IsPattern
<1>2. CASE asked = None /\ Next /\ UNCHANGED question
  <2>1. TypeInv' BY <1>2, NextTypes DEF TypeInvV
  <2>2. asked' = None /\ stack' = <<>> /\ UNCHANGED <<stack, history, answer>>
    BY <1>2 DEF question, TypeInvV
  <2>3. Answer(answer)' BY <2>2 DEF TypeInvV, Answer, Fresh, Errors
  <2>4. TypeInvV' BY <2>1, <2>2, <2>3 DEF TypeInvV
  <2>. QED BY <2>2, <2>4, NoCalls
<1>3. CASE Expansion
  <2>1. TypeInvV'
    BY <1>3, LoopTypes, MissingTypes, ExpandTypes, ReturnTypes DEF Expansion
  <2>. QED BY <1>3, <2>1, CallsKept
<1>4. ASSUME NEW q \in shape.asks, q[1] \in node, Ask(q[1], q[2], q[3])
      PROVE  TypeInvV' /\ CallsInv'
  BY <1>4, AsksTyped, AskTypes, AskCalls
<1>. QED BY <1>1, <1>2, <1>3, <1>4 DEF NextV

(* Questions, calls and answers have their types, whatever is asked.       *)
THEOREM QuestionTypes == SpecV => []TypeOKV
<1>1. QuestionInv => TypeOKV
  <2>. SUFFICES ASSUME TypeInvV PROVE TypeOKV
    BY DEF QuestionInv
  <2>1. TypeOK /\ history \subseteq Names BY DEF TypeInvV, TypeInv
  <2>2. asked \in [context : node, name : Names, mode : Modes] \cup {None}
    BY DEF TypeInvV, Question
  <2>3. \A i \in DOMAIN stack :
          /\ stack[i].name \in Names /\ stack[i].done \in BOOLEAN
          /\ stack[i].text \in Seq(Names \cup Words) \cup {None}
    <3>1. \A i \in DOMAIN stack : stack[i] \in Frame BY LenProperties, ElementOfSeq DEF TypeInvV
    <3>. QED BY <3>1 DEF Frame, Texts, Letters
  <2>4. \/ answer = Fresh \/ (answer.is = "text" /\ answer.text \in Seq(Words \cup Names))
        \/ (answer.is = "error" /\ answer.text \in Errors)
    BY DEF TypeInvV, Answer
  <2>. QED BY <2>1, <2>2, <2>3, <2>4 DEF TypeOKV
<1>. QED BY <1>1, InitQuestion, NextQuestion, PTL DEF SpecV

-----------------------------------------------------------------------------
(* What a name needs, in any number of steps. After as many steps as there *)
(* are names there is no more.                                             *)
More(c, S) == S \cup UNION {Needs(c, m) : m \in S}

LEMMA NeedsNames == ASSUME NEW c, NEW n PROVE Needs(c, n) \subseteq Names
BY DEF Needs

LEMMA Within ==
  ASSUME NEW c, NEW n
  PROVE  \E f \in [Nat -> SUBSET Names] :
           /\ f[0] = Needs(c, n) /\ \A k \in Nat : f[k + 1] = More(c, f[k])
           /\ Reach(c, n) = f[Cardinality(Names)]
<1>. DEFINE within[k \in Nat] == IF k = 0 THEN Needs(c, n)
                                 ELSE within[k - 1] \cup UNION {Needs(c, m) : m \in within[k - 1]}
            T == SUBSET Names
            up == [k \in Nat |-> k - 1]
            rank == [k \in Nat |-> k]
            B == [k \in Nat |-> Needs(c, n)]
            H == [x \in Nat \X T |-> More(c, x[2])]
<1>1. Needs(c, n) \in T /\ \A S \in T : More(c, S) \in T BY NeedsNames DEF More
<1>2. \E f \in [Nat -> T] : f = Step(Nat, {0}, up, B, H, f)
  <2>1. Descends(Nat, {0}, up, rank) BY DEF Descends
  <2>2. \A k \in Nat \cap {0} : B[k] \in T BY <1>1
  <2>3. \A k \in Nat \ {0}, v \in T : H[<<k, v>>] \in T BY <1>1
  <2>. HIDE DEF up, rank, T, B, H, within
  <2>4. Recursive(Nat, {0}, up, rank, T, B, H) BY <2>1, <2>2, <2>3 DEF Recursive
  <2>. QED BY <2>4, RecursiveFunction
<1>3. PICK f \in [Nat -> T] : f = Step(Nat, {0}, up, B, H, f) BY <1>2
<1>4. f = [k \in Nat |-> IF k = 0 THEN Needs(c, n) ELSE More(c, f[k - 1])]
  <2>1. \A k \in Nat \ {0} : k - 1 \in Nat OBVIOUS
  <2>. HIDE DEF T
  <2>2. \A k \in Nat \ {0} : H[<<k, f[up[k]]>>] = More(c, f[k - 1]) BY <1>3, <2>1
  <2>. QED BY <1>3, <2>2 DEF Step
<1>5. within = [k \in Nat |-> IF k = 0 THEN Needs(c, n)
                              ELSE within[k - 1] \cup UNION {Needs(c, m) : m \in within[k - 1]}]
  <2>1. \E g : g = [k \in Nat |-> IF k = 0 THEN Needs(c, n)
                                  ELSE g[k - 1] \cup UNION {Needs(c, m) : m \in g[k - 1]}]
    BY <1>4 DEF More
  <2>. QED BY <2>1 DEF within
<1>6. Reach(c, n) = within[Cardinality(Names)] BY DEF Reach
<1>. HIDE DEF within
<1>7. within[0] = Needs(c, n) BY <1>5
<1>8. \A k \in Nat : within[k + 1] = More(c, within[k])
  <2>. SUFFICES ASSUME NEW k \in Nat PROVE within[k + 1] = More(c, within[k])
    OBVIOUS
  <2>. DEFINE j == k + 1
  <2>1. j \in Nat /\ j # 0 /\ j - 1 = k OBVIOUS
  <2>. HIDE DEF j
  <2>2. within[j] = More(c, within[k]) BY <1>5, <2>1 DEF More
  <2>. QED BY <2>2 DEF j
<1>9. within \in [Nat -> T]
  <2>. DEFINE N == {k \in Nat : within[k] \in T}
  <2>1. 0 \in N BY <1>1, <1>7
  <2>2. \A k \in Nat : k \in N => k + 1 \in N BY <1>1, <1>8
  <2>. HIDE DEF N
  <2>3. Nat \subseteq N BY <2>1, <2>2, Induction
  <2>4. \A k \in Nat : within[k] \in T BY <2>3 DEF N
  <2>5. \E g : within = [k \in Nat |-> g[k]] BY <1>5
  <2>. QED BY <2>4, <2>5
<1>. QED BY <1>6, <1>7, <1>8, <1>9

LEMMA ReachCloses ==
  ASSUME NEW c, NEW n
  PROVE  /\ Reach(c, n) \subseteq Names /\ Needs(c, n) \subseteq Reach(c, n)
         /\ \A m \in Reach(c, n) : Needs(c, m) \subseteq Reach(c, n)
<1>1. PICK f \in [Nat -> SUBSET Names] :
        /\ f[0] = Needs(c, n) /\ \A k \in Nat : f[k + 1] = More(c, f[k])
        /\ Reach(c, n) = f[Cardinality(Names)]
  BY Within
<1>2. IsFiniteSet(Names) /\ Cardinality(Names) \in Nat
  BY VariablesAssumption, FS_CardinalityType
<1>3. \A k \in Nat : IsFiniteSet(f[k]) /\ Cardinality(f[k]) \in Nat
  BY <1>1, <1>2, FS_Subset, FS_CardinalityType
<1>. DEFINE Closed1(S) == More(c, S) = S
            N == {k \in Nat : Needs(c, n) \subseteq f[k]
                              /\ (Closed1(f[k]) \/ Cardinality(f[k]) >= k)}
<1>4. 0 \in N BY <1>1, <1>3
<1>5. ASSUME NEW k \in Nat, k \in N PROVE k + 1 \in N
  <2>1. f[k + 1] = More(c, f[k]) /\ f[k] \subseteq f[k + 1] BY <1>1 DEF More
  <2>2. Needs(c, n) \subseteq f[k + 1] BY <1>5, <2>1
  <2>3. CASE Closed1(f[k])
    <3>1. f[k + 1] = f[k] BY <2>1, <2>3
    <3>2. Closed1(f[k + 1]) BY <2>3, <3>1
    <3>. QED BY <2>2, <3>2
  <2>4. CASE ~Closed1(f[k])
    <3>1. f[k] # f[k + 1] BY <2>1, <2>4
    <3>2. Cardinality(f[k]) >= k BY <1>5, <2>4
    <3>3. /\ Cardinality(f[k]) <= Cardinality(f[k + 1])
          /\ Cardinality(f[k + 1]) = Cardinality(f[k]) => f[k] = f[k + 1]
      <4>1. k + 1 \in Nat OBVIOUS
      <4>. QED BY <1>3, <2>1, <4>1, FS_Subset
    <3>4. Cardinality(f[k]) \in Nat /\ Cardinality(f[k + 1]) \in Nat BY <1>3
    <3>5. Cardinality(f[k + 1]) >= k + 1 BY <3>1, <3>2, <3>3, <3>4
    <3>. QED BY <2>2, <3>5
  <2>. QED BY <2>3, <2>4
<1>6. \A k \in Nat : k \in N => k + 1 \in N BY <1>5
<1>. HIDE DEF N
<1>7. Nat \subseteq N BY <1>4, <1>6, Induction
<1>. DEFINE R == f[Cardinality(Names)]
<1>8. R \subseteq Names BY <1>1, <1>2
<1>9. Needs(c, n) \subseteq R /\ (Closed1(R) \/ Cardinality(R) >= Cardinality(Names))
  BY <1>2, <1>7 DEF N
<1>10. Closed1(R)
  <2>1. ASSUME Cardinality(R) >= Cardinality(Names) PROVE Closed1(R)
    <3>1. Cardinality(R) <= Cardinality(Names) /\ (Cardinality(Names) = Cardinality(R) => Names = R)
      BY <1>2, <1>8, FS_Subset
    <3>2. R = Names BY <1>2, <1>3, <2>1, <3>1
    <3>. QED BY <3>2, NeedsNames DEF More
  <2>. QED BY <1>9, <2>1
<1>11. \A m \in R : Needs(c, m) \subseteq R BY <1>10 DEF More
<1>. QED BY <1>1, <1>8, <1>9, <1>11

LEMMA ReachLeast ==
  ASSUME NEW c, NEW n, NEW T, Needs(c, n) \subseteq T, \A m \in T : Needs(c, m) \subseteq T
  PROVE  Reach(c, n) \subseteq T
<1>1. PICK f \in [Nat -> SUBSET Names] :
        /\ f[0] = Needs(c, n) /\ \A k \in Nat : f[k + 1] = More(c, f[k])
        /\ Reach(c, n) = f[Cardinality(Names)]
  BY Within
<1>2. Cardinality(Names) \in Nat BY VariablesAssumption, FS_CardinalityType
<1>. DEFINE N == {k \in Nat : f[k] \subseteq T}
<1>3. 0 \in N BY <1>1
<1>4. \A k \in Nat : k \in N => k + 1 \in N BY <1>1 DEF More
<1>. HIDE DEF N
<1>5. Nat \subseteq N BY <1>3, <1>4, Induction
<1>. QED BY <1>1, <1>2, <1>5 DEF N

LEMMA ReachOn ==
  ASSUME NEW c, NEW n, NEW m \in Reach(c, n)
  PROVE  Reach(c, m) \subseteq Reach(c, n)
<1>1. Needs(c, m) \subseteq Reach(c, n) /\ \A k \in Reach(c, n) : Needs(c, k) \subseteq Reach(c, n)
  BY ReachCloses
<1>. HIDE DEF Reach
<1>. QED BY <1>1, ReachLeast

LEMMA ReachThrough ==
  ASSUME NEW c, NEW n, NEW x \in Reach(c, n)
  PROVE  \E m \in Needs(c, n) : x \in Involved(c, m)
<1>. DEFINE T == UNION {Involved(c, m) : m \in Needs(c, n)}
<1>1. Needs(c, n) \subseteq T BY DEF Involved
<1>2. ASSUME NEW y \in T PROVE Needs(c, y) \subseteq T
  <2>1. PICK m \in Needs(c, n) : y = m \/ y \in Reach(c, m) BY DEF Involved
  <2>2. Needs(c, y) \subseteq Reach(c, m) BY <2>1, ReachCloses
  <2>. QED BY <2>2 DEF Involved
<1>. HIDE DEF T
<1>3. Reach(c, n) \subseteq T BY <1>1, <1>2, ReachLeast
<1>. QED BY <1>3 DEF T

(* A name from which no loop is reached, and what it needs.                *)
Ends(c, n) == ~Cyclic(c, n)

LEMMA EndsOn ==
  ASSUME NEW c, NEW n
  PROVE  Ends(c, n) <=> \A m \in Needs(c, n) : Ends(c, m)
<1>1. ASSUME Ends(c, n), NEW m \in Needs(c, n) PROVE Ends(c, m)
  <2>1. m \in Reach(c, n) BY ReachCloses
  <2>2. Reach(c, m) \subseteq Reach(c, n) BY <2>1, ReachOn
  <2>. QED BY <1>1, <2>1, <2>2 DEF Ends, Cyclic, Involved
<1>2. ASSUME \A m \in Needs(c, n) : Ends(c, m) PROVE Ends(c, n)
  <2>. SUFFICES ASSUME NEW x \in Involved(c, n), x \in Reach(c, x) PROVE FALSE
    BY DEF Ends, Cyclic
  <2>1. x \in Reach(c, n) BY DEF Involved
  <2>2. PICK m \in Needs(c, n) : x \in Involved(c, m) BY <2>1, ReachThrough
  <2>. QED BY <1>2, <2>2 DEF Ends, Cyclic
<1>. QED BY <1>1, <1>2

-----------------------------------------------------------------------------
(* The values of all names, from those of a step before.                   *)
Results == [Names -> Texts \cup {None}]
Same == [x \in Letters |-> <<x>>]
Replacing(v) == [x \in Letters |-> IF x \in Names THEN Str(v[x]) ELSE <<x>>]
NoText(c, n) == find_variable(c, n) = None \/ Begins(n, c) = None
Filled(c, g) == [n \in Names |-> IF NoText(c, n) THEN None ELSE Subst(g, Begins(n, c))]

LEMMA ReplacingType ==
  /\ Same \in [Letters -> Seq(Letters)]
  /\ \A v \in Results : Replacing(v) \in [Letters -> Seq(Letters)]
<1>1. \A x \in Letters : <<x>> \in Seq(Letters) OBVIOUS
<1>2. \A v \in Results : \A x \in Names : Str(v[x]) \in Seq(Letters)
  BY StrType DEF Results, Texts
<1>. QED BY <1>1, <1>2 DEF Same, Replacing

LEMMA FoundText ==
  ASSUME TypeInv, NEW c \in node, NEW n \in Names, ~NoText(c, n)
  PROVE  /\ Begins(n, c) \in Texts /\ Entered(n, c).text = Begins(n, c)
         /\ Entered(n, c).done => Begins(n, c) = <<Known>>
<1>1. Entered(n, c).text = Begins(n, c) BY DEF Entered
<1>2. Begins(n, c) \in Texts BY <1>1, EnteredType DEF NoText, Frame
<1>3. ASSUME Entered(n, c).done PROVE Begins(n, c) = <<Known>>
  BY <1>3 DEF Entered, Begins, NoText
<1>. QED BY <1>1, <1>2, <1>3

LEMMA FilledType ==
  ASSUME TypeInv, NEW c \in node, NEW g \in [Letters -> Seq(Letters)]
  PROVE  Filled(c, g) \in Results
<1>1. \A n \in Names : ~NoText(c, n) => Subst(g, Begins(n, c)) \in Texts
  BY FoundText, SubstType DEF Texts
<1>. QED BY <1>1 DEF Filled, Results

(* The pieces of a text as the definition has them.                        *)
LEMMA PiecesOf ==
  ASSUME TypeInv, NEW c \in node, NEW n \in Names, ~NoText(c, n), NEW b \in BOOLEAN,
         NEW v
  PROVE  LET e == Entered(n, c) IN
         [i \in DOMAIN e.text |-> IF IsPattern(e.text, i) /\ ~e.done /\ b THEN Str(v[e.text[i]])
                                  ELSE <<e.text[i]>>]
         = [i \in DOMAIN Begins(n, c) |-> (IF b THEN Replacing(v) ELSE Same)[Begins(n, c)[i]]]
<1>. DEFINE e == Entered(n, c)
            t == Begins(n, c)
<1>1. t \in Texts /\ e.text = t /\ (e.done => t = <<Known>>) BY FoundText
<1>2. \A i \in DOMAIN t : t[i] \in Letters BY <1>1, LenProperties, ElementOfSeq DEF Texts
<1>3. ASSUME e.done, NEW i \in DOMAIN t PROVE t[i] \notin Names
  <2>1. t = <<Known>> BY <1>1, <1>3
  <2>2. i = 1 BY <1>3, <2>1
  <2>3. t[i] = Known BY <2>1, <2>2
  <2>. QED BY <2>3, VariablesAssumption
<1>. HIDE DEF e, t
<1>4. \A i \in DOMAIN t :
        (IF IsPattern(t, i) /\ ~e.done /\ b THEN Str(v[t[i]]) ELSE <<t[i]>>)
        = (IF b THEN Replacing(v) ELSE Same)[t[i]]
  <2>. SUFFICES ASSUME NEW i \in DOMAIN t
                PROVE  (IF IsPattern(t, i) /\ ~e.done /\ b THEN Str(v[t[i]]) ELSE <<t[i]>>)
                       = (IF b THEN Replacing(v) ELSE Same)[t[i]]
    OBVIOUS
  <2>1. CASE b BY <1>2, <1>3, <2>1 DEF Replacing, IsPattern
  <2>2. CASE ~b BY <1>2, <2>2 DEF Same
  <2>. QED BY <2>1, <2>2
<1>5. [i \in DOMAIN t |-> IF IsPattern(t, i) /\ ~e.done /\ b THEN Str(v[t[i]]) ELSE <<t[i]>>]
      = [i \in DOMAIN t |-> (IF b THEN Replacing(v) ELSE Same)[t[i]]]
  BY <1>4
<1>. QED BY <1>1, <1>5 DEF e, t

LEMMA ValueSteps ==
  ASSUME TypeInv, NEW c \in node
  PROVE  \E f \in [Nat -> Results] :
           /\ f[0] = Filled(c, Same) /\ \A k \in Nat : f[k + 1] = Filled(c, Replacing(f[k]))
           /\ ValueIn(c) = f[Cardinality(Names)]
<1>. DEFINE value[k \in Nat] ==
              [n \in Names |->
                 LET e == Entered(n, c) IN
                 IF find_variable(c, n) = None \/ e.text = None THEN None
                 ELSE FlattenSeq([i \in DOMAIN e.text |->
                        IF IsPattern(e.text, i) /\ ~e.done /\ k > 0
                        THEN Str(value[k - 1][e.text[i]])
                        ELSE <<e.text[i]>>])]
            up == [k \in Nat |-> k - 1]
            rank == [k \in Nat |-> k]
            B == [k \in Nat |-> Filled(c, Same)]
            H == [x \in Nat \X Results |-> Filled(c, Replacing(x[2]))]
<1>1. /\ Filled(c, Same) \in Results
      /\ \A v \in Results : Filled(c, Replacing(v)) \in Results
  BY ReplacingType, FilledType
<1>2. \E f \in [Nat -> Results] : f = Step(Nat, {0}, up, B, H, f)
  <2>1. Descends(Nat, {0}, up, rank) BY DEF Descends
  <2>2. \A k \in Nat \cap {0} : B[k] \in Results BY <1>1
  <2>3. \A k \in Nat \ {0}, v \in Results : H[<<k, v>>] \in Results BY <1>1
  <2>. HIDE DEF up, rank, B, H, value
  <2>4. Recursive(Nat, {0}, up, rank, Results, B, H) BY <2>1, <2>2, <2>3 DEF Recursive
  <2>. QED BY <2>4, RecursiveFunction
<1>3. PICK f \in [Nat -> Results] : f = Step(Nat, {0}, up, B, H, f) BY <1>2
<1>4. f = [k \in Nat |-> IF k = 0 THEN Filled(c, Same) ELSE Filled(c, Replacing(f[k - 1]))]
  <2>1. \A k \in Nat \ {0} : k - 1 \in Nat OBVIOUS
  <2>2. \A k \in Nat \ {0} : H[<<k, f[up[k]]>>] = Filled(c, Replacing(f[k - 1])) BY <1>3, <2>1
  <2>. QED BY <1>3, <2>2 DEF Step
(* What the definition says of the step k, given the values v before it.   *)
<1>5. ASSUME NEW k \in Nat, NEW v
      PROVE  [n \in Names |->
                LET e == Entered(n, c) IN
                IF find_variable(c, n) = None \/ e.text = None THEN None
                ELSE FlattenSeq([i \in DOMAIN e.text |->
                       IF IsPattern(e.text, i) /\ ~e.done /\ k > 0 THEN Str(v[e.text[i]])
                       ELSE <<e.text[i]>>])]
             = IF k = 0 THEN Filled(c, Same) ELSE Filled(c, Replacing(v))
  <2>. DEFINE g == IF k > 0 THEN Replacing(v) ELSE Same
              P(n) == LET e == Entered(n, c) IN
                      [i \in DOMAIN e.text |->
                         IF IsPattern(e.text, i) /\ ~e.done /\ k > 0 THEN Str(v[e.text[i]])
                         ELSE <<e.text[i]>>]
  <2>1. \A n \in Names : ~NoText(c, n) => P(n) = [i \in DOMAIN Begins(n, c) |-> g[Begins(n, c)[i]]]
    <3>. SUFFICES ASSUME NEW n \in Names, ~NoText(c, n)
                  PROVE  P(n) = [i \in DOMAIN Begins(n, c) |-> g[Begins(n, c)[i]]]
      OBVIOUS
    <3>. DEFINE b == k > 0
    <3>1. b \in BOOLEAN OBVIOUS
    <3>. HIDE DEF b
    <3>2. LET e == Entered(n, c) IN
          [i \in DOMAIN e.text |-> IF IsPattern(e.text, i) /\ ~e.done /\ b THEN Str(v[e.text[i]])
                                   ELSE <<e.text[i]>>]
          = [i \in DOMAIN Begins(n, c) |-> (IF b THEN Replacing(v) ELSE Same)[Begins(n, c)[i]]]
      BY <3>1, PiecesOf
    <3>. QED BY <3>2 DEF b
  <2>2. \A n \in Names : NoText(c, n) <=> find_variable(c, n) = None \/ Entered(n, c).text = None
    BY DEF NoText, Entered
  <2>. HIDE DEF P, g
  <2>3. \A n \in Names : (IF find_variable(c, n) = None \/ Entered(n, c).text = None THEN None
                          ELSE FlattenSeq(P(n)))
                         = IF NoText(c, n) THEN None ELSE Subst(g, Begins(n, c))
    BY <2>1, <2>2 DEF Subst
  <2>4. [n \in Names |-> IF find_variable(c, n) = None \/ Entered(n, c).text = None THEN None
                         ELSE FlattenSeq(P(n))] = Filled(c, g)
    BY <2>3 DEF Filled
  <2>5. Filled(c, g) = IF k = 0 THEN Filled(c, Same) ELSE Filled(c, Replacing(v))
    BY DEF g
  <2>. QED BY <2>4, <2>5 DEF P
<1>6. f = [k \in Nat |->
             [n \in Names |->
                LET e == Entered(n, c) IN
                IF find_variable(c, n) = None \/ e.text = None THEN None
                ELSE FlattenSeq([i \in DOMAIN e.text |->
                       IF IsPattern(e.text, i) /\ ~e.done /\ k > 0 THEN Str(f[k - 1][e.text[i]])
                       ELSE <<e.text[i]>>])]]
  BY <1>4, <1>5
<1>7. value = [k \in Nat |->
             [n \in Names |->
                LET e == Entered(n, c) IN
                IF find_variable(c, n) = None \/ e.text = None THEN None
                ELSE FlattenSeq([i \in DOMAIN e.text |->
                       IF IsPattern(e.text, i) /\ ~e.done /\ k > 0 THEN Str(value[k - 1][e.text[i]])
                       ELSE <<e.text[i]>>])]]
  <2>1. \E h : h = [k \in Nat |->
             [n \in Names |->
                LET e == Entered(n, c) IN
                IF find_variable(c, n) = None \/ e.text = None THEN None
                ELSE FlattenSeq([i \in DOMAIN e.text |->
                       IF IsPattern(e.text, i) /\ ~e.done /\ k > 0 THEN Str(h[k - 1][e.text[i]])
                       ELSE <<e.text[i]>>])]]
    <3>. HIDE DEF value
    <3>. QED BY <1>6, Zenon
  <2>. QED BY <2>1 DEF value
<1>8. ValueIn(c) = value[Cardinality(Names)] BY DEF ValueIn
<1>. HIDE DEF value
<1>9. value = [k \in Nat |-> IF k = 0 THEN Filled(c, Same) ELSE Filled(c, Replacing(value[k - 1]))]
  BY <1>5, <1>7
<1>10. value[0] = Filled(c, Same) BY <1>9
<1>11. \A k \in Nat : value[k + 1] = Filled(c, Replacing(value[k]))
  <2>. SUFFICES ASSUME NEW k \in Nat PROVE value[k + 1] = Filled(c, Replacing(value[k]))
    OBVIOUS
  <2>. DEFINE j == k + 1
  <2>1. j \in Nat /\ j # 0 /\ j - 1 = k OBVIOUS
  <2>. HIDE DEF j
  <2>2. value[j] = Filled(c, Replacing(value[k])) BY <1>9, <2>1
  <2>. QED BY <2>2 DEF j
<1>12. value \in [Nat -> Results]
  <2>. DEFINE N == {k \in Nat : value[k] \in Results}
  <2>1. 0 \in N BY <1>1, <1>10
  <2>2. \A k \in Nat : k \in N => k + 1 \in N BY <1>1, <1>11
  <2>. HIDE DEF N
  <2>3. Nat \subseteq N BY <2>1, <2>2, Induction
  <2>4. \A k \in Nat : value[k] \in Results BY <2>3 DEF N
  <2>. HIDE DEF Results
  <2>5. \E g : value = [k \in Nat |-> g[k]] BY <1>9
  <2>. QED BY <2>4, <2>5
<1>. QED BY <1>8, <1>10, <1>11, <1>12

(* Only the letters of a text count.                                       *)
LEMMA SubstAgrees ==
  ASSUME NEW t, NEW g, NEW h, \A i \in DOMAIN t : g[t[i]] = h[t[i]]
  PROVE  Subst(g, t) = Subst(h, t)
<1>1. [i \in DOMAIN t |-> g[t[i]]] = [i \in DOMAIN t |-> h[t[i]]] OBVIOUS
<1>. QED BY <1>1 DEF Subst

(* The names in the text that a name begins with are those it needs.       *)
LEMMA NeedsOf ==
  ASSUME TypeInv, NEW c \in node, NEW n \in Names, ~NoText(c, n)
  PROVE  /\ \A i \in DOMAIN Begins(n, c) : Begins(n, c)[i] \in Names => Begins(n, c)[i] \in Needs(c, n)
         /\ \A m \in Needs(c, n) : \E i \in DOMAIN Begins(n, c) : Begins(n, c)[i] = m
<1>. DEFINE v == find_variable(c, n)
            t == Begins(n, c)
<1>1. v \in Values /\ v # None /\ t # None BY Found DEF NoText
<1>2. Value(v) BY <1>1, VariablesAssumption
<1>3. CASE v.is = "text"
  <2>1. t = v.text /\ Needs(c, n) = Names \cap {t[i] : i \in DOMAIN t}
    BY <1>1, <1>3 DEF Begins, Needs, Range
  <2>. QED BY <2>1
<1>4. CASE v.is # "text"
  <2>1. Needs(c, n) = {} BY <1>4 DEF Needs
  <2>2. t = <<Called>> \/ t = <<Known>> BY <1>1, <1>2, <1>4 DEF Begins, Value
  <2>3. Called \notin Names /\ Known \notin Names BY VariablesAssumption
  <2>4. \A i \in DOMAIN t : t[i] \notin Names
    <3>. HIDE DEF t
    <3>1. \A x : DOMAIN <<x>> = {1} /\ <<x>>[1] = x OBVIOUS
    <3>. QED BY <2>2, <2>3, <3>1
  <2>. QED BY <2>1, <2>4
<1>. QED BY <1>3, <1>4

LEMMA FilledAgrees ==
  ASSUME TypeInv, NEW c \in node, NEW n \in Names, NEW g, NEW h,
         \A x \in Needs(c, n) \cup Words : g[x] = h[x]
  PROVE  Filled(c, g)[n] = Filled(c, h)[n]
<1>1. CASE NoText(c, n) BY <1>1 DEF Filled
<1>2. CASE ~NoText(c, n)
  <2>. DEFINE t == Begins(n, c)
  <2>1. t \in Texts BY <1>2, FoundText
  <2>2. \A i \in DOMAIN t : t[i] \in Names \cup Words
    BY <2>1, LenProperties, ElementOfSeq DEF Texts, Letters
  <2>3. \A i \in DOMAIN t : g[t[i]] = h[t[i]] BY <1>2, <2>2, NeedsOf
  <2>. HIDE DEF t
  <2>4. Subst(g, t) = Subst(h, t) BY <2>3, SubstAgrees
  <2>. QED BY <1>2, <2>4 DEF Filled, t
<1>. QED BY <1>1, <1>2

(* A name from which no loop is reached has its value after as many steps  *)
(* as there are names that it reaches: the value is the text with the      *)
(* values for the names.                                                   *)
Upon(c, m, v) == IF NoText(c, m) THEN None ELSE Subst(Replacing(v), Begins(m, c))

LEMMA NearerNames ==
  ASSUME NEW c, NEW m \in Names, Ends(c, m), NEW p \in Needs(c, m)
  PROVE  /\ p \in Names /\ Ends(c, p)
         /\ Cardinality(Reach(c, p)) \in Nat /\ Cardinality(Reach(c, m)) \in Nat
         /\ Cardinality(Reach(c, p)) < Cardinality(Reach(c, m))
<1>1. p \in Names /\ p \in Reach(c, m) /\ Reach(c, m) \subseteq Names
  BY ReachCloses, NeedsNames
<1>2. Ends(c, p) BY EndsOn
<1>3. p \notin Reach(c, p) BY <1>2 DEF Ends, Cyclic, Involved
<1>4. Reach(c, p) \subseteq Reach(c, m) /\ Reach(c, p) # Reach(c, m) BY <1>1, <1>3, ReachOn
<1>5. IsFiniteSet(Names) BY VariablesAssumption
<1>. DEFINE R == Reach(c, m)
            S == Reach(c, p)
<1>. HIDE DEF R, S
<1>6. IsFiniteSet(R) /\ S \subseteq R /\ S # R BY <1>1, <1>4, <1>5, FS_Subset DEF R, S
<1>7. IsFiniteSet(S) BY <1>6, FS_Subset
<1>8. Cardinality(R) \in Nat /\ Cardinality(S) \in Nat BY <1>6, <1>7, FS_CardinalityType
<1>9. Cardinality(S) < Cardinality(R)
  <2>1. Cardinality(S) <= Cardinality(R) /\ (Cardinality(R) = Cardinality(S) => R = S)
    BY <1>6, FS_Subset
  <2>. QED BY <1>6, <1>8, <2>1
<1>. QED BY <1>1, <1>2, <1>8, <1>9 DEF R, S

LEMMA Settled ==
  ASSUME TypeInv, NEW c \in node
  PROVE  /\ ValueIn(c) \in Results
         /\ \A m \in Names : Ends(c, m) => ValueIn(c)[m] = Upon(c, m, ValueIn(c))
<1>1. PICK f \in [Nat -> Results] :
        /\ f[0] = Filled(c, Same) /\ \A k \in Nat : f[k + 1] = Filled(c, Replacing(f[k]))
        /\ ValueIn(c) = f[Cardinality(Names)]
  BY ValueSteps
<1>2. IsFiniteSet(Names) /\ Cardinality(Names) \in Nat
  BY VariablesAssumption, FS_CardinalityType
<1>. DEFINE Near(m, k) == Ends(c, m) /\ Cardinality(Reach(c, m)) <= k
            T == {k \in Nat : \A m \in Names : Near(m, k) => f[k + 1][m] = f[k][m]}
<1>3. 0 \in T
  <2>. SUFFICES ASSUME NEW m \in Names, Near(m, 0) PROVE f[0 + 1][m] = f[0][m]
    OBVIOUS
  <2>1. Needs(c, m) = {}
    <3>1. ASSUME NEW p \in Needs(c, m) PROVE FALSE
      <4>1. /\ Cardinality(Reach(c, p)) \in Nat /\ Cardinality(Reach(c, m)) \in Nat
            /\ Cardinality(Reach(c, p)) < Cardinality(Reach(c, m))
        BY NearerNames
      <4>. QED BY <4>1
    <3>. QED BY <3>1
  <2>2. \A x \in Needs(c, m) \cup Words : Replacing(f[0])[x] = Same[x]
    BY <2>1, VariablesAssumption DEF Replacing, Same, Letters
  <2>3. Filled(c, Replacing(f[0]))[m] = Filled(c, Same)[m] BY <2>2, FilledAgrees
  <2>4. f[0 + 1] = Filled(c, Replacing(f[0])) /\ f[0] = Filled(c, Same)
    <3>1. 0 \in Nat OBVIOUS
    <3>. QED BY <1>1, <3>1
  <2>. QED BY <2>3, <2>4
<1>4. ASSUME NEW k \in Nat, k \in T PROVE k + 1 \in T
  <2>. DEFINE j == k + 1
  <2>0. j \in Nat OBVIOUS
  <2>. SUFFICES ASSUME NEW m \in Names, Near(m, j) PROVE f[j + 1][m] = f[j][m]
    OBVIOUS
  <2>1. f[j + 1] = Filled(c, Replacing(f[j])) /\ f[j] = Filled(c, Replacing(f[k]))
    BY <1>1, <2>0
  <2>2. ASSUME NEW p \in Needs(c, m) PROVE p \in Names /\ f[j][p] = f[k][p]
    <3>1. /\ p \in Names /\ Ends(c, p)
          /\ Cardinality(Reach(c, p)) \in Nat /\ Cardinality(Reach(c, m)) \in Nat
          /\ Cardinality(Reach(c, p)) < Cardinality(Reach(c, m))
      BY NearerNames
    <3>2. Cardinality(Reach(c, p)) <= k BY <3>1
    <3>. QED BY <1>4, <3>1, <3>2
  <2>. HIDE DEF j
  <2>3. \A x \in Needs(c, m) \cup Words : Replacing(f[j])[x] = Replacing(f[k])[x]
    BY <2>2, VariablesAssumption DEF Replacing, Letters
  <2>4. Filled(c, Replacing(f[j]))[m] = Filled(c, Replacing(f[k]))[m] BY <2>3, FilledAgrees
  <2>. QED BY <2>1, <2>4
<1>5. \A k \in Nat : k \in T => k + 1 \in T BY <1>4
<1>. HIDE DEF T
<1>6. Nat \subseteq T BY <1>3, <1>5, Induction
<1>. DEFINE N == Cardinality(Names)
<1>7. \A m \in Names : Ends(c, m) => f[N + 1][m] = f[N][m]
  <2>. SUFFICES ASSUME NEW m \in Names, Ends(c, m) PROVE f[N + 1][m] = f[N][m]
    OBVIOUS
  <2>1. Cardinality(Reach(c, m)) <= N
    <3>. HIDE DEF Near
    <3>1. Reach(c, m) \subseteq Names BY ReachCloses
    <3>. QED BY <1>2, <3>1, FS_Subset
  <2>. QED BY <1>2, <1>6, <2>1 DEF T
<1>8. f[N + 1] = Filled(c, Replacing(f[N])) BY <1>1, <1>2
<1>9. ValueIn(c) = f[N] /\ f[N] \in Results BY <1>1, <1>2
<1>. HIDE DEF N
<1>10. \A m \in Names : Filled(c, Replacing(f[N]))[m] = Upon(c, m, f[N]) BY DEF Filled, Upon
<1>. QED BY <1>7, <1>8, <1>9, <1>10

(* While a question is answered the namespace stays, and so does all that  *)
(* is defined by it.                                                       *)
LEMMA SeesOn == TypeInv /\ UNCHANGED vars =>
  \A p \in node, n \in Names : find_variable(p, n)' = find_variable(p, n)
<1>1. (TypeInv => \A p \in node, n \in Names :
         find_variable(p, n) = FoundIn(p, n) /\ find_variable(p, n) \in Values \cup {None})'
  BY Found, PTL
<1>. SUFFICES ASSUME TypeInv, UNCHANGED vars, NEW n \in Names
              PROVE  \A p \in node : find_variable(p, n)' = find_variable(p, n)
  OBVIOUS
<1>2. UNCHANGED <<node, parent, variables, overrides>> BY DEF vars, tree, vars_of
<1>3. TypeInv'
  <2>1. [Next]_vars OBVIOUS
  <2>. QED BY <2>1, NextTypes
<1>. DEFINE Good == {p \in node : find_variable(p, n)' = find_variable(p, n)}
<1>4. ASSUME NEW p \in node, parent[p] # None => parent[p] \in Good
      PROVE  find_variable(p, n)' = find_variable(p, n)
  <2>1. p \in node' /\ Own(p, n)' = Own(p, n) /\ parent'[p] = parent[p]
    BY <1>2 DEF Own
  <2>2. find_variable(p, n) = FoundIn(p, n) BY Found
  <2>3. find_variable(p, n)' = FoundIn(p, n)' BY <1>1, <1>3, <2>1
  <2>4. FoundIn(p, n)' = IF Own(p, n)' # None THEN Own(p, n)'
                         ELSE IF parent'[p] # None THEN find_variable(parent[p], n)' ELSE None
    BY <2>1 DEF FoundIn
  <2>. QED BY <1>4, <2>1, <2>2, <2>3, <2>4 DEF FoundIn
<1>5. \A p \in node : (parent[p] # None => parent[p] \in Good) => p \in Good BY <1>4
<1>. HIDE DEF Good
<1>6. node \subseteq Good BY <1>5, AlongChains DEF TypeInv
<1>. QED BY <1>6 DEF Good

LEMMA ChainsOn == TypeInv /\ UNCHANGED vars => \A p \in node : Chain'[p] = Chain[p]
<1>0. TypeInv => \A p \in node :
        /\ Chain[p] = IF parent[p] = None THEN <<p>> ELSE <<p>> \o Chain[parent[p]]
        /\ Chain[p] \in Seq(node)
  BY ChainAlong
<1>1. (TypeInv => \A p \in node :
         /\ Chain[p] = IF parent[p] = None THEN <<p>> ELSE <<p>> \o Chain[parent[p]]
         /\ Chain[p] \in Seq(node))'
  BY <1>0, PTL
<1>. SUFFICES ASSUME TypeInv, UNCHANGED vars PROVE \A p \in node : Chain'[p] = Chain[p]
  OBVIOUS
<1>2. UNCHANGED <<node, parent>> BY DEF vars, tree
<1>3. TypeInv'
  <2>1. [Next]_vars OBVIOUS
  <2>. QED BY <2>1, NextTypes
<1>. DEFINE Good == {p \in node : Chain'[p] = Chain[p]}
<1>4. ASSUME NEW p \in node, parent[p] # None => parent[p] \in Good
      PROVE  Chain'[p] = Chain[p]
  <2>1. Chain[p] = IF parent[p] = None THEN <<p>> ELSE <<p>> \o Chain[parent[p]] BY <1>0
  <2>2. Chain'[p] = IF parent[p] = None THEN <<p>> ELSE <<p>> \o Chain'[parent[p]]
    BY <1>1, <1>2, <1>3
  <2>. QED BY <1>4, <2>1, <2>2
<1>5. \A p \in node : (parent[p] # None => parent[p] \in Good) => p \in Good BY <1>4
<1>. HIDE DEF Good
<1>6. node \subseteq Good BY <1>5, AlongChains DEF TypeInv
<1>. QED BY <1>6 DEF Good

LEMMA NeedsOn == TypeInv /\ UNCHANGED vars =>
  /\ node' = node /\ TypeInv'
  /\ \A c \in node, n \in Names :
       /\ find_variable(c, n)' = find_variable(c, n)
       /\ Begins(n, c)' = Begins(n, c) /\ Entered(n, c)' = Entered(n, c)
       /\ Enters(n, c)' = Enters(n, c) /\ NoText(c, n)' = NoText(c, n)
       /\ Needs(c, n)' = Needs(c, n)
<1>. SUFFICES ASSUME TypeInv, UNCHANGED vars
     PROVE  /\ node' = node /\ TypeInv'
            /\ \A c \in node, n \in Names :
                 /\ find_variable(c, n)' = find_variable(c, n)
                 /\ Begins(n, c)' = Begins(n, c) /\ Entered(n, c)' = Entered(n, c)
                 /\ Enters(n, c)' = Enters(n, c) /\ NoText(c, n)' = NoText(c, n)
                 /\ Needs(c, n)' = Needs(c, n)
  OBVIOUS
<1>1. TypeInv'
  <2>1. [Next]_vars OBVIOUS
  <2>. QED BY <2>1, NextTypes
<1>2. node' = node /\ infra' = infra BY DEF vars, tree, hosts
<1>3. ASSUME NEW c \in node, NEW n \in Names
      PROVE  /\ find_variable(c, n)' = find_variable(c, n)
             /\ Begins(n, c)' = Begins(n, c) /\ Entered(n, c)' = Entered(n, c)
             /\ Enters(n, c)' = Enters(n, c) /\ NoText(c, n)' = NoText(c, n)
             /\ Needs(c, n)' = Needs(c, n)
  <2>1. find_variable(c, n)' = find_variable(c, n) BY SeesOn
  <2>2. find_infra_model(c, infra)' = find_infra_model(c, infra)
    BY <1>2, ChainsOn DEF find_infra_model
  <2>3. Begins(n, c)' = Begins(n, c) BY <2>1, <2>2 DEF Begins
  <2>4. Entered(n, c)' = Entered(n, c) BY <2>1, <2>3 DEF Entered
  <2>5. Enters(n, c)' = Enters(n, c) BY <2>1 DEF Enters
  <2>6. NoText(c, n)' = NoText(c, n) BY <2>1, <2>3 DEF NoText
  <2>7. Needs(c, n)' = Needs(c, n) BY <2>1 DEF Needs
  <2>. QED BY <2>1, <2>3, <2>4, <2>5, <2>6, <2>7
<1>. QED BY <1>1, <1>2, <1>3

LEMMA ReachOnwards == TypeInv /\ UNCHANGED vars =>
  \A c \in node, n \in Names : Reach(c, n)' = Reach(c, n)
<1>1. \A c, n : /\ Reach(c, n) \subseteq Names /\ Needs(c, n) \subseteq Reach(c, n)
                /\ \A m \in Reach(c, n) : Needs(c, m) \subseteq Reach(c, n)
  BY ReachCloses
<1>2. (\A c, n : /\ Reach(c, n) \subseteq Names /\ Needs(c, n) \subseteq Reach(c, n)
                 /\ \A m \in Reach(c, n) : Needs(c, m) \subseteq Reach(c, n))'
  BY <1>1, PTL
<1>3. \A c, n, T : Needs(c, n) \subseteq T /\ (\A m \in T : Needs(c, m) \subseteq T)
                   => Reach(c, n) \subseteq T
  BY ReachLeast
<1>4. (\A c, n, T : Needs(c, n) \subseteq T /\ (\A m \in T : Needs(c, m) \subseteq T)
                    => Reach(c, n) \subseteq T)'
  BY <1>3, PTL
<1>. SUFFICES ASSUME TypeInv, UNCHANGED vars, NEW c \in node, NEW n \in Names
              PROVE  Reach(c, n)' = Reach(c, n)
  OBVIOUS
<1>5. \A m \in Names : Needs(c, m)' = Needs(c, m) BY NeedsOn
<1>6. Reach(c, n) \subseteq Reach(c, n)'
  <2>. DEFINE T == Reach(c, n)'
  <2>1. T \subseteq Names /\ Needs(c, n)' \subseteq T /\ \A m \in T : Needs(c, m)' \subseteq T
    BY <1>2
  <2>2. Needs(c, n) \subseteq T /\ \A m \in T : Needs(c, m) \subseteq T BY <1>5, <2>1
  <2>. QED BY <1>3, <2>2
<1>7. Reach(c, n)' \subseteq Reach(c, n)
  <2>. DEFINE T == Reach(c, n)
  <2>1. T \subseteq Names /\ Needs(c, n) \subseteq T /\ \A m \in T : Needs(c, m) \subseteq T
    BY <1>1
  <2>2. Needs(c, n)' \subseteq T /\ \A m \in T : Needs(c, m)' \subseteq T BY <1>5, <2>1
  <2>. QED BY <1>4, <2>2
<1>. QED BY <1>6, <1>7

LEMMA LoopsOn == TypeInv /\ UNCHANGED vars =>
  \A c \in node, n \in Names :
    /\ Reach(c, n)' = Reach(c, n) /\ Involved(c, n)' = Involved(c, n)
    /\ Ends(c, n)' = Ends(c, n) /\ Cyclic(c, n)' = Cyclic(c, n)
    /\ Complete(c, n)' = Complete(c, n) /\ Computable(c, n)' = Computable(c, n)
<1>. SUFFICES ASSUME TypeInv, UNCHANGED vars, NEW c \in node, NEW n \in Names
              PROVE  /\ Reach(c, n)' = Reach(c, n) /\ Involved(c, n)' = Involved(c, n)
                     /\ Ends(c, n)' = Ends(c, n) /\ Cyclic(c, n)' = Cyclic(c, n)
                     /\ Complete(c, n)' = Complete(c, n) /\ Computable(c, n)' = Computable(c, n)
  OBVIOUS
<1>1. \A m \in Names : Reach(c, m)' = Reach(c, m) BY ReachOnwards
<1>2. Involved(c, n)' = Involved(c, n) BY <1>1 DEF Involved
<1>3. Involved(c, n) \subseteq Names BY ReachCloses DEF Involved
<1>4. \A m \in Names : /\ find_variable(c, m)' = find_variable(c, m)
                       /\ Enters(m, c)' = Enters(m, c)
  BY NeedsOn
<1>5. Cyclic(c, n)' = Cyclic(c, n) BY <1>1, <1>2, <1>3 DEF Cyclic
<1>6. Complete(c, n)' = Complete(c, n) BY <1>2, <1>3, <1>4 DEF Complete
<1>7. Computable(c, n)' = Computable(c, n) BY <1>2, <1>3, <1>4 DEF Computable
<1>. QED BY <1>1, <1>2, <1>5, <1>6, <1>7 DEF Ends

LEMMA ValuesOn == TypeInv /\ UNCHANGED vars =>
  \A c \in node : ValueIn(c)' = ValueIn(c)
<1>1. TypeInv => \A c \in node : \E f \in [Nat -> Results] :
           /\ f[0] = Filled(c, Same) /\ \A k \in Nat : f[k + 1] = Filled(c, Replacing(f[k]))
           /\ ValueIn(c) = f[Cardinality(Names)]
  BY ValueSteps
<1>2. (TypeInv => \A c \in node : \E f \in [Nat -> Results] :
           /\ f[0] = Filled(c, Same) /\ \A k \in Nat : f[k + 1] = Filled(c, Replacing(f[k]))
           /\ ValueIn(c) = f[Cardinality(Names)])'
  BY <1>1, PTL
<1>. SUFFICES ASSUME TypeInv, UNCHANGED vars, NEW c \in node
              PROVE  ValueIn(c)' = ValueIn(c)
  OBVIOUS
<1>3. PICK f \in [Nat -> Results] :
           /\ f[0] = Filled(c, Same) /\ \A k \in Nat : f[k + 1] = Filled(c, Replacing(f[k]))
           /\ ValueIn(c) = f[Cardinality(Names)]
  BY <1>1
<1>4. PICK e \in [Nat -> Results] :
           /\ e[0] = Filled(c, Same)' /\ \A k \in Nat : e[k + 1] = Filled(c, Replacing(e[k]))'
           /\ ValueIn(c)' = e[Cardinality(Names)]
  BY <1>2, NeedsOn
<1>5. \A g : Filled(c, g)' = Filled(c, g) BY NeedsOn DEF Filled
<1>. DEFINE T == {k \in Nat : e[k] = f[k]}
<1>6. 0 \in T BY <1>3, <1>4, <1>5
<1>7. \A k \in Nat : k \in T => k + 1 \in T BY <1>3, <1>4, <1>5
<1>. HIDE DEF T
<1>8. Nat \subseteq T BY <1>6, <1>7, Induction
<1>9. Cardinality(Names) \in Nat BY VariablesAssumption, FS_CardinalityType
<1>. QED BY <1>3, <1>4, <1>8, <1>9 DEF T

-----------------------------------------------------------------------------
(* The names in a text.                                                    *)
Used(t) == {t[i] : i \in Patterns(t)}

LEMMA TextIsThere == \A t \in Texts : t # None
BY VariablesAssumption DEF Texts, Letters

LEMMA UsedIn ==
  ASSUME NEW t \in Texts
  PROVE  /\ Used(t) \subseteq Names /\ (Used(t) = {} <=> Patterns(t) = {})
         /\ \A i \in DOMAIN t : t[i] \in Names => t[i] \in Used(t)
         /\ \A x \in Used(t) : \E i \in DOMAIN t : t[i] = x
BY TextIsThere DEF Used, Patterns, IsPattern

LEMMA UsedThen ==
  ASSUME NEW s \in Texts, NEW t \in Texts
  PROVE  Used(Then(s, t)) = Used(s) \cup Used(t)
<1>0. s # None /\ t # None BY TextIsThere
<1>. DEFINE u == Then(s, t)
            m == Len(s)
            n == Len(t)
<1>1. m \in Nat /\ n \in Nat /\ DOMAIN s = 1 .. m /\ DOMAIN t = 1 .. n
  BY LenProperties DEF Texts
<1>2. /\ u \in Texts /\ Len(u) = m + n /\ DOMAIN u = 1 .. m + n
      /\ \A i \in 1 .. m : u[i] = s[i]
      /\ \A i \in 1 .. n : u[m + i] = t[i]
  BY <1>1, ConcatProperties DEF Texts, Then
<1>. HIDE DEF u, m, n
<1>3. ASSUME NEW x \in Used(u) PROVE x \in Used(s) \cup Used(t)
  <2>1. PICK i \in 1 .. m + n : u[i] = x /\ x \in Names
    BY <1>2, TextIsThere DEF Used, Patterns, IsPattern
  <2>2. CASE i \in 1 .. m BY <1>0, <1>1, <1>2, <2>1, <2>2 DEF Used, Patterns, IsPattern
  <2>3. CASE i \notin 1 .. m
    <3>1. i - m \in 1 .. n /\ m + (i - m) = i BY <1>1, <2>3
    <3>2. t[i - m] = x BY <1>2, <2>1, <3>1
    <3>. QED BY <1>0, <1>1, <2>1, <3>1, <3>2 DEF Used, Patterns, IsPattern
  <2>. QED BY <2>2, <2>3
<1>4. ASSUME NEW x \in Used(s) PROVE x \in Used(u)
  <2>1. PICK i \in 1 .. m : s[i] = x /\ x \in Names BY <1>0, <1>1 DEF Used, Patterns, IsPattern
  <2>2. i \in 1 .. m + n /\ u[i] = x BY <1>1, <1>2, <2>1
  <2>3. u # None BY <1>2, TextIsThere
  <2>. QED BY <1>2, <2>1, <2>2, <2>3 DEF Used, Patterns, IsPattern
<1>5. ASSUME NEW x \in Used(t) PROVE x \in Used(u)
  <2>1. PICK i \in 1 .. n : t[i] = x /\ x \in Names BY <1>0, <1>1 DEF Used, Patterns, IsPattern
  <2>2. m + i \in 1 .. m + n /\ u[m + i] = x BY <1>1, <1>2, <2>1
  <2>3. u # None BY <1>2, TextIsThere
  <2>. QED BY <1>2, <2>1, <2>2, <2>3 DEF Used, Patterns, IsPattern
<1>. QED BY <1>3, <1>4, <1>5 DEF u

LEMMA UsedOne ==
  ASSUME NEW x \in Letters
  PROVE  <<x>> \in Texts /\ Used(<<x>>) \subseteq {x} /\ (x \notin Names => Used(<<x>>) = {})
<1>. DEFINE t == <<x>>
<1>1. t \in Texts /\ DOMAIN t = {1} /\ t[1] = x BY DEF Texts
<1>. HIDE DEF t
<1>2. Used(t) \subseteq {x} /\ (x \notin Names => Used(t) = {})
  BY <1>1, TextIsThere DEF Used, Patterns, IsPattern
<1>. QED BY <1>1, <1>2 DEF t

(* A text without names is its own value.                                  *)
LEMMA NothingUsed ==
  ASSUME NEW v \in Results, NEW t \in Texts, Used(t) = {}
  PROVE  Subst(Replacing(v), t) = t
<1>1. Replacing(v) \in [Letters -> Seq(Letters)] BY ReplacingType
<1>2. t \in Seq(Letters) BY DEF Texts
<1>3. ASSUME NEW i \in 1 .. Len(t) PROVE Replacing(v)[t[i]] = <<t[i]>>
  <2>1. t[i] \in Letters /\ i \in DOMAIN t BY <1>2, ElementOfSeq, LenProperties
  <2>2. t[i] \notin Names BY <2>1, TextIsThere DEF Used, Patterns, IsPattern
  <2>. QED BY <2>1, <2>2 DEF Replacing
<1>4. \A i \in 1 .. Len(t) : Replacing(v)[t[i]] = <<t[i]>> BY <1>3
<1>. DEFINE g == Replacing(v)
<1>. HIDE DEF g
<1>5. g \in [Letters -> Seq(Letters)] /\ \A i \in 1 .. Len(t) : g[t[i]] = <<t[i]>>
  BY <1>1, <1>4 DEF g
<1>6. Subst(g, t) = t BY <1>2, <1>5, SubstNothing
<1>. QED BY <1>6 DEF g

LEMMA StrUsed ==
  ASSUME NEW t \in Texts \cup {None}
  PROVE  Str(t) \in Texts /\ Used(Str(t)) \subseteq Used(t)
<1>1. CASE t = None
  <2>1. NoneWord \in Letters /\ NoneWord \notin Names BY VariablesAssumption DEF Letters
  <2>. QED BY <1>1, <2>1, UsedOne DEF Str
<1>2. CASE t # None BY <1>2 DEF Str
<1>. QED BY <1>1, <1>2

-----------------------------------------------------------------------------
(* The calls go along what the name that is asked for needs, and the texts *)
(* have no other names.                                                    *)
WayOf(c, n, s) ==
  \A i \in 1 .. Len(s) :
    /\ i = 1 => s[i].name = n
    /\ Used(s[i].text) \subseteq Reach(c, s[i].name)
    /\ \A j \in i + 1 .. Len(s) : s[j].name \in Reach(c, s[i].name)
Way == WayOf(asked.context, asked.name, stack)

(* The text of a call has the value that the call began with, and, of the  *)
(* names that are needed, has lost those only that do not loop.            *)
Right(c, f) ==
  /\ f.done => Used(f.text) = {}
  /\ \A p \in Needs(c, f.name) : Ends(c, p) \/ p \in Used(f.text)
  /\ IF NoText(c, f.name) THEN f.text = None
     ELSE /\ f.text \in Texts
          /\ Subst(Replacing(ValueIn(c)), f.text) = Subst(Replacing(ValueIn(c)), Begins(f.name, c))

Solvable(c, n) == Complete(c, n) /\ Computable(c, n)
RightAnswer(c, n, a) ==
  /\ a = Error("loop") => Cyclic(c, n)
  /\ Solvable(c, n) => a = IF Cyclic(c, n) THEN Error("loop")
                           ELSE IF ValueIn(c)[n] = None THEN Fresh ELSE Text(ValueIn(c)[n])

RightAll(c, s) == \A i \in 1 .. Len(s) : Right(c, s[i])

AnswerInv ==
  /\ QuestionInv /\ IInv /\ Way
  /\ Solvable(asked.context, asked.name) => RightAll(asked.context, stack)
  /\ AnswersAreValues

LEMMA OnTheWay ==
  ASSUME TypeInvV, Way, NEW i \in 1 .. Len(stack)
  PROVE  /\ stack[i].name \in Involved(asked.context, asked.name)
         /\ Reach(asked.context, stack[i].name) \subseteq Reach(asked.context, asked.name)
         /\ Used(stack[i].text) \subseteq Reach(asked.context, asked.name)
<1>. DEFINE c == asked.context
<1>1. Len(stack) \in Nat BY LenProperties DEF TypeInvV
<1>2. stack[i].name \in Involved(c, asked.name)
  <2>1. CASE i = 1 BY <2>1 DEF Way, WayOf, Involved
  <2>2. CASE i # 1
    <3>1. 1 \in 1 .. Len(stack) /\ i \in 1 + 1 .. Len(stack) BY <1>1, <2>2
    <3>. QED BY <3>1 DEF Way, WayOf, Involved
  <2>. QED BY <2>1, <2>2
<1>3. Reach(c, stack[i].name) \subseteq Reach(c, asked.name) BY <1>2, ReachOn DEF Involved
<1>. QED BY <1>2, <1>3 DEF Way, WayOf

(* The name that is looked at is reached.                                  *)
LEMMA NextOnTheWay ==
  ASSUME TypeInvV, Way, Searching
  PROVE  /\ NextName \in Names /\ asked \in Question /\ Len(stack) \in Nat \ {0}
         /\ \A i \in 1 .. Len(stack) : NextName \in Reach(asked.context, stack[i].name)
         /\ NextName \in Reach(asked.context, asked.name)
         /\ NextName \in Involved(asked.context, asked.name)
<1>. DEFINE c == asked.context
            n == Len(stack)
<1>1. /\ stack # <<>> /\ Top \in Frame /\ n \in Nat \ {0} /\ NextName \in Names
      /\ Top.text \in Texts /\ Patterns(Top.text) # {} /\ asked \in Question
  BY NextNameType
<1>2. NextName \in Used(Top.text)
  <2>1. FirstPattern(Top.text) \in 1 .. Len(Top.text) BY <1>1, FirstIsFirst
  <2>2. FirstPattern(Top.text) \in DOMAIN Top.text BY <1>1, <2>1, LenProperties DEF Texts
  <2>. QED BY <1>1, <2>2, UsedIn DEF NextName
<1>3. n \in 1 .. n BY <1>1
<1>4. NextName \in Reach(c, stack[n].name) BY <1>2, <1>3 DEF Way, WayOf, Top
<1>5. ASSUME NEW i \in 1 .. n PROVE NextName \in Reach(c, stack[i].name)
  <2>1. CASE i = n BY <1>4, <2>1
  <2>2. CASE i # n
    <3>1. n \in i + 1 .. n BY <1>1, <2>2
    <3>2. stack[n].name \in Reach(c, stack[i].name) BY <3>1 DEF Way, WayOf
    <3>. QED BY <1>4, <3>2, ReachOn
  <2>. QED BY <2>1, <2>2
<1>6. NextName \in Reach(c, asked.name) BY <1>3, <1>4, OnTheWay
<1>. QED BY <1>1, <1>5, <1>6 DEF Involved

LEMMA LoopIsCyclic ==
  ASSUME TypeInvV, IInv, Way, Loop
  PROVE  Cyclic(asked.context, asked.name)
<1>1. Searching /\ NextName \in history BY DEF Loop
<1>2. PICK i \in 2 .. Len(stack) : NextName = stack[i].name
  BY <1>1 DEF IInv, HistoryIsTheStack
<1>3. Len(stack) \in Nat BY <1>1, NextOnTheWay
<1>4. i \in 1 .. Len(stack) BY <1>2, <1>3
<1>5. NextName \in Reach(asked.context, NextName) BY <1>1, <1>2, <1>4, NextOnTheWay
<1>. QED BY <1>1, <1>5, NextOnTheWay DEF Cyclic

(* A call that returns has the value of its name.                          *)
LEMMA ReturnedValue ==
  ASSUME TypeInv, NEW c \in node, NEW f \in Frame, Right(c, f), Used(f.text) = {}
  PROVE  Ends(c, f.name) /\ f.text = ValueIn(c)[f.name]
<1>1. f.name \in Names BY DEF Frame
<1>2. Ends(c, f.name)
  <2>1. \A p \in Needs(c, f.name) : Ends(c, p) BY DEF Right
  <2>. QED BY <2>1, EndsOn
<1>3. ValueIn(c) \in Results /\ ValueIn(c)[f.name] = Upon(c, f.name, ValueIn(c))
  BY <1>1, <1>2, Settled
<1>4. CASE NoText(c, f.name) BY <1>2, <1>3, <1>4 DEF Right, Upon
<1>5. CASE ~NoText(c, f.name)
  <2>1. f.text \in Texts BY <1>5 DEF Right
  <2>2. Subst(Replacing(ValueIn(c)), f.text) = f.text BY <1>3, <2>1, NothingUsed
  <2>. QED BY <1>2, <1>3, <1>5, <2>2 DEF Right, Upon
<1>. QED BY <1>2, <1>4, <1>5

(* A call that is made.                                                    *)
LEMMA RightEntered ==
  ASSUME TypeInv, NEW c \in node, NEW n \in Names, find_variable(c, n) # None
  PROVE  /\ Right(c, Entered(n, c))
         /\ Used(Entered(n, c).text) \subseteq Reach(c, n)
<1>. DEFINE f == Entered(n, c)
<1>1. f.name = n /\ f.text = Begins(n, c) BY DEF Entered
<1>2. Used(None) = {} BY DEF Used, Patterns
<1>3. CASE NoText(c, n)
  <2>1. f.text = None BY <1>1, <1>3 DEF NoText
  <2>2. Needs(c, n) = {}
    <3>1. find_variable(c, n).is # "text"
      <4>1. Value(find_variable(c, n)) BY Found, VariablesAssumption
      <4>2. find_variable(c, n).text # None BY <4>1, VariablesAssumption DEF Value
      <4>. QED BY <1>1, <2>1, <4>2 DEF Begins
    <3>. QED BY <3>1 DEF Needs
  <2>. HIDE DEF f
  <2>3. Right(c, f) /\ Used(f.text) = {} BY <1>1, <1>2, <1>3, <2>1, <2>2 DEF Right
  <2>. QED BY <2>3 DEF f
<1>4. CASE ~NoText(c, n)
  <2>1. f.text \in Texts /\ (f.done => f.text = <<Known>>) BY <1>1, <1>4, FoundText
  <2>2. Used(f.text) \subseteq Needs(c, n) BY <1>1, <1>4, <2>1, UsedIn, NeedsOf
  <2>3. Needs(c, n) \subseteq Used(f.text)
    BY <1>1, <1>4, <2>1, UsedIn, NeedsOf, NeedsNames
  <2>4. Used(<<Known>>) = {} BY UsedOne, VariablesAssumption DEF Letters
  <2>5. Needs(c, n) \subseteq Reach(c, n) BY ReachCloses
  <2>. HIDE DEF f
  <2>6. Right(c, f) BY <1>1, <1>4, <2>1, <2>3, <2>4 DEF Right
  <2>. QED BY <2>2, <2>5, <2>6 DEF f
<1>. QED BY <1>3, <1>4

(* A call that is returned to.                                             *)
Becomes(u, f, w) ==
  /\ Patterns(u.text) # {} /\ ~u.done /\ u.text \in Texts
  /\ f.name = u.text[FirstPattern(u.text)]
  /\ w.name = u.name /\ w.done = u.done
  /\ w.text = Then(Then(Before(u.text), Str(f.text)), After(u.text))

LEMMA UsedByBoth ==
  ASSUME NEW u \in Frame, NEW f \in Frame, NEW w \in Frame, Becomes(u, f, w)
  PROVE  /\ Used(w.text) \subseteq Used(u.text) \cup Used(f.text)
         /\ Used(u.text) \subseteq Used(w.text) \cup {f.name}
         /\ f.name \in Used(u.text)
         /\ w.text \in Texts
<1>. DEFINE t == u.text
            x == f.name
            one == <<x>>
            r == Str(f.text)
<1>1. t \in Texts /\ Patterns(t) # {} /\ x = t[FirstPattern(t)] BY DEF Becomes
<1>2. Before(t) \in Texts /\ After(t) \in Texts /\ t = Then(Then(Before(t), one), After(t))
  BY <1>1, AroundPattern
<1>3. x \in Names /\ x \in Letters BY DEF Frame, Letters
<1>4. one \in Texts /\ Used(one) \subseteq {x} BY <1>3, UsedOne
<1>5. r \in Texts /\ Used(r) \subseteq Used(f.text) BY StrUsed DEF Frame
<1>6. w.text = Then(Then(Before(t), r), After(t)) BY DEF Becomes
<1>7. x \in Used(t)
  <2>1. FirstPattern(t) \in DOMAIN t BY <1>1, FirstIsFirst, LenProperties DEF Texts
  <2>. QED BY <1>1, <1>3, <2>1, UsedIn
<1>. HIDE DEF t, x, one, r
<1>8. Then(Before(t), one) \in Texts /\ Then(Before(t), r) \in Texts
  BY <1>2, <1>4, <1>5, ThenAppends DEF Texts
<1>9. Used(t) = Used(Before(t)) \cup Used(one) \cup Used(After(t))
  BY <1>2, <1>4, <1>8, UsedThen
<1>10. Used(w.text) = Used(Before(t)) \cup Used(r) \cup Used(After(t))
  BY <1>2, <1>5, <1>6, <1>8, UsedThen
<1>11. w.text \in Texts BY <1>2, <1>6, <1>8, ThenAppends DEF Texts
<1>. QED BY <1>4, <1>5, <1>7, <1>9, <1>10, <1>11 DEF t, x

LEMMA RightSpliced ==
  ASSUME TypeInv, NEW c \in node, NEW u \in Frame, NEW f \in Frame, NEW w \in Frame,
         Becomes(u, f, w), Right(c, u), Right(c, f), Used(f.text) = {}
  PROVE  Right(c, w)
<1>. DEFINE t == u.text
            x == f.name
            one == <<x>>
            r == Str(f.text)
            V == ValueIn(c)
            g == Replacing(V)
<1>1. Ends(c, x) /\ f.text = V[x] BY ReturnedValue
<1>2. /\ Used(t) \subseteq Used(w.text) \cup {x} /\ w.text \in Texts
  BY UsedByBoth
<1>3. t \in Texts /\ Patterns(t) # {} /\ x = t[FirstPattern(t)] BY DEF Becomes
<1>4. Before(t) \in Texts /\ After(t) \in Texts /\ t = Then(Then(Before(t), one), After(t))
  BY <1>3, AroundPattern
<1>5. x \in Names /\ x \in Letters BY DEF Frame, Letters
<1>6. one \in Texts BY <1>5, UsedOne
<1>7. r \in Texts /\ Used(r) = {} BY StrUsed DEF Frame
<1>8. w.text = Then(Then(Before(t), r), After(t)) BY DEF Becomes
<1>9. V \in Results BY Settled
<1>10. g \in [Letters -> Seq(Letters)] BY <1>9, ReplacingType
<1>11. g[x] = r BY <1>1, <1>5 DEF Replacing
<1>. HIDE DEF V
<1>12. Subst(g, r) = r BY <1>7, <1>9, NothingUsed
<1>13. w.name = u.name /\ w.done = u.done /\ ~u.done BY DEF Becomes
<1>. HIDE DEF t, x, one, r, g
<1>14. Subst(g, one) = r BY <1>5, <1>10, <1>11, SubstOne DEF one
<1>15. Then(Before(t), one) \in Texts /\ Then(Before(t), r) \in Texts
  BY <1>4, <1>6, <1>7, ThenAppends DEF Texts
<1>16. \A a, b \in Texts : Subst(g, Then(a, b)) = Then(Subst(g, a), Subst(g, b))
  BY <1>10, SubstConcat DEF Texts
<1>17. Subst(g, t) = Then(Then(Subst(g, Before(t)), r), Subst(g, After(t)))
  BY <1>4, <1>6, <1>14, <1>15, <1>16
<1>18. Subst(g, w.text) = Then(Then(Subst(g, Before(t)), r), Subst(g, After(t)))
  BY <1>4, <1>7, <1>8, <1>12, <1>15, <1>16
<1>19. Subst(g, w.text) = Subst(g, t) BY <1>17, <1>18
<1>20. ~NoText(c, u.name) /\ Subst(g, t) = Subst(g, Begins(u.name, c))
  <2>1. u.text # None BY <1>3, TextIsThere DEF t
  <2>. QED BY <2>1 DEF Right, t, g, V
<1>21. \A p \in Needs(c, u.name) : Ends(c, p) \/ p \in Used(w.text)
  BY <1>1, <1>2 DEF Right, t, x
<1>. QED BY <1>2, <1>13, <1>19, <1>20, <1>21 DEF Right, g, V

-----------------------------------------------------------------------------
LEMMA RightOn == TypeInv /\ UNCHANGED vars =>
  \A c \in node, n \in Names :
    /\ \A f \in Frame : Right(c, f)' <=> Right(c, f)
    /\ \A s \in Seq(Frame) : RightAll(c, s)' <=> RightAll(c, s)
    /\ \A s \in Seq(Frame) : WayOf(c, n, s)' <=> WayOf(c, n, s)
    /\ Solvable(c, n)' <=> Solvable(c, n)
    /\ \A a : RightAnswer(c, n, a)' <=> RightAnswer(c, n, a)
<1>. SUFFICES ASSUME TypeInv, UNCHANGED vars, NEW c \in node, NEW n \in Names
              PROVE  /\ \A f \in Frame : Right(c, f)' <=> Right(c, f)
                     /\ \A s \in Seq(Frame) : RightAll(c, s)' <=> RightAll(c, s)
                     /\ \A s \in Seq(Frame) : WayOf(c, n, s)' <=> WayOf(c, n, s)
                     /\ Solvable(c, n)' <=> Solvable(c, n)
                     /\ \A a : RightAnswer(c, n, a)' <=> RightAnswer(c, n, a)
  OBVIOUS
<1>1. ValueIn(c)' = ValueIn(c) BY ValuesOn
<1>2. \A m \in Names : /\ Begins(m, c)' = Begins(m, c) /\ NoText(c, m)' = NoText(c, m)
                       /\ Needs(c, m)' = Needs(c, m)
  BY NeedsOn
<1>3. \A m \in Names : Ends(c, m)' = Ends(c, m) /\ Reach(c, m)' = Reach(c, m) BY LoopsOn
<1>4. Cyclic(c, n)' = Cyclic(c, n) /\ Complete(c, n)' = Complete(c, n)
      /\ Computable(c, n)' = Computable(c, n)
  BY LoopsOn
<1>5. ASSUME NEW f \in Frame PROVE Right(c, f)' <=> Right(c, f)
  <2>1. f.name \in Names BY DEF Frame
  <2>2. Needs(c, f.name) \subseteq Names BY NeedsNames
  <2>3. \A p \in Needs(c, f.name) : Ends(c, p)' = Ends(c, p) BY <1>3, <2>2
  <2>4. /\ Begins(f.name, c)' = Begins(f.name, c) /\ NoText(c, f.name)' = NoText(c, f.name)
        /\ Needs(c, f.name)' = Needs(c, f.name)
    BY <1>2, <2>1
  <2>. QED BY <1>1, <2>3, <2>4 DEF Right
<1>6. ASSUME NEW s \in Seq(Frame)
      PROVE  (RightAll(c, s)' <=> RightAll(c, s)) /\ (WayOf(c, n, s)' <=> WayOf(c, n, s))
  <2>1. \A i \in 1 .. Len(s) : s[i] \in Frame BY ElementOfSeq
  <2>2. \A i \in 1 .. Len(s) : s[i].name \in Names BY <2>1 DEF Frame
  <2>3. \A i \in 1 .. Len(s) : Right(c, s[i])' <=> Right(c, s[i]) BY <1>5, <2>1
  <2>4. \A i \in 1 .. Len(s) : Reach(c, s[i].name)' = Reach(c, s[i].name) BY <1>3, <2>2
  <2>. QED BY <2>3, <2>4 DEF RightAll, WayOf
<1>7. Solvable(c, n)' <=> Solvable(c, n) BY <1>4 DEF Solvable
<1>8. \A a : RightAnswer(c, n, a)' <=> RightAnswer(c, n, a) BY <1>1, <1>4, <1>7 DEF RightAnswer
<1>. QED BY <1>5, <1>6, <1>7, <1>8

LEMMA AnswerIs == AnswersAreValues <=> (Answered => RightAnswer(asked.context, asked.name, answer))
BY DEF AnswersAreValues, RightAnswer, Solvable

(* What is to be shown of a step of an expansion.                          *)
Fits(c, n, s, a) ==
  /\ WayOf(c, n, s) /\ (Solvable(c, n) => RightAll(c, s))
  /\ s = <<>> => RightAnswer(c, n, a)

LEMMA StepFits ==
  ASSUME TypeInv, QuestionInv', IInv', UNCHANGED vars, asked' \in Question,
         NEW c, NEW n, asked'.context = c, asked'.name = n,
         NEW s, stack' = s, NEW a, answer' = a, Fits(c, n, s, a)
  PROVE  AnswerInv'
<1>1. node' = node BY DEF vars, tree
<1>2. c \in node /\ n \in Names BY DEF Question
<1>3. s \in Seq(Frame) BY DEF QuestionInv, TypeInvV
<1>4. /\ RightAll(c, s)' <=> RightAll(c, s)
      /\ WayOf(c, n, s)' <=> WayOf(c, n, s)
      /\ Solvable(c, n)' <=> Solvable(c, n)
      /\ RightAnswer(c, n, a)' <=> RightAnswer(c, n, a)
  BY <1>2, <1>3, RightOn
<1>5. Way' BY <1>4 DEF Way, Fits
<1>6. (Solvable(asked.context, asked.name) => RightAll(asked.context, stack))'
  BY <1>4 DEF Fits
<1>7. AnswersAreValues'
  <2>1. (AnswersAreValues <=> (Answered => RightAnswer(asked.context, asked.name, answer)))'
    BY AnswerIs, PTL
  <2>2. (Answered => RightAnswer(asked.context, asked.name, answer))'
    BY <1>4 DEF Fits, Answered
  <2>. QED BY <2>1, <2>2
<1>. QED BY <1>5, <1>6, <1>7 DEF AnswerInv

(* Where nothing is asked there is nothing to show.                        *)
LEMMA NothingAsked == ASSUME QuestionInv', IInv', asked' = None, stack' = <<>> PROVE AnswerInv'
<1>1. Len(stack') = 0 BY EmptySeq
<1>2. 1 .. Len(stack') = {} BY <1>1
<1>3. AnswersAreValues' BY DEF AnswersAreValues, Answered
<1>. QED BY <1>2, <1>3 DEF AnswerInv, Way, WayOf, RightAll

(* An answer.                                                              *)
LEMMA FitsAnswer ==
  ASSUME NEW c, NEW n, NEW a, RightAnswer(c, n, a)
  PROVE  Fits(c, n, <<>>, a)
<1>1. Len(<<>>) = 0 BY EmptySeq
<1>2. 1 .. Len(<<>>) = {} BY <1>1
<1>. QED BY <1>2 DEF Fits, WayOf, RightAll

LEMMA RightError ==
  ASSUME NEW c, NEW n, NEW e, IF e = "loop" THEN Cyclic(c, n) ELSE ~Solvable(c, n)
  PROVE  RightAnswer(c, n, Error(e))
<1>1. Error(e) = Error("loop") => e = "loop" BY DEF Error
<1>. QED BY <1>1 DEF RightAnswer

LEMMA FitsAsk ==
  ASSUME TypeInv, NEW c \in node, NEW n \in Names, NEW mode, Ask(c, n, mode)
  PROVE  Fits(c, n, stack', answer')
<1>1. CASE Enters(n, c)
  <2>. DEFINE e == Entered(n, c)
              s == <<e>>
  <2>1. e.name = n /\ Right(c, e) /\ Used(e.text) \subseteq Reach(c, n)
    BY RightEntered DEF Ask, Entered
  <2>2. stack' = s BY <1>1 DEF Ask
  <2>. HIDE DEF e
  <2>3. Len(s) = 1 /\ s[1] = e /\ s # <<>> OBVIOUS
  <2>. HIDE DEF s
  <2>4. \A i \in 1 .. Len(s) : i = 1 /\ i + 1 .. Len(s) = {} BY <2>3
  <2>. QED BY <2>1, <2>2, <2>3, <2>4 DEF Fits, WayOf, RightAll
<1>2. CASE ~Enters(n, c)
  <2>1. stack' = <<>> /\ answer' = Error("not callable") BY <1>2 DEF Ask
  <2>2. ~Solvable(c, n) BY <1>2 DEF Solvable, Computable, Involved
  <2>3. RightAnswer(c, n, Error("not callable")) BY <2>2, RightError
  <2>. QED BY <2>1, <2>3, FitsAnswer
<1>. QED BY <1>1, <1>2

LEMMA FitsLoop ==
  ASSUME AnswerInv, Loop
  PROVE  Fits(asked.context, asked.name, stack', answer')
<1>1. Cyclic(asked.context, asked.name) BY LoopIsCyclic DEF AnswerInv, QuestionInv
<1>2. stack' = <<>> /\ answer' = Error("loop") BY DEF Loop, Give
<1>. QED BY <1>1, <1>2, RightError, FitsAnswer

LEMMA LengthOf == ASSUME NEW S, NEW s \in Seq(S), Len(s) # 0 PROVE s # <<>>
BY EmptySeq

LEMMA FitsMissing ==
  ASSUME AnswerInv, Missing
  PROVE  Fits(asked.context, asked.name, stack', answer')
<1>. DEFINE c == asked.context
            n == asked.name
            len == Len(stack)
<1>1. TypeInvV /\ Way /\ Searching BY DEF AnswerInv, QuestionInv, Missing
<1>2. ~Solvable(c, n)
  <2>1. NextName \in Involved(c, n) /\ find_variable(c, NextName) = None
    BY <1>1, NextOnTheWay DEF Missing, Finds
  <2>. QED BY <2>1 DEF Solvable, Complete
<1>3. CASE Raises
  <2>1. stack' = <<>> /\ answer' = Error("unable") BY <1>3 DEF Missing, Give
  <2>2. RightAnswer(c, n, Error("unable")) BY <1>2, RightError
  <2>. QED BY <2>1, <2>2, FitsAnswer
<1>4. CASE ~Raises
  <2>1. /\ stack' \in Seq(Frame) /\ Len(stack') = len
        /\ \A i \in 1 .. len : i # len => stack'[i] = stack[i]
        /\ stack'[len].name = Top.name /\ stack'[len].text = Allowed(Top.text)
        /\ len \in Nat \ {0}
    BY <1>1, <1>4, Missed
  <2>2. Used(Allowed(Top.text)) \subseteq Used(Top.text) BY DEF Allowed, Used, Patterns
  <2>3. stack' # <<>> BY <2>1, LengthOf
  <2>4. \A i \in 1 .. len : /\ stack'[i].name = stack[i].name
                            /\ Used(stack'[i].text) \subseteq Used(stack[i].text)
    BY <2>1, <2>2 DEF Top
  <2>5. WayOf(c, n, stack')
    <3>1. WayOf(c, n, stack) BY <1>1 DEF Way
    <3>2. \A i \in 1 .. len : \A j \in i + 1 .. len : j \in 1 .. len BY <2>1
    <3>. QED BY <2>1, <2>4, <3>1, <3>2 DEF WayOf
  <2>. QED BY <1>2, <2>3, <2>5 DEF Fits
<1>. QED BY <1>3, <1>4

LEMMA FitsExpand ==
  ASSUME AnswerInv, Expand
  PROVE  Fits(asked.context, asked.name, stack', answer')
<1>. DEFINE c == asked.context
            n == asked.name
            len == Len(stack)
            e == Entered(NextName, c)
<1>1. TypeInvV /\ TypeInv /\ Way /\ Searching BY DEF AnswerInv, QuestionInv, Expand, TypeInvV
<1>2. /\ NextName \in Names /\ asked \in Question /\ len \in Nat \ {0}
      /\ \A i \in 1 .. len : NextName \in Reach(c, stack[i].name)
      /\ NextName \in Involved(c, n)
  BY <1>1, NextOnTheWay
<1>3. CASE ~Enters(NextName, c)
  <2>1. stack' = <<>> /\ answer' = Error("not callable") BY <1>3 DEF Expand, Give
  <2>2. ~Solvable(c, n) BY <1>2, <1>3 DEF Solvable, Computable
  <2>3. RightAnswer(c, n, Error("not callable")) BY <2>2, RightError
  <2>. QED BY <2>1, <2>3, FitsAnswer
<1>4. CASE Enters(NextName, c)
  <2>1. /\ stack' \in Seq(Frame) /\ Len(stack') = len + 1
        /\ \A i \in 1 .. len : stack'[i] = stack[i]
        /\ stack'[len + 1] = e /\ e.name = NextName
    BY <1>1, <1>4, CalledInto
  <2>2. c \in node /\ find_variable(c, NextName) # None BY <1>2 DEF Question, Expand, Finds
  <2>3. Right(c, e) /\ Used(e.text) \subseteq Reach(c, NextName)
    BY <1>1, <1>2, <2>2, RightEntered
  <2>. HIDE DEF e
  <2>4. stack' # <<>> BY <1>2, <2>1, LengthOf
  <2>5. WayOf(c, n, stack')
    <3>1. WayOf(c, n, stack) BY <1>1 DEF Way
    <3>. SUFFICES ASSUME NEW i \in 1 .. len + 1
                  PROVE  /\ i = 1 => stack'[i].name = n
                         /\ Used(stack'[i].text) \subseteq Reach(c, stack'[i].name)
                         /\ \A j \in i + 1 .. len + 1 : stack'[j].name \in Reach(c, stack'[i].name)
      BY <2>1 DEF WayOf
    <3>2. CASE i = len + 1
      <4>1. i # 1 /\ i + 1 .. len + 1 = {} BY <1>2, <3>2
      <4>. QED BY <2>1, <2>3, <3>2, <4>1
    <3>3. CASE i # len + 1
      <4>1. i \in 1 .. len /\ stack'[i] = stack[i] BY <1>2, <2>1, <3>3
      <4>2. \A j \in i + 1 .. len + 1 : j = len + 1 \/ (j \in i + 1 .. len /\ j \in 1 .. len)
        BY <1>2, <4>1
      <4>3. ASSUME NEW j \in i + 1 .. len + 1 PROVE stack'[j].name \in Reach(c, stack'[i].name)
        <5>1. CASE j = len + 1 BY <1>2, <2>1, <4>1, <5>1
        <5>2. CASE j # len + 1
          <6>1. j \in i + 1 .. len /\ j \in 1 .. len BY <4>2, <5>2
          <6>2. stack[j].name \in Reach(c, stack[i].name) BY <3>1, <4>1, <6>1 DEF WayOf
          <6>. QED BY <2>1, <4>1, <6>1, <6>2
        <5>. QED BY <5>1, <5>2
      <4>4. /\ i = 1 => stack[i].name = n
            /\ Used(stack[i].text) \subseteq Reach(c, stack[i].name)
        BY <3>1, <4>1 DEF WayOf
      <4>. QED BY <4>1, <4>3, <4>4
    <3>. QED BY <3>2, <3>3
  <2>6. ASSUME Solvable(c, n) PROVE RightAll(c, stack')
    <3>1. RightAll(c, stack) BY <2>6 DEF AnswerInv
    <3>2. \A i \in 1 .. len + 1 : i \in 1 .. len \/ i = len + 1 BY <1>2
    <3>. QED BY <2>1, <2>3, <3>1, <3>2 DEF RightAll
  <2>. QED BY <2>4, <2>5, <2>6 DEF Fits
<1>. QED BY <1>3, <1>4

(* The outermost call returns.                                             *)
LEMMA FitsFirst ==
  ASSUME AnswerInv, Return, Len(stack) = 1
  PROVE  Fits(asked.context, asked.name, stack', answer')
<1>. DEFINE c == asked.context
            n == asked.name
            a == IF Top.text = None THEN Fresh ELSE Text(Top.text)
<1>1. TypeInvV /\ TypeInv /\ Way BY DEF AnswerInv, QuestionInv, TypeInvV
<1>2. stack # <<>> BY DEF Return
<1>3. Top \in Frame /\ asked \in Question BY <1>1, <1>2, TopFrame DEF TypeInvV
<1>4. stack' = <<>> /\ answer' = a BY DEF Return, Give
<1>5. Top.name = n
  <2>1. 1 \in 1 .. Len(stack) OBVIOUS
  <2>. QED BY <1>1, <2>1 DEF Way, WayOf, Top
<1>6. a # Error("loop") BY DEF Fresh, Text, Error
<1>7. ASSUME Solvable(c, n) PROVE Ends(c, n) /\ Top.text = ValueIn(c)[n]
  <2>1. Right(c, Top)
    <3>1. 1 \in 1 .. Len(stack) OBVIOUS
    <3>. QED BY <1>7, <3>1 DEF AnswerInv, RightAll, Top
  <2>2. Used(Top.text) = {}
    <3>1. CASE Top.done BY <2>1, <3>1 DEF Right
    <3>2. CASE ~Top.done BY <3>2 DEF Return, Used
    <3>. QED BY <3>1, <3>2
  <2>3. c \in node BY <1>3 DEF Question
  <2>. QED BY <1>1, <1>3, <1>5, <2>1, <2>2, <2>3, ReturnedValue
<1>8. RightAnswer(c, n, a) BY <1>6, <1>7 DEF RightAnswer, Ends
<1>. QED BY <1>4, <1>8, FitsAnswer

(* Another returns to the one that made it.                                *)
LEMMA FitsReturn ==
  ASSUME AnswerInv, Return, Len(stack) # 1
  PROVE  Fits(asked.context, asked.name, stack', answer')
<1>. DEFINE c == asked.context
            n == asked.name
            len == Len(stack)
            w == stack'[len - 1]
<1>1. TypeInvV /\ TypeInv /\ CallsInv /\ Way BY DEF AnswerInv, QuestionInv, TypeInvV
<1>2. /\ len \in Nat /\ len > 1 /\ asked \in Question
      /\ Top \in Frame /\ Upper \in Frame
      /\ stack' \in Seq(Frame) /\ Len(stack') = len - 1
      /\ \A i \in 1 .. len - 1 : i # len - 1 => stack'[i] = stack[i]
      /\ w \in Frame /\ Becomes(Upper, Top, w)
  BY <1>1, Returned DEF Becomes, Result
<1>3. stack' # <<>> BY <1>2, LengthOf
<1>. HIDE DEF w
<1>4. /\ Used(w.text) \subseteq Used(Upper.text) \cup Used(Top.text)
      /\ Top.name \in Used(Upper.text) /\ w.name = Upper.name
  <2>1. Becomes(Upper, Top, w) /\ Upper \in Frame /\ Top \in Frame /\ w \in Frame BY <1>2
  <2>2. /\ Used(w.text) \subseteq Used(Upper.text) \cup Used(Top.text)
        /\ Top.name \in Used(Upper.text)
    BY <2>1, UsedByBoth
  <2>. QED BY <2>1, <2>2 DEF Becomes
<1>5. WayOf(c, n, stack) BY <1>1 DEF Way
<1>6. /\ len - 1 \in 1 .. len /\ len \in 1 .. len /\ len \in len - 1 + 1 .. len
      /\ \A i \in 1 .. len - 1 : i \in 1 .. len /\ \A j \in i + 1 .. len - 1 : j \in i + 1 .. len
                                                   /\ j \in 1 .. len - 1
  BY <1>2
<1>7. Used(w.text) \subseteq Reach(c, Upper.name)
  <2>1. Used(Upper.text) \subseteq Reach(c, Upper.name) BY <1>5, <1>6 DEF WayOf, Upper
  <2>2. Used(Top.text) \subseteq Reach(c, Top.name) BY <1>5, <1>6 DEF WayOf, Top
  <2>3. Reach(c, Top.name) \subseteq Reach(c, Upper.name) BY <1>4, <2>1, ReachOn
  <2>. QED BY <1>4, <2>1, <2>2, <2>3
<1>8. WayOf(c, n, stack')
  <2>1. \A i \in 1 .. len - 1 :
          /\ stack'[i].name = stack[i].name
          /\ Used(stack'[i].text) \subseteq Reach(c, stack[i].name)
    <3>. SUFFICES ASSUME NEW i \in 1 .. len - 1
                  PROVE  /\ stack'[i].name = stack[i].name
                         /\ Used(stack'[i].text) \subseteq Reach(c, stack[i].name)
      OBVIOUS
    <3>1. CASE i = len - 1 BY <1>4, <1>7, <3>1 DEF Upper, w
    <3>2. CASE i # len - 1
      <4>1. stack'[i] = stack[i] /\ i \in 1 .. len BY <1>2, <1>6, <3>2
      <4>. QED BY <1>5, <4>1 DEF WayOf
    <3>. QED BY <3>1, <3>2
  <2>2. \A i \in 1 .. len - 1 : i = 1 => stack[i].name = n BY <1>5, <1>6 DEF WayOf
  <2>3. \A i \in 1 .. len - 1 : \A j \in i + 1 .. len - 1 : stack'[j].name \in Reach(c, stack[i].name)
    BY <1>5, <1>6, <2>1 DEF WayOf
  <2>. QED BY <1>2, <2>1, <2>2, <2>3 DEF WayOf
<1>9. ASSUME Solvable(c, n) PROVE RightAll(c, stack')
  <2>1. RightAll(c, stack) BY <1>9 DEF AnswerInv
  <2>2. Right(c, Top) /\ Right(c, Upper) BY <1>6, <2>1 DEF RightAll, Top, Upper
  <2>3. Used(Top.text) = {}
    <3>1. CASE Top.done BY <2>2, <3>1 DEF Right
    <3>2. CASE ~Top.done BY <3>2 DEF Return, Used
    <3>. QED BY <3>1, <3>2
  <2>4. c \in node BY <1>2 DEF Question
  <2>5. Right(c, w) BY <1>1, <1>2, <2>2, <2>3, <2>4, RightSpliced
  <2>6. \A i \in 1 .. len - 1 : stack'[i] = w \/ (i \in 1 .. len /\ stack'[i] = stack[i])
    BY <1>2, <1>6 DEF w
  <2>. QED BY <1>2, <2>1, <2>5, <2>6 DEF RightAll
<1>. QED BY <1>3, <1>8, <1>9 DEF Fits

-----------------------------------------------------------------------------
LEMMA InitAnswers == InitV => AnswerInv
<1>. SUFFICES ASSUME InitV PROVE AnswerInv
  OBVIOUS
<1>1. QuestionInv /\ IInv BY InitQuestion, InitKeeps
<1>2. asked = None /\ Len(stack) = 0 BY EmptySeq DEF InitV, InitExpansion
<1>3. 1 .. Len(stack) = {} BY <1>2
<1>4. AnswersAreValues BY <1>2 DEF AnswersAreValues, Answered
<1>. QED BY <1>1, <1>3, <1>4 DEF AnswerInv, Way, WayOf, RightAll

LEMMA NextAnswers == AnswerInv /\ [NextV]_varsV => AnswerInv'
<1>. SUFFICES ASSUME AnswerInv, [NextV]_varsV PROVE AnswerInv'
  OBVIOUS
<1>1. QuestionInv' /\ IInv' BY NextQuestion, NextKeeps DEF AnswerInv
<1>2. TypeInvV /\ TypeInv BY DEF AnswerInv, QuestionInv, TypeInvV
<1>3. ASSUME UNCHANGED vars, asked' \in Question,
             Fits(asked'.context, asked'.name, stack', answer')
      PROVE  AnswerInv'
  <2>1. PICK c : asked'.context = c OBVIOUS
  <2>2. PICK n : asked'.name = n OBVIOUS
  <2>3. PICK s : stack' = s OBVIOUS
  <2>4. PICK a : answer' = a OBVIOUS
  <2>5. Fits(c, n, s, a) BY <1>3, <2>1, <2>2, <2>3, <2>4
  <2>. QED BY <1>1, <1>2, <1>3, <2>1, <2>2, <2>3, <2>4, <2>5, StepFits
<1>4. CASE Expansion
  <2>1. UNCHANGED <<vars, asked>>
    BY <1>4 DEF Expansion, Loop, Missing, Expand, Return, Give
  <2>2. stack # <<>> BY <1>4 DEF Expansion, Loop, Missing, Expand, Return, Searching
  <2>3. asked \in Question BY <1>2, <2>2 DEF TypeInvV
  <2>4. Fits(asked.context, asked.name, stack', answer')
    BY <1>4, FitsLoop, FitsMissing, FitsExpand, FitsFirst, FitsReturn DEF Expansion
  <2>5. node' = node BY <2>1 DEF vars, tree
  <2>. QED BY <1>3, <2>1, <2>3, <2>4, <2>5
<1>5. ASSUME NEW q \in shape.asks, q[1] \in node, Ask(q[1], q[2], q[3]) PROVE AnswerInv'
  <2>1. q[2] \in Names /\ q[3] \in Modes BY <1>2, AsksTyped
  <2>2. UNCHANGED vars /\ asked' = [context |-> q[1], name |-> q[2], mode |-> q[3]]
    BY <1>5 DEF Ask
  <2>3. asked' \in Question BY <1>5, <2>1, <2>2 DEF Question
  <2>4. Fits(q[1], q[2], stack', answer') BY <1>2, <1>5, <2>1, FitsAsk
  <2>. QED BY <1>3, <2>2, <2>3, <2>4
<1>6. CASE asked = None /\ UNCHANGED question
  <2>1. asked' = None /\ stack' = <<>> BY <1>2, <1>6 DEF question, TypeInvV
  <2>. QED BY <1>1, <2>1, NothingAsked
<1>7. CASE asked # None /\ UNCHANGED varsV
  <2>1. UNCHANGED vars /\ UNCHANGED <<asked, stack, answer>> BY <1>7 DEF varsV, question
  <2>2. asked \in Question BY <1>2, <1>7 DEF TypeInvV
  <2>3. Fits(asked.context, asked.name, stack, answer)
    BY <1>7, AnswerIs DEF AnswerInv, Way, Fits, Answered
  <2>. QED BY <1>3, <2>1, <2>2, <2>3
<1>8. CASE UNCHANGED varsV BY <1>6, <1>7, <1>8 DEF varsV
<1>. QED BY <1>4, <1>5, <1>6, <1>8 DEF NextV

(* _ComputableValue.expand: where nothing that is needed is missing, the   *)
(* answer is the value of the variable if no loop is reached and the error *)
(* if one is; the error is never given where there is no loop.             *)
THEOREM AnswersAreAlwaysValues == SpecV => []AnswersAreValues
<1>1. AnswerInv => AnswersAreValues BY DEF AnswerInv
<1>. QED BY <1>1, InitAnswers, NextAnswers, PTL DEF SpecV
=============================================================================

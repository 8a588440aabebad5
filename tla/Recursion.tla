------------------------------ MODULE Recursion ------------------------------
(***************************************************************************)
(* Induction and recursive functions, stated with sets and functions, as   *)
(* the provers can use them: a set of numbers has a least element, and a   *)
(* function that is defined at q by its value at up[q], which has a lower  *)
(* rank, is what its definition says. With them, what FlattenSeq does and  *)
(* what becomes of a sequence that has each of its elements replaced by a  *)
(* sequence. At the end the same for what is built from several parts: a   *)
(* function on trees, defined by the union of its values at the parts.     *)
(***************************************************************************)
EXTENDS Naturals, SequencesExt, SequenceTheorems, WellFoundedInduction, TLAPS

(* The least number of a set.                                              *)
LEMMA Least ==
  ASSUME NEW T, T \subseteq Nat, T # {}
  PROVE  \E m \in T : \A n \in T : m <= n
<1>. DEFINE R == OpToRel(<, Nat)
<1>1. IsWellFoundedOn(R, Nat) BY NatLessThanWellFounded
<1>2. \A m, n \in Nat : m < n => <<m, n>> \in R
  BY DEF OpToRel
<1>. HIDE DEF R
<1>3. PICK m \in T : \A n \in T : <<n, m>> \notin R BY <1>1, WFMin
<1>4. \A n \in T : ~(n < m) BY <1>2, <1>3
<1>5. \A n \in T : m <= n BY <1>4
<1>. QED BY <1>5

(* Induction: a set that has 0 and with n has n + 1 has every number.      *)
LEMMA Induction ==
  ASSUME NEW T, 0 \in T, \A n \in Nat : n \in T => n + 1 \in T
  PROVE  Nat \subseteq T
<1>. DEFINE F == Nat \ T
<1>. SUFFICES ASSUME F # {} PROVE FALSE
  OBVIOUS
<1>1. PICK m \in F : \A n \in F : m <= n BY Least
<1>2. m \in Nat /\ m # 0 BY <1>1
<1>3. m - 1 \in Nat /\ m - 1 < m BY <1>2
<1>4. m - 1 \in T BY <1>1, <1>3
<1>5. (m - 1) + 1 \in T BY <1>3, <1>4
<1>. QED BY <1>1, <1>2, <1>5

(* A function on S, T its values, that is B on Base and elsewhere H of the *)
(* value at up, of a lower rank.                                           *)
Descends(S, Base, up, rank) ==
  /\ rank \in [S -> Nat]
  /\ \A q \in S \ Base : up[q] \in S /\ rank[up[q]] < rank[q]
Step(S, Base, up, B, H, f) == [q \in S |-> IF q \in Base THEN B[q] ELSE H[<<q, f[up[q]]>>]]


(* Two that are so below n agree below n.                                  *)
Upto(S, Base, up, rank, B, H, n, f) ==
  \A q \in S : rank[q] < n => f[q] = IF q \in Base THEN B[q] ELSE H[<<q, f[up[q]]>>]

LEMMA UptoUnique ==
  ASSUME NEW S, NEW Base, NEW up, NEW rank, Descends(S, Base, up, rank),
         NEW B, NEW H, NEW n \in Nat, NEW f, NEW g,
         Upto(S, Base, up, rank, B, H, n, f), Upto(S, Base, up, rank, B, H, n, g)
  PROVE  \A q \in S : rank[q] < n => f[q] = g[q]
<1>. DEFINE Differ == {rank[q] : q \in {x \in S : rank[x] < n /\ f[x] # g[x]}}
<1>. SUFFICES ASSUME Differ # {} PROVE FALSE
  OBVIOUS
<1>1. Differ \subseteq Nat BY DEF Descends
<1>2. PICK m \in Differ : \A k \in Differ : m <= k BY <1>1, Least
<1>3. PICK q \in S : rank[q] = m /\ m < n /\ f[q] # g[q] BY <1>2
<1>4. q \notin Base BY <1>3 DEF Upto
<1>5. up[q] \in S /\ rank[up[q]] < m /\ rank[up[q]] \in Nat BY <1>3, <1>4 DEF Descends
<1>6. m \in Nat /\ rank[up[q]] < n BY <1>1, <1>3, <1>5
<1>7. f[up[q]] # g[up[q]] BY <1>3, <1>4 DEF Upto
<1>8. rank[up[q]] \in Differ BY <1>5, <1>6, <1>7
<1>. QED BY <1>2, <1>5, <1>6, <1>8

(* There is one, if its definition leads from values in T to values in T.  *)
Recursive(S, Base, up, rank, T, B, H) ==
  /\ Descends(S, Base, up, rank)
  /\ \A q \in S \cap Base : B[q] \in T
  /\ \A q \in S \ Base, v \in T : H[<<q, v>>] \in T

LEMMA RecursiveFunction ==
  ASSUME NEW S, NEW Base, NEW up, NEW rank, NEW T, NEW B, NEW H,
         Recursive(S, Base, up, rank, T, B, H)
  PROVE  \E f \in [S -> T] : f = Step(S, Base, up, B, H, f)
<1>. USE DEF Recursive
<1>. DEFINE U(n, f) == Upto(S, Base, up, rank, B, H, n, f)
            Ns == {n \in Nat : \E f \in [S -> T] : U(n, f)}
<1>1. CASE T = {}
  <2>1. S = {}
    <3>. SUFFICES ASSUME S # {} PROVE FALSE
      OBVIOUS
    <3>. DEFINE Ranks == {rank[q] : q \in S}
    <3>1. Ranks \subseteq Nat /\ Ranks # {} BY DEF Descends
    <3>2. PICK m \in Ranks : \A k \in Ranks : m <= k BY <3>1, Least
    <3>3. PICK q \in S : rank[q] = m BY <3>2
    <3>4. q \notin Base BY <1>1
    <3>5. up[q] \in S /\ rank[up[q]] < m /\ rank[up[q]] \in Nat /\ m \in Nat
      BY <3>3, <3>4 DEF Descends
    <3>6. rank[up[q]] \in Ranks BY <3>5
    <3>. QED BY <3>2, <3>5, <3>6
  <2>2. Step(S, Base, up, B, H, [q \in S |-> q]) = [q \in S |-> q] /\ [q \in S |-> q] \in [S -> T]
    BY <2>1 DEF Step
  <2>. QED BY <2>2, Zenon
<1>2. CASE T # {}
  <2>1. 0 \in Ns
    <3>1. PICK v : v \in T BY <1>2
    <3>2. [q \in S |-> v] \in [S -> T] BY <3>1
    <3>3. U(0, [q \in S |-> v]) BY DEF Upto, Descends
    <3>4. \E f \in [S -> T] : U(0, f) BY <3>2, <3>3, Zenon
    <3>. QED BY <3>4
  <2>2. ASSUME NEW n \in Nat, n \in Ns PROVE n + 1 \in Ns
    <3>1. PICK f \in [S -> T] : U(n, f) BY <2>2
    <3>. DEFINE g == Step(S, Base, up, B, H, f)
    <3>2. g \in [S -> T]
      <4>1. \A q \in S : (IF q \in Base THEN B[q] ELSE H[<<q, f[up[q]]>>]) \in T
        BY DEF Descends
      <4>. QED BY <4>1 DEF Step
    <3>3. ASSUME NEW q \in S, rank[q] < n + 1
          PROVE  g[q] = IF q \in Base THEN B[q] ELSE H[<<q, g[up[q]]>>]
      <4>1. g[q] = IF q \in Base THEN B[q] ELSE H[<<q, f[up[q]]>>] BY DEF Step
      <4>2. ASSUME q \notin Base PROVE g[up[q]] = f[up[q]]
        <5>1. up[q] \in S /\ rank[up[q]] < n
          <6>1. up[q] \in S /\ rank[up[q]] < rank[q] /\ rank[up[q]] \in Nat /\ rank[q] \in Nat
            BY <4>2 DEF Descends
          <6>. QED BY <3>3, <6>1
        <5>2. f[up[q]] = IF up[q] \in Base THEN B[up[q]] ELSE H[<<up[q], f[up[up[q]]]>>]
          BY <3>1, <5>1 DEF Upto
        <5>3. g[up[q]] = IF up[q] \in Base THEN B[up[q]] ELSE H[<<up[q], f[up[up[q]]]>>]
          BY <5>1 DEF Step
        <5>. QED BY <5>2, <5>3
      <4>. HIDE DEF g
      <4>. QED BY <4>1, <4>2
    <3>. HIDE DEF g
    <3>4. U(n + 1, g) BY <3>3 DEF Upto
    <3>5. \E h \in [S -> T] : U(n + 1, h) BY <3>2, <3>4, Zenon
    <3>. QED BY <3>5
  <2>3. \A n \in Nat : \E f \in [S -> T] : U(n, f)
    <3>. HIDE DEF U
    <3>1. \A n \in Nat : n \in Ns => n + 1 \in Ns BY <2>2
    <3>2. Nat \subseteq Ns BY <2>1, <3>1, Induction
    <3>. QED BY <3>2
  <2>. DEFINE F(n) == CHOOSE f \in [S -> T] : U(n, f)
              h == [q \in S |-> F(rank[q] + 1)[q]]
  <2>4. \A n \in Nat : F(n) \in [S -> T] /\ U(n, F(n))
    <3>. HIDE DEF U
    <3>. QED BY <2>3
  <2>. HIDE DEF F
  <2>5. h \in [S -> T]
    <3>1. \A q \in S : rank[q] + 1 \in Nat BY DEF Descends
    <3>. QED BY <2>4, <3>1
  <2>6. ASSUME NEW q \in S
        PROVE  h[q] = IF q \in Base THEN B[q] ELSE H[<<q, h[up[q]]>>]
    <3>1. rank[q] \in Nat /\ rank[q] + 1 \in Nat /\ rank[q] < rank[q] + 1 BY DEF Descends
    <3>2. h[q] = IF q \in Base THEN B[q] ELSE H[<<q, F(rank[q] + 1)[up[q]]>>]
      BY <2>4, <3>1 DEF Upto
    <3>3. ASSUME q \notin Base PROVE h[up[q]] = F(rank[q] + 1)[up[q]]
      <4>1. up[q] \in S /\ rank[up[q]] < rank[q] /\ rank[up[q]] \in Nat
        BY <3>3 DEF Descends
      <4>2. rank[up[q]] + 1 \in Nat /\ rank[up[q]] < rank[up[q]] + 1
            /\ \A k \in Nat : k < rank[up[q]] + 1 => k < rank[q] + 1
        BY <3>1, <4>1
      <4>3. U(rank[up[q]] + 1, F(rank[q] + 1))
        <5>1. U(rank[q] + 1, F(rank[q] + 1)) BY <2>4, <3>1
        <5>2. \A x \in S : rank[x] \in Nat BY DEF Descends
        <5>. QED BY <4>2, <5>1, <5>2 DEF Upto
      <4>4. U(rank[up[q]] + 1, F(rank[up[q]] + 1)) BY <2>4, <4>2
      <4>5. F(rank[up[q]] + 1)[up[q]] = F(rank[q] + 1)[up[q]]
        <5>. DEFINE k == rank[up[q]] + 1
                    f == F(rank[q] + 1)
                    g == F(rank[up[q]] + 1)
        <5>1. k \in Nat /\ rank[up[q]] < k BY <4>2
        <5>2. U(k, f) /\ U(k, g) BY <4>3, <4>4
        <5>. HIDE DEF k, f, g
        <5>3. \A x \in S : rank[x] < k => f[x] = g[x] BY <5>1, <5>2, UptoUnique
        <5>4. f[up[q]] = g[up[q]] BY <4>1, <5>1, <5>3
        <5>. QED BY <5>4 DEF f, g
      <4>. QED BY <4>1, <4>5
    <3>. HIDE DEF h
    <3>. QED BY <3>2, <3>3
  <2>. HIDE DEF h
  <2>7. h = Step(S, Base, up, B, H, h) BY <2>5, <2>6 DEF Step
  <2>. QED BY <2>5, <2>7
<1>. QED BY <1>1, <1>2

-----------------------------------------------------------------------------
(* Induction on the positions of a sequence.                               *)
LEMMA Positions ==
  ASSUME NEW n \in Nat, NEW T, \A i \in 1 .. n : (i = 1 \/ i - 1 \in T) => i \in T
  PROVE  1 .. n \subseteq T
<1>. DEFINE Bad == (1 .. n) \ T
<1>. SUFFICES ASSUME Bad # {} PROVE FALSE
  OBVIOUS
<1>1. Bad \subseteq Nat OBVIOUS
<1>2. PICK m \in Bad : \A k \in Bad : m <= k BY <1>1, Least
<1>3. m \in 1 .. n /\ m # 1 /\ m - 1 \notin T BY <1>2
<1>4. m - 1 \in 1 .. n BY <1>3
<1>5. m - 1 \in Bad BY <1>3, <1>4
<1>. QED BY <1>2, <1>3, <1>5

Adds(n, s, f) == \A i \in 1 .. n : f[i] = IF i = 1 THEN s[i] ELSE f[i - 1] \o s[i]

LEMMA StepsAgree ==
  ASSUME NEW n \in Nat, NEW s, NEW f, NEW g, Adds(n, s, f), Adds(n, s, g)
  PROVE  \A i \in 1 .. n : f[i] = g[i]
<1>. USE DEF Adds
<1>. DEFINE T == {i \in 1 .. n : f[i] = g[i]}
<1>1. ASSUME NEW i \in 1 .. n, i = 1 \/ i - 1 \in T PROVE f[i] = g[i]
  <2>1. CASE i = 1 BY <2>1
  <2>2. CASE i # 1
    <3>1. f[i - 1] = g[i - 1] BY <1>1, <2>2
    <3>. QED BY <2>2, <3>1
  <2>. QED BY <2>1, <2>2
<1>2. \A i \in 1 .. n : (i = 1 \/ i - 1 \in T) => i \in T BY <1>1
<1>. HIDE DEF T
<1>3. 1 .. n \subseteq T BY <1>2, Positions
<1>. QED BY <1>3 DEF T

(* What FlattenSeq does, as the concatenation of one more sequence.        *)
LEMMA FlattenAlong ==
  ASSUME NEW U, NEW s \in Seq(Seq(U))
  PROVE  \E f \in [1 .. Len(s) -> Seq(U)] :
           /\ \A i \in 1 .. Len(s) : f[i] = IF i = 1 THEN s[i] ELSE f[i - 1] \o s[i]
           /\ Len(s) # 0 => FlattenSeq(s) = f[Len(s)]
<1>. DEFINE n == Len(s)
            flatten[i \in 1 .. n] == IF i = 1 THEN s[i] ELSE flatten[i - 1] \o s[i]
            I == 1 .. n
            up == [i \in I |-> i - 1]
            rank == [i \in I |-> i]
            T == Seq(U)
            H == [x \in I \X T |-> x[2] \o s[x[1]]]
<1>1. n \in Nat /\ \A i \in I : s[i] \in T BY LenProperties, ElementOfSeq
<1>2. \A x, y \in T : x \o y \in T BY ConcatProperties
<1>3. \E f \in [I -> T] : f = Step(I, {1}, up, s, H, f)
  <2>1. Descends(I, {1}, up, rank) BY <1>1 DEF Descends
  <2>2. \A i \in I \cap {1} : s[i] \in T BY <1>1
  <2>3. \A i \in I \ {1}, v \in T : H[<<i, v>>] \in T BY <1>1, <1>2
  <2>. HIDE DEF I, up, rank, T, H, flatten
  <2>4. Recursive(I, {1}, up, rank, T, s, H) BY <2>1, <2>2, <2>3 DEF Recursive
  <2>. QED BY <2>4, RecursiveFunction
<1>4. PICK f \in [I -> T] : f = Step(I, {1}, up, s, H, f) BY <1>3
<1>5. f = [i \in I |-> IF i = 1 THEN s[i] ELSE f[i - 1] \o s[i]]
  <2>1. \A i \in I \ {1} : i - 1 \in I BY <1>1
  <2>. HIDE DEF T
  <2>2. \A i \in I \ {1} : up[i] = i - 1 /\ H[<<i, f[up[i]]>>] = f[i - 1] \o s[i] BY <1>4, <2>1
  <2>. HIDE DEF I, up, H
  <2>. QED BY <1>4, <2>2 DEF Step
<1>6. flatten = [i \in 1 .. n |-> IF i = 1 THEN s[i] ELSE flatten[i - 1] \o s[i]]
  <2>1. \E g : g = [i \in 1 .. n |-> IF i = 1 THEN s[i] ELSE g[i - 1] \o s[i]] BY <1>5
  <2>. QED BY <2>1 DEF flatten
<1>7. Len(s) # 0 => FlattenSeq(s) = flatten[n] BY DEF FlattenSeq
<1>. HIDE DEF flatten
<1>8. \A i \in I : flatten[i] = f[i]
  <2>1. Adds(n, s, f) BY <1>5 DEF Adds
  <2>2. Adds(n, s, flatten) BY <1>6 DEF Adds
  <2>. QED BY <1>1, <2>1, <2>2, StepsAgree
<1>9. \A i \in 1 .. Len(s) : f[i] = IF i = 1 THEN s[i] ELSE f[i - 1] \o s[i]
  BY <1>5
<1>10. Len(s) # 0 => FlattenSeq(s) = f[Len(s)]
  <2>1. n # 0 => n \in I BY <1>1
  <2>. QED BY <1>7, <1>8, <2>1
<1>. QED BY <1>9, <1>10

LEMMA FlattenAppend ==
  ASSUME NEW U, NEW s \in Seq(Seq(U)), NEW e \in Seq(U)
  PROVE  /\ FlattenSeq(<<>>) = <<>>
         /\ FlattenSeq(s) \in Seq(U)
         /\ FlattenSeq(Append(s, e)) = FlattenSeq(s) \o e
<1>. DEFINE n == Len(s)
            T == Seq(U)
            t == Append(s, e)
<1>1. n \in Nat /\ DOMAIN s = 1 .. n BY LenProperties
<1>2. FlattenSeq(<<>>) = <<>> BY EmptySeq DEF FlattenSeq
<1>3. PICK f \in [1 .. n -> T] :
         /\ \A i \in 1 .. n : f[i] = IF i = 1 THEN s[i] ELSE f[i - 1] \o s[i]
         /\ n # 0 => FlattenSeq(s) = f[n]
  BY FlattenAlong
<1>4. n = 0 => s = <<>> BY EmptySeq
<1>5. n # 0 => n \in 1 .. n BY <1>1
<1>6. FlattenSeq(s) \in T
  <2>1. <<>> \in T BY EmptySeq
  <2>. HIDE DEF T, n
  <2>. QED BY <1>2, <1>3, <1>4, <1>5, <2>1
<1>7. t \in Seq(T) /\ Len(t) = n + 1 /\ t[n + 1] = e /\ \A i \in 1 .. n : t[i] = s[i]
  BY AppendProperties
<1>. HIDE DEF t, n, T
<1>8. PICK g \in [1 .. n + 1 -> T] :
         /\ \A i \in 1 .. n + 1 : g[i] = IF i = 1 THEN t[i] ELSE g[i - 1] \o t[i]
         /\ n + 1 # 0 => FlattenSeq(t) = g[n + 1]
  <2>1. t \in Seq(Seq(U)) BY <1>7 DEF T
  <2>2. \E g \in [1 .. Len(t) -> Seq(U)] :
           /\ \A i \in 1 .. Len(t) : g[i] = IF i = 1 THEN t[i] ELSE g[i - 1] \o t[i]
           /\ Len(t) # 0 => FlattenSeq(t) = g[Len(t)]
    BY <2>1, FlattenAlong
  <2>. QED BY <1>7, <2>2 DEF T
<1>9. FlattenSeq(t) = g[n + 1] BY <1>1, <1>8
<1>10. \A i \in 1 .. n : g[i] = f[i]
  <2>1. \A i \in 1 .. n : i \in 1 .. n + 1 BY <1>1
  <2>2. Adds(n, s, g) BY <1>7, <1>8, <2>1 DEF Adds
  <2>3. Adds(n, s, f) BY <1>3 DEF Adds
  <2>. QED BY <1>1, <2>2, <2>3, StepsAgree
<1>11. FlattenSeq(t) = FlattenSeq(s) \o e
  <2>1. CASE n = 0
    <3>1. 1 \in 1 .. n + 1 /\ n + 1 = 1 BY <2>1
    <3>2. g[n + 1] = e BY <1>7, <1>8, <3>1
    <3>3. FlattenSeq(s) = <<>> BY <1>2, <1>4, <2>1
    <3>4. <<>> \o e = e BY ConcatEmptySeq
    <3>. QED BY <1>9, <3>2, <3>3, <3>4
  <2>2. CASE n # 0
    <3>1. n + 1 \in 1 .. n + 1 /\ n + 1 # 1 /\ n + 1 - 1 = n BY <1>1, <2>2
    <3>2. g[n + 1] = g[n] \o e
      <4>. DEFINE k == n + 1
      <4>1. k \in 1 .. n + 1 /\ k # 1 /\ k - 1 = n /\ t[k] = e BY <1>1, <1>7, <3>1
      <4>. HIDE DEF k
      <4>2. g[k] = g[k - 1] \o t[k] BY <1>8, <4>1
      <4>3. g[k] = g[n] \o e BY <4>1, <4>2
      <4>. QED BY <4>3 DEF k
    <3>3. g[n] = f[n] BY <1>5, <1>10, <2>2
    <3>. QED BY <1>3, <1>9, <2>2, <3>2, <3>3
  <2>. QED BY <2>1, <2>2
<1>. QED BY <1>2, <1>6, <1>11 DEF t, T

-----------------------------------------------------------------------------
(* A sequence with a sequence for each of its elements.                    *)
Subst(g, t) == FlattenSeq([i \in DOMAIN t |-> g[t[i]]])

LEMMA SubstAppend ==
  ASSUME NEW U, NEW g \in [U -> Seq(U)], NEW t \in Seq(U), NEW x \in U
  PROVE  /\ Subst(g, <<>>) = <<>> /\ Subst(g, t) \in Seq(U)
         /\ Subst(g, Append(t, x)) = Subst(g, t) \o g[x]
<1>. DEFINE P(s) == [i \in DOMAIN s |-> g[s[i]]]
            V == Seq(U)
            n == Len(t)
            a == Append(t, x)
<1>1. n \in Nat /\ DOMAIN t = 1 .. n /\ \A i \in 1 .. n : t[i] \in U
  BY LenProperties, ElementOfSeq
<1>2. /\ a \in Seq(U) /\ Len(a) = n + 1 /\ a[n + 1] = x /\ \A i \in 1 .. n : a[i] = t[i]
      /\ DOMAIN a = 1 .. n + 1
  BY AppendProperties, LenProperties
<1>3. P(t) \in [1 .. n -> V] BY <1>1
<1>4. P(a) \in [1 .. n + 1 -> V]
  <2>1. \A i \in 1 .. n + 1 : a[i] \in U BY <1>2, ElementOfSeq
  <2>. QED BY <1>2, <2>1
<1>. HIDE DEF a, n, V
<1>5. P(t) \in Seq(V) /\ Len(P(t)) = n BY <1>1, <1>3
<1>6. P(a) \in Seq(V) /\ Len(P(a)) = n + 1
  <2>1. n + 1 \in Nat BY <1>1
  <2>2. \A k \in Nat : \A f \in [1 .. k -> V] : f \in Seq(V) /\ Len(f) = k OBVIOUS
  <2>. HIDE DEF P
  <2>. QED BY <1>4, <2>1, <2>2
<1>7. g[x] \in V BY DEF V
<1>8. P(a) = Append(P(t), g[x])
  <2>. DEFINE b == Append(P(t), g[x])
  <2>1. /\ b \in Seq(V) /\ Len(b) = n + 1 /\ b[n + 1] = g[x]
        /\ \A i \in 1 .. n : b[i] = P(t)[i]
    BY <1>5, <1>7, AppendProperties
  <2>. HIDE DEF b
  <2>2. \A i \in 1 .. n + 1 : P(a)[i] = b[i]
    <3>. SUFFICES ASSUME NEW i \in 1 .. n + 1 PROVE P(a)[i] = b[i]
      OBVIOUS
    <3>1. P(a)[i] = g[a[i]] BY <1>2
    <3>2. CASE i = n + 1 BY <1>2, <2>1, <3>1, <3>2
    <3>3. CASE i # n + 1
      <4>1. i \in 1 .. n BY <1>1, <3>3
      <4>2. P(t)[i] = g[t[i]] BY <1>1, <4>1
      <4>. QED BY <1>2, <2>1, <3>1, <4>1, <4>2
    <3>. QED BY <3>2, <3>3
  <2>. HIDE DEF P
  <2>3. P(a) = b BY <1>6, <2>1, <2>2, SeqEqual
  <2>. QED BY <2>3 DEF b
<1>9. P(<<>>) = <<>>
  <2>1. DOMAIN <<>> = {} /\ <<>> \in Seq(V) OBVIOUS
  <2>. QED BY <2>1
<1>. HIDE DEF P
<1>10. /\ FlattenSeq(<<>>) = <<>> /\ FlattenSeq(P(t)) \in V
       /\ FlattenSeq(Append(P(t), g[x])) = FlattenSeq(P(t)) \o g[x]
  <2>1. P(t) \in Seq(Seq(U)) /\ g[x] \in Seq(U) BY <1>5, <1>7 DEF V
  <2>. QED BY <2>1, FlattenAppend DEF V
<1>. QED BY <1>8, <1>9, <1>10 DEF Subst, P, V, a

(* Induction on a text.                                                    *)
LEMMA TextInduction ==
  ASSUME NEW U, NEW T, <<>> \in T, \A t \in Seq(U), x \in U : t \in T => Append(t, x) \in T
  PROVE  Seq(U) \subseteq T
<1>. DEFINE N == {n \in Nat : \A t \in Seq(U) : Len(t) = n => t \in T}
<1>1. 0 \in N BY EmptySeq
<1>2. ASSUME NEW n \in Nat, n \in N PROVE n + 1 \in N
  <2>. SUFFICES ASSUME NEW t \in Seq(U), Len(t) = n + 1 PROVE t \in T
    OBVIOUS
  <2>1. t # <<>> BY EmptySeq
  <2>2. PICK s \in Seq(U), x \in U : t = Append(s, x) BY <2>1, SequenceEmptyOrAppend
  <2>3. Len(s) \in Nat /\ Len(t) = Len(s) + 1 BY <2>2, AppendProperties, LenProperties
  <2>4. s \in T BY <1>2, <2>3
  <2>. QED BY <2>2, <2>4
<1>3. \A n \in Nat : n \in N => n + 1 \in N BY <1>2
<1>. HIDE DEF N
<1>4. Nat \subseteq N BY <1>1, <1>3, Induction
<1>. QED BY <1>4, LenProperties DEF N

LEMMA SubstType ==
  ASSUME NEW U, NEW g \in [U -> Seq(U)], NEW t \in Seq(U)
  PROVE  Subst(g, t) \in Seq(U)
<1>1. CASE U = {}
  <2>1. t = <<>>
    <3>1. Len(t) \in Nat BY LenProperties
    <3>2. \A i \in 1 .. Len(t) : t[i] \in U BY ElementOfSeq
    <3>3. Len(t) = 0 BY <1>1, <3>1, <3>2
    <3>. QED BY <3>3, EmptySeq
  <2>2. [i \in DOMAIN t |-> g[t[i]]] = <<>>
    <3>1. DOMAIN t = {} BY <2>1
    <3>. QED BY <3>1
  <2>3. <<>> \in Seq(Seq(U)) /\ <<>> \in Seq(U) BY EmptySeq
  <2>. QED BY <2>2, <2>3, FlattenAppend DEF Subst
<1>2. CASE U # {} BY <1>2, SubstAppend
<1>. QED BY <1>1, <1>2

(* One sequence and then another, for the provers a term like any other.   *)
Then(s, t) == s \o t

LEMMA ThenAssociates ==
  ASSUME NEW U
  PROVE  \A x, y, z \in Seq(U) : Then(Then(x, y), z) = Then(x, Then(y, z))
BY ConcatAssociative DEF Then

LEMMA ThenAppends ==
  ASSUME NEW U
  PROVE  /\ \A s, t \in Seq(U) : Then(s, t) \in Seq(U)
         /\ \A s \in Seq(U) : Then(s, <<>>) = s /\ Then(<<>>, s) = s
         /\ \A s \in Seq(U), x \in U : Append(s, x) = Then(s, <<x>>) /\ <<x>> \in Seq(U)
<1>1. \A s, t \in Seq(U) : Then(s, t) \in Seq(U) BY ConcatProperties DEF Then
<1>2. \A s \in Seq(U) : Then(s, <<>>) = s /\ Then(<<>>, s) = s BY ConcatEmptySeq DEF Then
<1>3. \A s \in Seq(U), x \in U : Append(s, x) = Then(s, <<x>>) /\ <<x>> \in Seq(U)
  BY AppendIsConcat DEF Then
<1>. QED BY <1>1, <1>2, <1>3

LEMMA SubstConcat ==
  ASSUME NEW U, NEW g \in [U -> Seq(U)], NEW s \in Seq(U), NEW t \in Seq(U)
  PROVE  Subst(g, Then(s, t)) = Then(Subst(g, s), Subst(g, t))
<1>. DEFINE T == {u \in Seq(U) : Subst(g, Then(s, u)) = Then(Subst(g, s), Subst(g, u))}
<1>0. Subst(g, <<>>) = <<>>
  <2>1. [i \in DOMAIN <<>> |-> g[<<>>[i]]] = <<>> OBVIOUS
  <2>2. FlattenSeq(<<>>) = <<>> BY EmptySeq DEF FlattenSeq
  <2>. QED BY <2>1, <2>2 DEF Subst
<1>1. <<>> \in T
  <2>1. Then(s, <<>>) = s /\ <<>> \in Seq(U) BY ThenAppends, EmptySeq
  <2>2. Then(Subst(g, s), <<>>) = Subst(g, s) BY SubstType, ThenAppends
  <2>. QED BY <1>0, <2>1, <2>2
<1>2. ASSUME NEW u \in Seq(U), NEW x \in U, u \in T
      PROVE  Append(u, x) \in T
  <2>1. Append(u, x) = Then(u, <<x>>) /\ Append(u, x) \in Seq(U) /\ <<x>> \in Seq(U)
    BY ThenAppends, AppendProperties
  <2>2. Then(s, u) \in Seq(U) BY ThenAppends
  <2>3. Then(s, Append(u, x)) = Append(Then(s, u), x)
    <3>1. Then(Then(s, u), <<x>>) = Then(s, Then(u, <<x>>))
      <4>. DEFINE e == <<x>>
      <4>1. e \in Seq(U) BY <2>1
      <4>. HIDE DEF e
      <4>2. Then(Then(s, u), e) = Then(s, Then(u, e)) BY <4>1, ThenAssociates
      <4>. QED BY <4>2 DEF e
    <3>2. Append(Then(s, u), x) = Then(Then(s, u), <<x>>) BY <2>2, ThenAppends
    <3>. QED BY <2>1, <3>1, <3>2
  <2>4. Subst(g, Append(Then(s, u), x)) = Then(Subst(g, Then(s, u)), g[x])
    BY <2>2, SubstAppend DEF Then
  <2>5. Subst(g, Append(u, x)) = Then(Subst(g, u), g[x]) BY SubstAppend DEF Then
  <2>6. Then(Then(Subst(g, s), Subst(g, u)), g[x]) = Then(Subst(g, s), Then(Subst(g, u), g[x]))
    <3>1. Subst(g, s) \in Seq(U) /\ Subst(g, u) \in Seq(U) /\ g[x] \in Seq(U) BY SubstType
    <3>. QED BY <3>1, ThenAssociates
  <2>. QED BY <1>2, <2>1, <2>3, <2>4, <2>5, <2>6
<1>3. \A u \in Seq(U), x \in U : u \in T => Append(u, x) \in T BY <1>2
<1>. HIDE DEF T
<1>4. Seq(U) \subseteq T BY <1>1, <1>3, TextInduction
<1>. QED BY <1>4 DEF T

LEMMA SubstOne ==
  ASSUME NEW U, NEW g \in [U -> Seq(U)], NEW x \in U
  PROVE  Subst(g, <<x>>) = g[x]
<1>1. <<>> \in Seq(U) /\ Append(<<>>, x) = <<x>> BY EmptySeq
<1>2. Subst(g, <<x>>) = Subst(g, <<>>) \o g[x] /\ Subst(g, <<>>) = <<>>
  BY <1>1, SubstAppend
<1>. QED BY <1>2, ConcatEmptySeq

(* A text whose letters stay stays.                                        *)
LEMMA SubstNothing ==
  ASSUME NEW U, NEW g \in [U -> Seq(U)], NEW s \in Seq(U),
         \A i \in 1 .. Len(s) : g[s[i]] = <<s[i]>>
  PROVE  Subst(g, s) = s
<1>. DEFINE T == {u \in Seq(U) : (\A i \in 1 .. Len(u) : g[u[i]] = <<u[i]>>) => Subst(g, u) = u}
<1>1. <<>> \in T
  <2>1. [i \in DOMAIN <<>> |-> g[<<>>[i]]] = <<>> OBVIOUS
  <2>2. FlattenSeq(<<>>) = <<>> BY EmptySeq DEF FlattenSeq
  <2>. QED BY <2>1, <2>2, EmptySeq DEF Subst
<1>2. ASSUME NEW u \in Seq(U), NEW x \in U, u \in T
      PROVE  Append(u, x) \in T
  <2>. DEFINE a == Append(u, x)
  <2>1. /\ a \in Seq(U) /\ Len(a) = Len(u) + 1 /\ Len(u) \in Nat /\ a[Len(u) + 1] = x
        /\ \A i \in 1 .. Len(u) : a[i] = u[i]
    BY AppendProperties, LenProperties
  <2>2. a = u \o <<x>> BY AppendIsConcat
  <2>3. Subst(g, a) = Subst(g, u) \o g[x] BY SubstAppend
  <2>. HIDE DEF a
  <2>4. ASSUME \A i \in 1 .. Len(a) : g[a[i]] = <<a[i]>>
        PROVE  Subst(g, a) = a
    <3>1. g[x] = <<x>>
      <4>1. Len(u) + 1 \in 1 .. Len(a) BY <2>1
      <4>. QED BY <2>1, <2>4, <4>1
    <3>2. \A i \in 1 .. Len(u) : g[u[i]] = <<u[i]>>
      <4>1. \A i \in 1 .. Len(u) : i \in 1 .. Len(a) BY <2>1
      <4>. QED BY <2>1, <2>4, <4>1
    <3>. QED BY <1>2, <2>2, <2>3, <3>1, <3>2
  <2>. QED BY <2>1, <2>4 DEF a
<1>3. \A u \in Seq(U), x \in U : u \in T => Append(u, x) \in T BY <1>2
<1>. HIDE DEF T
<1>4. Seq(U) \subseteq T BY <1>1, <1>3, TextInduction
<1>. QED BY <1>4 DEF T

-----------------------------------------------------------------------------
(* What is built from parts.                                               *)

(* A function on S, its values subsets of X, that is H of all its values   *)
(* at the parts of q taken together; the parts have a lower rank.          *)
Built(S, parts, rank) ==
  /\ rank \in [S -> Nat]
  /\ \A q \in S : parts[q] \subseteq S /\ \A c \in parts[q] : rank[c] < rank[q]
Given(S, X, H) == \A q \in S : \A g \in SUBSET X : H[<<q, g>>] \in SUBSET X
Gathered(parts, f, q) == UNION {f[c] : c \in parts[q]}
Inherited(S, parts, X, f) == \A q \in S : Gathered(parts, f, q) \in SUBSET X => f[q] \in SUBSET X
Follows(S, parts, H, f) == \A q \in S : f[q] = H[<<q, Gathered(parts, f, q)>>]
BuiltUpto(S, parts, rank, H, n, f) ==
  \A q \in S : rank[q] < n => f[q] = H[<<q, Gathered(parts, f, q)>>]

(* Two functions that obey one definition below rank n agree there.        *)
LEMMA BuiltUnique ==
  ASSUME NEW S, NEW parts, NEW rank, Built(S, parts, rank), NEW H, NEW n \in Nat, NEW f, NEW g,
         BuiltUpto(S, parts, rank, H, n, f), BuiltUpto(S, parts, rank, H, n, g)
  PROVE  \A q \in S : rank[q] < n => f[q] = g[q]
<1>. DEFINE Differ == {rank[q] : q \in {x \in S : rank[x] < n /\ f[x] # g[x]}}
<1>. SUFFICES ASSUME Differ # {} PROVE FALSE
  OBVIOUS
<1>1. Differ \subseteq Nat BY DEF Built
<1>2. PICK m \in Differ : \A k \in Differ : m <= k BY <1>1, Least
<1>3. PICK q \in S : rank[q] = m /\ m < n /\ f[q] # g[q] BY <1>2
<1>4. Gathered(parts, f, q) # Gathered(parts, g, q) BY <1>3 DEF BuiltUpto
<1>5. PICK c \in parts[q] : f[c] # g[c] BY <1>4 DEF Gathered
<1>6. c \in S /\ rank[c] < m /\ rank[c] \in Nat BY <1>3, <1>5 DEF Built
<1>7. m \in Nat /\ rank[c] < n BY <1>1, <1>3, <1>6
<1>8. rank[c] \in Differ BY <1>5, <1>6, <1>7
<1>9. m <= rank[c] BY <1>2, <1>8
<1>. QED BY <1>6, <1>7, <1>9

(* A definition by recursion over parts has a solution.                    *)
LEMMA RecursionOverParts ==
  ASSUME NEW S, NEW parts, NEW rank, Built(S, parts, rank), NEW X,
         NEW H, Given(S, X, H)
  PROVE  \E f \in [S -> SUBSET X] : Follows(S, parts, H, f)
<1>. DEFINE T == SUBSET X
            U(n, f) == BuiltUpto(S, parts, rank, H, n, f)
            Ns == {n \in Nat : \E f \in [S -> T] : U(n, f)}
<1>1. 0 \in Ns
  <2>1. [q \in S |-> {}] \in [S -> T] OBVIOUS
  <2>2. U(0, [q \in S |-> {}]) BY DEF BuiltUpto, Built
  <2>3. \E f \in [S -> T] : U(0, f) BY <2>1, <2>2, Zenon
  <2>. QED BY <2>3
<1>2. ASSUME NEW n \in Nat, n \in Ns PROVE n + 1 \in Ns
  <2>1. PICK f \in [S -> T] : U(n, f) BY <1>2
  <2>. DEFINE g == [q \in S |-> H[<<q, Gathered(parts, f, q)>>]]
  <2>2. g \in [S -> T]
    <3>1. \A q \in S : Gathered(parts, f, q) \in SUBSET X BY DEF Gathered, Built
    <3>. QED BY <3>1 DEF Given
  <2>3. ASSUME NEW q \in S, rank[q] < n + 1 PROVE g[q] = H[<<q, Gathered(parts, g, q)>>]
    <3>1. ASSUME NEW c \in parts[q] PROVE g[c] = f[c]
      <4>1. c \in S /\ rank[c] < n
        <5>1. c \in S /\ rank[c] < rank[q] /\ rank[c] \in Nat /\ rank[q] \in Nat BY DEF Built
        <5>. QED BY <2>3, <5>1
      <4>. QED BY <2>1, <4>1 DEF BuiltUpto
    <3>2. g[q] = H[<<q, Gathered(parts, f, q)>>] OBVIOUS
    <3>. HIDE DEF g
    <3>3. Gathered(parts, f, q) = Gathered(parts, g, q) BY <3>1 DEF Gathered
    <3>. QED BY <3>2, <3>3
  <2>. HIDE DEF g
  <2>4. U(n + 1, g) BY <2>3 DEF BuiltUpto
  <2>5. \E h \in [S -> T] : U(n + 1, h) BY <2>2, <2>4, Zenon
  <2>. QED BY <2>5
<1>3. \A n \in Nat : \E f \in [S -> T] : U(n, f)
  <2>. HIDE DEF U
  <2>1. \A n \in Nat : n \in Ns => n + 1 \in Ns BY <1>2
  <2>2. Nat \subseteq Ns BY <1>1, <2>1, Induction
  <2>. QED BY <2>2
<1>. DEFINE F(n) == CHOOSE f \in [S -> T] : U(n, f)
            h == [q \in S |-> F(rank[q] + 1)[q]]
<1>4. \A n \in Nat : F(n) \in [S -> T] /\ U(n, F(n))
  <2>. HIDE DEF U
  <2>. QED BY <1>3
<1>. HIDE DEF F
<1>5. h \in [S -> T]
  <2>1. \A q \in S : rank[q] + 1 \in Nat BY DEF Built
  <2>. QED BY <1>4, <2>1
<1>6. ASSUME NEW q \in S PROVE h[q] = H[<<q, Gathered(parts, h, q)>>]
  <2>1. rank[q] \in Nat /\ rank[q] + 1 \in Nat /\ rank[q] < rank[q] + 1 BY DEF Built
  <2>2. h[q] = H[<<q, Gathered(parts, F(rank[q] + 1), q)>>] BY <1>4, <2>1 DEF BuiltUpto
  <2>3. ASSUME NEW c \in parts[q] PROVE h[c] = F(rank[q] + 1)[c]
    <3>1. c \in S /\ rank[c] < rank[q] /\ rank[c] \in Nat BY DEF Built
    <3>2. rank[c] + 1 \in Nat /\ rank[c] < rank[c] + 1
          /\ \A k \in Nat : k < rank[c] + 1 => k < rank[q] + 1
      BY <2>1, <3>1
    <3>. DEFINE k == rank[c] + 1
                f == F(rank[q] + 1)
                g == F(rank[c] + 1)
    <3>3. U(k, f)
      <4>1. U(rank[q] + 1, f) BY <1>4, <2>1
      <4>2. \A x \in S : rank[x] \in Nat BY DEF Built
      <4>. QED BY <3>2, <4>1, <4>2 DEF BuiltUpto
    <3>4. U(k, g) BY <1>4, <3>2
    <3>5. k \in Nat /\ rank[c] < k /\ h[c] = g[c] BY <3>1, <3>2
    <3>. HIDE DEF k, f, g, h
    <3>6. \A x \in S : rank[x] < k => f[x] = g[x] BY <3>3, <3>4, <3>5, BuiltUnique
    <3>7. f[c] = g[c] BY <3>1, <3>5, <3>6
    <3>. QED BY <3>5, <3>7 DEF f
  <2>. HIDE DEF h
  <2>4. Gathered(parts, h, q) = Gathered(parts, F(rank[q] + 1), q) BY <2>3 DEF Gathered
  <2>. QED BY <2>2, <2>4
<1>. HIDE DEF h
<1>. QED BY <1>5, <1>6 DEF Follows

(* Induction along parts.                                                  *)
LEMMA PartsInduction ==
  ASSUME NEW S, NEW parts, NEW rank, Built(S, parts, rank), NEW T,
         \A q \in S : parts[q] \subseteq T => q \in T
  PROVE  S \subseteq T
<1>. DEFINE Bad == {rank[q] : q \in S \ T}
<1>. SUFFICES ASSUME Bad # {} PROVE FALSE
  OBVIOUS
<1>1. Bad \subseteq Nat BY DEF Built
<1>2. PICK m \in Bad : \A k \in Bad : m <= k BY <1>1, Least
<1>3. PICK q \in S : rank[q] = m /\ q \notin T BY <1>2
<1>4. PICK c \in parts[q] : c \notin T BY <1>3
<1>5. c \in S /\ rank[c] < m /\ rank[c] \in Nat /\ m \in Nat BY <1>3, <1>4 DEF Built
<1>. QED BY <1>2, <1>4, <1>5

(* Where every value is a subset of X if those at the parts are, all are.  *)
LEMMA GatheredType ==
  ASSUME NEW S, NEW parts, NEW rank, Built(S, parts, rank), NEW X, NEW f,
         Inherited(S, parts, X, f)
  PROVE  \A q \in S : f[q] \subseteq X
<1>. DEFINE T == {q \in S : f[q] \subseteq X}
<1>1. \A q \in S : parts[q] \subseteq T => q \in T BY DEF Built, Gathered, Inherited
<1>2. S \subseteq T
  <2>. HIDE DEF T
  <2>. QED BY <1>1, PartsInduction
<1>. QED BY <1>2
=============================================================================

--------------------------- MODULE MCDependencies ---------------------------
(***************************************************************************)
(* Config models for Dependencies: expressions of up to three operators    *)
(* over plain tasks, and containers in every expression of up to two       *)
(* operators with their neighbours. A task is named by its path.           *)
(***************************************************************************)
EXTENDS Dependencies

Plain(n) == [kind |-> "plain", name |-> n]
Class(n, M) == [kind |-> "class", name |-> n, model |-> M]
Multi(n, I) == [kind |-> "multi", name |-> n, instances |-> I]
Dep(x, y) == [kind |-> "dep", from |-> x, to |-> y]
And(x, y) == [kind |-> "group", args |-> {x, y}]
Over(S, D) == [tasks |-> S, deps |-> D]

Combine(S, T) == {Dep(x, y) : x \in S, y \in T} \cup {And(x, y) : x \in S, y \in T}
UpToOne(S) == S \cup Combine(S, S)
UpToTwo(S) == Combine(UpToOne(S), S) \cup Combine(S, UpToOne(S))
UpToThree(S) == Combine(UpToOne(S), UpToOne(S))

a == Plain(<<"a">>)
b == Plain(<<"b">>)
c == Plain(<<"c">>)
abc == {a, b, c}

PlainModels ==
  {Over(abc, {e}) : e \in UpToThree(abc)}
    \cup {Over(abc, {Dep(x[1], x[2]), Dep(y[1], y[2])}) : x, y \in abc \X abc}

(* The insides of a ConfigClassTask: a chain, a fan-out, and no order.     *)
Chain(n) == LET x == Plain(n \o <<"x">>)
                y == Plain(n \o <<"y">>) IN Over({x, y}, {Dep(x, y)})
Fan(n) == LET x == Plain(n \o <<"x">>)
              y == Plain(n \o <<"y">>)
              z == Plain(n \o <<"z">>) IN Over({x, y, z}, {Dep(x, And(y, z))})
Free(n) == Over(Chain(n).tasks, {})
(* A container t and a task after it, as the inside of a ConfigClassTask.  *)
Before(t, n) == LET p == Plain(n \o <<"p">>) IN Over({t, p}, {Dep(t, p)})

w == <<"w">>
w1 == <<"w", "1">>
w2 == <<"w", "2">>
MultiOne(n) == Multi(n, {Plain(n \o <<"i">>)})
MultiTwo(n) == Multi(n, {Plain(n \o <<"i">>), Plain(n \o <<"j">>)})

(* Containers whose ConfigClassTasks do not contain each other.            *)
Containers ==
  {Class(w, Chain(w)), Class(w, Fan(w)), Class(w, Free(w)), MultiOne(w), MultiTwo(w),
   Multi(w, {Class(w1, Chain(w1))}), Multi(w, {Class(w1, Free(w1)), Class(w2, Free(w2))}),
   Multi(w, {MultiTwo(w1), MultiTwo(w2)}), Class(w, Before(MultiTwo(w1), w))}

With(t) == {Over({a, b, t}, {e}) : e \in UpToTwo({a, b, t})}
FlatModels == PlainModels \cup UNION {With(t) : t \in Containers}

(* Nothing is lost in these: they are among those the theorems are about.  *)
ASSUME RegularAssumption == Models = FlatModels => AllRegular

(* "models of models" (ConfigClassTask): one ConfigClassTask in another.   *)
NestedModels == With(Class(w, Before(Class(w1, Chain(w1)), w)))

-----------------------------------------------------------------------------
RECURSIVE AllOf(_)
AllOf(e) == {e} \cup UNION {AllOf(p) : p \in Parts(e)}

ModelExpressions == UNION {AllOf(e) : e \in UNION {M.tasks \cup M.deps : M \in Models}}

Nesting[e \in ModelExpressions] ==
  IF Parts(e) = {} THEN 0 ELSE 1 + Max({Nesting[p] : p \in Parts(e)})
=============================================================================

----------------------------- MODULE MCNamespace -----------------------------
(***************************************************************************)
(* Namespaces with each kind of container, and with a group in an instance *)
(* of a group, which grow and are asked then; and all namespaces with      *)
(* three variables on the model, of which a group has one of its own.      *)
(***************************************************************************)
EXTENDS Variables

CONSTANTS i1, i2

TwoKeys == {"0", "1"}
ThreeNames == {"A", "B", "C"}
TheWords == {"x", "None", "known", "called"}
T(t) == [is |-> "text", text |-> t]
Of(kind) == [is |-> kind, text |-> <<>>]
Plainest == T(<<"x">>)
Texts == {Plainest, T(<<"B">>), T(<<"C", "x">>), T(<<"B", "C">>)}
Specials == {Of("nothing"), Of("reference"), Of("callable")}
TheValues == Texts \cup Specials \cup {T(<<"A">>)}
Reference == [v \in TheValues |-> IF v.is = "reference" THEN <<"workers", "0">> ELSE None]
Servers == {<<"server">>}

(* kinds: triples of a path, its kind and its manner of naming a host. The *)
(* model has B, which needs A; vs and os have an A of their own.           *)
Class(kinds, vs, os, added, keys, infras, asks) ==
  LET paths == {x[1] : x \in kinds}
      Find(p) == CHOOSE x \in kinds : x[1] = p
      Has(S) == [p \in paths |-> [n \in ThreeNames |->
                  IF n = "A" /\ p \in S THEN Plainest
                  ELSE IF n = "B" /\ p = <<>> /\ <<>> \notin S THEN T(<<"A">>) ELSE None]]
      what == [none |-> <<>>, text |-> "A", ref |-> <<"server">>, call |-> <<"workers">>]
  IN [kind |-> [p \in paths |-> Find(p)[2]],
      host |-> [p \in paths |-> [manner |-> Find(p)[3], what |-> what[Find(p)[3]]]],
      variables |-> Has(vs), overrides |-> [Has(os) EXCEPT ![<<>>]["B"] = None],
      later |-> added, keys |-> keys, infras |-> infras, asks |-> {<<c, "B", "default">> : c \in asks},
      names |-> {"A"}, values |-> {Plainest, Of("reference")}]

X == Template
(* A role, a group of a role, and a MultiRole; another role is added.      *)
Flat == Class({<<<<>>, "model", "none">>, <<<<"a">>, "role", "ref">>,
               <<<<"g">>, "group", "none">>, <<<<"g", "b">>, "role", "none">>,
               <<<<"m">>, "multi", "none">>, <<<<"m", X>>, "role", "call">>,
               <<<<"x">>, "role", "ref">>},
              {<<"g">>, <<"x">>}, {<<"g">>, <<"g", "b">>}, {<<"x">>}, TwoKeys, {i1},
              {<<"m", "0">>})
(* A MultiRoleGroup of a role, a group and a MultiRole.                    *)
Nested == Class({<<<<>>, "model", "none">>,
                 <<<<"m">>, "multi", "none">>, <<<<"m", X>>, "group", "none">>,
                 <<<<"m", X, "a">>, "role", "ref">>,
                 <<<<"m", X, "g">>, "group", "none">>, <<<<"m", X, "g", "b">>, "role", "none">>,
                 <<<<"m", X, "w">>, "multi", "none">>, <<<<"m", X, "w", X>>, "role", "call">>},
                {<<"m", X>>, <<"m", X, "g">>}, {<<"m", X, "g">>}, {}, {"0"}, {i1, i2},
                {<<"m", "0">>})
(* Hosts in texts; and a MultiRole of MultiRoles, which cannot be indexed. *)
InTexts == Class({<<<<>>, "model", "none">>, <<<<"a">>, "role", "text">>,
                  <<<<"m">>, "multi", "none">>, <<<<"m", X>>, "multi", "none">>,
                  <<<<"m", X, X>>, "role", "none">>}, {}, {}, {}, TwoKeys, {i1, i2}, {<<"a">>})
(* A MultiRole of roles whose host is one component, made when it is       *)
(* referred to: an instance may come after the first provisioning.         *)
Later == [Class({<<<<>>, "model", "none">>, <<<<"m">>, "multi", "none">>, <<<<"m", X>>, "role", "ref">>},
                {}, {}, {}, {"0"}, {i1, i2}, {}) EXCEPT !.host[<<"m", X>>].what = <<"workers", "0">>]
Classes == {Flat, Nested, InTexts, Later}

OnModel == {f \in [ThreeNames -> TheValues \cup {None}] :
              /\ f["A"] \in Texts
              /\ f["B"] \in {Plainest, T(<<"A">>), T(<<"C", "x">>), None} \cup Specials
              /\ f["C"] \in {Plainest, T(<<"A">>), T(<<"B">>), None} \cup Specials}
OnGroup == {[n \in ThreeNames |-> IF n = "B" THEN v ELSE None] : v \in {Plainest, T(<<"A">>), None}}

OfGroup == {<<>>, <<"g">>}
Asking ==
  {[kind |-> [p \in OfGroup |-> IF p = <<>> THEN "model" ELSE "group"],
    host |-> [p \in OfGroup |-> [manner |-> "none", what |-> <<>>]],
    variables |-> [p \in OfGroup |-> IF p = <<>> THEN f ELSE g],
    overrides |-> [p \in OfGroup |-> [n \in ThreeNames |-> None]],
    later |-> {}, keys |-> {}, names |-> {}, values |-> {},
    infras |-> IF Of("reference") \in Range(f) THEN {i1} ELSE {},
    asks |-> OfGroup \X ThreeNames \X Modes] : f \in OnModel, g \in OnGroup}
Namespaces == Classes \cup Asking
=============================================================================

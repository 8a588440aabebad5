-------------------------- MODULE MCModelReferences --------------------------
(***************************************************************************)
(* One or two components and a MultiComponent, two threads, and roles on a *)
(* component, at a text, and without a host.                               *)
(***************************************************************************)
EXTENDS ModelReferences

OneKey == {"0"}
ThePlain == {"server", "ip"}
TheObjects == [k \in OneKey |-> <<"first", "second">>]
TheTexts == {"10.0.0.1"}
TheLists == {"groups"}
TheSettings == {<<"server", "10.0.0.1">>, <<"ip", "server">>, <<"first", "groups">>}
TheRoles == {"r", "s", "u"}
TheHosts == [r \in TheRoles |-> IF r = "r" THEN "first" ELSE IF r = "s" THEN "10.0.0.1" ELSE None]
OnServer == {"r"}

Symmetry == Permutations(Threads)
=============================================================================

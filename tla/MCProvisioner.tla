--------------------------- MODULE MCProvisioner ---------------------------
(***************************************************************************)
(* Infra models of up to four resources that have each class and each      *)
(* reference between classes.                                              *)
(***************************************************************************)
EXTENDS Provisioner

FourResources == {"a", "b", "c", "d"}

(* The resources of the model with their classes, and triples of a         *)
(* resource, an argument of it, and the resource it refers to.             *)
Infra(kinds, refs) ==
  [node |-> DOMAIN kinds,
   kind |-> [n \in FourResources |-> IF n \in DOMAIN kinds THEN kinds[n] ELSE "Network"],
   ref |-> [n \in FourResources |-> {<<x[2], x[3]>> : x \in {y \in refs : y[1] = n}}]]

Routed == Infra([a |-> "Network", b |-> "Subnet", c |-> "Router", d |-> "RouterInterface"],
                {<<"b", "network", "a">>, <<"d", "router", "c">>, <<"d", "subnet", "b">>})
Gateway == Infra([a |-> "Router", b |-> "RouterGateway"], {<<"b", "router", "a">>})
Floating == Infra([a |-> "Network", b |-> "Server", c |-> "FloatingIP"],
                  {<<"b", "nics", "a">>, <<"c", "server", "b">>})
Grouped == Infra([a |-> "SecGroup", b |-> "SecGroup", c |-> "Server", d |-> "SecGroupRule"],
                 {<<"c", "security_groups", "a">>, <<"c", "security_groups", "b">>,
                  <<"d", "slave_secgroup", "b">>})
(* A server given a router for a network: its task must fail.              *)
Mistyped == Infra([a |-> "Router", b |-> "Server", c |-> "FloatingIP"],
                  {<<"b", "nics", "a">>, <<"c", "server", "b">>})
(* These have no plan.                                                     *)
Foreign == Infra([a |-> "Subnet"], {<<"a", "network", "d">>})
Static == Infra([a |-> "StaticServer", b |-> "FloatingIP"], {<<"b", "server", "a">>})

Models == {Routed, Gateway, Floating, Grouped, Mistyped, Foreign, Static}
=============================================================================

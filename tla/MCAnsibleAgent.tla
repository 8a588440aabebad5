---------------------------- MODULE MCAnsibleAgent ----------------------------
(***************************************************************************)
(* Two tasks on three roles: one on a server, one at a named host, and one *)
(* on the same server as the first, or nowhere.                            *)
(***************************************************************************)
EXTENDS AnsibleAgent, TLC

TwoTasks == {"t", "u"}
ThreeRoles == {"a", "b", "c"}
OneServer == {"s"}

Of(x, y) == [t \in TwoTasks |-> IF t = "t" THEN x ELSE y]

(* roles and from: the task_role and run_from of each task; r and f: those *)
(* of the model; third: where role c is.                                   *)
Config(roles, from, r, f, third, kinds, repeats, callables, n) ==
  [task_role |-> roles, run_from |-> from, default_task_role |-> r, default_run_from |-> f,
   place |-> [a |-> "s", b |-> "h", c |-> third], kind |-> kinds, repeat_count |-> repeats,
   raising |-> callables, remote_user |-> Of("me", None), user |-> "default",
   fragile |-> {}, trouble |-> Of({}, {}), calls |-> n]

Commands == Of("command", "command")
Sure == Of({}, {})
Placings ==
  {Config(Of(x, y), Of(f, None), r, g, "s", Commands, Of(1, 1), Sure, 1) :
     x \in {"a", None}, y \in {"a", "c"}, f \in {"b", None}, r \in {"a", None}, g \in {"c", None}}
Retries == {Config(Of("a", y), Of(None, None), "a", None, None, Of("ping", k), Of(2, n), Sure, 1) :
              y \in {"c", None}, k \in {"null", "ping"}, n \in 0 .. 1}
HalfFixed == {Config(Of("a", "b"), Of("b", None), "a", None, None, Of(k, "ping"), Of(2, 1),
                     Of(Complete, {"task_role"}), 2) : k \in {"command", "process"}}

(* A role and a server whose arguments may raise: the default role, which  *)
(* the text of a command asks for, and the server of both tasks. And a     *)
(* task for which making the arguments may raise, or the call.             *)
Fragile == {[Config(Of(None, y), Of(None, None), "a", None, None, Of("command", "ping"), Of(2, 1),
                    Sure, 2) EXCEPT !.fragile = F] : y \in {"a", "b"}, F \in {{"a"}, {"s"}}}
Troubled == {[Config(Of("a", "b"), Of(None, None), "a", None, None, Of("process", "ping"), Of(2, 1),
                     Sure, 1) EXCEPT !.trouble = Of({x}, {})] : x \in {"arguments", "call"}}
Configs == Placings \cup Retries \cup HalfFixed \cup Fragile \cup Troubled

Symmetry == Permutations(Workers)
=============================================================================

# Actuator: a verification development

Actuator stands up systems: from an *infra model* it provisions resources in an Openstack
cloud, and from a *config model* it performs configuration tasks on the hosts it got. Both
are done by worker threads that walk a graph of tasks. This directory holds TLA+ modules for
that machinery, the runs that model-check them with TLC, and proofs that TLAPS checks.
Source paths below are relative to `src/src/actuator/`.

    ExecutionAgent (exec_agents/core.py)         Dependencies (config.py)
        |  implements                                 |  builds the graphs of
        v                                             v
    TaskGraph  <--- INSTANCE, twice ---  Orchestrator (__init__.py)
        ^
        |  INSTANCE
    Provisioner (provisioners/openstack/)

    Namespace (namespace.py, infra.py)           ModelReferences (modeling.py)
        ^
        |  EXTENDS                               AnsibleAgent (exec_agents/ansible/,
    Variables (namespace.py)                         config.py, config_tasks.py)

| module | models | what it is for |
|---|---|---|
| `TaskGraph` | the promise of an agent | abstract specification: a task begins only after its predecessors are done; what an answer may be |
| `ExecutionAgent` | `exec_agents/core.py` | threads, queue, lock, counter, flag, step by step |
| `AgentProperties` | | the agent's properties and its refinement mapping to `TaskGraph` |
| `AgentInvariant` | | the agent's inductive invariant |
| `Orchestrator` | `initiate_system` and `_provision` | two phases over two instances of `TaskGraph` |
| `Dependencies` | `config.py`: expressions, containers, `get_graph` | from what a user writes to the graph an agent performs |
| `Provisioner` | `provisioners/openstack/` | resource tasks over an agent: ids, the record, the cloud |
| `Namespace` | `namespace.py`, `compute_provisioning_from_refs` in `infra.py` | containers of variables and who sees what; hosts of roles and what is provisioned for them |
| `Variables` | `_ComputableValue` in `namespace.py` | the expansion of a variable, call by call, in any such namespace |
| `AnsibleAgent` | `exec_agents/ansible/agent.py`, `_ConfigTask` in `config.py`, `config_tasks.py` | where a task runs, with what, and how its result is judged |
| `ModelReferences` | `AbstractModelReference`, `get_instance` in `modeling.py` | references, their cache and its inverse, by threads without a lock |
| `MC...` | | values of the constants for TLC, for each of the modules above |
| `...Proofs` | | the theorems of the module named; those of `Variables` are in `NamespaceProofs`, of `Dependencies` and `TaskGraph` in `DependencyProofs` |
| `Recursion` | | lemmas: induction, recursive functions, sequences made of sequences, what is built from parts |

## 1. The system

**Execution agent** (`exec_agents/core.py`). State: `stop`, `task_queue`, `node_lock`,
`num_tasks_to_perform`, `aborted_tasks`, and on each node of the graph `ins_traversed`.
`perform_config()` fixes the arguments of all tasks, counts them, starts `num_threads`
threads on `process_tasks()`, queues the tasks of in-degree 0 and polls `stop`. A worker
takes a task, tries it up to `repeat_count` times, and then, under the lock, decrements the
count and traverses its successors: whoever makes the last in-edge of one queues it. *Hard*:
workers, and `perform_config` itself, run interleaved; tasks fail and are retried; an agent
may be used again while workers of the last run are still in a task. *Correct when*: the
order of the graph is kept, no task is lost or done twice, the answer is true, there is an
answer, and the threads end.

**Orchestrator** (`__init__.py`). State: `status`, the models, the provisioner with its
agent, `config_ea`. `initiate_system()` provisions, then configures, and answers True or
False. *Hard*: it may be called again after any outcome; exceptions of every kind come out
of the phases; the workers of a phase that failed are still there. *Correct when*: no config
task is begun on infrastructure that is not there, True means done, nothing is provisioned
twice.

**Config models** (`config.py`). `a | b`, `a & b` and `TaskGroup` are expressions over
tasks; `MultiTask` (one clone per role) and `ConfigClassTask` (a whole model) are
containers, a task to enter and a rendezvous to leave by, whose inside exists once their
arguments are fixed. Checked for cycles when the class is made, unpacked to a graph from an
instance. *Correct when*: the graph says exactly what the expressions say.

**Model entities, references, nexus** (`modeling.py`, `utils.py`). `fix_arguments` evaluates
arguments once, on whichever thread comes first; references are cached by what they are made
of, and found again by the value they lead to; components are made on first use of a key; a
nexus maps model classes to instances and can be merged. *Hard*: workers do all of it
concurrently without a lock, the flag `fixed` is set before the work, and the values by
which references are found change. *Correct when*: one attribute has one reference and one
key one instance, which the code keeps only in part (section 3); the reference found for a
thing leads to it.

**Openstack provisioner** (`provisioners/core.py`, `provisioners/openstack/`). A task class
per resource; `compute_model` makes a config model of them with dependencies from
`depends_on_list()`; an agent performs it; ids are kept on the resources and in a record.
*Hard*: any call of the cloud may fail, between any two steps of other workers; a resource
is shared by all provisionings of its model, also by those that failed and whose workers go
on; an address exists only after the server's task. *Correct when*: an id is there when it
is read, the record names all that was created, no floating ip is left unassociated, and
nobody waits for ever.

**Ansible agent** (`exec_agents/ansible/`, with the tasks of `config_tasks.py`): the agent
whose `_perform_task` runs one Ansible module on the host that `run_from`, or else
`task_role`, names, and raises if the result says so. State: the arguments of the tasks, and
which roles and servers are fixed. *Hard*: arguments are computed one after the other and
may raise, after which the task counts as fixed; so may what an attempt is made of; each
worker fixes the roles and servers that it comes to, whatever another is doing. *Correct
when*: a task runs where its model says, or not at all, and counts as done when it is.

**Namespace** (`namespace.py`). Containers of variables and overrides: the model, roles,
groups and MultiRoles, whose instances are clones made on first use of a key. A variable is
looked up from a container outwards; its patterns `!{name}` are expanded from the container
that asks. Roles have hosts in an infra model, which decide what is provisioned. *Hard*:
parents are set in some ways of cloning and lost in others; a namespace grows while it is
used, is given other infra models, and fixing its roles may fail in the middle, after which
it and what was around it count as fixed; variables refer to each other. *Correct when*:
every search and expansion ends, what is seen from a container depends on what encloses it
only, and what a role or variable refers to is provisioned.

**Infra models** (`infra.py`): components, and the one-shot flag `provisioning_computed`.
**Example resources, class factory**: data.

## 2. The modules and the code

**`ExecutionAgent`.** An action is what one thread does between two accesses to shared
state; the actions of `perform_config` are disjuncts of `Caller`, those of `process_tasks`
and `perform_task` disjuncts of `Worker(w)`, and `pc[w]` is where worker `w` is.
`num_tasks_to_perform -= 1` is two actions, `AcquireNodeLock` (which reads) and
`StoreCount`: the lock keeps other workers out, but not `perform_config`. `stop` is tested
in three places and set in two, each an action. `Queue.Queue` is a sequence with atomic put
and get. Reading the logs, the sleeps and `ConfigRecord`, which nothing uses, is left out.
`open()` of a log file may raise outside the `try`: the worker is then `"dead"`, its task
neither performed nor aborted. `performed` and `traversed` are history variables that no
guard reads. A second `perform_config` keeps the queue, the aborted tasks and the old
workers, as the code does, and queue items carry the run whose graph they come from.

**`TaskGraph`** has, per run, a graph and a phase per task: *waiting, running, done,
failed*. An agent answers *ok* when all tasks of its run are done, *failed* when some task
of some run failed (the code never empties `aborted_tasks`), and *refused* when an exception
came before any task started. `AgentProperties` maps the agent to it: a task is *running*
from its first attempt on, also if its worker died.

**`Orchestrator`** uses `TaskGraph` twice. `P` is the provisioner's agents, a new one per
call, so run `r` of `P` is the `r`-th agent made; `C` is `config_ea`, one for all calls.
Their workers move by themselves whenever `TaskGraph` allows, also after the answer.
`caller` is where the thread in `initiate_system` is. Which exceptions the phases raise
decides the path, so each kind is an action of its own. A config model needs a namespace, an
infra model needs a provisioner (`Models`).

**`Dependencies`** has an expression as a nested record. `EntryNodes`, `ExitNodes` and
`Unpack` are the methods of those names. The one thing that changes over time is what a
container has: nothing before `fix_arguments`, everything after, and for a
`ConfigClassTask`, whose `dependencies` is an iterator, only what is inside inner containers
once it has been read (`Fresh`, `Again`). The reference is `Order`: what the expressions
say, computed from them directly, without entry and exit nodes, lists of edges or iterators.
Each is a recursive function on `Expressions`, the finite set of what the models are made of;
`Depth` says that what a constructor is given exists before what it builds, and
`WellFormed` that a model has the tasks its dependencies mention (`clone` raises
otherwise). `Paths` stands for the reachability of networkx, by the algorithm of Warshall.

**`Provisioner`** is what `_perform_task` does for a resource, over an agent seen as a
`TaskGraph` (a new one per `_provision()`, run `r` of it). `compute_model` is `DependsOn`
and `Plan`; `Plannable` says when it raises instead. A task goes through `step`: *begin*
(arguments, maps, the lock), *calling* (the cloud), *identify* (`set_osid`), *record*, and
*settle* (polling for addresses, associating one). The same steps serve the nine classes, as
their code has the same form; where a class differs, its action is its own. Resources
(`osid`, `address`, `associated`) are shared by all runs, a record belongs to one. A call of
the cloud returns a resource with an id of its own, `<<run, resource>>`, or raises. The
contents of messages, images, flavors and the thread's clients are abstracted.

**`Namespace`** has a container as its path from the model, and an action per public
operation: `add_variable`, `add_override`, `get_instance` of a MultiRole for a new key,
`add_roles`, `fix_arguments` of a role, `set_infra_model` and
`compute_provisioning_for_environ`, whose failures (a role's host raises, a host is a text,
the infra model was computed before) leave done what was done before them. `fixed` has
roles, groups and MultiRoles: a walk from the model does not enter what has the flag
(`ShutOut`), and one that a role stops leaves set the flags of all it began on (`WalksTo`,
which roles those are depends on the order of a dict). What variables refer to is collected
as the code does it, a group asking its leaf roles only (`Collected`). What `clone` and
the constructors do to a container's parent, variables and overrides is `NewParent`,
`Overrides` and `InstanceParent`: an instance of a MultiRole has the MultiRole for parent,
but the roles in an instance of a group have none, and a group in one has the template's.
`Chain`, `find_variable` and `get_visible_vars` are recursive functions along parents. The
infra model is the components that exist in each instance of it, which references make.

**`Variables`** adds one question and the frames of `_expand`: a frame is a call, its text
shrinks from pattern to pattern, and `history` is the set that the code adds to before a
nested call and removes from after it. A text is a sequence of names (each for its pattern)
and other words; what a pattern does with what is before and after it is `Spliced`. The
reference is `ValueIn`, substitution all at once.

**`AnsibleAgent`** has the steps of a worker between those in which another can come: *look*
(the role, for the log), *place* (the role to run on), *host*, *args* and *check*; before
each it fixes what that step asks for (`Wanted`), in the three steps of `fix_arguments`: the
test of the flag, setting it, computing. The arguments of a task are computed in the order
of `_fix_arguments`, and `perform_config_raises` stops anywhere in it. A model says what may
raise: arguments of tasks (`raising`), those of roles and servers (`fragile`), which then
stay half fixed, and for a task the making of the arguments of the call, from variables and
files, or the call itself (`trouble`). An attempt that failed is recorded, or repeated after
a wait; when the task has no `repeat_interval`, because an argument before it raised in an
earlier call, that wait is computed from `None` and the thread ends (`alive`). Ansible
answers for the host it was run on. `hindered` is history: the tasks that met something half
fixed, or for which something raised. Tasks have no dependencies here; what order they are
done in is `ExecutionAgent`'s, and its stop, count and queue are here only as far as they
let a worker begin.

**`ModelReferences`** has what is made of a reference (`Place`: a name, an object, the
reference through which it was reached), and the steps of `__new__` and `get_instance`
between their reads and writes: *key, make, look, new, value, invert*. `inverse` is keyed by
values as in the code, where `None` and texts are keys and lists are not. `handed` and
`contended` are history: what was given out, and what two threads made at a time. The cache
has the reference that something was reached through in its keys, so a place is not an
attribute, and one attribute may have several.

Definitions commented as *a deviation* are plausible slips in the code: putting one in the
place of the definition after it makes TLC report the property it is there for. They are
used nowhere else.

## 3. What the runs check

| run | instance | properties |
|---|---|---|
| `agent_one_run` | 3 workers, one run; all acyclic graphs of 3 tasks, and the diamond of 4; any task may fail; task 1 gets two tries | `PredecessorsFirst`, `NothingForgotten`, `CountIsExact`, `RunsAreAnswered`, `WorkersGoHome` |
| `agent_rerun` | 2 runs of 2 workers each (4 threads), graphs of 1 and 2 tasks, log files that may not open | `TypeOK`, `HandedOutOnce`, `NormalReturn`, `ImplementsTaskGraph` |
| `orchestrator` | 2 calls, every combination of models, 2 resources and 2 config tasks, ordered or not | `TypeOK`, `ConfigNeedsInfrastructure`, `TrueMeansStoodUp`, `ProvisionedOnce` |
| `dependencies` | every expression of up to 3 operators over 3 tasks, any two `\|` dependencies, and every expression of up to 2 operators over 2 tasks and one of nine containers | `NothingLeftOut`, `OrderKept`, `NothingElseOrdered`, `CycleCheck` |
| `provisioner` | 2 provisionings of each of 7 infra models of up to 4 resources, all nine classes and each kind of reference among them, a mistyped one and two without a plan | `TypeOK`, `IdsAreThere`, `FloatingIpsAssociated`, `RecordIsComplete`, `SecGroupsOneAtATime`, `TasksEnd` |
| `namespace` | four classes with every kind of container, a role added later, a MultiRoleGroup with a group and a MultiRole in it, hosts given in each way, some of which raise, 1 or 2 keys and infra models, one new Var; and 3 names on a model, one of them also on a group, with every combination of texts, nothing, a reference and a callable, asked from both in all modes | `ChainsEnd`, `VisibleIsFound`, `EnclosingContainersSeen`, `HostsAreProvisioned`, `TypeOKV`, `HistoryIsTheStack`, `AnswersAreValues`, `OthersSeeTheSame`, `VariablesAreProvisioned`, `ExpansionEnds` |
| `ansible` | 2 workers, 2 tasks, 3 roles, one server; own and default roles and `run_from` in every combination, roles without a place, retries, `repeat_count` 0, a role, a server, arguments or a call that raise, and 2 calls of which the first may raise | `TypeOK`, `RightPlace`, `JudgedByTheResult`, `AbortsHaveCauses`, `GivingUpIsReported` |
| `references` | 2 threads, 5 references, 2 components and a key, an attribute that becomes a text, one a component and one a list | `OneForOne`, `ComponentsAreFound` |

`PredecessorsFirst` and `HandedOutOnce` are about the in-degree test of `perform_task`;
`NothingForgotten` is its other half: whatever is not yet performed still has someone who
will get to it. `CountIsExact` is why `stop` is set at the end and only there.
`NormalReturn` is what `initiate_system` relies on. `TrueMeansStoodUp` and
`ConfigNeedsInfrastructure` relate the two agents. `OrderKept`, `NothingElseOrdered` and
`NothingLeftOut` together say that a graph *is* its expressions. `IdsAreThere` is what
`depends_on_list()` is for; `FloatingIpsAssociated` is what `refix_arguments()` is for:
without it the address, looked up before the server existed, is `None`, and the code goes on
without a word. `RecordIsComplete` holds because nothing between the creation of a resource
and its entry in the record can raise. `ChainsEnd` is why a search ends;
`EnclosingContainersSeen` says what it finds on its way, and for which containers that does
not hold; `OthersSeeTheSame` that growing is invisible to what there was.
`HostsAreProvisioned` holds although a role is fixed once, maybe by somebody else and in
another infra model, because what is collected is what the class says of each role that has
been fixed, and the provisioning reads what there is after that; it says nothing of a role
that has no host and that the walk does not come to, for itself or a container around it
raised or was fixed before it was made (see below). `VariablesAreProvisioned` is the same
for variables, but for those of containers in a group. `HistoryIsTheStack` is why a loop is
found, and found only when it is one (`AnswersAreValues`). `RightPlace` holds because the
roles come first among the arguments: a task whose arguments were cut short before them has
no `repeat_count` and is not attempted. `AbortsHaveCauses` lists what may be the cause of an
abort that is recorded: something raised, a place or an argument is missing, Ansible said
so, a `run_from` was judged wrongly, or the race of two workers in `fix_arguments`; nothing
else is, and in particular nothing is read before somebody began to fix it.
`GivingUpIsReported` is the other half: what is given up is recorded. `OneForOne` is what is
left of "only a single reference": the same name of the same reference gives the same
reference, and a key the listed instance, unless two threads made it at a time.
`ComponentsAreFound` holds although the inverse cache is never cleared, because an attribute
is computed once.

*Bounds.* Three tasks are the least with a fan-in that two workers can race for and a
fan-out; the diamond has one after the other. Three workers let one hold the lock while two
wait. Two runs let workers, items and aborts of one meet the other; four threads let all
workers of the first still be there. Two calls let each outcome be followed by each; two
tasks per phase let it be half done. Four resources are the longest chain of references
(network, subnet, interface with its router), and two security groups contend for the lock;
two provisionings let late workers of one meet the other. The first `get_graph` is the one
an agent uses; see below for the second. Graphs whose edges go upwards are all acyclic
graphs but for the names. `agent_rerun`, `ansible` and `references` use symmetry of threads,
which no definition names; the liveness runs do not. Three names are the least with a loop
that does not go through the name asked for and a name used twice without a loop; a group
with its own variable makes one name mean two things. A group in an instance of a group is
the deepest cloning that differs from the one before it; a second infra instance makes a
role fixed in another one. Two tasks let one worker fix what the other needs; three roles
let `run_from`, `task_role` and the defaults differ. Five references are room for two
threads that make the same two references, and for one more.

*Fairness.* `FairSpec` has weak fairness of each worker and of the thread in
`perform_config`: threads of the operating system, each of which runs whenever it can. This
assumes that `_perform_task` comes back. Nobody is forced to call `perform_config`. Weak
fairness is enough for the lock because a worker that has it gives it back without waiting,
and there are finitely many tasks to acquire it for. The liveness run has no log files: see
*dead workers* below. In `Provisioner` the workers are weakly fair, which includes that the
cloud answers: a call returns or raises, and a server being polled gets an address or an
error. Without that `TasksEnd` is false, as the loop has no limit. Starting a task is not
forced, since a stopped agent starts none. `FairSpecV` has weak fairness of the expansion of
the one question asked, which is a sequential computation; nobody is forced to ask.

### Where the code does not do what it says

Four runs end in a counterexample, on purpose; `PROJECT.json` quotes the lines.

- `agent_stale_abort`: `aborted_tasks` is never emptied, so after a failed run every later
  run on the agent raises, even one in which all tasks succeed.
- `deps_nested`: the tasks of a `ConfigClassTask` inside another are silently not performed:
  its iterator of dependencies is used up when the outer one looks for its ends.
- `ansible_run_from`: the answer for a task with a `run_from` is looked up under the host of
  its `task_role`, so unless that is the same host the task fails though it succeeded.
- `references_by_value`: a role without a host, or with a text for one, becomes a reference
  to any attribute that had that value (`None`, or the same text) when it was last looked
  at.

Where a doc promises more than the code keeps, the property of the passing run is what
remains true, and its exception is the case in which the code does otherwise. Each case is
in the run, and TLC reports it when the exception is left out.

- "Only a single reference is ever generated" for an attribute (`modeling.py:616`). The
  cache is keyed by the reference through which an attribute was reached too
  (`modeling.py:662`), so one thread that goes by `server.value` and, where the value of
  `ip` is that server, by `ip.value.value` gets two. `OneForOne` speaks of one name of one
  parent.
- "If 'key' has been seen before, then return the instance previously created"
  (`modeling.py:558`). Two threads that index one key make two instances; the second takes
  the place of the one the first was given, which is not listed then. The same is true of
  references. `OneForOne` excepts what is in `contended`.
- `compute_provisioning_for_environ` computes what "the current state of the namespace"
  requires (`namespace.py:813`). It does not go into a group or MultiRole that is fixed
  (`modeling.py:196`): an instance that was made after a first computation, or was left when
  a role raised in one, has no host then, and none is provisioned. `HostsAreProvisioned`
  excepts a role that is shut out. And a group asks its leaf roles only
  (`namespace.py:618`), so what a variable of a group or MultiRole in a group refers to is
  not provisioned. `VariablesAreProvisioned` excepts those.
- A worker "is giving up on performing a task" by recording it (`core.py:133`). A task whose
  arguments raised in one `perform_config` has no `repeat_count` in the next, is given up
  without an attempt or a record, and `perform_config` returns normally; with a
  `repeat_count` but no `repeat_interval`, a failed attempt with more to come ends the
  worker's thread, as the wait is computed from `None` (`core.py:204`), and with no other
  worker there is no answer. `GivingUpIsReported` excepts those tasks, and those with
  `repeat_count` 0.

Also seen, and kept out of the passing runs of the agent by their constants: a task with
`repeat_count` 0 is given up without a record, and `perform_config` returns normally; a
graph without tasks never brings the count to 0, so `perform_config` never returns; *dead
workers*, whose log file cannot be opened, leave a task without an answer, and when no
worker is left the run has none; a second `get_graph` on an instance (a second run) has lost
the inside of its `ConfigClassTask`s. A worker of a failed provisioning that is late may set
the `osid` of a resource between `set_osid` and `record.add_*` of a worker of the next one,
so that the record of the next names the wrong id; `RecordIsComplete` is stated for the
first provisioning of a model. A worker past its test of `stop` begins its task after the
abort, though the doc of `abort_process_tasks` says otherwise; the properties hold in spite
of it.

In the orchestrator: an exception other than the two expected leaves `status` at
`PERFORMING_*`, and `is_running()` stays True (`__init__.py:251`); `get_errors()` after an
aborted provisioning that had no agent reads `None`, or the errors of the agent of an
earlier call (`__init__.py:223`). In the graphs: with an empty list of roles nothing
connects a `MultiTask` to its rendezvous, and what came before it no longer comes before
what is after it (`config.py:1108`), and the same is true of `TaskGroup()`
(`config.py:890`); the check for cycles looks at the class, where a container is not
connected to its rendezvous, and misses cycles through one, for whose tasks `perform_config`
waits for ever (`config.py:499`).

In the namespace: a role in an instance of a `MultiRoleGroup` has no parent and sees no
variables but its own; a group in one goes on to the template and what the template has, not
to its own instance (`EnclosingContainersSeen` excepts them). The value of a variable that a
nested pattern needs and nobody has is the text "None" in the answer, and
`raise_on_unexpanded` is not passed down to nested calls (`namespace.py:138`). In a second
`perform_config` after one that raised while it computed arguments, a task may run without
those after the one that raised, without its `remote_user` for instance (`modeling.py:197`);
`RightPlace` says what may not be wrong then. `MultiRole`s of `MultiRole`s cannot be
indexed.

## 4. What is proved

TLAPS checks these for all values of the constants, under the assumptions named in the
modules (finite graphs over the given tasks, natural numbers as bounds).

- `ExecutionAgentProofs`: `TypeCorrect`, `PredecessorsFirstCorrect`, `HandedOutOnceCorrect`.
  The last two are not inductive: they do not say why `ins_traversed` may be trusted.
  `AgentInvariant!IInv` adds that it counts the traversed in-edges of a task (`EdgeInv`),
  that an edge is traversed once, by the worker that holds its source, after the source
  succeeded (`TodoInv`, `HeldInv`), and that a task which was released has had all its
  in-edges counted (`ReleaseInv`). So the count reaches the in-degree with the last edge and
  never again; what is queued then was not released before and has its predecessors done.
  `InitialInv` does the same for the tasks that `perform_config` queues.
- Also in `ExecutionAgentProofs`, from `IInv` and more. `NothingForgottenCorrect`: while a
  run goes on, a task all of whose edges are counted waits or was performed
  (`CountedWaits`), and an edge that is not counted, out of a performed task, is one its
  worker has yet to traverse (`EdgesWait`); before the flag is cleared, workers of earlier
  runs leave the new run alone (`Untouched`). `CountIsExactCorrect`: in a first run all who
  count, count in it (`Counts`). `NormalReturnCorrect`, from `Attempted`, that every
  `repeat_count` is positive: where nothing was aborted only the worker that finds the count
  0 sets the flag, nothing is left then, and nobody who would still count takes it into the
  next run (`Clean`). `Attempted` is needed: a task with `repeat_count` 0 ends the run
  without being performed or recorded (section 3). `ImplementsTaskGraphCorrect`, from
  `Attempted` too: every step of the agent is one of `TaskGraph` under the mapping in
  `AgentProperties`, or none. `Orchestrator` is built from two `TaskGraph`s; what is proved
  of it needs no more of an agent than this.
- `DependencyProofs`, from the expressions of a user to the threads of the agent, for any
  models, their expressions of any size and depth. `DepInv`, the inductive invariant, says
  which edges the graph has: those of the class and, for each task, those that the state of
  its iterator gives. `NothingElseOrderedCorrect`: an edge of a part is one the expression
  says, by induction over expressions. `OrderKeptCorrect` and `NothingLeftOutCorrect`:
  whatever is in an expression lies on a path from an entry to an exit of it (`Enclosed`), so
  an edge from each exit to each entry orders all of the one before all of the other
  (`Kept`); for a `ConfigClassTask` this needs that a finite graph without cycles has for
  each node a root that reaches it and a leaf it reaches (`RootReaches`, `LeafReached`).
  `CycleCheckCorrect`: among plain tasks every order goes over an edge of the class
  (`OverEdge`), so a cycle of orders is a cycle of edges. `GraphIsWhole`: nobody who fixes
  arguments early, nor an earlier call, changes the graph.
  `DependenciesHonouredCorrect`: the abstract agent keeps the order of any graph. And the
  two together, `PerformedAsSaidCorrect`: if what `get_graph` makes of a model is performed,
  for `from | to` no task of `to` starts before each of `from` is done. With
  `ImplementsTaskGraphCorrect` this is what a user of `with_dependencies` relies on.
- `OrchestratorProofs`: `TypeCorrect`, `ProvisionedOnceCorrect`, `TrueMeansStoodUpCorrect`,
  `ConfigNeedsInfrastructureCorrect`, for any graphs and number of calls. `OnceInv`: with a
  namespace, nothing has been provisioned while `provisioning_computed` is unset, nor when
  the call that sets it comes to provision. `ReadyInv`: the config phase is entered only
  with its resources done, and once a config run has begun they stay done, because `OnceInv`
  excludes a later provisioning (a config model comes with a namespace).
- `ProvisionerProofs`: `TypeCorrect`, `IdsAreThereCorrect`, `FloatingIpsAssociatedCorrect`,
  `RecordIsCompleteCorrect`, `SecGroupsOneAtATimeCorrect`, for any infra models. `OrderInv`:
  what a started task depends on is done in the same run, by `Plan` and the guard of
  `TaskGraph`. `IdInv` and `FloatingInv` say what a worker has written by each step,
  `LockInv` who has the lock, and `RecordInv` that in a first run the id on a resource is
  that of the worker which is about to record it.

- `AnsibleAgentProofs`: `TypeCorrect`, `RightPlaceHolds`, `JudgedByTheResultHolds`,
  `AbortsHaveCausesHolds`, `GivingUpIsReportedHolds`, for any models, tasks, roles and
  workers. `AttemptInv`: who attempts a task has its `repeat_count`, and with it, as
  arguments are computed in order (`RolesBeforeRepeats`), its roles; and the host that a
  worker has is that of the role its model means, which stays so because what is final stays
  final (`HostsStay`). `AbortsHaveCausesHolds`: a worker that went past the role of its task
  found it final or met it half fixed (`PastRole`), so each way to fail (`MayFail`) has a
  cause that stays one.
- `ModelReferencesProofs`: `TypeCorrect` (of a `TypeOK` that no run repeats),
  `OneForOneHolds`, `ComponentsAreFoundHolds`, for any threads. `ThreadInv` and
  `InverseInv`: what is stored under a component, or was read to be, still leads to it,
  because an attribute that has a value keeps it (`TargetStays`). `UniqueInv` and `KeyInv`:
  of a place or key that is not contended, whoever makes is alone and nothing is stored, and
  whoever has one has the one that is stored. `ParentInv`, that a reference made through
  another is to the object that one leads to, which does not change (`Parents`), makes a
  name and the reference it was asked of determine the place.
- `NamespaceProofs`, for any model class, instances, variables and infra models:
  `NamespaceTypes`; `ChainsAlwaysEnd`, because the tree is closed under taking the last
  element off a path and the container a clone gets as its parent is nearer the model
  (`TreeInv`); `HostsAreAlwaysProvisioned` and `VariablesAreAlwaysProvisioned` (`HostInv`:
  the host that a role has been given is the one its class names, in whatever infra model; a
  computation that returns has given one to every role it was not shut out from, and all of
  those are collected). `VisibleIsAlwaysFound` and `OthersAlwaysSeeTheSame`, by induction
  along the parents of a container; `EnclosingContainersAlwaysSeen`, from `PlaceInv`: a
  container that the property does not except has for parent the path without its last
  element.
- Also in `NamespaceProofs`, of `Variables`: `QuestionTypes`; `HistoryIsTheStackHolds`: for
  any question, the history is the names of the calls in progress but the outermost, none of
  them twice; and `AnswersAreAlwaysValues`. It is not inductive, as it says nothing of the
  calls in progress. `AnswerInv` says two things of them. `Way`: each call is for a name
  that those before it reach, and the names in its text are reached from it, so a name that
  is in the history when it comes up again is on a loop. `Right`: if nothing that is needed
  is missing, the text of a call has the value of the text it began with, and a name that
  was needed and is no longer in it reaches no loop. So a text without names is that of a
  name that reaches no loop, and of such a name `ValueIn` is the text with the values of its
  names in it (`Settled`, by induction on how many names it reaches). A call never returns
  on a loop, so a loop that is reached is found.

Some of `DependencyProofs` has conditions, and without each of them the code loses an order
or a task (section 3). `Regular`, for `OrderKeptCorrect`, `NothingLeftOutCorrect` and
`PerformedAsSaidCorrect`: no `TaskGroup` without arguments, no empty role list or inner model,
no `ConfigClassTask` in another at any depth, and no inner model that orders its tasks in a
circle, which it can only through a container. `GroupsFilled`, the first of these, for
`CycleCheckCorrect`. `OnceOnly`, for the graph: one call of `get_graph`, or no
`ConfigClassTask`. `NothingElseOrderedCorrect` has none. `RegularAssumption` in
`MCDependencies` has TLC see that all models of the run `dependencies` meet them.

These rest on what the constants are assumed to be, under names in the modules. Of
`Dependencies`: that expressions are built from the bottom up and are finitely many. Of the
namespace: that containers and variables of a class are what Python classes can have, that
the model is the one container of its kind, that names are finitely many and that `None` is
neither a path, a text nor a question. TLC evaluates them on every run.

`Chain`, `find_variable`, `Reach` and `ValueIn` are recursive functions. That such a
function exists and is what its definition says is `Recursion!RecursiveFunction`, proved
once for functions whose arguments have a rank; it is stated with functions for the bodies
and not with operators, as the provers need it, and so is induction (`Induction`, `Least`,
`TextInduction`). The functions on expressions take the union of their values at several
parts; `RecursionOverParts` and `PartsInduction` are the same for them, and `PathsRecursion`
for the sets of nodes in `Paths`.

Only model-checked: liveness (`RunsAreAnswered`, `WorkersGoHome`, `TasksEnd`,
`ExpansionEnds`), which is out of TLAPS's reach.

## 5. Not modelled, and the plan

Not modelled, and why:

- logging and log contents, the pause between the phases, `json_runner` (it runs Ansible in
  another process), the text of the arguments of Ansible modules and of resources that refer
  to no resource: no state of the system depends on them;
- storing and loading a provisioning record (`support.py`): one sequential step, whose loss
  of ids (`support.py:60`) is a hazard in `PROJECT.json`;
- context expressions and reference selections (`modeling.py`): they compute a value from
  arguments, and whether that raises is a choice in `Namespace` and `AnsibleAgent`;
- the nexus: constructors and `update_nexus` fill it, before `perform_config` starts its
  workers. Three things to know of it: `merge_from` lets the entries of the old nexus win,
  an inner `ConfigClassTask` instance that was made before `update_nexus` keeps the nexus it
  had, and inner instances take the place of the config model in a nexus they share;
- that runs of one agent overlap is in `ExecutionAgent`, not in `AnsibleAgent`, and the
  waiting between retries in neither;
- the default role that a `ConfigClassTask` gives to the model it makes (`set_task_role`),
  which is a model with that default in `AnsibleAgent`;
- test doubles and examples: no behaviour of their own.

To come: the nexus, with the models that are made from others; a provisioning record that is
stored, loaded and used again.

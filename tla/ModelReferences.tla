--------------------------- MODULE ModelReferences ---------------------------
(***************************************************************************)
(* The references into a model instance (modeling.py): where they come     *)
(* from, the cache that is to make them unique, its inverse, which finds   *)
(* the reference to an object, and the instances that keys make. Workers   *)
(* and the main thread share the caches, which have no lock.               *)
(*                                                                         *)
(* The model instance has plain components and one MultiComponent. Each    *)
(* component has one attribute, "value", which is None until it is         *)
(* computed (by fix_arguments, or by the provisioner): a text, a list or   *)
(* another component. A role asks the inverse cache for its host           *)
(* (namespace.py).                                                         *)
(***************************************************************************)
EXTENDS Naturals, Sequences, FiniteSets, Functions, TLC

CONSTANTS Threads,
          Plain,        \* the plain components, named by their attributes
          Keys,         \* keys of the MultiComponent
          Made,         \* the objects made for each key, in order: a sequence of names
          Texts, Lists, \* values: of those, only a list cannot be a key of a dictionary
          Roles, HostOf,    \* the roles, and the host that each is given
          Settings,     \* what the attributes of components may become
          MaxRefs,      \* bound on the references
          Root, None

Objects == UNION {{Made[k][i] : i \in DOMAIN Made[k]} : k \in Keys}
Components == Plain \cup Objects
Values == Components \cup Texts \cup Lists \cup {None}

ASSUME ReferencesAssumption ==
  /\ MaxRefs \in Nat
  /\ Made \in [Keys -> Seq(Objects)] /\ Settings \subseteq Components \X Values
  /\ \A r \in Roles : HostOf[r] \in Values \ Lists
  /\ {"value", Root, None} \cap (Plain \cup Keys) = {} /\ None \notin Components \cup Texts \cup Lists
  /\ Plain \cap Objects = {} /\ Components \cap (Texts \cup Lists) = {} /\ Keys \cap Plain = {}
  /\ Root \notin Components
  /\ \A k, l \in Keys : \A i \in DOMAIN Made[k], j \in DOMAIN Made[l] :
       Made[k][i] = Made[l][j] => k = l /\ i = j

VARIABLES instances,    \* _instances of the MultiComponent
          made,         \* how many objects were made for each key
          attribute,    \* the value of each component's attribute
          refs,         \* the references, in the order they were made
          cache,        \* _inst_cache: from what a reference is made of to its number
          inverse,      \* _inv_cache: from objects and values to a reference
          thread,
          host,         \* host_ref of the roles that are fixed: a value, and whether a reference
          handed,       \* the references that were handed out (history)
          contended     \* the keys and places that two threads made for at a time (history)

vars == <<instances, made, attribute, refs, cache, inverse, thread, host, handed, contended>>

Idle == [pc |-> "idle"]
NoReference == 0
Unfixed == [ref |-> NoReference, value |-> None, fixed |-> FALSE]

Init ==
  /\ instances = [k \in Keys |-> None] /\ made = [k \in Keys |-> 0]
  /\ attribute = [c \in Components |-> None]
  /\ refs = <<>> /\ cache = <<>> /\ inverse = <<>>    \* no domain
  /\ thread = [t \in Threads |-> Idle]
  /\ host = [r \in Roles |-> Unfixed]
  /\ handed = {} /\ contended = {}

-----------------------------------------------------------------------------
(* A place is what a reference is made of: a name on an object, reached    *)
(* through another reference. For a key the object is the instance itself. *)
Place(n, o, p) == [name |-> n, obj |-> o, parent |-> p]
Value(x) == IF x.name = "value" THEN attribute[x.obj]
            ELSE IF x.obj = Root THEN x.name ELSE x.obj

Stored(d, x, y) == [z \in DOMAIN d \cup {x} |-> IF z = x THEN y ELSE d[z]]
Goes(t, to) == thread' = [thread EXCEPT ![t] = to]
Others(t, pc, x) == \E u \in Threads \ {t} : thread[u].pc = pc /\ thread[u].for = x
AtATime(t, pc, x, p) == contended' = IF Others(t, pc, x) THEN contended \cup {p} ELSE contended
TheKey(k) == Place(k, Root, NoReference)

(* An attribute of the model, a key of the MultiComponent, an attribute of *)
(* a component.                                                            *)
Access(t) ==
  /\ thread[t] = Idle /\ Len(refs) + Cardinality(Threads) <= MaxRefs
  /\ \/ \E c \in Plain : Goes(t, [pc |-> "look", for |-> Place(c, Root, NoReference)])
     \/ \E k \in Keys : Goes(t, [pc |-> "key", for |-> k])
     \/ \E h \in handed : /\ Value(h.place) \in Components
                        /\ Goes(t, [pc |-> "look", for |-> Place("value", Value(h.place), h.ref)])
  /\ UNCHANGED <<instances, made, attribute, refs, cache, inverse, host, handed, contended>>

(* get_instance: read, and then stored.                                    *)
Key(t, o) == [pc |-> "look", for |-> Place(thread[t].for, o, NoReference)]
get_instance(t) ==
  LET k == thread[t].for IN
  /\ thread[t].pc = "key"
  /\ IF instances[k] # None THEN Goes(t, Key(t, instances[k])) /\ UNCHANGED contended
     ELSE Goes(t, [pc |-> "make", for |-> k]) /\ AtATime(t, "make", k, TheKey(k))
  /\ UNCHANGED <<instances, made, attribute, refs, cache, inverse, host, handed>>

store_instance(t) ==
  LET k == thread[t].for  o == Made[k][made[k] + 1] IN
  /\ thread[t].pc = "make" /\ made[k] < Len(Made[k])
  /\ made' = [made EXCEPT ![k] = @ + 1]
  /\ instances' = [instances EXCEPT ![k] = o]
  /\ Goes(t, Key(t, o))
  /\ UNCHANGED <<attribute, refs, cache, inverse, host, handed, contended>>

(* __new__: the cache is read, and then stored.                            *)
ByName(p) == Place(p.name, Root, NoReference)    \* a deviation
Cached(p) == p
look_up(t) ==
  LET p == thread[t].for IN
  /\ thread[t].pc = "look"
  /\ IF Cached(p) \in DOMAIN cache
     THEN /\ Goes(t, [pc |-> "value", for |-> p, ref |-> cache[Cached(p)]])
          /\ UNCHANGED contended
     ELSE Goes(t, [pc |-> "new", for |-> p]) /\ AtATime(t, "new", p, p)
  /\ UNCHANGED <<instances, made, attribute, refs, cache, inverse, host, handed>>

store_reference(t) ==
  LET p == thread[t].for  n == Len(refs) + 1 IN
  /\ thread[t].pc = "new"
  /\ refs' = Append(refs, p)
  /\ cache' = Stored(cache, Cached(p), n)
  /\ Goes(t, [pc |-> "value", for |-> p, ref |-> n])
  /\ UNCHANGED <<instances, made, attribute, inverse, host, handed, contended>>

(* The value that the reference has now is the key of the inverse cache,   *)
(* or, when it cannot be one, the object that has the attribute.           *)
Parent(p) == IF p.obj = Root THEN p.name ELSE p.obj    \* a deviation
Target(p) == IF Value(p) \in Lists THEN p.obj ELSE Value(p)
read_value(t) ==
  /\ thread[t].pc = "value"
  /\ Goes(t, [pc |-> "invert", for |-> thread[t].for, ref |-> thread[t].ref,
              target |-> Target(thread[t].for)])
  /\ UNCHANGED <<instances, made, attribute, refs, cache, inverse, host, handed, contended>>

invert(t) ==
  /\ thread[t].pc = "invert"
  /\ inverse' = Stored(inverse, thread[t].target, thread[t].ref)
  /\ handed' = handed \cup {[place |-> thread[t].for, ref |-> thread[t].ref]}
  /\ Goes(t, Idle)
  /\ UNCHANGED <<instances, made, attribute, refs, cache, host, contended>>

(* The attribute of a component is computed.                               *)
Exists(c) == c \in Plain \/ \E k \in Keys : \E i \in 1 .. made[k] : Made[k][i] = c
set_attribute(c, v) ==
  /\ <<c, v>> \in Settings /\ Exists(c)
  /\ attribute[c] = None /\ v # None
  /\ attribute' = [attribute EXCEPT ![c] = v]
  /\ UNCHANGED <<instances, made, refs, cache, inverse, thread, host, handed, contended>>

(* Role._fix_arguments: the host that was given, or the reference that is  *)
(* found for it.                                                           *)
find_ref_for_obj(v) == IF v \in DOMAIN inverse THEN inverse[v] ELSE NoReference
fix_role(r) ==
  /\ ~host[r].fixed
  /\ host' = [host EXCEPT ![r] = [ref |-> find_ref_for_obj(HostOf[r]), value |-> HostOf[r],
                                  fixed |-> TRUE]]
  /\ UNCHANGED <<instances, made, attribute, refs, cache, inverse, thread, handed, contended>>

Next ==
  \/ \E t \in Threads : \/ Access(t) \/ get_instance(t) \/ store_instance(t) \/ look_up(t)
                        \/ store_reference(t) \/ read_value(t) \/ invert(t)
  \/ \E c \in Components, v \in Values : set_attribute(c, v)
  \/ \E r \in Roles : fix_role(r)

Spec == Init /\ [][Next]_vars

-----------------------------------------------------------------------------
(* Types; a reference is made of a place and an earlier reference, and     *)
(* what is cached, inverted or handed out is a reference that was made.    *)
Numbers == 1 .. Len(refs)
Places == [name : Plain \cup Keys \cup {"value"}, obj : Components \cup {Root}, parent : Nat]
IsPlace(p) ==
  p \in Places /\ p.parent <= Len(refs) /\ (p.name \in Plain <=> p.obj = Root)
TypeOK ==
  /\ instances \in [Keys -> Objects \cup {None}]
  /\ made \in [Keys -> Nat] /\ \A k \in Keys : made[k] <= Len(Made[k])
  /\ attribute \in [Components -> Values]
  /\ refs \in Seq(Places) /\ \A n \in Numbers : IsPlace(refs[n]) /\ refs[n].parent < n
  /\ Range(cache) \subseteq Numbers /\ Range(inverse) \subseteq Numbers
  /\ DOMAIN inverse \subseteq Values
  /\ DOMAIN thread = Threads
  /\ \A t \in Threads : /\ thread[t].pc \in {"key", "make"} => thread[t].for \in Keys
                        /\ thread[t].pc \in {"look", "new"} => IsPlace(thread[t].for)
                        /\ thread[t].pc \in {"value", "invert"} => thread[t].ref \in Numbers
                        /\ thread[t].pc = "invert" => thread[t].target \in Values
  /\ DOMAIN host = Roles
  /\ \A r \in Roles : host[r].ref \in Numbers \cup {NoReference}
  /\ \A h \in handed : h.ref \in Numbers

(* What the model, or a reference, gives under one name is one reference   *)
(* for good: to the attribute it was asked for, and for a key to the       *)
(* instance that is listed. That is so because an object that is reached   *)
(* through a reference stays the one it is reached to; but where two       *)
(* threads made the reference, or the instance, at a time.                 *)
OneForOne ==
  \A h \in handed :
    /\ refs[h.ref] = h.place
    /\ \A i \in handed : h.place.name = i.place.name /\ h.place.parent = i.place.parent =>
                          h.ref = i.ref \/ {h.place, TheKey(h.place.name)} \cap contended # {}
    /\ h.place.name \in Keys => instances[h.place.name] = h.place.obj
                                 \/ TheKey(h.place.name) \in contended

(* What is found for a component leads to it: it is the component, or one  *)
(* of its attributes, but then one that is a list. Whatever was given a    *)
(* reference can be found, and a role that is given a component keeps to   *)
(* it.                                                                     *)
LeadsTo(n) == IF Value(refs[n]) \in Lists THEN refs[n].obj ELSE Value(refs[n])
ComponentsAreFound ==
  /\ \A c \in Components \cap DOMAIN inverse : LeadsTo(inverse[c]) = c
  /\ \A h \in handed : h.place.name # "value" => Value(h.place) \in DOMAIN inverse
  /\ \A r \in Roles :
       host[r].ref # NoReference /\ HostOf[r] \in Components => LeadsTo(host[r].ref) = HostOf[r]

(* "If the value supplied was a hard-coded string or variable override,    *)
(* then there will never be a ref object available for it. In that case we *)
(* need to return the object that was already there." (namespace.py:556)   *)
Meant(r) == IF host[r].ref = NoReference THEN host[r].value ELSE Value(refs[host[r].ref])
HostIsTheOneGiven == \A r \in Roles : host[r].fixed => Meant(r) = HostOf[r]
=============================================================================

------------------------ MODULE ModelReferencesProofs ------------------------
(***************************************************************************)
(* The caches of references, for any threads, components, keys and values. *)
(* Nothing guards the caches; that a component still leads to itself rests *)
(* on attributes that are computed once, so that what a thread has read to *)
(* store it later can only have been None and have become something. That  *)
(* what gives a reference gives the same one again rests on that, too, and *)
(* on who stores: of a place that no two threads made for at a time, it is *)
(* the only one that found none.                                           *)
(***************************************************************************)
EXTENDS ModelReferences, TLAPS

(* What is stored, or about to be, under a component leads to it.          *)
ThreadInv ==
  \A t \in Threads :
    /\ thread[t].pc \in {"value", "invert"} => refs[thread[t].ref] = thread[t].for
    /\ thread[t].pc = "invert" =>
         /\ thread[t].target \in Components => Target(thread[t].for) = thread[t].target
         /\ thread[t].for.name # "value" => thread[t].target = Value(thread[t].for)

CacheInv == \A p \in DOMAIN cache : cache[p] \in Numbers /\ refs[cache[p]] = p

InverseInv ==
  /\ \A v \in DOMAIN inverse : inverse[v] \in Numbers
  /\ \A c \in Components \cap DOMAIN inverse : Target(refs[inverse[c]]) = c

HandedInv ==
  \A h \in handed : /\ refs[h.ref] = h.place
                    /\ h.place.name # "value" => Value(h.place) \in DOMAIN inverse

RoleInv ==
  \A r \in Roles : host[r].ref # NoReference /\ HostOf[r] \in Components =>
                     Target(refs[host[r].ref]) = HostOf[r]

(* A place that is not contended is made for by one thread, when no        *)
(* reference is stored, and then everybody has the one that is stored.     *)
UniqueInv ==
  /\ \A t \in Threads : thread[t].pc = "new" /\ thread[t].for \notin contended =>
       thread[t].for \notin DOMAIN cache /\ ~Others(t, "new", thread[t].for)
  /\ \A t \in Threads : thread[t].pc \in {"value", "invert"} /\ thread[t].for \notin contended =>
       thread[t].for \in DOMAIN cache /\ cache[thread[t].for] = thread[t].ref
  /\ \A h \in handed : h.place \notin contended =>
       h.place \in DOMAIN cache /\ cache[h.place] = h.ref

(* So it is for the instance of a key.                                     *)
KeyInv ==
  /\ \A t \in Threads : thread[t].pc = "make" /\ TheKey(thread[t].for) \notin contended =>
       instances[thread[t].for] = None /\ ~Others(t, "make", thread[t].for)
  /\ \A t \in Threads :
       /\ thread[t].pc \in {"look", "new", "value", "invert"}
       /\ thread[t].for.name \in Keys /\ TheKey(thread[t].for.name) \notin contended
       => instances[thread[t].for.name] = thread[t].for.obj
  /\ \A h \in handed : h.place.name \in Keys /\ TheKey(h.place.name) \notin contended =>
       instances[h.place.name] = h.place.obj

IInv == /\ TypeOK /\ ThreadInv /\ CacheInv /\ InverseInv /\ HandedInv /\ RoleInv
        /\ UniqueInv /\ KeyInv

-----------------------------------------------------------------------------
(* A place has a value, and leads to a value.                              *)
LEMMA ValueTypes ==
  ASSUME TypeOK, NEW p, IsPlace(p)
  PROVE  /\ Value(p) \in Values /\ Target(p) \in Values
         /\ p.name = "value" => p.obj \in Components
         /\ p.name # "value" => Value(p) \in Components /\ Target(p) = Value(p)
<1>1. p.name \in Plain \cup Keys \cup {"value"} /\ p.obj \in Components \cup {Root}
      /\ (p.name \in Plain <=> p.obj = Root)
  BY DEF IsPlace, Places
<1>2. attribute \in [Components -> Values] BY DEF TypeOK
<1>3. "value" \notin Plain /\ Plain \subseteq Components /\ Components \subseteq Values
      /\ Components \cap Lists = {}
  BY ReferencesAssumption DEF Components, Values
<1>4. CASE p.name = "value"
  <2>1. p.obj \in Components BY <1>1, <1>3, <1>4
  <2>2. Value(p) \in Values BY <1>2, <1>4, <2>1 DEF Value
  <2>. QED BY <1>3, <1>4, <2>1, <2>2 DEF Target
<1>5. CASE p.name # "value"
  <2>1. Value(p) \in Components BY <1>1, <1>3, <1>5 DEF Value
  <2>. QED BY <1>3, <1>5, <2>1 DEF Target
<1>. QED BY <1>4, <1>5

(* What a place leads to, once it is a component, it leads to for good:    *)
(* an attribute that has a value keeps it.                                 *)
LEMMA TargetStays ==
  ASSUME TypeOK, NEW p, IsPlace(p), Target(p) \in Components,
         \A c \in Components : attribute[c] # None => attribute'[c] = attribute[c]
  PROVE  Target(p)' = Target(p)
<1>1. None \notin Components \cup Lists BY ReferencesAssumption
<1>2. CASE p.name = "value"
  <2>1. p.obj \in Components BY <1>2, ValueTypes
  <2>2. attribute[p.obj] # None BY <1>1, <1>2 DEF Target, Value
  <2>. QED BY <1>2, <2>1, <2>2 DEF Target, Value
<1>3. CASE p.name # "value" BY <1>3 DEF Target, Value
<1>. QED BY <1>2, <1>3

-----------------------------------------------------------------------------
(* A step of a thread that stores nothing, and what makes it keep IInv.    *)
Moved(t, to) ==
  /\ Goes(t, to) /\ contended \subseteq contended'
  /\ UNCHANGED <<instances, made, attribute, refs, cache, inverse, host, handed>>

Typed(to) ==
  /\ to.pc \in {"key", "make"} => to.for \in Keys
  /\ to.pc \in {"look", "new"} => IsPlace(to.for)
  /\ to.pc \in {"value", "invert"} => to.ref \in Numbers /\ refs[to.ref] = to.for
  /\ to.pc = "invert" =>
       /\ to.target \in Values
       /\ to.target \in Components => Target(to.for) = to.target
       /\ to.for.name # "value" => to.target = Value(to.for)

Alone(t, to) ==
  /\ to.pc = "new" /\ to.for \notin contended' => to.for \notin DOMAIN cache /\ ~Others(t, "new", to.for)
  /\ to.pc \in {"value", "invert"} /\ to.for \notin contended' =>
       to.for \in DOMAIN cache /\ cache[to.for] = to.ref
  /\ to.pc = "make" /\ TheKey(to.for) \notin contended' =>
       instances[to.for] = None /\ ~Others(t, "make", to.for)
  /\ /\ to.pc \in {"look", "new", "value", "invert"}
     /\ to.for.name \in Keys /\ TheKey(to.for.name) \notin contended'
     => instances[to.for.name] = to.for.obj

(* A thread that only moves keeps the invariant, if where it moves to is   *)
(* typed and nobody else's.                                                *)
LEMMA MovesKeep ==
  ASSUME IInv, NEW t \in Threads, NEW to, Moved(t, to), Typed(to), Alone(t, to)
  PROVE  IInv'
<1>1. TypeOK /\ ThreadInv /\ CacheInv /\ InverseInv /\ HandedInv /\ RoleInv /\ UniqueInv /\ KeyInv
  BY DEF IInv
<1>2. /\ contended \subseteq contended'
      /\ UNCHANGED <<instances, made, attribute, refs, cache, inverse, host, handed>>
  BY DEF Moved
<1>3. thread'[t] = to /\ DOMAIN thread' = Threads /\ \A u \in Threads \ {t} : thread'[u] = thread[u]
  BY <1>1 DEF Moved, Goes, TypeOK
<1>4. TypeOK'
  <2>1. /\ thread'[t].pc \in {"key", "make"} => thread'[t].for \in Keys
        /\ thread'[t].pc \in {"look", "new"} => IsPlace(thread'[t].for)
        /\ thread'[t].pc \in {"value", "invert"} => thread'[t].ref \in Numbers
        /\ thread'[t].pc = "invert" => thread'[t].target \in Values
    BY <1>3 DEF Typed
  <2>2. \A u \in Threads :
          /\ thread'[u].pc \in {"key", "make"} => thread'[u].for \in Keys
          /\ thread'[u].pc \in {"look", "new"} => IsPlace(thread'[u].for)
          /\ thread'[u].pc \in {"value", "invert"} => thread'[u].ref \in Numbers
          /\ thread'[u].pc = "invert" => thread'[u].target \in Values
    BY <1>1, <1>3, <2>1 DEF TypeOK
  <2>. QED BY <1>1, <1>2, <1>3, <2>2 DEF TypeOK, IsPlace, Numbers
<1>5. ThreadInv'
  <2>1. /\ thread'[t].pc \in {"value", "invert"} => refs[thread'[t].ref] = thread'[t].for
        /\ thread'[t].pc = "invert" =>
             /\ thread'[t].target \in Components => Target(thread'[t].for) = thread'[t].target
             /\ thread'[t].for.name # "value" => thread'[t].target = Value(thread'[t].for)
    BY <1>3 DEF Typed
  <2>. QED BY <1>1, <1>2, <1>3, <2>1 DEF ThreadInv, Target, Value
<1>6. CacheInv' BY <1>1, <1>2 DEF CacheInv, Numbers
<1>7. InverseInv' BY <1>1, <1>2 DEF InverseInv, Target, Value, Numbers
<1>8. HandedInv' BY <1>1, <1>2 DEF HandedInv, Value
<1>9. RoleInv' BY <1>1, <1>2 DEF RoleInv, Target, Value
<1>10. UniqueInv'
  <2>1. ASSUME NEW u \in Threads, thread'[u].pc = "new", thread'[u].for \notin contended'
        PROVE  thread'[u].for \notin DOMAIN cache /\ ~Others(u, "new", thread[u].for)'
    BY <1>1, <1>2, <1>3, <2>1 DEF UniqueInv, Alone, Others
  <2>2. ASSUME NEW u \in Threads, thread'[u].pc \in {"value", "invert"},
               thread'[u].for \notin contended'
        PROVE  thread'[u].for \in DOMAIN cache /\ cache[thread'[u].for] = thread'[u].ref
    BY <1>1, <1>2, <1>3, <2>2 DEF UniqueInv, Alone
  <2>3. \A h \in handed : h.place \notin contended' => h.place \in DOMAIN cache /\ cache[h.place] = h.ref
    BY <1>1, <1>2 DEF UniqueInv
  <2>. QED BY <1>2, <2>1, <2>2, <2>3 DEF UniqueInv
<1>11. KeyInv'
  <2>1. ASSUME NEW u \in Threads, thread'[u].pc = "make", TheKey(thread'[u].for) \notin contended'
        PROVE  instances[thread'[u].for] = None /\ ~Others(u, "make", thread[u].for)'
    BY <1>1, <1>2, <1>3, <2>1 DEF KeyInv, Alone, Others
  <2>2. ASSUME NEW u \in Threads, thread'[u].pc \in {"look", "new", "value", "invert"},
               thread'[u].for.name \in Keys, TheKey(thread'[u].for.name) \notin contended'
        PROVE  instances[thread'[u].for.name] = thread'[u].for.obj
    BY <1>1, <1>2, <1>3, <2>2 DEF KeyInv, Alone
  <2>3. \A h \in handed : h.place.name \in Keys /\ TheKey(h.place.name) \notin contended' =>
                          instances[h.place.name] = h.place.obj
    BY <1>1, <1>2 DEF KeyInv
  <2>4. \A k : TheKey(k)' = TheKey(k) BY DEF TheKey, Place
  <2>. QED BY <1>2, <2>1, <2>2, <2>3, <2>4 DEF KeyInv, TheKey, Place
<1>. QED BY <1>4, <1>5, <1>6, <1>7, <1>8, <1>9, <1>10, <1>11 DEF IInv

(* A component that exists, or a key, is what a reference is made for.     *)
LEMMA AccessKeeps ==
  ASSUME IInv, NEW t \in Threads, Access(t)
  PROVE  IInv'
<1>1. TypeOK /\ HandedInv BY DEF IInv
<1>2. UNCHANGED <<instances, made, attribute, refs, cache, inverse, host, handed, contended>>
  BY DEF Access
<1>3. /\ {"value", Root, None} \cap (Plain \cup Keys) = {} /\ Keys \cap Plain = {}
      /\ Root \notin Components /\ Plain \subseteq Components
  BY ReferencesAssumption DEF Components
<1>4. refs \in Seq(Places) /\ Len(refs) \in Nat BY <1>1 DEF TypeOK
<1>5. ASSUME NEW c \in Plain, Goes(t, [pc |-> "look", for |-> Place(c, Root, NoReference)])
      PROVE  IInv'
  <2>. DEFINE p == Place(c, Root, NoReference)
  <2>1. IsPlace(p) /\ p.name \notin Keys BY <1>3, <1>4 DEF IsPlace, Places, Place, NoReference
  <2>. HIDE DEF p
  <2>2. Typed([pc |-> "look", for |-> p]) /\ Alone(t, [pc |-> "look", for |-> p])
    BY <2>1 DEF Typed, Alone
  <2>. QED BY <1>2, <1>5, <2>2, MovesKeep DEF Moved, p
<1>6. ASSUME NEW k \in Keys, Goes(t, [pc |-> "key", for |-> k])
      PROVE  IInv'
  <2>1. Typed([pc |-> "key", for |-> k]) /\ Alone(t, [pc |-> "key", for |-> k])
    BY DEF Typed, Alone
  <2>. QED BY <1>2, <1>6, <2>1, MovesKeep DEF Moved
<1>7. ASSUME NEW h \in handed, Value(h.place) \in Components,
             Goes(t, [pc |-> "look", for |-> Place("value", Value(h.place), h.ref)])
      PROVE  IInv'
  <2>. DEFINE p == Place("value", Value(h.place), h.ref)
  <2>1. h.ref \in Nat /\ h.ref <= Len(refs) BY <1>1, <1>4 DEF TypeOK, Numbers
  <2>2. IsPlace(p) /\ p.name \notin Keys
    BY <1>3, <1>7, <2>1 DEF IsPlace, Places, Place
  <2>. HIDE DEF p
  <2>3. Typed([pc |-> "look", for |-> p]) /\ Alone(t, [pc |-> "look", for |-> p])
    BY <2>2 DEF Typed, Alone
  <2>. QED BY <1>2, <1>7, <2>3, MovesKeep DEF Moved, p
<1>. QED BY <1>5, <1>6, <1>7 DEF Access

(* The object of a key is what its place has.                              *)
LEMMA KeyPlaces ==
  ASSUME TypeOK, NEW k \in Keys, NEW o \in Objects
  PROVE  IsPlace(Place(k, o, NoReference))
<1>1. o # Root /\ k \notin Plain /\ o \in Components
  BY ReferencesAssumption DEF Components
<1>2. Len(refs) \in Nat BY DEF TypeOK
<1>. QED BY <1>1, <1>2 DEF IsPlace, Places, Place, NoReference

(* A key that has an instance leads to it; otherwise the thread makes one. *)
LEMMA GetInstanceKeeps ==
  ASSUME IInv, NEW t \in Threads, get_instance(t)
  PROVE  IInv'
<1>. DEFINE k == thread[t].for
<1>1. TypeOK BY DEF IInv
<1>2. thread[t].pc = "key" /\ k \in Keys BY <1>1 DEF get_instance, TypeOK
<1>3. UNCHANGED <<instances, made, attribute, refs, cache, inverse, host, handed>>
  BY DEF get_instance
<1>4. CASE instances[k] # None
  <2>1. Goes(t, Key(t, instances[k])) /\ UNCHANGED contended BY <1>4 DEF get_instance
  <2>2. instances[k] \in Objects BY <1>1, <1>2, <1>4 DEF TypeOK
  <2>. DEFINE p == Place(k, instances[k], NoReference)
  <2>3. IsPlace(p) BY <1>1, <1>2, <2>2, KeyPlaces
  <2>4. p.name = k /\ p.obj = instances[k] BY DEF Place
  <2>5. Goes(t, [pc |-> "look", for |-> p]) BY <2>1 DEF Key
  <2>. HIDE DEF p, k
  <2>6. Typed([pc |-> "look", for |-> p]) /\ Alone(t, [pc |-> "look", for |-> p])
    BY <2>3, <2>4 DEF Typed, Alone
  <2>. QED BY <1>3, <2>1, <2>5, <2>6, MovesKeep DEF Moved
<1>5. CASE instances[k] = None
  <2>1. Goes(t, [pc |-> "make", for |-> k]) /\ AtATime(t, "make", k, TheKey(k))
    BY <1>5 DEF get_instance
  <2>2. contended \subseteq contended' BY <2>1 DEF AtATime
  <2>3. TheKey(k) \notin contended' => ~Others(t, "make", k) BY <2>1 DEF AtATime
  <2>. HIDE DEF k
  <2>4. Typed([pc |-> "make", for |-> k]) /\ Alone(t, [pc |-> "make", for |-> k])
    BY <1>2, <1>5, <2>3 DEF Typed, Alone
  <2>. QED BY <1>3, <2>1, <2>2, <2>4, MovesKeep DEF Moved
<1>. QED BY <1>4, <1>5

(* A place that has a reference leads to it; otherwise the thread makes    *)
(* one.                                                                    *)
LEMMA LookUpKeeps ==
  ASSUME IInv, NEW t \in Threads, look_up(t)
  PROVE  IInv'
<1>. DEFINE p == thread[t].for
<1>1. TypeOK /\ CacheInv /\ KeyInv BY DEF IInv
<1>2. thread[t].pc = "look" /\ IsPlace(p) BY <1>1 DEF look_up, TypeOK
<1>3. UNCHANGED <<instances, made, attribute, refs, cache, inverse, host, handed>>
  BY DEF look_up
<1>4. p.name \in Keys /\ TheKey(p.name) \notin contended => instances[p.name] = p.obj
  BY <1>1, <1>2 DEF KeyInv
<1>5. CASE p \in DOMAIN cache
  <2>1. Goes(t, [pc |-> "value", for |-> p, ref |-> cache[p]]) /\ UNCHANGED contended
    BY <1>5 DEF look_up, Cached
  <2>2. cache[p] \in Numbers /\ refs[cache[p]] = p BY <1>1, <1>5 DEF CacheInv
  <2>. HIDE DEF p
  <2>. DEFINE to == [pc |-> "value", for |-> p, ref |-> cache[p]]
  <2>3. Typed(to) /\ Alone(t, to) BY <1>4, <1>5, <2>1, <2>2 DEF Typed, Alone
  <2>. QED BY <1>3, <2>1, <2>3, MovesKeep DEF Moved
<1>6. CASE p \notin DOMAIN cache
  <2>1. Goes(t, [pc |-> "new", for |-> p]) /\ AtATime(t, "new", p, p)
    BY <1>6 DEF look_up, Cached
  <2>2. contended \subseteq contended' BY <2>1 DEF AtATime
  <2>3. p \notin contended' => ~Others(t, "new", p) BY <2>1 DEF AtATime
  <2>. HIDE DEF p
  <2>4. Typed([pc |-> "new", for |-> p]) /\ Alone(t, [pc |-> "new", for |-> p])
    BY <1>2, <1>4, <1>6, <2>2, <2>3 DEF Typed, Alone
  <2>. QED BY <1>3, <2>1, <2>2, <2>4, MovesKeep DEF Moved
<1>. QED BY <1>5, <1>6

(* What is read now is what the reference leads to, if that is a component.*)
LEMMA ReadValueKeeps ==
  ASSUME IInv, NEW t \in Threads, read_value(t)
  PROVE  IInv'
<1>. DEFINE p == thread[t].for
            n == thread[t].ref
            x == Target(p)
            to == [pc |-> "invert", for |-> p, ref |-> n, target |-> x]
<1>1. TypeOK /\ ThreadInv /\ UniqueInv /\ KeyInv BY DEF IInv
<1>2. thread[t].pc = "value" BY DEF read_value
<1>3. Goes(t, to) /\ UNCHANGED <<instances, made, attribute, refs, cache, inverse, host, handed, contended>>
  BY DEF read_value
<1>4. n \in Numbers /\ refs[n] = p BY <1>1, <1>2 DEF TypeOK, ThreadInv
<1>5. IsPlace(p) BY <1>1, <1>4 DEF TypeOK
<1>6. x \in Values /\ (p.name # "value" => x = Value(p)) BY <1>1, <1>5, ValueTypes
<1>7. Typed(to)
  <2>1. x = Target(p) OBVIOUS
  <2>. HIDE DEF p, n, x
  <2>. QED BY <1>4, <1>6, <2>1 DEF Typed
<1>8. Alone(t, to)
  <2>1. /\ p \notin contended => p \in DOMAIN cache /\ cache[p] = n
        /\ p.name \in Keys /\ TheKey(p.name) \notin contended => instances[p.name] = p.obj
    BY <1>1, <1>2 DEF UniqueInv, KeyInv
  <2>2. UNCHANGED contended BY <1>3
  <2>. HIDE DEF p, n, x
  <2>. QED BY <2>1, <2>2 DEF Alone
<1>. QED BY <1>3, <1>7, <1>8, MovesKeep DEF Moved

-----------------------------------------------------------------------------
(* The object that is made for a key nobody else makes one for is the one  *)
(* that all references to the key will have: none was made before it.      *)
LEMMA StoreInstanceKeeps ==
  ASSUME IInv, NEW t \in Threads, store_instance(t)
  PROVE  IInv'
<1>. DEFINE k == thread[t].for
            o == Made[k][made[k] + 1]
            p == Place(k, o, NoReference)
<1>1. TypeOK /\ ThreadInv /\ CacheInv /\ InverseInv /\ HandedInv /\ RoleInv /\ UniqueInv /\ KeyInv
  BY DEF IInv
<1>2. /\ thread[t].pc = "make" /\ made[k] < Len(Made[k])
      /\ made' = [made EXCEPT ![k] = @ + 1] /\ instances' = [instances EXCEPT ![k] = o]
      /\ Goes(t, Key(t, o)) /\ UNCHANGED <<attribute, refs, cache, inverse, host, handed, contended>>
  BY DEF store_instance
<1>3. k \in Keys BY <1>1, <1>2 DEF TypeOK
<1>4. o \in Objects
  <2>1. made[k] \in Nat /\ Len(Made[k]) \in Nat /\ DOMAIN Made[k] = 1 .. Len(Made[k])
    BY <1>1, <1>3, ReferencesAssumption DEF TypeOK
  <2>2. made[k] + 1 \in DOMAIN Made[k] BY <1>2, <2>1
  <2>. QED BY <1>3, <2>2 DEF Objects
<1>5. IsPlace(p) /\ p.name = k /\ p.obj = o BY <1>1, <1>3, <1>4, KeyPlaces DEF Place
<1>6. /\ thread'[t] = [pc |-> "look", for |-> p] /\ DOMAIN thread' = Threads
      /\ \A u \in Threads \ {t} : thread'[u] = thread[u]
  BY <1>1, <1>2 DEF Goes, Key, TypeOK
<1>. HIDE DEF p, o
<1>7. thread'[t].pc = "look" /\ thread'[t].for = p BY <1>6
<1>8. TypeOK'
  <2>1. instances' \in [Keys -> Objects \cup {None}] BY <1>1, <1>2, <1>3, <1>4 DEF TypeOK
  <2>2. made' \in [Keys -> Nat] /\ \A l \in Keys : made'[l] <= Len(Made[l])
    <3>1. made[k] \in Nat /\ Len(Made[k]) \in Nat BY <1>1, <1>3, ReferencesAssumption DEF TypeOK
    <3>2. made[k] + 1 \in Nat /\ made[k] + 1 <= Len(Made[k]) BY <1>2, <3>1
    <3>. HIDE DEF k
    <3>. QED BY <1>1, <1>2, <1>3, <3>2 DEF TypeOK
  <2>3. \A u \in Threads :
          /\ thread'[u].pc \in {"key", "make"} => thread'[u].for \in Keys
          /\ thread'[u].pc \in {"look", "new"} => IsPlace(thread'[u].for)
          /\ thread'[u].pc \in {"value", "invert"} => thread'[u].ref \in Numbers
          /\ thread'[u].pc = "invert" => thread'[u].target \in Values
    BY <1>1, <1>5, <1>6, <1>7 DEF TypeOK
  <2>. QED BY <1>1, <1>2, <1>6, <2>1, <2>2, <2>3 DEF TypeOK, IsPlace, Numbers
<1>9. ThreadInv' BY <1>1, <1>2, <1>6, <1>7 DEF ThreadInv, Target, Value
<1>10. CacheInv' BY <1>1, <1>2 DEF CacheInv, Numbers
<1>11. InverseInv' BY <1>1, <1>2 DEF InverseInv, Target, Value, Numbers
<1>12. HandedInv' BY <1>1, <1>2 DEF HandedInv, Value
<1>13. RoleInv' BY <1>1, <1>2 DEF RoleInv, Target, Value
<1>14. UniqueInv' BY <1>1, <1>2, <1>6, <1>7 DEF UniqueInv, Others
<1>15. KeyInv'
  <2>1. k \in Keys /\ TheKey(k) \notin contended => instances[k] = None /\ ~Others(t, "make", k)
    BY <1>1, <1>2, <1>3 DEF KeyInv
  <2>2. \A l \in Keys : l # k => instances'[l] = instances[l] BY <1>1, <1>2 DEF TypeOK
  <2>3. instances'[k] = o BY <1>1, <1>2, <1>3 DEF TypeOK
  <2>4. None \notin Components BY ReferencesAssumption
  <2>5. ASSUME NEW u \in Threads, thread'[u].pc = "make", TheKey(thread'[u].for) \notin contended
        PROVE  instances'[thread'[u].for] = None /\ ~Others(u, "make", thread[u].for)'
    <3>1. u # t /\ thread'[u] = thread[u] BY <1>6, <1>7, <2>5
    <3>2. thread[u].for \in Keys BY <1>1, <2>5, <3>1 DEF TypeOK
    <3>3. instances[thread[u].for] = None /\ ~Others(u, "make", thread[u].for)
      BY <1>1, <2>5, <3>1 DEF KeyInv
    <3>4. thread[u].for # k BY <1>2, <3>1, <3>3 DEF Others
    <3>5. ~Others(u, "make", thread[u].for)'
      BY <1>6, <1>7, <3>1, <3>3 DEF Others
    <3>. QED BY <2>2, <3>1, <3>2, <3>3, <3>4, <3>5
  <2>6. ASSUME NEW u \in Threads, thread'[u].pc \in {"look", "new", "value", "invert"},
               thread'[u].for.name \in Keys, TheKey(thread'[u].for.name) \notin contended
        PROVE  instances'[thread'[u].for.name] = thread'[u].for.obj
    <3>1. CASE u = t BY <1>5, <1>7, <2>3, <3>1
    <3>2. CASE u # t
      <4>1. thread'[u] = thread[u] BY <1>6, <3>2
      <4>2. instances[thread[u].for.name] = thread[u].for.obj BY <1>1, <2>6, <4>1 DEF KeyInv
      <4>3. thread[u].for.obj # None
        <5>1. IsPlace(thread[u].for) BY <1>1, <2>6, <4>1 DEF TypeOK, ThreadInv
        <5>. QED BY <2>4, <2>6, <4>1, <5>1, ReferencesAssumption DEF IsPlace, Places
      <4>4. thread[u].for.name # k BY <2>1, <2>6, <4>1, <4>2, <4>3
      <4>. QED BY <2>2, <2>6, <4>1, <4>2, <4>4
    <3>. QED BY <3>1, <3>2
  <2>7. ASSUME NEW h \in handed, h.place.name \in Keys, TheKey(h.place.name) \notin contended
        PROVE  instances'[h.place.name] = h.place.obj
    <3>1. instances[h.place.name] = h.place.obj BY <1>1, <2>7 DEF KeyInv
    <3>2. IsPlace(h.place) BY <1>1 DEF TypeOK, HandedInv
    <3>3. h.place.obj # None
      BY <2>4, <2>7, <3>2, ReferencesAssumption DEF IsPlace, Places
    <3>4. h.place.name # k BY <2>1, <2>7, <3>1, <3>3
    <3>. QED BY <2>2, <2>7, <3>1, <3>4
  <2>. QED BY <1>2, <2>5, <2>6, <2>7 DEF KeyInv, TheKey, Place
<1>. QED BY <1>8, <1>9, <1>10, <1>11, <1>12, <1>13, <1>14, <1>15 DEF IInv

(* The reference that is stored is the one for its place, for nobody who   *)
(* goes on has another.                                                    *)
LEMMA StoreReferenceKeeps ==
  ASSUME IInv, NEW t \in Threads, store_reference(t)
  PROVE  IInv'
<1>. DEFINE p == thread[t].for
            n == Len(refs) + 1
<1>1. TypeOK /\ ThreadInv /\ CacheInv /\ InverseInv /\ HandedInv /\ RoleInv /\ UniqueInv /\ KeyInv
  BY DEF IInv
<1>2. /\ thread[t].pc = "new" /\ refs' = Append(refs, p) /\ cache' = Stored(cache, p, n)
      /\ Goes(t, [pc |-> "value", for |-> p, ref |-> n])
      /\ UNCHANGED <<instances, made, attribute, inverse, host, handed, contended>>
  BY DEF store_reference, Cached
<1>3. IsPlace(p) BY <1>1, <1>2 DEF TypeOK
<1>4. /\ refs \in Seq(Places) /\ p \in Places /\ Len(refs) \in Nat /\ p.parent <= Len(refs) /\ p.parent \in Nat
  BY <1>1, <1>3 DEF TypeOK, IsPlace, Places
<1>5. /\ refs' \in Seq(Places) /\ Len(refs') = n /\ refs'[n] = p
      /\ \A i \in Numbers : refs'[i] = refs[i]
  <2>. HIDE DEF p
  <2>. QED BY <1>2, <1>4 DEF Numbers
<1>6. Numbers \subseteq Numbers' /\ n \in Numbers' /\ n \notin Numbers /\ n # NoReference
      /\ Numbers' = Numbers \cup {n}
  BY <1>4, <1>5 DEF Numbers, NoReference
<1>7. \A x : IsPlace(x) => IsPlace(x)'
  <2>1. \A x : IsPlace(x) => x.parent \in Nat /\ x.parent <= Len(refs) BY DEF IsPlace, Places
  <2>2. \A i \in Nat : i <= Len(refs) => i <= Len(refs') BY <1>4, <1>5
  <2>. QED BY <2>1, <2>2 DEF IsPlace, Places
<1>8. DOMAIN cache' = DOMAIN cache \cup {p} /\ cache'[p] = n
      /\ \A x \in DOMAIN cache : x # p => cache'[x] = cache[x]
  BY <1>2 DEF Stored
<1>9. /\ thread'[t] = [pc |-> "value", for |-> p, ref |-> n] /\ DOMAIN thread' = Threads
      /\ \A u \in Threads \ {t} : thread'[u] = thread[u]
  BY <1>1, <1>2 DEF Goes, TypeOK
<1>10. thread'[t].pc = "value" /\ thread'[t].for = p /\ thread'[t].ref = n BY <1>9
<1>. HIDE DEF p, n
<1>11. TypeOK'
  <2>1. \A i \in Numbers' : IsPlace(refs[i])' /\ refs'[i].parent < i
    <3>. SUFFICES ASSUME NEW i \in Numbers'
                  PROVE  /\ refs'[i] \in Places /\ refs'[i].parent <= n /\ refs'[i].parent < i
                         /\ refs'[i].name \in Plain <=> refs'[i].obj = Root
      BY <1>5 DEF IsPlace, Places
    <3>1. CASE i \in Numbers
      <4>1. IsPlace(refs[i]) /\ refs[i].parent < i /\ refs'[i] = refs[i]
        BY <1>1, <1>5, <3>1 DEF TypeOK
      <4>2. refs[i].parent \in Nat /\ refs[i].parent <= Len(refs) BY <4>1 DEF IsPlace, Places
      <4>. QED BY <1>4, <4>1, <4>2 DEF IsPlace, n
    <3>2. CASE i = n
      <4>1. p.parent <= n /\ p.parent < n BY <1>4 DEF n
      <4>. QED BY <1>3, <1>5, <3>2, <4>1 DEF IsPlace
    <3>. QED BY <1>6, <3>1, <3>2
  <2>2. Range(cache') \subseteq Numbers'
    BY <1>1, <1>6, <1>8 DEF TypeOK, Range
  <2>3. Range(inverse') \subseteq Numbers' BY <1>1, <1>2, <1>6 DEF TypeOK
  <2>4. ASSUME NEW u \in Threads
        PROVE  /\ thread'[u].pc \in {"key", "make"} => thread'[u].for \in Keys
               /\ thread'[u].pc \in {"look", "new"} => IsPlace(thread[u].for)'
               /\ thread'[u].pc \in {"value", "invert"} => thread'[u].ref \in Numbers'
               /\ thread'[u].pc = "invert" => thread'[u].target \in Values
    <3>1. CASE u = t BY <1>6, <1>10, <3>1
    <3>2. CASE u # t
      <4>1. thread'[u] = thread[u] BY <1>9, <3>2
      <4>2. thread[u].pc \in {"look", "new"} => IsPlace(thread[u].for)'
        <5>1. thread[u].pc \in {"look", "new"} => IsPlace(thread[u].for) BY <1>1 DEF TypeOK
        <5>2. thread[u].pc \in {"look", "new"} =>
                /\ thread[u].for \in Places /\ thread[u].for.parent <= Len(refs)
                /\ (thread[u].for.name \in Plain <=> thread[u].for.obj = Root)
                /\ thread[u].for.parent \in Nat
          BY <5>1 DEF IsPlace, Places
        <5>3. \A i \in Nat : i <= Len(refs) => i <= Len(refs') BY <1>4, <1>5 DEF n
        <5>. QED BY <4>1, <5>2, <5>3 DEF IsPlace, Places
      <4>. QED BY <1>1, <1>6, <4>1, <4>2 DEF TypeOK
    <3>. QED BY <3>1, <3>2
  <2>5. \A r \in Roles : host'[r].ref \in Numbers' \cup {NoReference}
    BY <1>1, <1>2, <1>6 DEF TypeOK
  <2>6. \A h \in handed' : h.ref \in Numbers' BY <1>1, <1>2, <1>6 DEF TypeOK
  <2>7. /\ instances' \in [Keys -> Objects \cup {None}]
        /\ made' \in [Keys -> Nat] /\ \A k \in Keys : made'[k] <= Len(Made[k])
        /\ attribute' \in [Components -> Values] /\ DOMAIN inverse' \subseteq Values
        /\ DOMAIN host' = Roles
    BY <1>1, <1>2 DEF TypeOK
  <2>. QED BY <1>5, <1>9, <2>1, <2>2, <2>3, <2>4, <2>5, <2>6, <2>7 DEF TypeOK
<1>12. ThreadInv'
  <2>. SUFFICES ASSUME NEW u \in Threads
                PROVE  /\ thread'[u].pc \in {"value", "invert"} => refs'[thread'[u].ref] = thread'[u].for
                       /\ thread'[u].pc = "invert" =>
                            /\ thread'[u].target \in Components => (Target(thread[u].for) = thread[u].target)'
                            /\ thread'[u].for.name # "value" => (thread[u].target = Value(thread[u].for))'
    BY DEF ThreadInv
  <2>1. CASE u = t BY <1>5, <1>10, <2>1
  <2>2. CASE u # t
    <3>1. thread'[u] = thread[u] BY <1>9, <2>2
    <3>2. thread[u].pc \in {"value", "invert"} => refs'[thread[u].ref] = refs[thread[u].ref]
      BY <1>1, <1>5 DEF TypeOK
    <3>. QED BY <1>1, <1>2, <3>1, <3>2 DEF ThreadInv, Target, Value
  <2>. QED BY <2>1, <2>2
<1>13. CacheInv' BY <1>1, <1>5, <1>6, <1>8 DEF CacheInv
<1>14. InverseInv'
  <2>1. \A v \in DOMAIN inverse : inverse[v] \in Numbers /\ refs'[inverse[v]] = refs[inverse[v]]
    BY <1>1, <1>5 DEF InverseInv
  <2>. QED BY <1>1, <1>2, <1>6, <2>1 DEF InverseInv, Target, Value
<1>15. HandedInv' BY <1>1, <1>2, <1>5 DEF HandedInv, TypeOK, Value
<1>16. RoleInv'
  <2>1. \A r \in Roles : host[r].ref # NoReference => refs'[host[r].ref] = refs[host[r].ref]
    BY <1>1, <1>5 DEF TypeOK
  <2>. QED BY <1>1, <1>2, <2>1 DEF RoleInv, Target, Value
<1>17. UniqueInv'
  <2>1. p \notin contended => p \notin DOMAIN cache /\ ~Others(t, "new", p)
    BY <1>1, <1>2 DEF UniqueInv, p
  <2>2. ASSUME NEW u \in Threads, thread'[u].pc = "new", thread'[u].for \notin contended
        PROVE  thread'[u].for \notin DOMAIN cache' /\ ~Others(u, "new", thread[u].for)'
    <3>1. u # t /\ thread'[u] = thread[u] BY <1>9, <1>10, <2>2
    <3>2. thread[u].for \notin DOMAIN cache /\ ~Others(u, "new", thread[u].for)
      BY <1>1, <2>2, <3>1 DEF UniqueInv
    <3>3. thread[u].for # p BY <1>2, <3>1, <3>2 DEF Others, p
    <3>. QED BY <1>8, <1>9, <1>10, <3>1, <3>2, <3>3 DEF Others
  <2>3. ASSUME NEW u \in Threads, thread'[u].pc \in {"value", "invert"},
               thread'[u].for \notin contended
        PROVE  thread'[u].for \in DOMAIN cache' /\ cache'[thread'[u].for] = thread'[u].ref
    <3>1. CASE u = t BY <1>8, <1>10, <3>1
    <3>2. CASE u # t BY <1>1, <1>8, <1>9, <2>1, <2>3, <3>2 DEF UniqueInv
    <3>. QED BY <3>1, <3>2
  <2>4. \A h \in handed : h.place \notin contended =>
                          h.place \in DOMAIN cache' /\ cache'[h.place] = h.ref
    BY <1>1, <1>8, <2>1 DEF UniqueInv
  <2>. QED BY <1>2, <2>2, <2>3, <2>4 DEF UniqueInv
<1>18. KeyInv'
  <2>1. p.name \in Keys /\ TheKey(p.name) \notin contended => instances[p.name] = p.obj
    BY <1>1, <1>2 DEF KeyInv, p
  <2>2. ASSUME NEW u \in Threads, thread'[u].pc = "make", TheKey(thread'[u].for) \notin contended
        PROVE  instances[thread'[u].for] = None /\ ~Others(u, "make", thread[u].for)'
    BY <1>1, <1>9, <1>10, <2>2 DEF KeyInv, Others
  <2>3. ASSUME NEW u \in Threads, thread'[u].pc \in {"look", "new", "value", "invert"},
               thread'[u].for.name \in Keys, TheKey(thread'[u].for.name) \notin contended
        PROVE  instances[thread'[u].for.name] = thread'[u].for.obj
    BY <1>1, <1>9, <1>10, <2>1, <2>3 DEF KeyInv
  <2>. QED BY <1>1, <1>2, <2>2, <2>3 DEF KeyInv, TheKey, Place
<1>. QED BY <1>11, <1>12, <1>13, <1>14, <1>15, <1>16, <1>17, <1>18 DEF IInv

(* What is stored under a component leads to it, since it did when it was  *)
(* read.                                                                   *)
LEMMA InvertKeeps ==
  ASSUME IInv, NEW t \in Threads, invert(t)
  PROVE  IInv'
<1>. DEFINE p == thread[t].for
            n == thread[t].ref
            x == thread[t].target
<1>1. TypeOK /\ ThreadInv /\ CacheInv /\ InverseInv /\ HandedInv /\ RoleInv /\ UniqueInv /\ KeyInv
  BY DEF IInv
<1>2. /\ thread[t].pc = "invert" /\ inverse' = Stored(inverse, x, n)
      /\ handed' = handed \cup {[place |-> p, ref |-> n]} /\ Goes(t, Idle)
      /\ UNCHANGED <<instances, made, attribute, refs, cache, host, contended>>
  BY DEF invert
<1>3. /\ n \in Numbers /\ refs[n] = p /\ x \in Values
      /\ x \in Components => Target(p) = x
      /\ p.name # "value" => x = Value(p)
  BY <1>1, <1>2 DEF TypeOK, ThreadInv
<1>4. /\ DOMAIN inverse' = DOMAIN inverse \cup {x} /\ inverse'[x] = n
      /\ \A y \in DOMAIN inverse : y # x => inverse'[y] = inverse[y]
  BY <1>2 DEF Stored
<1>5. /\ thread'[t].pc = "idle" /\ DOMAIN thread' = Threads
      /\ \A u \in Threads \ {t} : thread'[u] = thread[u]
  BY <1>1, <1>2 DEF Goes, Idle, TypeOK
<1>6. /\ p \notin contended => p \in DOMAIN cache /\ cache[p] = n
      /\ p.name \in Keys /\ TheKey(p.name) \notin contended => instances[p.name] = p.obj
  BY <1>1, <1>2 DEF UniqueInv, KeyInv
<1>7. \A h \in handed' : h \in handed \/ (h.place = p /\ h.ref = n) BY <1>2
<1>. HIDE DEF p, n, x
<1>8. TypeOK'
  <2>1. Range(inverse') \subseteq Numbers /\ DOMAIN inverse' \subseteq Values
    BY <1>1, <1>3, <1>4 DEF TypeOK, Range
  <2>2. \A u \in Threads :
          /\ thread'[u].pc \in {"key", "make"} => thread'[u].for \in Keys
          /\ thread'[u].pc \in {"look", "new"} => IsPlace(thread'[u].for)
          /\ thread'[u].pc \in {"value", "invert"} => thread'[u].ref \in Numbers
          /\ thread'[u].pc = "invert" => thread'[u].target \in Values
    BY <1>1, <1>5 DEF TypeOK
  <2>3. \A h \in handed' : h.ref \in Numbers BY <1>1, <1>3, <1>7 DEF TypeOK
  <2>. QED BY <1>1, <1>2, <1>5, <2>1, <2>2, <2>3 DEF TypeOK, IsPlace, Numbers
<1>9. ThreadInv' BY <1>1, <1>2, <1>5 DEF ThreadInv, Target, Value
<1>10. CacheInv' BY <1>1, <1>2 DEF CacheInv, Numbers
<1>11. InverseInv'
  <2>1. \A v \in DOMAIN inverse' : inverse'[v] \in Numbers BY <1>1, <1>3, <1>4 DEF InverseInv
  <2>2. \A c \in Components \cap DOMAIN inverse' : Target(refs[inverse'[c]]) = c
    BY <1>1, <1>3, <1>4 DEF InverseInv
  <2>. QED BY <1>2, <2>1, <2>2 DEF InverseInv, Target, Value, Numbers
<1>12. HandedInv'
  <2>1. ASSUME NEW h \in handed'
        PROVE  /\ refs[h.ref] = h.place
               /\ h.place.name # "value" => Value(h.place) \in DOMAIN inverse'
    BY <1>1, <1>3, <1>4, <1>7 DEF HandedInv
  <2>. QED BY <1>2, <2>1 DEF HandedInv, Value
<1>13. RoleInv' BY <1>1, <1>2 DEF RoleInv, Target, Value
<1>14. UniqueInv' BY <1>1, <1>2, <1>5, <1>6, <1>7 DEF UniqueInv, Others
<1>15. KeyInv'
  <2>1. \A h \in handed' : h.place.name \in Keys /\ TheKey(h.place.name) \notin contended =>
                           instances[h.place.name] = h.place.obj
    BY <1>1, <1>6, <1>7 DEF KeyInv
  <2>. QED BY <1>1, <1>2, <1>5, <2>1 DEF KeyInv, Others, TheKey, Place
<1>. QED BY <1>8, <1>9, <1>10, <1>11, <1>12, <1>13, <1>14, <1>15 DEF IInv

-----------------------------------------------------------------------------
(* An attribute is computed once: what leads to a component still does.    *)
LEMMA SetAttributeKeeps ==
  ASSUME IInv, NEW c \in Components, NEW v \in Values, set_attribute(c, v)
  PROVE  IInv'
<1>1. TypeOK /\ ThreadInv /\ CacheInv /\ InverseInv /\ HandedInv /\ RoleInv /\ UniqueInv /\ KeyInv
  BY DEF IInv
<1>2. /\ attribute[c] = None /\ attribute' = [attribute EXCEPT ![c] = v]
      /\ UNCHANGED <<instances, made, refs, cache, inverse, thread, host, handed, contended>>
  BY DEF set_attribute
<1>3. \A d \in Components : attribute[d] # None => attribute'[d] = attribute[d]
  BY <1>1, <1>2 DEF TypeOK
<1>4. \A q : IsPlace(q) /\ Target(q) \in Components => Target(q)' = Target(q)
  BY <1>1, <1>3, TargetStays
<1>5. \A q : q.name # "value" => Value(q)' = Value(q) BY DEF Value
<1>6. \A i \in Numbers : IsPlace(refs[i]) BY <1>1 DEF TypeOK
<1>7. TypeOK'
  <2>1. attribute' \in [Components -> Values] BY <1>1, <1>2 DEF TypeOK
  <2>. QED BY <1>1, <1>2, <2>1 DEF TypeOK, IsPlace, Numbers
<1>8. ThreadInv'
  <2>. SUFFICES ASSUME NEW u \in Threads
                PROVE  /\ thread[u].pc \in {"value", "invert"} => refs[thread[u].ref] = thread[u].for
                       /\ thread[u].pc = "invert" =>
                            /\ thread[u].target \in Components => (Target(thread[u].for) = thread[u].target)'
                            /\ thread[u].for.name # "value" => (thread[u].target = Value(thread[u].for))'
    BY <1>2 DEF ThreadInv
  <2>1. thread[u].pc = "invert" => IsPlace(thread[u].for) BY <1>1, <1>6 DEF ThreadInv, TypeOK
  <2>2. thread[u].pc = "invert" /\ thread[u].target \in Components =>
          Target(thread[u].for)' = thread[u].target
    BY <1>1, <1>2, <1>3, <2>1, TargetStays DEF ThreadInv, Target, Value
  <2>. QED BY <1>1, <1>2, <2>2 DEF ThreadInv, Value
<1>9. CacheInv' BY <1>1, <1>2 DEF CacheInv, Numbers
<1>10. InverseInv'
  <2>1. ASSUME NEW d \in Components \cap DOMAIN inverse
        PROVE  Target(refs[inverse[d]])' = d
    <3>. DEFINE q == refs[inverse[d]]
    <3>1. IsPlace(q) /\ Target(q) = d /\ UNCHANGED <<refs, inverse>>
      BY <1>1, <1>2, <1>6 DEF InverseInv
    <3>. QED BY <1>1, <1>3, <3>1, TargetStays DEF Target, Value
  <2>. QED BY <1>1, <1>2, <2>1 DEF InverseInv, Numbers
<1>11. HandedInv' BY <1>1, <1>2, <1>5 DEF HandedInv, Value
<1>12. RoleInv'
  <2>1. ASSUME NEW r \in Roles, host[r].ref # NoReference, HostOf[r] \in Components
        PROVE  Target(refs[host[r].ref])' = HostOf[r]
    <3>1. IsPlace(refs[host[r].ref]) /\ Target(refs[host[r].ref]) = HostOf[r]
          /\ UNCHANGED <<refs, host>>
      BY <1>1, <1>2, <1>6, <2>1 DEF RoleInv, TypeOK
    <3>. QED BY <1>1, <1>3, <2>1, <3>1, TargetStays DEF Target, Value
  <2>. QED BY <1>2, <2>1 DEF RoleInv
<1>13. UniqueInv' BY <1>1, <1>2 DEF UniqueInv, Others
<1>14. KeyInv' BY <1>1, <1>2 DEF KeyInv, Others, TheKey, Place
<1>. QED BY <1>7, <1>8, <1>9, <1>10, <1>11, <1>12, <1>13, <1>14 DEF IInv

(* A role takes what the inverse cache has for its host.                   *)
LEMMA FixRoleKeeps ==
  ASSUME IInv, NEW r \in Roles, fix_role(r)
  PROVE  IInv'
<1>. DEFINE n == find_ref_for_obj(HostOf[r])
<1>1. TypeOK /\ ThreadInv /\ CacheInv /\ InverseInv /\ HandedInv /\ RoleInv /\ UniqueInv /\ KeyInv
  BY DEF IInv
<1>2. /\ host' = [host EXCEPT ![r] = [ref |-> n, value |-> HostOf[r], fixed |-> TRUE]]
      /\ UNCHANGED <<instances, made, attribute, refs, cache, inverse, thread, handed, contended>>
  BY DEF fix_role
<1>3. n # NoReference => /\ n \in Numbers
                         /\ HostOf[r] \in Components => Target(refs[n]) = HostOf[r]
  BY <1>1 DEF InverseInv, find_ref_for_obj
<1>4. DOMAIN host' = Roles /\ host'[r].ref = n /\ \A q \in Roles \ {r} : host'[q] = host[q]
  BY <1>1, <1>2 DEF TypeOK
<1>. HIDE DEF n
<1>5. TypeOK'
  <2>1. \A q \in Roles : host'[q].ref \in Numbers \cup {NoReference} BY <1>1, <1>3, <1>4 DEF TypeOK
  <2>. QED BY <1>1, <1>2, <1>4, <2>1 DEF TypeOK, IsPlace, Numbers
<1>6. ThreadInv' /\ CacheInv' /\ InverseInv' /\ HandedInv'
  BY <1>1, <1>2 DEF ThreadInv, CacheInv, InverseInv, HandedInv, Target, Value, Numbers
<1>7. RoleInv'
  <2>1. \A q \in Roles : host'[q].ref # NoReference /\ HostOf[q] \in Components =>
                         Target(refs[host'[q].ref]) = HostOf[q]
    BY <1>1, <1>3, <1>4 DEF RoleInv
  <2>. QED BY <1>2, <2>1 DEF RoleInv, Target, Value
<1>8. UniqueInv' /\ KeyInv' BY <1>1, <1>2 DEF UniqueInv, KeyInv, Others, TheKey, Place
<1>. QED BY <1>5, <1>6, <1>7, <1>8 DEF IInv

-----------------------------------------------------------------------------
(* The invariant is inductive.                                             *)
LEMMA InitIInv == Init => IInv
<1>. SUFFICES ASSUME Init PROVE IInv
  OBVIOUS
<1>1. /\ refs = <<>> /\ DOMAIN cache = {} /\ DOMAIN inverse = {} /\ handed = {}
      /\ DOMAIN thread = Threads /\ \A t \in Threads : thread[t].pc = "idle"
      /\ DOMAIN host = Roles /\ \A r \in Roles : host[r].ref = NoReference
  BY DEF Init, Idle, Unfixed
<1>2. Numbers = {} BY <1>1 DEF Numbers
<1>3. TypeOK
  <2>1. /\ instances \in [Keys -> Objects \cup {None}] /\ made \in [Keys -> Nat]
        /\ attribute \in [Components -> Values]
    BY DEF Init, Values
  <2>2. \A k \in Keys : made[k] <= Len(Made[k])
    <3>1. \A k \in Keys : Len(Made[k]) \in Nat BY ReferencesAssumption
    <3>. QED BY <3>1 DEF Init
  <2>3. refs \in Seq(Places) BY <1>1
  <2>4. Range(cache) = {} /\ Range(inverse) = {} BY <1>1 DEF Range
  <2>. QED BY <1>1, <1>2, <2>1, <2>2, <2>3, <2>4 DEF TypeOK
<1>4. ThreadInv /\ CacheInv /\ InverseInv /\ HandedInv /\ RoleInv /\ UniqueInv /\ KeyInv
  BY <1>1 DEF ThreadInv, CacheInv, InverseInv, HandedInv, RoleInv, UniqueInv, KeyInv
<1>. QED BY <1>3, <1>4 DEF IInv

(* Every step keeps the invariant: one lemma for each action.              *)
LEMMA NextIInv == IInv /\ [Next]_vars => IInv'
<1>. SUFFICES ASSUME IInv, [Next]_vars PROVE IInv'
  OBVIOUS
<1>1. CASE UNCHANGED vars
  <2>1. UNCHANGED <<instances, made, attribute, refs, cache, inverse, thread, host, handed, contended>>
    BY <1>1 DEF vars
  <2>2. TypeOK' BY <2>1 DEF IInv, TypeOK, IsPlace, Numbers
  <2>3. ThreadInv' /\ CacheInv' /\ InverseInv' /\ HandedInv' /\ RoleInv'
    BY <2>1 DEF IInv, ThreadInv, CacheInv, InverseInv, HandedInv, RoleInv, Target, Value, Numbers
  <2>4. UniqueInv' /\ KeyInv' BY <2>1 DEF IInv, UniqueInv, KeyInv, Others, TheKey, Place
  <2>. QED BY <2>2, <2>3, <2>4 DEF IInv
<1>. QED
  BY <1>1, AccessKeeps, GetInstanceKeeps, StoreInstanceKeeps, LookUpKeeps, StoreReferenceKeeps,
     ReadValueKeeps, InvertKeeps, SetAttributeKeeps, FixRoleKeeps DEF Next

(* The inductive invariant holds in every state.                           *)
THEOREM Invariance == Spec => []IInv
BY InitIInv, NextIInv, PTL DEF Spec

(* The types hold in every state, for any number of threads and keys.      *)
THEOREM TypeCorrect == Spec => []TypeOK
<1>1. IInv => TypeOK BY DEF IInv
<1>. QED BY <1>1, Invariance, PTL

-----------------------------------------------------------------------------
(* What a place is reached through has, for good, the object of the place: *)
(* a name and a parent say which place it is.                              *)
Leads(p) ==
  IF p.name = "value" THEN p.parent \in Numbers /\ Value(refs[p.parent]) = p.obj
  ELSE p.parent = NoReference

MakesFor == {"look", "new", "value", "invert"}
ParentInv ==
  /\ \A n \in Numbers : Leads(refs[n])
  /\ \A t \in Threads : thread[t].pc \in MakesFor => Leads(thread[t].for)

(* References and attributes are only added to.                            *)
Grown ==
  /\ \A c \in Components : attribute[c] # None => attribute'[c] = attribute[c]
  /\ Numbers \subseteq Numbers' /\ \A n \in Numbers : refs'[n] = refs[n]

(* A reference is added for what a thread was to make one for.             *)
LEMMA Growth ==
  ASSUME IInv, Next
  PROVE  /\ Grown
         /\ \A n \in Numbers' \ Numbers :
              \E t \in Threads : thread[t].pc = "new" /\ refs'[n] = thread[t].for
<1>1. refs \in Seq(Places) /\ attribute \in [Components -> Values] BY DEF IInv, TypeOK
<1>2. CASE UNCHANGED <<refs, attribute>> BY <1>2 DEF Grown, Numbers
<1>3. ASSUME NEW t \in Threads, store_reference(t)
      PROVE  /\ Grown
             /\ \A n \in Numbers' \ Numbers : thread[t].pc = "new" /\ refs'[n] = thread[t].for
  <2>1. /\ refs' = Append(refs, thread[t].for) /\ UNCHANGED attribute /\ thread[t].pc = "new"
    BY <1>3 DEF store_reference
  <2>2. /\ Len(refs') = Len(refs) + 1 /\ refs'[Len(refs) + 1] = thread[t].for
        /\ \A n \in 1 .. Len(refs) : refs'[n] = refs[n]
    BY <1>1, <2>1
  <2>3. Len(refs) \in Nat BY <1>1
  <2>4. Numbers' = Numbers \cup {Len(refs) + 1} BY <2>2, <2>3 DEF Numbers
  <2>. QED BY <2>1, <2>2, <2>4 DEF Grown, Numbers
<1>4. ASSUME NEW c \in Components, NEW v \in Values, set_attribute(c, v)
      PROVE  Grown /\ Numbers' = Numbers
  BY <1>1, <1>4 DEF set_attribute, Grown, Numbers
<1>5. ASSUME NEW t \in Threads, \/ Access(t) \/ get_instance(t) \/ store_instance(t) \/ look_up(t)
                               \/ read_value(t) \/ invert(t)
      PROVE  UNCHANGED <<refs, attribute>>
  BY <1>5 DEF Access, get_instance, store_instance, look_up, read_value, invert
<1>6. ASSUME NEW r \in Roles, fix_role(r) PROVE UNCHANGED <<refs, attribute>>
  BY <1>6 DEF fix_role
<1>. QED BY <1>2, <1>3, <1>4, <1>5, <1>6 DEF Next

(* What a place is reached through keeps its object.                       *)
LEMMA LeadsStays ==
  ASSUME IInv, Grown, NEW p, IsPlace(p), Leads(p)
  PROVE  Leads(p)'
<1>1. TypeOK BY DEF IInv
<1>2. CASE p.name # "value" BY <1>2 DEF Leads
<1>3. CASE p.name = "value"
  <2>0. PICK q : q = refs[p.parent] OBVIOUS
  <2>1. p.parent \in Numbers /\ Value(q) = p.obj BY <1>3, <2>0 DEF Leads
  <2>2. p.obj \in Components BY <1>1, <1>3, ValueTypes
  <2>3. IsPlace(q) BY <1>1, <2>0, <2>1 DEF TypeOK
  <2>4. p.parent \in Numbers' /\ refs'[p.parent] = q BY <2>0, <2>1 DEF Grown
  <2>5. Value(q)' = Value(q)
    <3>1. CASE q.name = "value"
      <4>1. q.obj \in Components /\ attribute[q.obj] = p.obj
        BY <1>1, <2>1, <2>3, <3>1, ValueTypes DEF Value
      <4>2. p.obj # None BY <2>2, ReferencesAssumption
      <4>3. attribute'[q.obj] = attribute[q.obj] BY <4>1, <4>2 DEF Grown
      <4>. QED BY <3>1, <4>3 DEF Value
    <3>2. CASE q.name # "value" BY <3>2 DEF Value
    <3>. QED BY <3>1, <3>2
  <2>6. Value(refs[p.parent])' = p.obj BY <2>1, <2>4, <2>5 DEF Value
  <2>. QED BY <1>3, <2>4, <2>6 DEF Leads
<1>. QED BY <1>2, <1>3

(* Where a thread has what it makes a reference for.                       *)
FromHanded(p) ==
  \E h \in handed : Value(h.place) \in Components /\ p = Place("value", Value(h.place), h.ref)

(* From the model, from a key, or from a reference that was handed out.    *)
LEMMA Sources ==
  ASSUME IInv, Next, NEW u \in Threads, thread'[u].pc \in MakesFor
  PROVE  \/ thread[u].pc \in MakesFor /\ thread'[u].for = thread[u].for
         \/ thread'[u].for.name # "value" /\ thread'[u].for.parent = NoReference
         \/ FromHanded(thread'[u].for)
<1>1. TypeOK BY DEF IInv
<1>2. DOMAIN thread = Threads BY <1>1 DEF TypeOK
<1>3. "value" \notin Plain \cup Keys BY ReferencesAssumption
<1>4. CASE UNCHANGED thread BY <1>4
<1>5. ASSUME NEW t \in Threads, t # u, NEW to, Goes(t, to) PROVE UNCHANGED thread[u]
  BY <1>2, <1>5 DEF Goes
<1>6. CASE \E t \in Threads \ {u} : \/ Access(t) \/ get_instance(t) \/ store_instance(t) \/ look_up(t)
                                    \/ store_reference(t) \/ read_value(t) \/ invert(t)
  <2>1. PICK t \in Threads \ {u} : \/ Access(t) \/ get_instance(t) \/ store_instance(t) \/ look_up(t)
                                    \/ store_reference(t) \/ read_value(t) \/ invert(t)
    BY <1>6
  <2>2. \E to : Goes(t, to)
    BY <2>1 DEF Access, get_instance, store_instance, look_up, store_reference, read_value, invert
  <2>. QED BY <1>5, <2>2
<1>7. CASE Access(u)
  <2>1. ASSUME NEW c \in Plain, Goes(u, [pc |-> "look", for |-> Place(c, Root, NoReference)])
        PROVE  thread'[u].for.name # "value" /\ thread'[u].for.parent = NoReference
    BY <1>2, <1>3, <2>1 DEF Goes, Place
  <2>2. ASSUME NEW k \in Keys, Goes(u, [pc |-> "key", for |-> k]) PROVE FALSE
    BY <1>2, <2>2 DEF Goes, MakesFor
  <2>3. ASSUME NEW h \in handed, Value(h.place) \in Components,
               Goes(u, [pc |-> "look", for |-> Place("value", Value(h.place), h.ref)])
        PROVE  FromHanded(thread'[u].for)
    BY <1>2, <2>3 DEF Goes, FromHanded
  <2>. QED BY <1>7, <2>1, <2>2, <2>3 DEF Access
<1>8. CASE get_instance(u) \/ store_instance(u)
  <2>1. thread[u].for \in Keys BY <1>1, <1>8 DEF get_instance, store_instance, TypeOK
  <2>2. ASSUME NEW o, Goes(u, Key(u, o))
        PROVE  thread'[u].for.name # "value" /\ thread'[u].for.parent = NoReference
    BY <1>2, <1>3, <2>1, <2>2 DEF Goes, Key, Place
  <2>3. ASSUME NEW k, Goes(u, [pc |-> "make", for |-> k]) PROVE FALSE
    BY <1>2, <2>3 DEF Goes, MakesFor
  <2>. QED BY <1>8, <2>2, <2>3 DEF get_instance, store_instance
<1>9. CASE look_up(u) \/ store_reference(u) \/ read_value(u) \/ invert(u)
  BY <1>2, <1>9 DEF look_up, store_reference, read_value, invert, Goes, MakesFor, Idle
<1>10. CASE \E c \in Components, v \in Values : set_attribute(c, v)
  BY <1>4, <1>10 DEF set_attribute
<1>11. CASE \E r \in Roles : fix_role(r)
  BY <1>4, <1>11 DEF fix_role
<1>. QED BY <1>6, <1>7, <1>8, <1>9, <1>10, <1>11 DEF Next

(* A step keeps what places are reached through.                           *)
LEMMA ParentStep ==
  ASSUME IInv, ParentInv, Next
  PROVE  ParentInv'
<1>1. TypeOK /\ ThreadInv /\ HandedInv BY DEF IInv
<1>2. /\ Grown
      /\ \A n \in Numbers' \ Numbers :
           \E t \in Threads : thread[t].pc = "new" /\ refs'[n] = thread[t].for
  BY Growth
<1>3. ASSUME NEW t \in Threads, thread[t].pc \in MakesFor
      PROVE  IsPlace(thread[t].for) /\ Leads(thread[t].for)
  BY <1>1, <1>3 DEF TypeOK, ThreadInv, MakesFor, ParentInv
<1>4. ASSUME NEW n \in Numbers' PROVE \E p : p = refs'[n] /\ Leads(p)'
  <2>1. PICK p : p = refs'[n] OBVIOUS
  <2>2. IsPlace(p) /\ Leads(p)
    <3>1. CASE n \in Numbers BY <1>1, <1>2, <2>1, <3>1 DEF Grown, TypeOK, ParentInv
    <3>2. CASE n \notin Numbers
      <4>1. PICK t \in Threads : thread[t].pc = "new" /\ refs'[n] = thread[t].for BY <1>2, <3>2
      <4>. QED BY <1>3, <2>1, <4>1 DEF MakesFor
    <3>. QED BY <3>1, <3>2
  <2>3. Leads(p)' BY <1>2, <2>2, LeadsStays
  <2>. QED BY <2>1, <2>3
<1>5. ASSUME NEW u \in Threads, thread'[u].pc \in MakesFor
      PROVE  \E p : p = thread'[u].for /\ Leads(p)'
  <2>1. PICK p : p = thread'[u].for OBVIOUS
  <2>2. CASE thread[u].pc \in MakesFor /\ thread'[u].for = thread[u].for
    <3>1. IsPlace(p) /\ Leads(p) BY <1>3, <2>1, <2>2
    <3>. QED BY <1>2, <2>1, <3>1, LeadsStays
  <2>3. CASE thread'[u].for.name # "value" /\ thread'[u].for.parent = NoReference
    <3>1. Leads(p)' BY <2>1, <2>3 DEF Leads
    <3>. QED BY <2>1, <3>1
  <2>4. CASE FromHanded(thread'[u].for)
    <3>1. PICK h \in handed : Value(h.place) \in Components /\ p = Place("value", Value(h.place), h.ref)
      BY <2>1, <2>4 DEF FromHanded
    <3>2. h.ref \in Numbers /\ refs[h.ref] = h.place BY <1>1 DEF TypeOK, HandedInv
    <3>3. p.name = "value" /\ p.obj = Value(h.place) /\ p.parent = h.ref BY <3>1 DEF Place
    <3>4. Leads(p) BY <3>2, <3>3 DEF Leads
    <3>5. IsPlace(p)
      <4>1. refs \in Seq(Places) /\ Len(refs) \in Nat BY <1>1 DEF TypeOK
      <4>2. h.ref \in Nat /\ h.ref <= Len(refs) BY <3>2, <4>1 DEF Numbers
      <4>3. "value" \notin Plain /\ Root \notin Components BY ReferencesAssumption
      <4>. QED BY <3>1, <4>2, <4>3 DEF IsPlace, Places, Place
    <3>. QED BY <1>2, <2>1, <3>4, <3>5, LeadsStays
  <2>5. \/ thread[u].pc \in MakesFor /\ thread'[u].for = thread[u].for
        \/ thread'[u].for.name # "value" /\ thread'[u].for.parent = NoReference
        \/ FromHanded(thread'[u].for)
    BY <1>5, Sources
  <2>. QED BY <2>2, <2>3, <2>4, <2>5
<1>. QED BY <1>4, <1>5 DEF ParentInv, Leads, Value

(* What a reference to an attribute was reached through leads to the       *)
(* component that has the attribute, in every state.                       *)
THEOREM Parents == Spec => []ParentInv
<1>1. Init => ParentInv BY DEF Init, ParentInv, Numbers, MakesFor, Idle
<1>2. IInv /\ ParentInv /\ [Next]_vars => ParentInv'
  <2>1. IInv /\ ParentInv /\ Next => ParentInv' BY ParentStep
  <2>2. ParentInv /\ UNCHANGED vars => ParentInv'
    BY DEF vars, ParentInv, Leads, Value, Numbers
  <2>. QED BY <2>1, <2>2
<1>. QED BY <1>1, <1>2, Invariance, PTL DEF Spec

(* A name and a parent say which place it is, but for a key that two       *)
(* threads made an instance for at a time.                                 *)
LEMMA SamePlace ==
  ASSUME IInv, ParentInv, NEW h \in handed, NEW i \in handed,
         h.place.name = i.place.name, h.place.parent = i.place.parent,
         TheKey(h.place.name) \notin contended
  PROVE  h.place = i.place
<1>1. TypeOK /\ HandedInv /\ KeyInv BY DEF IInv
<1>2. /\ h.ref \in Numbers /\ refs[h.ref] = h.place
      /\ i.ref \in Numbers /\ refs[i.ref] = i.place
  BY <1>1 DEF TypeOK, HandedInv
<1>3. IsPlace(h.place) /\ IsPlace(i.place) /\ Leads(h.place) /\ Leads(i.place)
  BY <1>1, <1>2 DEF TypeOK, ParentInv
<1>4. h.place.obj = i.place.obj
  <2>1. h.place.name \in Plain \cup Keys \cup {"value"} BY <1>3 DEF IsPlace, Places
  <2>2. CASE h.place.name = "value" BY <1>3, <2>2 DEF Leads
  <2>3. CASE h.place.name \in Plain BY <1>3, <2>3 DEF IsPlace
  <2>4. CASE h.place.name \in Keys BY <1>1, <2>4 DEF KeyInv
  <2>. QED BY <2>1, <2>2, <2>3, <2>4
<1>. QED BY <1>3, <1>4 DEF IsPlace, Places

(* What the model or a reference gives under one name is one reference, to *)
(* what it was asked for, but where two threads made it at a time.         *)
THEOREM OneForOneHolds == Spec => []OneForOne
<1>1. IInv /\ ParentInv => OneForOne
  <2>. SUFFICES ASSUME IInv, ParentInv, NEW h \in handed
                PROVE  /\ refs[h.ref] = h.place
                       /\ \A i \in handed :
                            h.place.name = i.place.name /\ h.place.parent = i.place.parent =>
                              h.ref = i.ref \/ {h.place, TheKey(h.place.name)} \cap contended # {}
                       /\ h.place.name \in Keys => instances[h.place.name] = h.place.obj
                                                   \/ TheKey(h.place.name) \in contended
    BY DEF OneForOne
  <2>1. ASSUME NEW i \in handed, h.place.name = i.place.name, h.place.parent = i.place.parent,
               h.place \notin contended, TheKey(h.place.name) \notin contended
        PROVE  h.ref = i.ref
    <3>1. h.place = i.place BY <2>1, SamePlace
    <3>. QED BY <2>1, <3>1 DEF IInv, UniqueInv
  <2>. QED BY <2>1 DEF IInv, HandedInv, KeyInv
<1>. QED BY <1>1, Invariance, Parents, PTL

(* What is found for a component leads to it, whatever two threads store   *)
(* in the caches, and whatever is computed between their steps.            *)
THEOREM ComponentsAreFoundHolds == Spec => []ComponentsAreFound
<1>1. IInv => ComponentsAreFound
  <2>1. \A n : LeadsTo(n) = Target(refs[n]) BY DEF LeadsTo, Target
  <2>. QED BY <2>1 DEF IInv, ComponentsAreFound, InverseInv, HandedInv, RoleInv
<1>. QED BY <1>1, Invariance, PTL
=============================================================================

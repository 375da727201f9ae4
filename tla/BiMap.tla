-------------------------------- MODULE BiMap ---------------------------------
(***************************************************************************)
(* BiMap of genc/cc/modules/retrieval/bi_map.h: two hash maps, behind one  *)
(* mutex, that are to be inverses of each other. An operation on a map m   *)
(* is a step (the mutex is held from its first line to its last) and       *)
(* returns the map it leaves and the bool it answers.                      *)
(***************************************************************************)
EXTENDS FiniteSets

Empty == [key_to_value_ |-> <<>>, value_to_key_ |-> <<>>]

HasKey(m, k) == k \in DOMAIN m.key_to_value_
HasValue(m, v) == v \in DOMAIN m.value_to_key_

With(f, x, value) ==
  [y \in DOMAIN f \cup {x} |-> IF y = x THEN value ELSE f[y]]
Without(f, x) == [y \in DOMAIN f \ {x} |-> f[y]]

Link(m, k, v) ==
  [key_to_value_ |-> With(m.key_to_value_, k, v),
   value_to_key_ |-> With(m.value_to_key_, v, k)]

Refused(m) == [map |-> m, done |-> FALSE]
Done(m) == [map |-> m, done |-> TRUE]

Insert(m, k, v) ==
  IF HasKey(m, k) \/ HasValue(m, v) THEN Refused(m) ELSE Done(Link(m, k, v))

\* Plausible mistake: the entry of the old value is left behind.
UnlinkKeyOnly(m, k, v) ==
  [key_to_value_ |->
     IF HasValue(m, v) THEN Without(m.key_to_value_, m.value_to_key_[v])
     ELSE m.key_to_value_,
   value_to_key_ |-> m.value_to_key_]

\* The entries of the other map that the new pair makes stale.
Unlink(m, k, v) ==
  [key_to_value_ |->
     IF HasValue(m, v) /\ m.value_to_key_[v] # k
     THEN Without(m.key_to_value_, m.value_to_key_[v]) ELSE m.key_to_value_,
   value_to_key_ |->
     IF HasKey(m, k) /\ m.key_to_value_[k] # v
     THEN Without(m.value_to_key_, m.key_to_value_[k]) ELSE m.value_to_key_]

\* A known key with a known value is refused, even if they are a pair already.
Upsert(m, k, v) ==
  IF HasKey(m, k) /\ HasValue(m, v) THEN Refused(m)
  ELSE Done(Link(Unlink(m, k, v), k, v))

RemoveByKey(m, k) ==
  IF ~HasKey(m, k) THEN Refused(m)
  ELSE Done([key_to_value_ |-> Without(m.key_to_value_, k),
             value_to_key_ |-> Without(m.value_to_key_, m.key_to_value_[k])])

RemoveByValue(m, v) ==
  IF ~HasValue(m, v) THEN Refused(m)
  ELSE Done([key_to_value_ |-> Without(m.key_to_value_, m.value_to_key_[v]),
             value_to_key_ |-> Without(m.value_to_key_, v)])

Size(m) == Cardinality(DOMAIN m.key_to_value_)

\* The two maps are inverses of each other: what FindByKey finds, FindByValue
\* finds back.
IsBijection(m) ==
  /\ \A k \in DOMAIN m.key_to_value_ :
       HasValue(m, m.key_to_value_[k]) /\ m.value_to_key_[m.key_to_value_[k]] = k
  /\ \A v \in DOMAIN m.value_to_key_ :
       HasKey(m, m.value_to_key_[v]) /\ m.key_to_value_[m.value_to_key_[v]] = v
===============================================================================

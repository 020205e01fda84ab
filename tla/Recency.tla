------------------------------ MODULE Recency ------------------------------
(***************************************************************************)
(* What a least-recently-used cache promises: the keys it holds, ordered   *)
(* by their last use, and no more than Capacity of them.                   *)
(***************************************************************************)
EXTENDS Naturals, Sequences
LOCAL INSTANCE SequencesExt

CONSTANTS CacheKeys, Capacity

VARIABLE order   \* the least recently used key comes first

Init == order = << >>

\* A key that is held was used.
Use(key) ==
  /\ key \in ToSet(order)
  /\ order' = Append(SelectSeq(order, LAMBDA k : k # key), key)

\* A new key takes the place of the least recently used one.
Insert(key) ==
  /\ key \notin ToSet(order)
  /\ order' = Append(IF Len(order) = Capacity THEN Tail(order) ELSE order, key)

Forget(keys) == order' = SelectSeq(order, LAMBDA k : k \notin keys)

Next ==
  \/ \E key \in CacheKeys : Use(key) \/ Insert(key)
  \/ \E keys \in SUBSET CacheKeys : Forget(keys)

Spec == Init /\ [][Next]_order
=============================================================================

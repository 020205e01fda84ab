----------------------------- MODULE MapCursor -----------------------------
(***************************************************************************)
(* A map with cursors and batches, in its two implementations:             *)
(* InMemoryStorage with InMemoryCursor and InMemoryBatch                   *)
(* (src/src/storage/in_memory) and a RocksDbSpace with RocksDBCursor and   *)
(* RocksDbBatch (src/src/storage/rocksdb).  A cursor of RocksDB walks the  *)
(* map as it was when the cursor was made; one of the map in memory keeps  *)
(* a copy of the entry it is at and searches on from there.                *)
(*                                                                         *)
(* Abstractions.  Keys are numbers; hexadecimal digits keep their order.   *)
(* Of a value only its size matters.                                       *)
(***************************************************************************)
EXTENDS Integers, FiniteSets
LOCAL INSTANCE FiniteSetsExt

CONSTANTS MapKeys,  \* keys, numbers
          Sizes     \* sizes of values

VARIABLES kind,     \* "memory" or "rocksdb"
          entries,  \* size of the value of each key
          size,     \* InMemoryStorage::size_
          pending,  \* entries of a batch; 0 removes
          view,     \* keys that the cursor of RocksDB sees
          at,       \* key the cursor is at, or End
          seen,     \* keys the walk has come to
          stayed,   \* keys that were there during the whole walk
          walking   \* "no", "up", "down" or "over"

mcVars == <<kind, entries, size, pending, view, at, seen, stayed, walking>>
walkVars == <<view, at, seen, walking>>

End == -1
\* only the map in memory counts its size
Sized(n) == IF kind = "memory" THEN n ELSE 0

Without(f, k) == [x \in DOMAIN f \ {k} |-> f[x]]
With(f, k, v) == [x \in DOMAIN f \cup {k} |-> IF x = k THEN v ELSE f[x]]

mcInit ==
  /\ kind \in {"memory", "rocksdb"}
  /\ entries = [k \in {} |-> 0]
  /\ size = 0
  /\ pending = [k \in {} |-> 0]
  /\ view = {} /\ at = End /\ seen = {} /\ stayed = {} /\ walking = "no"

-----------------------------------------------------------------------------
(* Writes. *)

\* put: the size of the value it replaces is subtracted first
SizeAfterPut(k, n) ==
  Sized(size - (IF k \in DOMAIN entries THEN entries[k] ELSE 0) + n)

MapPut(k, n) ==
  /\ size' = SizeAfterPut(k, n)
  /\ entries' = With(entries, k, n)
  /\ UNCHANGED <<kind, pending, walkVars, stayed>>

MapRemove(k) ==
  /\ k \in DOMAIN entries
  /\ size' = Sized(size - entries[k])
  /\ entries' = Without(entries, k)
  /\ stayed' = stayed \ {k}
  /\ UNCHANGED <<kind, pending, walkVars>>

BatchPut(k, n) ==
  /\ pending' = With(pending, k, n)
  /\ UNCHANGED <<kind, entries, size, walkVars, stayed>>

\* a batch of RocksDB notes the removal, one in memory forgets what it was to put
BatchRemove(k) ==
  /\ pending' = IF kind = "rocksdb" THEN With(pending, k, 0) ELSE Without(pending, k)
  /\ UNCHANGED <<kind, entries, size, walkVars, stayed>>

\* commit, put by put in memory; the batch keeps its entries
BatchCommit ==
  LET kept == {k \in DOMAIN entries \cup DOMAIN pending :
                 k \in DOMAIN pending => pending[k] > 0}
      sizeAfter(n, k) == n - (IF k \in DOMAIN entries THEN entries[k] ELSE 0) + pending[k]
  IN  /\ pending # [k \in {} |-> 0]
      /\ entries' = [k \in kept |-> IF k \in DOMAIN pending THEN pending[k] ELSE entries[k]]
      /\ size' = Sized(FoldSet(LAMBDA k, n : sizeAfter(n, k), size, DOMAIN pending))
      /\ stayed' = stayed \cap kept
      /\ UNCHANGED <<kind, pending, walkVars>>

BatchClear ==
  /\ pending # [k \in {} |-> 0]
  /\ pending' = [k \in {} |-> 0]
  /\ UNCHANGED <<kind, entries, size, walkVars, stayed>>

-----------------------------------------------------------------------------
(* The cursor, over the keys it sees. *)

First(keys) == IF keys = {} THEN End ELSE Min(keys)
Last(keys) == IF keys = {} THEN End ELSE Max(keys)

Seek(keys, k) == First({x \in keys : x >= k})          \* lower_bound
After(keys, k) == First({x \in keys : x > k})          \* upper_bound
Before(keys, k) == Last({x \in keys : x < k})

SeekReverse(keys, k) ==
  LET found == Seek(keys, k)
  IN  IF found = End THEN Last(keys)
      ELSE IF found > k THEN Before(keys, found) ELSE found

Seen == IF kind = "rocksdb" THEN view ELSE DOMAIN entries

\* cursor() and seekFirst, or seekLast: a walk begins
StartWalk(direction) ==
  /\ walking = "no"
  /\ view' = DOMAIN entries
  /\ at' = IF direction = "up" THEN First(view') ELSE Last(view')
  /\ seen' = {at'} \ {End}
  /\ stayed' = view'
  /\ walking' = IF at' = End THEN "over" ELSE direction
  /\ UNCHANGED <<kind, entries, size, pending>>

\* next and prev, on a valid cursor
Step ==
  /\ walking \in {"up", "down"}
  /\ at' = IF walking = "up" THEN After(Seen, at) ELSE Before(Seen, at)
  /\ seen' = seen \cup ({at'} \ {End})
  /\ walking' = IF at' = End THEN "over" ELSE walking
  /\ UNCHANGED <<kind, entries, size, pending, view, stayed>>

EndWalk ==
  /\ walking = "over"
  /\ walking' = "no"
  /\ view' = {} /\ at' = End /\ seen' = {} /\ stayed' = {}
  /\ UNCHANGED <<kind, entries, size, pending>>

mcNext ==
  \/ \E k \in MapKeys :
       \/ \E n \in Sizes : MapPut(k, n) \/ BatchPut(k, n)
       \/ MapRemove(k) \/ BatchRemove(k)
  \/ BatchCommit \/ BatchClear
  \/ StartWalk("up") \/ StartWalk("down") \/ Step \/ EndWalk

-----------------------------------------------------------------------------
(* Properties. *)

\* byteSizeHint of the map in memory is the size of all values, after any
\* sequence of writes, replacements, removals and batches.
SizeExact == size = Sized(MapThenSumSet(LAMBDA k : entries[k], DOMAIN entries))

\* A walk to the end comes to every key that was there all the while, although
\* the map changes under the cursor, and a step never turns back.
WalkComplete ==
  /\ walking = "over" => stayed \subseteq seen
  /\ walking = "up" => at = Max(seen)
  /\ walking = "down" => at = Min(seen)

\* seekReverse finds the last key that is not after the one asked for, as the
\* examples in map_cursor.hpp say.
ReverseFound ==
  \A k \in MapKeys :
    SeekReverse(DOMAIN entries, k) = Last({x \in DOMAIN entries : x <= k})
=============================================================================

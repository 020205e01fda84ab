------------------------------ MODULE LruCache ------------------------------
(***************************************************************************)
(* SmallLruCache of src/src/utils/lru_cache.hpp, the cache of states of    *)
(* the fork choice store.  Recency is kept as ticks of TickBits bits that  *)
(* wrap around.  All calls hold the cache's mutex or the fork choice's.    *)
(*                                                                         *)
(* Values are given by the keys, as states are by block hashes.            *)
(***************************************************************************)
EXTENDS Naturals, Sequences, FiniteSets
LOCAL INSTANCE SequencesExt
LOCAL INSTANCE FiniteSetsExt

CONSTANTS CacheKeys, Capacity,
          ValueOf(_),  \* what is stored under a key
          TickBits     \* width of PriorityType

VARIABLES cache,    \* cache_: entries in the order of the vector
          ticks,    \* ticks_
          answer    \* the key last asked for, and the value given

lruVars == <<cache, ticks, answer>>

Nothing == [key |-> "none", value |-> "none"]

\* a value that is none of the cache's: memory past the end of the vector
Garbage == "garbage"

Held == {cache[i].key : i \in DOMAIN cache}

-----------------------------------------------------------------------------
(* ++ticks_, with the entries renumbered when it wraps. *)

SortedByTick(entries) == SortSeq(entries, LAMBDA a, b : a.tick < b.tick)

\* Mutant: the vector is not sorted before it is renumbered.
RenumberUnsorted(entries) ==
  [i \in DOMAIN entries |-> [entries[i] EXCEPT !.tick = i - 1]]

\* handleTicksOverflow
Renumber(entries) ==
  LET sorted == SortedByTick(entries)
  IN  [i \in DOMAIN sorted |-> [sorted[i] EXCEPT !.tick = i - 1]]

Ticked ==
  LET next == (ticks + 1) % 2 ^ TickBits
  IN  IF next = 0 THEN [cache |-> Renumber(cache), ticks |-> Len(cache) % 2 ^ TickBits]
      ELSE [cache |-> cache, ticks |-> next]

-----------------------------------------------------------------------------
\* the entry counts as used
Touch(entries, i, tick) == [entries EXCEPT ![i].tick = tick]

\* get, of a key that is held: its first entry is used
Get(key) ==
  LET t == Ticked
      i == SelectInSeq(t.cache, LAMBDA e : e.key = key)
  IN  /\ key \in Held
      /\ cache' = Touch(t.cache, i, t.ticks)
      /\ ticks' = t.ticks
      /\ answer' = [key |-> key, value |-> t.cache[i].value]

\* get, of a key that is not
Miss(key) ==
  LET t == Ticked
  IN  /\ key \notin Held
      /\ cache' = t.cache
      /\ ticks' = t.ticks
      /\ answer' = Nothing

\* evict_if_full: the entry with the least tick is erased, the others move up
EvictIfFull(entries) ==
  IF Len(entries) < Capacity THEN entries
  ELSE RemoveAt(entries, SelectInSeq(entries,
         LAMBDA e : \A j \in DOMAIN entries : e.tick <= entries[j].tick))

\* The entry that put appends.  If an equal value is held, it is shared: the
\* iterator to it is read after the eviction has moved the entries.
NewEntry(key, before, after, tick) ==
  LET i == SelectInSeq(before, LAMBDA e : e.value = ValueOf(key))
  IN  [key |-> key, tick |-> tick,
       value |-> IF i = 0 THEN ValueOf(key)
                 ELSE IF i <= Len(after) THEN after[i].value
                 ELSE Garbage]

\* put, of a key that is not held
Put(key) ==
  LET t    == Ticked
      kept == EvictIfFull(t.cache)
      new  == NewEntry(key, t.cache, kept, t.ticks)
  IN  /\ key \notin Held
      /\ cache' = Append(kept, new)
      /\ ticks' = t.ticks
      /\ answer' = [key |-> key, value |-> new.value]

\* erase and erase_if
EraseIf(keys) ==
  /\ cache' = SelectSeq(cache, LAMBDA e : e.key \notin keys)
  /\ UNCHANGED <<ticks, answer>>

lruInit ==
  /\ cache = << >>
  /\ ticks = 0
  /\ answer = Nothing

lruNext ==
  \/ \E key \in CacheKeys : Get(key) \/ Miss(key) \/ Put(key)
  \/ \E keys \in SUBSET CacheKeys : EraseIf(keys)

lruSpec == lruInit /\ [][lruNext]_lruVars

-----------------------------------------------------------------------------
(* Properties. *)

\* Who asks for a key is given its value, and never another key's.
OwnValue == answer # Nothing => answer.value = ValueOf(answer.key)

KeysByUse ==
  LET sorted == SortedByTick(cache)
  IN  [i \in DOMAIN sorted |-> sorted[i].key]

Abstract == INSTANCE Recency WITH order <- KeysByUse

\* The cache is a least-recently-used cache: it holds at most Capacity keys and
\* gives up the one whose last use is longest ago, also after the ticks wrapped
\* around and the entries were renumbered.
ImplementsRecency == Abstract!Spec
=============================================================================

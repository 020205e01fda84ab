------------------------------ MODULE RocksDb ------------------------------
(***************************************************************************)
(* The database under the block storage: RocksDb, RocksDbSpace and         *)
(* RocksDbBatch (src/src/storage/rocksdb).  A RocksDb opens a column       *)
(* family for each space and hands out a RocksDbSpace for each; a space    *)
(* has a weak pointer to the RocksDb and a reference to the place of its   *)
(* column's handle in column_family_handles_.                              *)
(*                                                                         *)
(* RocksDB itself is external: a column family is a function from keys to  *)
(* values, each write is atomic and durable, and a handle is an id that is *)
(* usable until it is destroyed.                                           *)
(***************************************************************************)
EXTENDS Naturals, FiniteSets, Sequences
LOCAL INSTANCE SequencesExt

CONSTANTS Spaces,      \* the spaces, in the order of the enumeration
          Foreign,     \* families that the node does not know
          Callers,     \* threads that use the database
          DbKeys,
          DbValues,
          Absent       \* the value of a key that is not there

VARIABLES families,  \* column families in the files
          handles,   \* column_family_handles_: name, and if it is not destroyed
          cached,    \* spaces_: the place of each space's handle
          object,    \* the RocksDb: "closed", "open", "released" or "failed"
          running,   \* running[c]: space of the operation c is in, with a shared_ptr
          batch,     \* batch[c]: what the RocksDbBatch of c has collected
          stored     \* what callers were told is stored

dbVars == <<families, handles, cached, object, running, batch, stored>>

None == "none"
Nothing == [f \in {} |-> None]
Empty == [k \in DbKeys |-> Absent]
Required == ToSet(Spaces)
Known(f) == [s \in Required |-> IF s \in DOMAIN f THEN f[s] ELSE Empty]
NoBatch == [space |-> None, entries |-> Nothing, stale |-> FALSE]

dbInit ==
  /\ families \in {Nothing, [f \in Foreign |-> Empty]}
  /\ handles = << >>
  /\ cached = Nothing
  /\ object = "closed"
  /\ running = [c \in Callers |-> None]
  /\ batch = [c \in Callers |-> NoBatch]
  /\ stored = Known(Nothing)

-----------------------------------------------------------------------------
(* Opening and closing. *)

\* those that the node needs and those in the files
AllFamilies == Required \cup DOMAIN families

\* openDatabase: what is missing in the files is created.  The families were
\* collected in an unordered set, so their handles come in any order.
OpenDatabase ==
  /\ object' = "open"
  /\ \E order \in SetToSeqs(AllFamilies) :
       handles' = [i \in DOMAIN order |-> [name |-> order[i], usable |-> TRUE]]
  /\ families' = [f \in AllFamilies |-> IF f \in DOMAIN families THEN families[f] ELSE Empty]

\* The constructor, in a new process.  Without a limit of files, without a
\* directory or after an error of RocksDB it throws.
Open ==
  /\ object \in {"closed", "failed"}
  /\ \/ OpenDatabase
     \/ object' = "failed" /\ handles' = << >> /\ UNCHANGED families
  /\ cached' = Nothing
  /\ batch' = [c \in Callers |-> NoBatch]
  /\ UNCHANGED <<running, stored>>

\* the destructor, once the last shared pointer is gone
Destroyed(calls) ==
  IF \A c \in Callers : calls[c] = None
  THEN object' = "closed" /\ handles' = << >>
  ELSE object' = "released" /\ UNCHANGED handles

\* the owners of the RocksDb let it go while operations may be running
ReleaseDb ==
  /\ object = "open"
  /\ Destroyed(running)
  /\ UNCHANGED <<families, cached, running, batch, stored>>

-----------------------------------------------------------------------------
(* Spaces. *)

\* Mutant: the handles are taken to be in the order of the spaces.
ColumnByPlace(name) == CHOOSE i \in DOMAIN Spaces : Spaces[i] = name

\* find_if over the handles, by name
Column(name) == CHOOSE i \in DOMAIN handles : handles[i].name = name

GetSpace(name) ==
  /\ object = "open"
  /\ name \notin DOMAIN cached
  /\ cached' = [s \in DOMAIN cached \cup {name} |->
                  IF s \in DOMAIN cached THEN cached[s] ELSE Column(s)]
  /\ UNCHANGED <<families, handles, object, running, batch, stored>>

Handle(space) == handles[cached[space]]

\* An operation of a space gets its shared_ptr from the weak one.  When the
\* RocksDb is gone it returns STORAGE_GONE and nothing happens.
Use(c, space) ==
  /\ object \in {"open", "released"}
  /\ running[c] = None
  /\ running' = [running EXCEPT ![c] = space]
  /\ UNCHANGED <<families, handles, cached, object, batch, stored>>

\* the operation ends and lets its shared_ptr go
Done(c) ==
  /\ running' = [running EXCEPT ![c] = None]
  /\ IF object = "released" THEN Destroyed(running') ELSE UNCHANGED <<object, handles>>

\* get, tryGet and contains change nothing
Read(c) ==
  /\ running[c] # None
  /\ Done(c)
  /\ UNCHANGED <<families, cached, batch, stored>>

\* put, or remove with the value Absent; RocksDB may return an error instead
Write(c) ==
  /\ running[c] # None
  /\ Handle(running[c]).usable
  /\ \E k \in DbKeys, v \in DbValues \cup {Absent} :
       /\ families' = [families EXCEPT ![Handle(running[c]).name][k] = v]
       /\ stored' = [stored EXCEPT ![running[c]][k] = v]
  /\ Done(c)
  /\ UNCHANGED <<cached, batch>>

\* put and remove of a batch; an entry holds the id of the column
Collect(c, space) ==
  /\ object = "open" /\ running[c] = None
  /\ batch[c].space \in {None, space}
  /\ \E k \in DbKeys, v \in DbValues \cup {Absent} :
       batch' = [batch EXCEPT ![c].space = space,
                              ![c].entries = [x \in DOMAIN @ \cup {k} |->
                                                IF x = k THEN v ELSE @[x]]]
  /\ UNCHANGED <<families, handles, cached, object, running, stored>>

Overlay(content, entries) ==
  [k \in DbKeys |-> IF k \in DOMAIN entries THEN entries[k] ELSE content[k]]

\* commit: one write of all entries, or none: a column that was dropped since is
\* an error, as is any other of RocksDB.  The batch keeps its entries.
Commit(c) ==
  /\ running[c] # None /\ running[c] = batch[c].space
  /\ ~batch[c].stale
  /\ Handle(running[c]).usable
  /\ families' = [families EXCEPT ![Handle(running[c]).name] = Overlay(@, batch[c].entries)]
  /\ stored' = [stored EXCEPT ![running[c]] = Overlay(@, batch[c].entries)]
  /\ Done(c)
  /\ UNCHANGED <<cached, batch>>

Clear(c) ==
  /\ batch[c] # NoBatch
  /\ batch' = [batch EXCEPT ![c] = NoBatch]
  /\ UNCHANGED <<families, handles, cached, object, running, stored>>

\* dropColumn: drop, destroy, create.  When the last fails the place keeps the
\* destroyed handle.  Nothing keeps operations of other threads away; that is left
\* to the caller.
DropColumn(name) ==
  /\ object = "open"
  /\ \A c \in Callers : running[c] = None
  /\ Handle(name).usable
  /\ \/ families' = [families EXCEPT ![name] = Empty] /\ UNCHANGED handles
     \/ /\ families' = [f \in DOMAIN families \ {name} |-> families[f]]
        /\ handles' = [handles EXCEPT ![cached[name]].usable = FALSE]
  /\ batch' = [c \in Callers |-> IF batch[c].space = name
                                 THEN [batch[c] EXCEPT !.stale = TRUE] ELSE batch[c]]
  /\ stored' = [stored EXCEPT ![name] = Empty]
  /\ UNCHANGED <<cached, object, running>>

dbNext ==
  \/ Open \/ ReleaseDb
  \/ \E name \in Required : GetSpace(name)
  \/ \E name \in DOMAIN cached : DropColumn(name)
  \/ \E c \in Callers :
       \/ \E space \in DOMAIN cached : Use(c, space) \/ Collect(c, space)
       \/ Read(c) \/ Write(c) \/ Commit(c) \/ Clear(c)

-----------------------------------------------------------------------------
(* Properties. *)

\* Every space that was handed out leads to the column of its own name as long
\* as the RocksDb lives, in whatever order RocksDB returned the handles.
SpaceIsColumn ==
  object \in {"open", "released"} =>
    \A space \in DOMAIN cached :
      cached[space] \in DOMAIN handles /\ Handle(space).name = space

\* The database is not closed under a running operation.
ClosedIdle == (\E c \in Callers : running[c] # None) => object \in {"open", "released"}

\* What callers were told is stored is in the files, each space on its own, and
\* nothing else, whatever was opened, closed and dropped in between.
StoredIsThere == Known(families) = stored
=============================================================================

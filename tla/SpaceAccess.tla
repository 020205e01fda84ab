---------------------------- MODULE SpaceAccess ----------------------------
(***************************************************************************)
(* How the threads of the node come to the spaces of the database.         *)
(* RocksDb::getSpace (src/src/storage/rocksdb/rocksdb.cpp) looks a space   *)
(* up in spaces_ and inserts it when it is asked for the first time.  It   *)
(* has no lock of its own: what keeps threads apart are the locks of its   *)
(* callers, ForkChoiceStoreMutex and the lock of BlockTreeImpl.            *)
(*                                                                         *)
(* Abstractions.  A task of a thread is the sequence of its locks and of   *)
(* the spaces it asks for; what it then does with a space is left out.     *)
(***************************************************************************)
EXTENDS Naturals, Sequences

CONSTANT None  \* no holder of a lock

VARIABLES spaces,      \* keys of RocksDb::spaces_
          task,        \* task[t]: what thread t has still to do
          access,      \* access[t]: "none", "look" or "insert" in spaces_
          forkLock,    \* holder of ForkChoiceStoreMutex::mutex_
          treeWriter,  \* holder of exclusiveAccess of the block tree
          treeReaders  \* threads inside sharedAccess of the block tree

saVars == <<spaces, task, access, forkLock, treeWriter, treeReaders>>

SpaceNames == {"Default", "Header", "SlotToHashes", "State", "Signature", "Body",
               "Attestation"}

-----------------------------------------------------------------------------
(* The tasks of the threads. *)

\* Mutant: the answer to a request reads the storage beside the tree's lock.
RespondUnlocked == <<"Header", "Signature", "Body">>

\* coroRespond: tryGetSignedBlock reads header, signature and body
Respond == <<"shared", "Header", "Signature", "Body", "release">>

\* the writes of putBlock and of reorgAndPrune
AddBlock == <<"exclusive", "Header", "Signature", "Body", "Default", "SlotToHashes",
              "release">>

\* finalize: reorgAndPrune with blocks to remove
Finalize == <<"exclusive", "Default", "Header", "SlotToHashes", "Body", "State",
              "Signature", "Attestation", "release">>

\* onBlock: the parent's state, the block, its post-state, and perhaps finalize
OnBlock(finalizes) ==
  <<"fork", "shared", "Header", "release", "State">> \o AddBlock
    \o <<"State">> \o (IF finalizes THEN Finalize ELSE << >>) \o <<"unlock">>

\* getState, when the state is not in the cache
GetState == <<"fork", "State", "unlock">>

\* what each thread is asked to do
Tasks ==
  [io      |-> {Respond, OnBlock(FALSE), OnBlock(TRUE), GetState},
   handler |-> {OnBlock(FALSE), GetState},
   http    |-> {GetState}]

Threads == DOMAIN Tasks

-----------------------------------------------------------------------------

\* the spaces that the constructors on the main thread ask for; the slot index
\* only when the anchor block is stored, that is in the first start
saInit ==
  /\ \E first \in BOOLEAN :
       spaces = {"Default", "Header", "State"}
                  \cup (IF first THEN {"SlotToHashes"} ELSE {})
  /\ task = [t \in Threads |-> << >>]
  /\ access = [t \in Threads |-> "none"]
  /\ forkLock = None
  /\ treeWriter = None
  /\ treeReaders = {}

Begin(t) ==
  /\ task[t] = << >>
  /\ \E new \in Tasks[t] : task' = [task EXCEPT ![t] = new]
  /\ UNCHANGED <<spaces, access, forkLock, treeWriter, treeReaders>>

At(t, what) == task[t] # << >> /\ Head(task[t]) = what /\ access[t] = "none"

Advance(t) == task' = [task EXCEPT ![t] = Tail(@)]

\* unique_lock of ForkChoiceStoreMutex
LockFork(t) ==
  /\ At(t, "fork") /\ forkLock = None
  /\ forkLock' = t
  /\ Advance(t)
  /\ UNCHANGED <<spaces, access, treeWriter, treeReaders>>

UnlockFork(t) ==
  /\ At(t, "unlock")
  /\ forkLock' = None
  /\ Advance(t)
  /\ UNCHANGED <<spaces, access, treeWriter, treeReaders>>

\* SafeBlockTreeData::sharedAccess
LockShared(t) ==
  /\ At(t, "shared") /\ treeWriter = None
  /\ treeReaders' = treeReaders \cup {t}
  /\ Advance(t)
  /\ UNCHANGED <<spaces, access, forkLock, treeWriter>>

\* SafeBlockTreeData::exclusiveAccess
LockExclusive(t) ==
  /\ At(t, "exclusive") /\ treeWriter = None /\ treeReaders = {}
  /\ treeWriter' = t
  /\ Advance(t)
  /\ UNCHANGED <<spaces, access, forkLock, treeReaders>>

Release(t) ==
  /\ At(t, "release")
  /\ treeReaders' = treeReaders \ {t}
  /\ treeWriter' = IF treeWriter = t THEN None ELSE treeWriter
  /\ Advance(t)
  /\ UNCHANGED <<spaces, access, forkLock>>

\* getSpace: contains is called,
Look(t) ==
  /\ \E s \in SpaceNames : At(t, s)
  /\ access' = [access EXCEPT ![t] = "look"]
  /\ UNCHANGED <<spaces, task, forkLock, treeWriter, treeReaders>>

\* has found the space,
Found(t) ==
  /\ access[t] = "look"
  /\ Head(task[t]) \in spaces
  /\ access' = [access EXCEPT ![t] = "none"]
  /\ Advance(t)
  /\ UNCHANGED <<spaces, forkLock, treeWriter, treeReaders>>

\* or has not, and the map grows by a new space
Insert(t) ==
  /\ access[t] = "look"
  /\ Head(task[t]) \notin spaces
  /\ access' = [access EXCEPT ![t] = "insert"]
  /\ UNCHANGED <<spaces, task, forkLock, treeWriter, treeReaders>>

Inserted(t) ==
  /\ access[t] = "insert"
  /\ spaces' = spaces \cup {Head(task[t])}
  /\ access' = [access EXCEPT ![t] = "none"]
  /\ Advance(t)
  /\ UNCHANGED <<forkLock, treeWriter, treeReaders>>

saNext ==
  \E t \in Threads :
    \/ Begin(t)
    \/ LockFork(t) \/ UnlockFork(t)
    \/ LockShared(t) \/ LockExclusive(t) \/ Release(t)
    \/ Look(t) \/ Found(t) \/ Insert(t) \/ Inserted(t)

saSpec == saInit /\ [][saNext]_saVars

-----------------------------------------------------------------------------
(* Properties. *)

\* Two threads never insert into spaces_ at the same time: a space that the
\* start has not asked for is first asked for under the lock of the block
\* tree, and only one thread that holds it shared can meet such a space.
InsertsApart ==
  \A t, u \in Threads : access[t] = "insert" /\ access[u] = "insert" => t = u

\* t waits for a lock that another thread holds
Waits(t) ==
  \/ At(t, "fork") /\ forkLock # None
  \/ At(t, "shared") /\ treeWriter # None
  \/ At(t, "exclusive") /\ (treeWriter # None \/ treeReaders # {})

\* The two locks are taken in one order: the threads never all wait.
SomeoneGoesOn == \E t \in Threads : ~Waits(t)

\* ForkChoiceStoreMutex protects the methods of the fork choice called from
\* different threads: while one of them looks a space up, nobody changes the map.
SpacesGuarded ==
  \A t, u \in Threads :
    access[t] = "look" /\ forkLock = t => access[u] # "insert"
=============================================================================

---------------------------- MODULE MCBlockStore ----------------------------
(***************************************************************************)
(* Instances of BlockStore for TLC, beside the database under it: RocksDb, *)
(* its maps with cursors and batches, and the threads that ask for spaces. *)
(* They share no state: a behaviour is one of one part, in focus, while    *)
(* the others keep their initial state.                                    *)
(***************************************************************************)
EXTENDS BlockQueries

CONSTANT Parts  \* the parts looked at

\* RocksDb
CONSTANTS Spaces, Foreign, Callers, DbKeys, DbValues, Absent
VARIABLES families, handles, cached, object, running, batch, stored
dbVars == <<families, handles, cached, object, running, batch, stored>>
DB == INSTANCE RocksDb

\* MapCursor
CONSTANTS MapKeys, Sizes
VARIABLES kind, entries, size, pending, view, at, seen, stayed, walking
mcVars == <<kind, entries, size, pending, view, at, seen, stayed, walking>>
MAP == INSTANCE MapCursor

\* SpaceAccess
CONSTANT NoThread
VARIABLES spaces, task, access, forkLock, treeWriter, treeReaders
saVars == <<spaces, task, access, forkLock, treeWriter, treeReaders>>
SA == INSTANCE SpaceAccess WITH None <- NoThread

VARIABLE focus

MCInit ==
  /\ focus \in Parts
  /\ Init
  /\ IF focus = "RocksDb" THEN DB!dbInit ELSE DB!dbInit /\ families = DB!Nothing
  /\ IF focus = "MapCursor" THEN MAP!mcInit ELSE MAP!mcInit /\ kind = "memory"
  /\ IF focus = "SpaceAccess" THEN SA!saInit
     ELSE SA!saInit /\ "SlotToHashes" \in spaces

MCNext ==
  \/ focus = "BlockStore" /\ Next /\ UNCHANGED <<focus, dbVars, mcVars, saVars>>
  \/ focus = "RocksDb" /\ DB!dbNext /\ UNCHANGED <<focus, vars, mcVars, saVars>>
  \/ focus = "MapCursor" /\ MAP!mcNext /\ UNCHANGED <<focus, vars, dbVars, saVars>>
  \/ focus = "SpaceAccess" /\ SA!saNext /\ UNCHANGED <<focus, vars, dbVars, mcVars>>

MCSpec == MCInit /\ [][MCNext]_<<focus, vars, dbVars, mcVars, saVars>>

MCGenesis == <<0, 1>>
MCSpaces == <<"default", "header">>

-----------------------------------------------------------------------------
(* Properties. *)

\* RocksDb, InMemoryStorage and their cursors: a space leads to its own column,
\* the database is not closed under an operation, and what was stored is there;
\* sizes are exact, walks complete, and seekReverse finds the last key that is not
\* after the one asked for.
StorageServes ==
  /\ DB!SpaceIsColumn /\ DB!ClosedIdle /\ DB!StoredIsThere
  /\ MAP!SizeExact /\ MAP!WalkComplete /\ MAP!ReverseFound

\* RocksDb::getSpace: two threads never insert a space at the same time, and the
\* locks around it are taken in one order.
SpacesInserted == SA!InsertsApart /\ SA!SomeoneGoesOn

\* ForkChoiceStoreMutex protects the methods of the fork choice called from
\* different threads: while one of them looks a space up, nobody changes the map.
SpacesGuarded == SA!SpacesGuarded
=============================================================================

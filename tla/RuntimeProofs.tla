---------------------------- MODULE RuntimeProofs ----------------------------
(***************************************************************************)
(* Theorems about the dispatcher of the engine, for every finite set of    *)
(* tasks, whatever their handlers and timeouts, and every size of the      *)
(* pool; and about the server of the API, for any number of connections    *)
(* and a chain of any length.                                              *)
(***************************************************************************)
EXTENDS Dispatcher, ApiServer, FiniteSetTheorems, TLAPS

-----------------------------------------------------------------------------
(* The dispatcher with its threads: Dispatcher. *)

Stages == {"new", "placing", "queued", "running", "leaving", "lost", "over"}

\* tasks that temporary_handlers_tasks_counter_ counts
Counted == {t \in Tasks : on[t] = Temporary
                            /\ stage[t] \in {"queued", "running", "leaving", "lost"}}

DispatcherTyped ==
  /\ stage \in [Tasks -> Stages]
  /\ on \in [Tasks -> 0 .. Temporary]
  /\ poolBusy \in [Pool -> BOOLEAN]
  /\ counter \in Nat
  /\ disposed \in BOOLEAN
  /\ joining \in 0 .. Returned

\* The inductive invariant.  dispose joins no thread with a task on it and does
\* not return while a temporary thread is counted; a thread of the pool that has
\* a task without a timeout is poolBusy; "leaving" and "lost" are temporary.
DispatcherInv ==
  /\ DispatcherTyped
  /\ CountExact
  /\ PoolTakesOne
  /\ joining > 0 => disposed
  /\ joining = Returned => \A t \in Tasks : on[t] = Temporary => stage[t] # "running"
  /\ \A t \in Tasks : stage[t] = "running" /\ on[t] # Temporary => joining <= on[t]
  /\ \A t \in Tasks : stage[t] \in {"leaving", "lost"} => on[t] = Temporary
  /\ \A t \in Tasks \ Delayed :
       on[t] \in Pool /\ stage[t] \in {"queued", "running"} => poolBusy[on[t]] = TRUE

-----------------------------------------------------------------------------
(* The count of temporary threads. *)

\* The tasks that are counted are finitely many.
LEMMA CountedFinite ==
  IsFiniteSet(Counted) /\ Cardinality(Counted) \in Nat
  BY FS_Subset, FS_CardinalityType, DispatcherAssumption DEF Counted

\* A temporary thread that is made is counted.
LEMMA OneMore ==
  ASSUME CountExact, NEW t \in Tasks, t \notin Counted,
         Counted' = Counted \cup {t}, counter' = counter + 1
  PROVE  CountExact'
<1>1. Cardinality(Counted \cup {t}) = Cardinality(Counted) + 1
  BY CountedFinite, FS_AddElement
<1> QED BY <1>1 DEF CountExact, Counted

\* A temporary thread that leaves is counted off.
LEMMA OneLess ==
  ASSUME CountExact, NEW t \in Counted,
         Counted' = Counted \ {t}, counter' = counter - 1
  PROVE  CountExact'
<1>1. Cardinality(Counted \ {t}) = Cardinality(Counted) - 1
  BY CountedFinite, FS_RemoveElement
<1> QED BY <1>1 DEF CountExact, Counted

\* A step that leaves the temporary threads alone leaves the count alone.
LEMMA SameCount ==
  ASSUME CountExact, Counted' = Counted, counter' = counter
  PROVE  CountExact'
  BY DEF CountExact, Counted
-----------------------------------------------------------------------------
(* The actions. *)

\* The dispatcher starts in order.
LEMMA DispatcherStarts == diInit => DispatcherInv
<1> SUFFICES ASSUME diInit PROVE DispatcherInv
  OBVIOUS
<1>1. DispatcherTyped
  <2>1. stage \in [Tasks -> Stages] /\ counter \in Nat /\ joining \in 0 .. Returned
    BY DispatcherAssumption DEF diInit, Stages, Returned
  <2>2. on \in [Tasks -> 0 .. Temporary]
    BY DispatcherAssumption DEF diInit, Temporary
  <2>3. poolBusy \in [Pool -> BOOLEAN] /\ disposed \in BOOLEAN
    BY Zenon DEF diInit
  <2> QED BY <2>1, <2>2, <2>3, Zenon DEF DispatcherTyped
<1>2. CountExact
  <2>1. Counted = {}
    BY DEF diInit, Counted
  <2>2. Cardinality(Counted) = 0
    BY <2>1, FS_EmptySet
  <2> QED BY <2>2 DEF diInit, CountExact, Counted
<1>3. PoolTakesOne
  BY DEF diInit, PoolTakesOne
<1> QED BY <1>1, <1>2, <1>3, DispatcherAssumption DEF diInit, DispatcherInv, Returned

\* A task moves on from one stage to another, and nothing but the count changes.
LEMMA StageStep ==
  ASSUME DispatcherInv, NEW t \in Tasks, NEW new \in Stages,
         stage' = [stage EXCEPT ![t] = new],
         UNCHANGED <<on, poolBusy, disposed, joining>>, counter' \in Nat, CountExact',
         new \in {"leaving", "lost"} => on[t] = Temporary,
         new = "queued" => on[t] = 0 \/ on[t] = Temporary,
         new = "running" => on[t] = Temporary /\ joining # Returned
  PROVE  DispatcherInv'
<1>1. stage'[t] = new /\ \A u \in Tasks \ {t} : stage'[u] = stage[u]
  BY DEF DispatcherInv, DispatcherTyped
<1>2. DispatcherTyped'
  BY DEF DispatcherInv, DispatcherTyped
<1>3. Temporary \notin Pool /\ 0 \notin Pool
  BY DispatcherAssumption DEF Pool, Temporary
<1>4. PoolTakesOne'
  BY <1>1, <1>3 DEF DispatcherInv, PoolTakesOne
<1>5. (joining = Returned => \A u \in Tasks : on[u] = Temporary => stage[u] # "running")'
  BY <1>1 DEF DispatcherInv
<1>6. (\A u \in Tasks : stage[u] = "running" /\ on[u] # Temporary => joining <= on[u])'
  BY <1>1 DEF DispatcherInv
<1>7. (\A u \in Tasks : stage[u] \in {"leaving", "lost"} => on[u] = Temporary)'
  BY <1>1 DEF DispatcherInv
<1>8. (\A u \in Tasks \ Delayed :
         on[u] \in Pool /\ stage[u] \in {"queued", "running"} => poolBusy[on[u]] = TRUE)'
  BY <1>1, <1>3 DEF DispatcherInv
<1>9. (joining > 0 => disposed)'
  BY DEF DispatcherInv
<1> QED BY <1>2, <1>4, <1>5, <1>6, <1>7, <1>8, <1>9 DEF DispatcherInv

\* A task that is added has no thread yet.
LEMMA UploadStep ==
  ASSUME DispatcherInv, NEW t \in Tasks, Upload(t) PROVE DispatcherInv'
<1>1. PICK new \in {"over", "placing"} : stage' = [stage EXCEPT ![t] = new]
  BY Zenon DEF Upload
<1>2. Counted' = Counted
  BY <1>1 DEF DispatcherInv, DispatcherTyped, Upload, Counted, Temporary
<1>3. CountExact'
  BY <1>2, SameCount DEF Upload, DispatcherInv
<1> QED BY Zenon, <1>1, <1>3, StageStep DEF Upload, DispatcherInv, DispatcherTyped, Stages

\* A task for a handler of its own is queued there.
LEMMA PlaceOnHandlerStep ==
  ASSUME DispatcherInv, NEW t \in Tasks, PlaceOnHandler(t) PROVE DispatcherInv'
<1>1. Counted' = Counted
  BY DispatcherAssumption DEF DispatcherInv, DispatcherTyped, PlaceOnHandler, Counted, Temporary
<1>2. CountExact'
  BY <1>1, SameCount DEF PlaceOnHandler, DispatcherInv
<1> QED BY Zenon, <1>2, StageStep DEF PlaceOnHandler, DispatcherInv, DispatcherTyped, Stages

\* A task that the pool does not take gets a thread that is counted.
LEMMA PlaceOnTemporaryStep ==
  ASSUME DispatcherInv, NEW t \in Tasks, PlaceOnTemporary(t) PROVE DispatcherInv'
<1>1. Counted' = Counted \cup {t} /\ t \notin Counted
  BY DEF DispatcherInv, DispatcherTyped, PlaceOnTemporary, Counted, Temporary
<1>2. CountExact'
  BY <1>1, OneMore DEF PlaceOnTemporary, DispatcherInv
<1>3. counter' \in Nat
  BY DEF PlaceOnTemporary, DispatcherInv, DispatcherTyped
<1>4. "queued" \in Stages
  BY DEF Stages
<1> QED BY Zenon, <1>2, <1>3, <1>4, StageStep DEF PlaceOnTemporary

\* After dispose has begun a temporary thread does not run its task.
LEMMA StartTemporaryStep ==
  ASSUME DispatcherInv, NEW t \in Tasks, StartTemporary(t) PROVE DispatcherInv'
<1>1. PICK new \in {"leaving", "running"} :
        stage' = [stage EXCEPT ![t] = new] /\ (new = "running" => ~disposed)
  BY Zenon DEF StartTemporary
<1>2. Counted' = Counted
  BY <1>1 DEF DispatcherInv, DispatcherTyped, StartTemporary, Counted, Temporary
<1>3. CountExact'
  BY <1>2, SameCount DEF StartTemporary, DispatcherInv
<1>4. new = "running" => joining # Returned
  BY <1>1, DispatcherAssumption DEF DispatcherInv, DispatcherTyped, Returned
<1> QED BY Zenon, <1>1, <1>3, <1>4, StageStep DEF StartTemporary, DispatcherInv, DispatcherTyped, Stages

\* A task ends; on a temporary thread it is still counted.
LEMMA EndStep ==
  ASSUME DispatcherInv, NEW t \in Tasks, Finish(t) \/ Throw(t) PROVE DispatcherInv'
<1>1. PICK new \in {"leaving", "lost", "over"} :
        /\ stage' = [stage EXCEPT ![t] = new]
        /\ new \in {"leaving", "lost"} <=> on[t] = Temporary
  BY DEF Finish, Throw
<1>2. Counted' = Counted
  BY <1>1 DEF DispatcherInv, DispatcherTyped, Finish, Throw, Counted, Temporary
<1>3. CountExact'
  BY <1>2, SameCount DEF Finish, Throw, DispatcherInv
<1>4. UNCHANGED <<on, poolBusy, counter, disposed, joining>> /\ counter \in Nat
  BY DEF Finish, Throw, DispatcherInv, DispatcherTyped
<1>5. new \in Stages /\ new # "queued" /\ new # "running"
  BY DEF Stages
<1> QED BY Zenon, <1>1, <1>3, <1>4, <1>5, StageStep

\* A temporary thread leaves and is counted off.
LEMMA LeaveStep ==
  ASSUME DispatcherInv, NEW t \in Tasks, Leave(t) PROVE DispatcherInv'
<1>1. Counted' = Counted \ {t} /\ t \in Counted
  BY DEF DispatcherInv, DispatcherTyped, Leave, Counted, Temporary
<1>2. CountExact'
  BY <1>1, OneLess DEF Leave, DispatcherInv
<1>3. counter' \in Nat
  <2>1. Counted' = Counted \ {t} /\ IsFiniteSet(Counted \ {t})
    BY <1>1, CountedFinite, FS_RemoveElement
  <2>2. Cardinality(Counted') \in Nat
    BY <2>1, FS_CardinalityType
  <2> QED BY <1>2, <2>2 DEF CountExact, Counted
<1> QED BY Zenon, <1>2, <1>3, StageStep DEF Leave, DispatcherInv, DispatcherTyped, Stages

\* uploadIfFree makes the thread poolBusy, so it takes no second task.
LEMMA PlaceInPoolStep ==
  ASSUME DispatcherInv, NEW t \in Tasks, PlaceInPool(t) PROVE DispatcherInv'
<1>0. /\ Temporary \notin Pool /\ on[t] \in Pool /\ stage[t] = "placing"
      /\ UNCHANGED <<counter, disposed, joining>>
  BY DispatcherAssumption DEF PlaceInPool, Pool, Temporary
<1>1. CASE poolBusy[on[t]]
  <2>1. on' = [on EXCEPT ![t] = on[t] + 1] /\ UNCHANGED <<stage, poolBusy>>
    BY <1>1 DEF PlaceInPool
  <2>2. /\ on' \in [Tasks -> 0 .. Temporary]
        /\ \A u \in Tasks \ {t} : on'[u] = on[u]
    BY <1>0, <2>1, DispatcherAssumption DEF DispatcherInv, DispatcherTyped, Pool, Temporary
  <2>3. DispatcherTyped'
    BY <1>0, <2>1, <2>2 DEF DispatcherInv, DispatcherTyped
  <2>4. Counted' = Counted
    BY <1>0, <2>1, <2>2 DEF Counted, Temporary
  <2>5. CountExact'
    BY <1>0, <2>4, SameCount DEF DispatcherInv
  <2>6. PoolTakesOne'
    BY <1>0, <2>1, <2>2 DEF DispatcherInv, PoolTakesOne
  <2>7. (\A u \in Tasks \ Delayed :
           on[u] \in Pool /\ stage[u] \in {"queued", "running"} => poolBusy[on[u]] = TRUE)'
    BY <1>0, <2>1, <2>2 DEF DispatcherInv
  <2>8. /\ (joining = Returned => \A u \in Tasks : on[u] = Temporary => stage[u] # "running")'
        /\ (\A u \in Tasks : stage[u] = "running" /\ on[u] # Temporary => joining <= on[u])'
        /\ (\A u \in Tasks : stage[u] \in {"leaving", "lost"} => on[u] = Temporary)'
        /\ (joining > 0 => disposed)'
    BY <1>0, <2>1, <2>2 DEF DispatcherInv, Temporary
  <2> QED BY <2>3, <2>5, <2>6, <2>7, <2>8 DEF DispatcherInv
<1>2. CASE ~poolBusy[on[t]]
  <2>1. stage' = [stage EXCEPT ![t] = "queued"] /\ poolBusy' = BusyByTask(t) /\ on' = on
    BY <1>2 DEF PlaceInPool
  <2>2. stage'[t] = "queued" /\ \A u \in Tasks \ {t} : stage'[u] = stage[u]
    BY <2>1 DEF DispatcherInv, DispatcherTyped
  <2>3. /\ poolBusy' \in [Pool -> BOOLEAN]
        /\ \A i \in Pool : poolBusy[i] = TRUE => poolBusy'[i] = TRUE
        /\ t \notin Delayed => poolBusy'[on[t]] = TRUE
    BY <1>0, <2>1, Zenon DEF DispatcherInv, DispatcherTyped, BusyByTask
  <2>4. DispatcherTyped'
    <3>1. stage' \in [Tasks -> Stages]
      BY <2>1 DEF DispatcherInv, DispatcherTyped, Stages
    <3> QED BY <1>0, <2>1, <2>3, <3>1 DEF DispatcherInv, DispatcherTyped
  <2>5. Counted' = Counted
    BY <1>0, <2>1, <2>2 DEF Counted, Temporary
  <2>6. CountExact'
    BY <1>0, <2>5, SameCount DEF DispatcherInv
  <2>7. \A u \in Tasks \ Delayed : on[u] = on[t] => stage[u] \notin {"queued", "running"}
    BY <1>0, <1>2 DEF DispatcherInv
  <2>8. PoolTakesOne'
    BY <1>0, <2>1, <2>2, <2>7 DEF DispatcherInv, PoolTakesOne
  <2>9. (\A u \in Tasks \ Delayed :
           on[u] \in Pool /\ stage[u] \in {"queued", "running"} => poolBusy[on[u]] = TRUE)'
    BY <2>1, <2>2, <2>3 DEF DispatcherInv
  <2>10. /\ (joining = Returned => \A u \in Tasks : on[u] = Temporary => stage[u] # "running")'
         /\ (\A u \in Tasks : stage[u] = "running" /\ on[u] # Temporary => joining <= on[u])'
         /\ (\A u \in Tasks : stage[u] \in {"leaving", "lost"} => on[u] = Temporary)'
         /\ (joining > 0 => disposed)'
    BY <1>0, <2>1, <2>2 DEF DispatcherInv, Temporary
  <2> QED BY <2>4, <2>6, <2>8, <2>9, <2>10 DEF DispatcherInv
<1> QED BY <1>1, <1>2

\* A thread takes a task of its own, which makes it poolBusy.
LEMMA StartStep ==
  ASSUME DispatcherInv, NEW t \in Tasks, StartTask(t) PROVE DispatcherInv'
<1>0. /\ stage[t] = "queued" /\ on[t] \in 0 .. PoolSize /\ joining <= on[t]
      /\ on[t] # Temporary /\ UNCHANGED <<on, counter, disposed, joining>>
  BY DispatcherAssumption DEF StartTask, Alive, Temporary
<1>1. stage' = [stage EXCEPT ![t] = "running"]
  BY DEF StartTask
<1>2. stage'[t] = "running" /\ \A u \in Tasks \ {t} : stage'[u] = stage[u]
  BY <1>1 DEF DispatcherInv, DispatcherTyped
<1>3. /\ poolBusy' \in [Pool -> BOOLEAN]
      /\ \A i \in Pool : poolBusy[i] = TRUE => poolBusy'[i] = TRUE
      /\ on[t] \in Pool => poolBusy'[on[t]] = TRUE
  BY Zenon DEF DispatcherInv, DispatcherTyped, StartTask
<1>4. DispatcherTyped'
  <2>1. stage' \in [Tasks -> Stages]
    BY <1>1 DEF DispatcherInv, DispatcherTyped, Stages
  <2> QED BY <1>0, <1>3, <2>1 DEF DispatcherInv, DispatcherTyped
<1>5. Counted' = Counted
  BY <1>0, <1>2 DEF Counted, Temporary
<1>6. CountExact'
  BY <1>0, <1>5, SameCount DEF DispatcherInv
<1>7. PoolTakesOne'
  BY <1>0, <1>2 DEF DispatcherInv, PoolTakesOne
<1>8. (\A u \in Tasks \ Delayed :
         on[u] \in Pool /\ stage[u] \in {"queued", "running"} => poolBusy[on[u]] = TRUE)'
  BY <1>0, <1>2, <1>3 DEF DispatcherInv
<1>9. /\ (joining = Returned => \A u \in Tasks : on[u] = Temporary => stage[u] # "running")'
      /\ (\A u \in Tasks : stage[u] = "running" /\ on[u] # Temporary => joining <= on[u])'
      /\ (\A u \in Tasks : stage[u] \in {"leaving", "lost"} => on[u] = Temporary)'
      /\ (joining > 0 => disposed)'
  BY <1>0, <1>2 DEF DispatcherInv, Temporary
<1> QED BY <1>4, <1>6, <1>7, <1>8, <1>9 DEF DispatcherInv

\* A thread says it is free only when nothing without a timeout is left on it.
LEMMA IdleStep ==
  ASSUME DispatcherInv, NEW i \in Pool, Idle(i) PROVE DispatcherInv'
<1>0. UNCHANGED <<stage, on, counter, disposed, joining>>
  BY DEF Idle
<1>1. /\ poolBusy' \in [Pool -> BOOLEAN]
      /\ \A j \in Pool \ {i} : poolBusy'[j] = poolBusy[j]
  BY Zenon DEF DispatcherInv, DispatcherTyped, Idle
<1>2. DispatcherTyped' /\ PoolTakesOne'
  BY <1>0, <1>1 DEF DispatcherInv, DispatcherTyped, PoolTakesOne
<1>3. CountExact'
  BY <1>0 DEF DispatcherInv, CountExact
<1>4. \A u \in Tasks \ Delayed : on[u] = i => stage[u] \notin {"queued", "running"}
  BY DEF Idle, Running
<1>5. (\A u \in Tasks \ Delayed :
         on[u] \in Pool /\ stage[u] \in {"queued", "running"} => poolBusy[on[u]] = TRUE)'
  BY <1>0, <1>1, <1>4 DEF DispatcherInv
<1> QED BY <1>0, <1>2, <1>3, <1>5 DEF DispatcherInv

\* dispose: no step of it ends a thread that has a task, and the last one waits
\* until no temporary thread has one.
LEMMA DisposeSteps ==
  ASSUME DispatcherInv, Dispose \/ JoinThreads \/ DisposeEnds
  PROVE  DispatcherInv'
<1>0. UNCHANGED <<stage, on, poolBusy, counter>>
  BY DEF Dispose, JoinThreads, DisposeEnds
<1>1. PoolTakesOne' /\ CountExact'
  BY <1>0 DEF DispatcherInv, PoolTakesOne, CountExact
<1>2. /\ (\A u \in Tasks : stage[u] \in {"leaving", "lost"} => on[u] = Temporary)'
      /\ (\A u \in Tasks \ Delayed :
            on[u] \in Pool /\ stage[u] \in {"queued", "running"} => poolBusy[on[u]] = TRUE)'
  BY <1>0 DEF DispatcherInv
<1>3. CASE Dispose
  <2>1. disposed' = TRUE /\ joining' = joining
    BY <1>3 DEF Dispose
  <2> QED BY <1>0, <1>1, <1>2, <2>1 DEF DispatcherInv, DispatcherTyped
<1>4. CASE JoinThreads
  <2>1. /\ joining' = joining + 1 /\ joining' <= Temporary /\ joining \in Nat
        /\ disposed /\ disposed' = disposed /\ joining' # Returned
    BY <1>4, DispatcherAssumption DEF JoinThreads, DispatcherInv, DispatcherTyped, Temporary, Returned
  <2>2. DispatcherTyped'
    BY <1>0, <2>1, DispatcherAssumption DEF DispatcherInv, DispatcherTyped, Temporary, Returned
  <2>3. \A u \in Tasks : stage[u] = "running" /\ on[u] # Temporary => joining' <= on[u]
    BY <1>4, <2>1, DispatcherAssumption DEF JoinThreads, Running, DispatcherInv, DispatcherTyped, Temporary
  <2> QED BY <1>0, <1>1, <1>2, <2>1, <2>2, <2>3 DEF DispatcherInv
<1>5. CASE DisposeEnds
  <2>1. joining = Temporary /\ joining' = Returned /\ counter = 0 /\ disposed' = disposed
    BY <1>5 DEF DisposeEnds
  <2>2. DispatcherTyped' /\ disposed
    BY <1>0, <2>1, DispatcherAssumption DEF DispatcherInv, DispatcherTyped, Temporary, Returned
  <2>3. Counted = {}
    <3>1. Cardinality(Counted) = 0
      BY <2>1 DEF DispatcherInv, CountExact, Counted
    <3> QED BY <3>1, CountedFinite, FS_EmptySet
  <2>4. \A u \in Tasks : on[u] = Temporary => stage[u] # "running"
    BY <2>3 DEF Counted
  <2>5. \A u \in Tasks : on[u] # Temporary => stage[u] # "running"
    BY <2>1, DispatcherAssumption DEF DispatcherInv, DispatcherTyped, Temporary
  <2> QED BY <1>0, <1>1, <1>2, <2>1, <2>2, <2>4, <2>5 DEF DispatcherInv
<1> QED BY <1>3, <1>4, <1>5

\* Every step keeps the invariant.
LEMMA DispatcherSteps == DispatcherInv /\ [diNext]_diVars => DispatcherInv'
<1> SUFFICES ASSUME DispatcherInv, [diNext]_diVars PROVE DispatcherInv'
  OBVIOUS
<1>1. CASE UNCHANGED diVars
  BY <1>1 DEF diVars, DispatcherInv, DispatcherTyped, CountExact, PoolTakesOne
<1>2. CASE diNext
  BY <1>2, UploadStep, PlaceOnHandlerStep, PlaceInPoolStep, PlaceOnTemporaryStep, StartStep,
     StartTemporaryStep, EndStep, LeaveStep, IdleStep, DisposeSteps DEF diNext
<1> QED BY <1>1, <1>2

-----------------------------------------------------------------------------
(* The theorems. *)

\* The invariant holds from the constructor on.
THEOREM DispatcherInvariant == diSpec => []DispatcherInv
  BY DispatcherStarts, DispatcherSteps, PTL DEF diSpec

\* When dispose has returned no task is running.
THEOREM QuietOnceDisposed == diSpec => []QuietAfterDispose
<1>1. DispatcherInv => QuietAfterDispose
  BY DispatcherAssumption DEF DispatcherInv, DispatcherTyped, QuietAfterDispose, Temporary, Returned
<1> QED BY <1>1, DispatcherInvariant, PTL

\* A thread of the pool has one task without a timeout at most.
THEOREM PoolNeverQueues == diSpec => []PoolTakesOne
<1>1. DispatcherInv => PoolTakesOne
  BY DEF DispatcherInv
<1> QED BY <1>1, DispatcherInvariant, PTL

\* The counter that dispose waits for is the number of temporary threads that
\* have not left.
THEOREM CountAlwaysExact == diSpec => []CountExact
<1>1. DispatcherInv => CountExact
  BY DEF DispatcherInv
<1> QED BY <1>1, DispatcherInvariant, PTL

\* Tasks are placed so that dispose waits for all of them and none waits for another
\* in the pool, for every set of tasks and every pool.
THEOREM TasksAlwaysPlaced == diSpec => []TasksPlaced
<1>1. QuietAfterDispose /\ PoolTakesOne /\ CountExact => TasksPlaced
  BY DEF TasksPlaced
<1> QED BY <1>1, QuietOnceDisposed, PoolNeverQueues, CountAlwaysExact, PTL

-----------------------------------------------------------------------------
(* The server of the API: ApiServer. *)

\* The calls that a thread makes.
Ops(t) == IF t = "http" THEN {"none", "getState", "apiForkChoice"}
          ELSE {"none", "onBlock"}

Connection == [phase : {"free", "reading", "handling", "writing"},
               url : Urls \cup {"none"}, root : Nat]

\* Only one thread takes the lock shared, so that two are never inside.
OneInside == \A t, u \in Threads : Inside(t) /\ Inside(u) => t = u

\* The inductive invariant: roots that were read are those of the chain, whose
\* states are stored, and stay so while the node goes on.
ApiInv ==
  /\ connection \in [Connections -> Connection]
  /\ calls \in [Threads -> [op : {"none", "onBlock", "getState", "apiForkChoice"},
                            root : Nat]]
  /\ \A t \in Threads : calls[t].op \in Ops(t)
  /\ OneInside
  /\ top \in Nat /\ finalized \in 0 .. top
  /\ 0 .. top \subseteq states
  /\ \A c \in Connections : connection[c].root <= top
  /\ \A t \in Threads : calls[t].root <= top
  /\ answer # 500

-----------------------------------------------------------------------------
\* Nothing has been asked and only the anchor is there.
LEMMA ApiStarts == apInit => ApiInv
  BY DEF apInit, ApiInv, Connection, Free, NoCall, Threads, NodeThreads, Ops,
         OneInside, Inside

\* A thread enters only when nobody is inside.
LEMMA EnterAlone ==
  ASSUME ApiInv, NEW t \in Threads, NEW op \in Ops(t) \ {"none"}, NEW root \in 0 .. top,
         Enter(t, op, root)
  PROVE  /\ calls' \in [Threads -> [op : {"none", "onBlock", "getState", "apiForkChoice"},
                                    root : Nat]]
         /\ \A u \in Threads : calls'[u].op \in Ops(u)
         /\ OneInside'
         /\ \A u \in Threads : calls'[u].root <= top
<1>1. /\ calls' = [calls EXCEPT ![t] = [op |-> op, root |-> root]]
      /\ op \in {"onBlock", "getState", "apiForkChoice"} /\ root \in Nat /\ root <= top
  BY DEF Enter, Ops, ApiInv
<1>2. ASSUME NEW u \in Threads \ {t} PROVE ~Inside(u)
  BY DEF Enter, CanLock, LockOf, Inside, ApiInv, Ops, Threads, NodeThreads
<1>3. /\ calls'[t] = [op |-> op, root |-> root]
      /\ \A u \in Threads \ {t} : calls'[u] = calls[u]
  BY <1>1 DEF ApiInv
<1>4. OneInside'
  BY <1>2, <1>3 DEF OneInside, Inside
<1> QED BY <1>1, <1>3, <1>4 DEF ApiInv

\* A thread that leaves was the only one.
LEMMA LeaveAlone ==
  ASSUME ApiInv, NEW t \in Threads, calls' = [calls EXCEPT ![t] = NoCall]
  PROVE  /\ calls' \in [Threads -> [op : {"none", "onBlock", "getState", "apiForkChoice"},
                                    root : Nat]]
         /\ \A u \in Threads : calls'[u].op \in Ops(u)
         /\ OneInside'
         /\ \A u \in Threads : calls'[u].root <= top
<1>1. /\ calls'[t] = NoCall
      /\ \A u \in Threads \ {t} : calls'[u] = calls[u]
  BY DEF ApiInv
<1>2. OneInside'
  BY <1>1 DEF OneInside, Inside, NoCall, ApiInv
<1> QED BY <1>1, <1>2 DEF ApiInv, NoCall, Ops

\* The node adds and finalizes blocks; the states of the chain stay.
LEMMA EndNodeCallStep ==
  ASSUME ApiInv, NEW t \in NodeThreads, EndNodeCall(t) PROVE ApiInv'
<1>1. PICK n \in finalized .. top + 1 :
        /\ top' = top + 1 /\ finalized' = n
        /\ states' = KeepFinalized(states \cup {top + 1, -(top + 1)}, n)
  BY DEF EndNodeCall
<1>2. top' \in Nat /\ finalized' \in 0 .. top'
  BY <1>1 DEF ApiInv
<1>3. 0 .. top' \subseteq states'
  <2>1. 0 .. top \subseteq states /\ top \in Nat
    BY DEF ApiInv
  <2>2. states' = {b \in states \cup {top + 1, -(top + 1)} : b >= 0 \/ b < -n}
    BY <1>1 DEF KeepFinalized
  <2>3. ASSUME NEW b \in 0 .. top + 1 PROVE b \in states'
    <3>1. b \in 0 .. top \/ b = top + 1
      BY <2>1
    <3> QED BY <2>1, <2>2, <3>1
  <2> QED BY Zenon, <1>1, <2>3
<1>4. t \in Threads /\ calls' = [calls EXCEPT ![t] = NoCall]
      /\ UNCHANGED <<connection, answer>>
  BY DEF EndNodeCall, Threads
<1>5. /\ \A c \in Connections : connection'[c].root <= top'
      /\ \A u \in Threads : calls'[u].root <= top'
  <2>1. \A c \in Connections : connection[c].root \in Nat /\ connection[c].root <= top
    BY DEF ApiInv, Connection
  <2>2. \A u \in Threads : calls'[u].root \in Nat /\ calls'[u].root <= top
    BY Zenon, <1>4, LeaveAlone
  <2>3. top \in Nat
    BY DEF ApiInv
  <2> QED BY <1>1, <1>4, <2>1, <2>2, <2>3
<1> QED BY Zenon, <1>2, <1>3, <1>4, <1>5, LeaveAlone DEF ApiInv

\* A connection is taken, closed or answered.
LEMMA ConnectionStep ==
  ASSUME ApiInv, NEW c \in Connections, NEW new \in Connection, new.root <= top,
         connection' = [connection EXCEPT ![c] = new],
         answer' # 500,
         UNCHANGED <<calls, top, finalized, states>>
  PROVE  ApiInv'
<1>1. connection' \in [Connections -> Connection]
  BY DEF ApiInv
<1>2. \A d \in Connections : connection'[d].root <= top
  BY DEF ApiInv
<1> QED BY <1>1, <1>2 DEF ApiInv, OneInside, Inside

\* A request that makes no call that lasts.
LEMMA RequestStep ==
  ASSUME ApiInv, NEW c \in Connections,
         Accept(c) \/ ReadFails(c) \/ Request(c) \/ Written(c) \/ ReadFinalized(c)
  PROVE  ApiInv'
<1>1. CASE Accept(c)
  <2>1. PICK url \in Urls :
          connection' = [connection EXCEPT ![c] = [phase |-> "reading", url |-> url, root |-> 0]]
    BY Zenon, <1>1 DEF Accept
  <2>2. [phase |-> "reading", url |-> url, root |-> 0] \in Connection
    BY DEF Connection
  <2>3. 0 <= top /\ answer' # 500 /\ UNCHANGED <<calls, top, finalized, states>>
    BY <1>1 DEF Accept, ApiInv
  <2> DEFINE new == [phase |-> "reading", url |-> url, root |-> 0]
  <2>4. new.root <= top
    BY <2>3
  <2> HIDE DEF new
  <2> QED BY Zenon, <2>1, <2>2, <2>3, <2>4, ConnectionStep DEF new
<1>2. CASE ReadFails(c) \/ Written(c)
  <2>1. Free \in Connection /\ Free.root <= top
    BY DEF Free, Connection, ApiInv
  <2> QED BY <1>2, <2>1, ConnectionStep DEF ReadFails, Written, ApiInv
<1>3. CASE Request(c)
  <2> DEFINE new == [connection[c] EXCEPT !.phase = "writing"]
  <2>1. new \in Connection /\ new.root <= top
    BY DEF Connection, ApiInv
  <2>2. connection' = [connection EXCEPT ![c] = new] /\ answer' # 500
    BY <1>3 DEF Request, Reply, ApiInv
  <2>3. UNCHANGED <<calls, top, finalized, states>>
    BY <1>3 DEF Request
  <2> QED BY Zenon, <2>1, <2>2, <2>3, ConnectionStep
<1>4. CASE ReadFinalized(c)
  <2> DEFINE new == [connection[c] EXCEPT !.phase = "handling", !.root = finalized]
  <2>1. new \in Connection /\ new.root <= top
    <3>1. connection[c] \in Connection /\ finalized \in Nat /\ finalized <= top
      BY DEF ApiInv
    <3>2. new.root = finalized
      BY <3>1 DEF Connection
    <3> QED BY Zenon, <3>1, <3>2 DEF Connection
  <2>2. connection' = [connection EXCEPT ![c] = new]
    BY Zenon, <1>4 DEF ReadFinalized, ApiInv
  <2> QED BY <1>4, <2>1, <2>2, ConnectionStep, ZenonT(40) DEF ReadFinalized, ApiInv
<1> QED BY <1>1, <1>2, <1>3, <1>4

\* getState and apiForkChoice are called with the root of a block of the chain.
LEMMA CallStep ==
  ASSUME ApiInv, NEW c \in Connections, GetState(c) \/ ApiForkChoice(c)
  PROVE  ApiInv'
<1>0. "http" \in Threads /\ Ops("http") = {"none", "getState", "apiForkChoice"}
  BY DEF Threads, Ops
<1>1. CASE GetState(c)
  <2>1. connection[c].root \in 0 .. top
    BY DEF ApiInv, Connection
  <2>2. Enter("http", "getState", connection[c].root)
        /\ UNCHANGED <<connection, answer, top, finalized, states>>
    BY <1>1 DEF GetState
  <2> QED BY Zenon, <1>0, <2>1, <2>2, EnterAlone DEF ApiInv
<1>2. CASE ApiForkChoice(c)
  <2> DEFINE new == [connection[c] EXCEPT !.phase = "handling"]
  <2>1. new \in Connection /\ new.root <= top
    BY DEF ApiInv, Connection
  <2>2. /\ Enter("http", "apiForkChoice", top)
        /\ connection' = [connection EXCEPT ![c] = new]
        /\ UNCHANGED <<answer, top, finalized, states>>
    BY <1>2 DEF ApiForkChoice, ApiInv
  <2>3. connection' \in [Connections -> Connection]
        /\ \A d \in Connections : connection'[d].root <= top
    BY <2>1, <2>2 DEF ApiInv
  <2>4. top \in 0 .. top
    BY DEF ApiInv
  <2> QED BY <1>0, <2>2, <2>3, <2>4, EnterAlone, ZenonT(40) DEF ApiInv
<1> QED BY <1>1, <1>2

\* The state that was asked for is there when the call returns.
LEMMA ReturnStep == ASSUME ApiInv, NEW c \in Connections, Return(c) PROVE ApiInv'
<1> DEFINE new == [connection[c] EXCEPT !.phase = "writing"]
<1>0. "http" \in Threads
  BY DEF Threads
<1>1. new \in Connection /\ new.root <= top
  BY DEF ApiInv, Connection
<1>2. /\ connection' = [connection EXCEPT ![c] = new]
      /\ answer' = IF calls["http"].root \in states THEN 200 ELSE 500
      /\ calls' = [calls EXCEPT !["http"] = NoCall]
      /\ UNCHANGED <<top, finalized, states>>
  BY DEF Return, Reply, ApiInv
<1>3. calls["http"].root \in states
  <2>1. calls["http"].root \in 0 .. top
    BY <1>0 DEF ApiInv
  <2> QED BY <2>1 DEF ApiInv
<1>4. connection' \in [Connections -> Connection]
      /\ \A d \in Connections : connection'[d].root <= top
  BY <1>1, <1>2 DEF ApiInv
<1>5. /\ calls' \in [Threads -> [op : {"none", "onBlock", "getState", "apiForkChoice"},
                                 root : Nat]]
      /\ \A u \in Threads : calls'[u].op \in Ops(u)
      /\ OneInside'
      /\ \A u \in Threads : calls'[u].root <= top
  BY Zenon, <1>0, <1>2, LeaveAlone
<1>6. answer' # 500
  BY <1>2, <1>3
<1>7. top' \in Nat /\ finalized' \in 0 .. top' /\ 0 .. top' \subseteq states' /\ top' = top
  BY <1>2 DEF ApiInv
<1> QED BY <1>4, <1>5, <1>6, <1>7 DEF ApiInv

\* Every step keeps the invariant.
LEMMA ApiSteps == ApiInv /\ [apNext]_apVars => ApiInv'
<1> SUFFICES ASSUME ApiInv, [apNext]_apVars PROVE ApiInv'
  OBVIOUS
<1>1. CASE Start \/ Stop \/ JoinServer \/ UNCHANGED apVars
  <2>1. UNCHANGED <<connection, answer, calls, top, finalized, states>>
    BY <1>1 DEF Start, Stop, JoinServer, apVars
  <2> QED BY <2>1 DEF ApiInv, OneInside, Inside
<1>2. ASSUME NEW t \in NodeThreads, StartNodeCall(t) PROVE ApiInv'
  <2>1. t \in Threads /\ "onBlock" \in Ops(t) \ {"none"} /\ 0 \in 0 .. top
    BY DEF Threads, NodeThreads, Ops, ApiInv
  <2>2. Enter(t, "onBlock", 0)
        /\ UNCHANGED <<connection, answer, top, finalized, states>>
    BY <1>2 DEF StartNodeCall
  <2> QED BY <2>1, <2>2, EnterAlone DEF ApiInv
<1>3. ASSUME NEW t \in NodeThreads, EndNodeCall(t) PROVE ApiInv'
  BY <1>3, EndNodeCallStep
<1>4. CASE HttpStep
  BY <1>4, RequestStep, CallStep, ReturnStep DEF HttpStep
<1> QED BY <1>1, <1>2, <1>3, <1>4 DEF apNext, NodeStep

\* Roots stay those of the chain and nobody meets another inside.
THEOREM ApiInvariant == apSpec => []ApiInv
  BY ApiStarts, ApiSteps, PTL DEF apSpec

\* The state of the finalized block is served whatever happens between
\* getLatestFinalized and getState (http_server.cpp).
THEOREM StateAlwaysServed == apSpec => []StateServed
<1>1. ApiInv => StateServed
  BY DEF ApiInv, StateServed
<1> QED BY <1>1, ApiInvariant, PTL

\* One thread at a time uses the cache of states (fork_choice_mutex.hpp).
THEOREM CacheAlwaysExclusive == apSpec => []CacheExclusive
<1>1. ApiInv => CacheExclusive
  <2> SUFFICES ASSUME ApiInv PROVE Cardinality({t \in Threads : Inside(t)}) <= 1
    BY DEF CacheExclusive
  <2>1. CASE {t \in Threads : Inside(t)} = {}
    BY <2>1, FS_EmptySet
  <2>2. CASE {t \in Threads : Inside(t)} # {}
    <3>1. PICK t \in Threads : Inside(t)
      BY <2>2
    <3>2. {u \in Threads : Inside(u)} = {t}
      BY <3>1 DEF ApiInv, OneInside
    <3> QED BY <3>2, FS_Singleton
  <2> QED BY <2>1, <2>2
<1> QED BY <1>1, ApiInvariant, PTL

\* The finalized state is served, and the cache that it is served from has one user
\* at a time, for every number of connections and every chain.
THEOREM FinalizedAlwaysServed == apSpec => []FinalizedServed
<1>1. StateServed /\ CacheExclusive => FinalizedServed
  BY DEF FinalizedServed
<1> QED BY <1>1, StateAlwaysServed, CacheAlwaysExclusive, PTL
=============================================================================

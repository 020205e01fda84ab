----------------------------- MODULE Dispatcher -----------------------------
(***************************************************************************)
(* AsyncDispatcher (src/src/se/impl/async_dispatcher_impl.hpp): tasks go   *)
(* to a handler thread, to a thread of the pool that is free, or to a      *)
(* temporary thread of their own, while dispose stops all of them.         *)
(*                                                                         *)
(* Abstractions.  Thread 0 is the handler, 1 .. PoolSize are the pool; how *)
(* a thread works off its queue is the subject of Scheduler, here it takes *)
(* any of its tasks.  Between dispose of a thread and its end the thread   *)
(* may take more tasks, where the code takes one at most.  Schedulers that *)
(* are bound from outside (bind) are left out; nothing binds one.          *)
(***************************************************************************)
EXTENDS Naturals, FiniteSets

CONSTANTS Tasks,      \* tasks that are uploaded, each by a thread of its own
          ForHandler, \* those with the id of the handler
          Delayed,    \* those with a timeout
          PoolSize    \* kPoolThreadsCount

ASSUME DispatcherAssumption == IsFiniteSet(Tasks) /\ PoolSize \in Nat

VARIABLES stage,     \* stage[t]: how far task t is
          on,        \* on[t]: the thread it is on, or is tried on next
          poolBusy,      \* is_busy_ of the threads of the pool
          counter,   \* temporary_handlers_tasks_counter_
          disposed,  \* is_disposed_
          joining    \* the thread that dispose comes to next

diVars == <<stage, on, poolBusy, counter, disposed, joining>>

Pool == 1 .. PoolSize
Temporary == PoolSize + 1  \* a thread of its own
Returned == PoolSize + 2   \* dispose has returned

diInit ==
  /\ stage = [t \in Tasks |-> "new"]
  /\ on = [t \in Tasks |-> IF t \in ForHandler THEN 0 ELSE 1]
  /\ poolBusy = [i \in Pool |-> FALSE]
  /\ counter = 0
  /\ disposed = FALSE
  /\ joining = 0

-----------------------------------------------------------------------------
(* uploadToHandler. *)

\* it looks at is_disposed_ once
Upload(t) ==
  /\ stage[t] = "new"
  /\ stage' = [stage EXCEPT ![t] = IF disposed THEN "over" ELSE "placing"]
  /\ UNCHANGED <<on, poolBusy, counter, disposed, joining>>

PlaceOnHandler(t) ==
  /\ stage[t] = "placing" /\ on[t] = 0
  /\ stage' = [stage EXCEPT ![t] = "queued"]
  /\ UNCHANGED <<on, poolBusy, counter, disposed, joining>>

\* add: a task without a timeout makes the thread poolBusy
BusyByTask(t) == IF t \in Delayed THEN poolBusy ELSE [poolBusy EXCEPT ![on[t]] = TRUE]

\* uploadIfFree of one thread of the pool; a poolBusy one hands the task back
PlaceInPool(t) ==
  /\ stage[t] = "placing" /\ on[t] \in Pool
  /\ IF poolBusy[on[t]]
     THEN on' = [on EXCEPT ![t] = on[t] + 1] /\ UNCHANGED <<stage, poolBusy>>
     ELSE stage' = [stage EXCEPT ![t] = "queued"] /\ poolBusy' = BusyByTask(t) /\ UNCHANGED on
  /\ UNCHANGED <<counter, disposed, joining>>

\* none is free
PlaceOnTemporary(t) ==
  /\ stage[t] = "placing" /\ on[t] = Temporary
  /\ counter' = counter + 1
  /\ stage' = [stage EXCEPT ![t] = "queued"]
  /\ UNCHANGED <<on, poolBusy, disposed, joining>>

-----------------------------------------------------------------------------
(* The threads. *)

Running(i) == {t \in Tasks : on[t] = i /\ stage[t] = "running"}

\* thread i has not been joined
Alive(i) == joining <= i

\* a thread of the dispatcher takes a task
StartTask(t) ==
  /\ stage[t] = "queued" /\ on[t] \in 0 .. PoolSize
  /\ Alive(on[t]) /\ Running(on[t]) = {}
  /\ stage' = [stage EXCEPT ![t] = "running"]
  /\ poolBusy' = IF on[t] \in Pool THEN [poolBusy EXCEPT ![on[t]] = TRUE] ELSE poolBusy
  /\ UNCHANGED <<on, counter, disposed, joining>>

\* a temporary thread takes its task, unless the dispatcher is disposed
StartTemporary(t) ==
  /\ stage[t] = "queued" /\ on[t] = Temporary
  /\ stage' = [stage EXCEPT ![t] = IF disposed THEN "leaving" ELSE "running"]
  /\ UNCHANGED <<on, poolBusy, counter, disposed, joining>>

\* the task returns
Finish(t) ==
  /\ stage[t] = "running"
  /\ stage' = [stage EXCEPT ![t] = IF on[t] = Temporary THEN "leaving" ELSE "over"]
  /\ UNCHANGED <<on, poolBusy, counter, disposed, joining>>

\* the task throws: the thread goes on, but a temporary one is not counted off
Throw(t) ==
  /\ stage[t] = "running"
  /\ stage' = [stage EXCEPT ![t] = IF on[t] = Temporary THEN "lost" ELSE "over"]
  /\ UNCHANGED <<on, poolBusy, counter, disposed, joining>>

\* a temporary thread has called its task and ends itself
Leave(t) ==
  /\ on[t] = Temporary /\ stage[t] = "leaving"
  /\ counter' = counter - 1
  /\ stage' = [stage EXCEPT ![t] = "over"]
  /\ UNCHANGED <<on, poolBusy, disposed, joining>>

\* extractExpired finds nothing that is due
Idle(i) ==
  /\ poolBusy[i] /\ Alive(i)
  /\ Running(i) = {}
  /\ \A t \in Tasks \ Delayed : ~(on[t] = i /\ stage[t] = "queued")
  /\ poolBusy' = [poolBusy EXCEPT ![i] = FALSE]
  /\ UNCHANGED <<stage, on, counter, disposed, joining>>

-----------------------------------------------------------------------------
(* dispose. *)

Dispose ==
  /\ ~disposed
  /\ disposed' = TRUE
  /\ UNCHANGED <<stage, on, poolBusy, counter, joining>>

\* the threads one after the other; each ends when its task has returned
JoinThreads ==
  /\ disposed /\ joining <= PoolSize
  /\ Running(joining) = {}
  /\ joining' = joining + 1
  /\ UNCHANGED <<stage, on, poolBusy, counter, disposed>>

\* Mutant: temporary threads are not waited for.
ReturnsAfterJoin ==
  /\ joining = Temporary
  /\ joining' = Returned
  /\ UNCHANGED <<stage, on, poolBusy, counter, disposed>>

\* until no temporary thread is counted
DisposeEnds ==
  /\ joining = Temporary
  /\ counter = 0
  /\ joining' = Returned
  /\ UNCHANGED <<stage, on, poolBusy, counter, disposed>>

diNext ==
  \/ \E t \in Tasks :
       \/ Upload(t) \/ PlaceOnHandler(t) \/ PlaceInPool(t) \/ PlaceOnTemporary(t)
       \/ StartTask(t) \/ StartTemporary(t) \/ Finish(t) \/ Throw(t) \/ Leave(t)
  \/ \E i \in Pool : Idle(i)
  \/ Dispose \/ JoinThreads \/ DisposeEnds

diSpec == diInit /\ [][diNext]_diVars

-----------------------------------------------------------------------------
(* Properties. *)

\* When dispose has returned no task is running and none will be: not even one
\* whose uploadToHandler looked at is_disposed_ before dispose and made its
\* temporary thread after it.
QuietAfterDispose == joining = Returned => \A t \in Tasks : stage[t] # "running"

\* A task without a timeout that the pool takes does not wait behind another: a
\* thread of the pool has one of them at most.
PoolTakesOne ==
  \A t, u \in Tasks \ Delayed :
    /\ on[t] \in Pool /\ on[t] = on[u]
    /\ {stage[t], stage[u]} \subseteq {"queued", "running"}
    => t = u

\* What dispose waits for is every temporary thread that has not left, and those
\* whose task threw, for which it waits for ever.
CountExact ==
  counter = Cardinality({t \in Tasks : on[t] = Temporary
                                         /\ stage[t] \in {"queued", "running", "leaving", "lost"}})

\* AsyncDispatcher: no task runs after dispose has returned, a thread of the pool
\* is given one task at a time, and dispose waits for all temporary threads.
TasksPlaced == QuietAfterDispose /\ PoolTakesOne /\ CountExact
=============================================================================

----------------------------- MODULE Scheduler -----------------------------
(***************************************************************************)
(* One thread of the subscription engine: SchedulerBase of                 *)
(* src/src/se/impl/scheduler_impl.hpp with the event it sleeps on, an      *)
(* auto-reset event of src/src/se/impl/common.hpp.  Any thread adds tasks; *)
(* the worker runs them when they are due and sleeps in between.           *)
(*                                                                         *)
(* Abstractions.  Time is counted in ticks and does not go back.  What a   *)
(* task does is left out; it ends, normally or with an exception.          *)
(***************************************************************************)
EXTENDS Naturals, Sequences, FiniteSets, SequencesExt

CONSTANTS Delays,    \* delays that tasks are added with
          IdleWait,  \* how long the worker sleeps when it has nothing to do
          MaxTasks,  \* bound: insertions into the queue
          MaxTime    \* bound: when tasks may be due

\* durations are not negative
ASSUME SchedulerAssumption == Delays \subseteq Nat /\ IdleWait \in Nat

VARIABLES now,
          tasks,     \* tasks_: when they are due, their rank and kind
          busy,      \* is_busy_
          signalled, \* the event: not flag_
          proceed,   \* proceed_
          worker,    \* where process() is, with its deadline or its task
          disposer,  \* where the caller of dispose() is
          added      \* insertions so far

scVars == <<now, tasks, busy, signalled, proceed, worker, disposer, added>>

\* delay is the timeout; a task that repeats has a predicate
Task == [due : Nat, delay : Nat, rank : Nat, repeats : BOOLEAN]

NoTask == [due |-> 0, delay |-> 0, rank |-> 0, repeats |-> FALSE]

-----------------------------------------------------------------------------
(* Adding tasks, under tasks_cs_. *)

\* upper_bound: the place of the first task that is due later
PlaceFor(task) ==
  Min({i \in DOMAIN tasks : tasks[i].due > task.due} \cup {Len(tasks) + 1})

\* Mutant: the worker is woken only if it had nothing to do.
SignalledIfIdle == signalled \/ tasks = << >>

\* add wakes the worker, whatever it sleeps for
SignalledByAdd == TRUE

\* a task to be run at once does
BusyByAdd(delay) == busy \/ delay = 0

Add(delay, repeats) ==
  LET task == [due |-> now + delay, delay |-> delay, rank |-> added + 1,
               repeats |-> repeats]
  IN  /\ added < MaxTasks
      /\ now + delay <= MaxTime
      /\ tasks' = InsertAt(tasks, PlaceFor(task), task)
      /\ busy' = BusyByAdd(delay)
      /\ signalled' = SignalledByAdd
      /\ added' = added + 1

\* addDelayed and repeat
AddTask(delay, repeats) ==
  /\ Add(delay, repeats)
  /\ UNCHANGED <<now, proceed, worker, disposer>>

\* uploadIfFree: a busy thread hands the task back
UploadIfFree(delay) ==
  /\ ~busy
  /\ AddTask(delay, FALSE)

-----------------------------------------------------------------------------
(* The loop of the worker. *)

Awake == [at |-> "loop", task |-> NoTask, asked |-> 0, looked |-> 0, deadline |-> 0]

At(place) == worker.at = place
Goes(place) == worker' = [worker EXCEPT !.at = place]

\* extractExpired
Extract ==
  /\ At("loop")
  /\ IF tasks # << >> /\ Head(tasks).due <= now
     THEN /\ worker' = [worker EXCEPT !.at = "run", !.task = Head(tasks)]
          /\ tasks' = Tail(tasks)
          /\ busy' = TRUE
     ELSE /\ Goes("until")
          /\ busy' = FALSE
          /\ UNCHANGED tasks
  /\ UNCHANGED <<now, signalled, proceed, disposer, added>>

\* untilFirst: when the worker means to wake, as a time from now
UntilFirst ==
  /\ At("until")
  /\ worker' = [worker EXCEPT
                  !.at = "enter",
                  !.asked = IF tasks = << >> THEN now + IdleWait
                            ELSE IF Head(tasks).due > now THEN Head(tasks).due
                            ELSE now,
                  !.looked = now]
  /\ UNCHANGED <<now, tasks, busy, signalled, proceed, disposer, added>>

\* Mutant: an event that was set before the worker sleeps is lost.
SleepAnew ==
  /\ At("enter")
  /\ worker' = [worker EXCEPT !.at = "sleep",
                              !.deadline = now + (worker.asked - worker.looked)]
  /\ signalled' = FALSE
  /\ UNCHANGED <<now, tasks, busy, proceed, disposer, added>>

\* wait counts that time from when it is called
Sleep ==
  /\ At("enter")
  /\ worker' = [worker EXCEPT !.at = "sleep",
                              !.deadline = now + (worker.asked - worker.looked)]
  /\ UNCHANGED <<now, tasks, busy, signalled, proceed, disposer, added>>

\* the wait ends with the event or at the deadline, and resets the event
Wake ==
  /\ At("sleep")
  /\ signalled \/ now >= worker.deadline
  /\ worker' = [Awake EXCEPT !.at = "test"]
  /\ signalled' = FALSE
  /\ UNCHANGED <<now, tasks, busy, proceed, disposer, added>>

\* The task runs; if it has a predicate that holds, it is added again, unless
\* it threw.
RunOnce ==
  /\ At("run")
  /\ worker' = [Awake EXCEPT !.at = "test"]
  /\ UNCHANGED <<now, tasks, busy, signalled, proceed, disposer, added>>

RunAgain ==
  /\ At("run")
  /\ worker.task.repeats
  /\ worker' = [Awake EXCEPT !.at = "test"]
  /\ Add(worker.task.delay, TRUE)
  /\ UNCHANGED <<now, proceed, disposer>>

\* while (proceed_.test_and_set())
Test ==
  /\ At("test")
  /\ Goes(IF proceed THEN "loop" ELSE "ended")
  /\ proceed' = TRUE
  /\ UNCHANGED <<now, tasks, busy, signalled, disposer, added>>

-----------------------------------------------------------------------------
(* dispose: the flag is cleared, then the worker is woken and joined. *)

Clear ==
  /\ disposer = "none"
  /\ proceed' = FALSE
  /\ disposer' = "cleared"
  /\ UNCHANGED <<now, tasks, busy, signalled, worker, added>>

WakeWorker ==
  /\ disposer = "cleared"
  /\ signalled' = TRUE
  /\ disposer' = "joining"
  /\ UNCHANGED <<now, tasks, busy, proceed, worker, added>>

Join ==
  /\ disposer = "joining" /\ At("ended")
  /\ disposer' = "done"
  /\ UNCHANGED <<now, tasks, busy, signalled, proceed, worker, added>>

\* Time is bounded so that a worker that sleeps still reaches its deadline.
Tick ==
  /\ now < (IF At("enter") THEN MaxTime ELSE 2 * MaxTime)
  /\ now' = now + 1
  /\ UNCHANGED <<tasks, busy, signalled, proceed, worker, disposer, added>>

scInit ==
  /\ now = 0
  /\ tasks = << >>
  /\ busy = FALSE
  /\ signalled = FALSE
  /\ proceed = TRUE
  /\ worker = Awake
  /\ disposer = "none"
  /\ added = 0

WorkerStep == Extract \/ UntilFirst \/ Sleep \/ Wake \/ RunOnce \/ RunAgain \/ Test

scNext ==
  \/ \E delay \in Delays :
       UploadIfFree(delay) \/ \E repeats \in BOOLEAN : AddTask(delay, repeats)
  \/ Extract \/ UntilFirst \/ Sleep \/ Wake \/ RunOnce \/ RunAgain \/ Test
  \/ Clear \/ WakeWorker \/ Join \/ Tick

\* the worker and the disposing thread are scheduled, and time passes
scFairness ==
  /\ WF_scVars(WorkerStep)
  /\ WF_scVars(WakeWorker \/ Join)
  /\ WF_scVars(Tick)

scSpec == scInit /\ [][scNext]_scVars /\ scFairness

-----------------------------------------------------------------------------
(* Properties. *)

\* Tasks run in the order in which they are due, and those due at the same
\* time in the order in which they were added.
TasksInOrder ==
  \A i, j \in DOMAIN tasks :
    i < j => \/ tasks[i].due < tasks[j].due
             \/ tasks[i].due = tasks[j].due /\ tasks[i].rank < tasks[j].rank

\* The worker never oversleeps: unless the event is set, the time it asked to
\* be woken at is not after the first task, although tasks are added between
\* its look at the queue and its sleep, and while it sleeps.
WakesInTime ==
  (At("enter") \/ At("sleep")) /\ ~signalled /\ tasks # << >>
    => worker.asked <= Head(tasks).due \/ worker.asked <= now

\* What uploadIfFree relies on: a thread that does not say it is busy neither
\* runs a task nor has one that was to be run at once.
FreeIsFree ==
  ~busy => /\ ~At("run")
           /\ \A i \in DOMAIN tasks : tasks[i].delay > 0

\* SchedulerBase: tasks are kept in the order in which they are to be run, the
\* worker does not sleep past the first, and uploadIfFree finds a thread free
\* only when it is.
QueueServed == TasksInOrder /\ WakesInTime /\ FreeIsFree

\* dispose returns, wherever the worker is when it is called; the worker does
\* not sleep on after it was told to end.
DisposeReturns == (disposer = "joining") ~> (disposer = "done")

\* Every task is run, unless the thread was disposed of.
EveryTaskRuns ==
  \A rank \in 1 .. MaxTasks :
    (\E i \in DOMAIN tasks : tasks[i].rank = rank)
      ~> \/ \A i \in DOMAIN tasks : tasks[i].rank # rank
         \/ disposer # "none"
=============================================================================

--------------------------- MODULE StateManager ---------------------------
(***************************************************************************)
(* The life cycle of the application: StateManagerImpl::run on the main    *)
(* thread, and the handlers of SIGINT, SIGTERM and SIGQUIT, which run on   *)
(* the thread that the kernel picks and call shutdown().                   *)
(* src/src/app/impl/state_manager_impl.cpp.                                *)
(*                                                                         *)
(* Abstractions.  A callback is the name of the component it belongs to;   *)
(* it returns, with success or without.  A signal that comes after the     *)
(* handlers were reset to the default ends the process and is left out.    *)
(***************************************************************************)
EXTENDS Naturals, Sequences, FiniteSets
LOCAL INSTANCE SequencesExt

CONSTANTS Prepare, Launch, Shutdown,  \* components in the order of takeControl
          CanFail,                    \* components whose callback may fail
          StateSync,                  \* is a state sync URL configured?
          Signals,                    \* signals that may arrive
          AnyPoint                    \* also while the main thread has cv_mutex_?

VARIABLES state,     \* state_
          callbacks, \* the queues prepare_, launch_ and shutdown_
          alive,     \* components that have not been destroyed
          main,      \* where the main thread is in run()
          running,   \* the callback that it is in, or "none"
          mutex,     \* who has cv_mutex_: "none", "main" or a signal
          handler,   \* for each signal where its handler is, and its thread
          enabled,   \* shutting_down_signals_enabled
          ran        \* the callbacks that were called, in order

smVars == <<state, callbacks, alive, main, running, mutex, handler, enabled, ran>>

\* state_ before, during and after the first two stages
Active == [prepare |-> "Prepare", launch |-> "Starting"]
Before == [prepare |-> "Init", launch |-> "ReadyToStart"]
After == [prepare |-> "ReadyToStart", launch |-> "Works"]

-----------------------------------------------------------------------------
(* The main thread. *)

\* a handler that runs on the main thread interrupts it
Interrupted == \E s \in Signals : /\ handler[s].thread = "main"
                                  /\ handler[s].at \notin {"none", "done"}

\* The anchor state is fetched while the components are constructed, by a
\* client that registers its stop() and lives until the fetch is over.
Construct ==
  /\ main = "construct" /\ ~Interrupted
  /\ alive' = alive \ {"state_sync"}
  /\ main' = "run"
  /\ UNCHANGED <<state, callbacks, running, mutex, handler, enabled, ran>>

Run ==
  /\ main = "run" /\ ~Interrupted
  /\ main' = "begin prepare"
  /\ UNCHANGED <<state, callbacks, alive, running, mutex, handler, enabled, ran>>

\* doPrepare and doLaunch
Begin(stage) ==
  /\ main = "begin " \o stage /\ ~Interrupted
  /\ IF state = Before[stage] THEN state' = Active[stage] /\ main' = stage
     ELSE IF state = "ShuttingDown" THEN main' = stage /\ UNCHANGED state
     ELSE main' = "threw" /\ UNCHANGED state
  /\ UNCHANGED <<callbacks, alive, running, mutex, handler, enabled, ran>>

Called(stage) == state = Active[stage]

\* the next callback is called, or dropped
Take(stage) ==
  /\ main = stage /\ running = "none" /\ ~Interrupted
  /\ callbacks[stage] # << >>
  /\ IF Called(stage)
     THEN /\ running' = Head(callbacks[stage])
          /\ ran' = Append(ran, <<stage, Head(callbacks[stage])>>)
          /\ UNCHANGED callbacks
     ELSE /\ callbacks' = [callbacks EXCEPT ![stage] = Tail(@)]
          /\ UNCHANGED <<running, ran>>
  /\ UNCHANGED <<state, alive, main, mutex, handler, enabled>>

Returns(stage, success) ==
  /\ main = stage /\ running # "none" /\ ~Interrupted
  /\ success \/ running \in CanFail
  /\ state' = IF ~success /\ state = Active[stage] THEN "ShuttingDown" ELSE state
  /\ running' = "none"
  /\ callbacks' = [callbacks EXCEPT ![stage] = Tail(@)]
  /\ UNCHANGED <<alive, main, mutex, handler, enabled, ran>>

\* a shutdown that was asked for meanwhile is not overwritten
Ended(stage) == IF state = Active[stage] THEN After[stage] ELSE state

End(stage) ==
  /\ main = stage /\ running = "none" /\ ~Interrupted
  /\ callbacks[stage] = << >>
  /\ state' = Ended(stage)
  /\ main' = IF stage = "prepare" THEN "begin launch" ELSE "working"
  /\ UNCHANGED <<callbacks, alive, running, mutex, handler, enabled, ran>>

\* shutdownRequestWaiting, if the stage is Works: the mutex is taken, the
\* state is looked at, and the thread blocks and gives the mutex back
Work ==
  /\ main = "working" /\ ~Interrupted
  /\ main' = IF state = "Works" THEN "lock" ELSE "begin shutdown"
  /\ UNCHANGED <<state, callbacks, alive, running, mutex, handler, enabled, ran>>

Lock ==
  /\ main = "lock" /\ mutex = "none" /\ ~Interrupted
  /\ main' = "look" /\ mutex' = "main"
  /\ UNCHANGED <<state, callbacks, alive, running, handler, enabled, ran>>

Look ==
  /\ main = "look" /\ ~Interrupted
  /\ IF state = "ShuttingDown"
     THEN main' = "begin shutdown" /\ mutex' = "none"
     ELSE main' = "block" /\ UNCHANGED mutex
  /\ UNCHANGED <<state, callbacks, alive, running, handler, enabled, ran>>

Block ==
  /\ main = "block" /\ ~Interrupted
  /\ main' = "blocked" /\ mutex' = "none"
  /\ UNCHANGED <<state, callbacks, alive, running, handler, enabled, ran>>

\* doShutdown, all of whose callbacks are called
BeginShutdown ==
  /\ main = "begin shutdown" /\ ~Interrupted
  /\ IF state \in {"Works", "ShuttingDown"}
     THEN /\ state' = "ShuttingDown"
          /\ main' = "shutdown"
          /\ callbacks' = [callbacks EXCEPT !.prepare = << >>, !.launch = << >>]
     ELSE main' = "threw" /\ UNCHANGED <<state, callbacks>>
  /\ UNCHANGED <<alive, running, mutex, handler, enabled, ran>>

ShutdownCallback ==
  /\ main = "shutdown" /\ ~Interrupted
  /\ callbacks.shutdown # << >>
  /\ ran' = Append(ran, <<"shutdown", Head(callbacks.shutdown)>>)
  /\ callbacks' = [callbacks EXCEPT !.shutdown = Tail(@)]
  /\ UNCHANGED <<state, alive, main, running, mutex, handler, enabled>>

EndShutdown ==
  /\ main = "shutdown" /\ ~Interrupted
  /\ callbacks.shutdown = << >>
  /\ state' = IF state = "ShuttingDown" THEN "ReadyToStop" ELSE state
  /\ main' = "check"
  /\ UNCHANGED <<callbacks, alive, running, mutex, handler, enabled, ran>>

Finish ==
  /\ main = "check" /\ ~Interrupted
  /\ main' = IF state = "ReadyToStop" THEN "finished" ELSE "threw"
  /\ UNCHANGED <<state, callbacks, alive, running, mutex, handler, enabled, ran>>

-----------------------------------------------------------------------------
(* The handler of a signal. *)

Goes(s, at) == handler' = [handler EXCEPT ![s].at = at]

Signal(s) ==
  /\ enabled /\ main \notin {"finished", "threw"}
  /\ handler[s].at = "none"
  /\ \E thread \in {"main", "other"} :
       /\ thread = "main" => ~Interrupted /\ (AnyPoint \/ mutex # "main")
       /\ handler' = [handler EXCEPT ![s] = [at |-> "entered", thread |-> thread]]
  /\ UNCHANGED <<state, callbacks, alive, main, running, mutex, enabled, ran>>

\* the handlers are reset; before run() there is nobody to tell
Entered(s) ==
  /\ handler[s].at = "entered"
  /\ enabled' = FALSE
  /\ Goes(s, IF main \in {"construct", "run"} THEN "done" ELSE "ask")
  /\ UNCHANGED <<state, callbacks, alive, main, running, mutex, ran>>

\* shutdown()
Ask(s) ==
  /\ handler[s].at = "ask"
  /\ Goes(s, IF state \in {"ShuttingDown", "ReadyToStop"} THEN "done" ELSE "lock")
  /\ UNCHANGED <<state, callbacks, alive, main, running, mutex, enabled, ran>>


Acquires(s) == mutex = "none" /\ mutex' = s

Acquire(s) ==
  /\ handler[s].at = "lock"
  /\ Acquires(s)
  /\ Goes(s, "store")
  /\ UNCHANGED <<state, callbacks, alive, main, running, enabled, ran>>

Store(s) ==
  /\ handler[s].at = "store"
  /\ state' = "ShuttingDown"
  /\ main' = IF main = "blocked" THEN "lock" ELSE main
  /\ mutex' = IF mutex = s THEN "none" ELSE mutex
  /\ Goes(s, "done")
  /\ UNCHANGED <<callbacks, alive, running, enabled, ran>>

-----------------------------------------------------------------------------
Client == IF StateSync THEN <<"state_sync">> ELSE << >>

smInit ==
  /\ state = "Init"
  /\ callbacks = [prepare |-> Prepare, launch |-> Launch,
                  shutdown |-> Client \o Shutdown]
  /\ alive = ToSet(Client \o Prepare \o Launch \o Shutdown)
  /\ main = "construct"
  /\ running = "none"
  /\ mutex = "none"
  /\ handler = [s \in Signals |-> [at |-> "none", thread |-> "other"]]
  /\ enabled = TRUE
  /\ ran = << >>

MainStep ==
  \/ Construct \/ Run \/ Work \/ Lock \/ Look \/ Block
  \/ \E stage \in {"prepare", "launch"} :
       \/ Begin(stage) \/ Take(stage) \/ End(stage)
       \/ \E success \in BOOLEAN : Returns(stage, success)
  \/ BeginShutdown \/ ShutdownCallback \/ EndShutdown \/ Finish

HandlerStep(s) == Entered(s) \/ Ask(s) \/ Acquire(s) \/ Store(s)

smNext ==
  \/ MainStep
  \/ \E s \in Signals : Signal(s) \/ HandlerStep(s)

\* threads are scheduled; nothing makes a signal arrive
smFairness == WF_smVars(MainStep) /\ \A s \in Signals : WF_smVars(HandlerStep(s))

smSpec == smInit /\ [][smNext]_smVars /\ smFairness

-----------------------------------------------------------------------------
(* Properties. *)

Rank == [prepare |-> 1, launch |-> 2, shutdown |-> 3]

\* The callbacks run stage by stage, each once; launch begins only after every
\* prepare callback was called and the shutdown callbacks are called last,
\* although a signal or a failure can end a stage at any callback.
StageOrder ==
  /\ IsInjective(ran)
  /\ \A i, j \in DOMAIN ran : i < j => Rank[ran[i][1]] <= Rank[ran[j][1]]
  /\ (\E i \in DOMAIN ran : ran[i][1] = "launch")
       => \A i \in DOMAIN Prepare : <<"prepare", Prepare[i]>> \in ToSet(ran)

\* Once a callback failed or a shutdown was asked for, no component is prepared
\* or started any more.
NothingStartsLate ==
  [][state = "ShuttingDown" /\ ran' # ran
       => ran'[Len(ran')][1] = "shutdown"]_smVars

\* Once the handler of a signal asks for it, the application stops and every
\* shutdown callback has been called, wherever run() was at that moment.
ShutdownCompletes ==
  \A s \in Signals :
    (handler[s].at = "ask") ~> (main \in {"finished", "threw"}
                                /\ callbacks.shutdown = << >>)

\* A callback is called only on a component that still exists.
CalledAlive == \A i \in DOMAIN ran : ran[i][1] = "shutdown" => ran[i][2] \in alive

\* Initiating the shutdown at any time leads to the stage 'ready to stop'.
NoWrongStage == main # "threw"
============================================================================

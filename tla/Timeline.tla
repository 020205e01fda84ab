------------------------------ MODULE Timeline ------------------------------
(***************************************************************************)
(* The node's heartbeat.  TimelineImpl (src/src/app/impl/timeline_impl.cpp) *)
(* posts the event SlotIntervalStarted with a delay; the thread of the     *)
(* subscribers (modules Scheduler and Subscriptions) hands it first to the *)
(* production module (src/src/modules/production/production.cpp), which    *)
(* advances the fork choice (module ForkChoice) to the clock's time, and   *)
(* then back to the timeline, which posts the next one.                    *)
(*                                                                         *)
(* Abstractions.  The clock counts Grain ticks a millisecond and does not  *)
(* go back.  What the fork choice does in an interval is module            *)
(* ForkChoice; here only its time is kept.  The printed status is left out.*)
(***************************************************************************)
EXTENDS Integers, Sequences
LOCAL INSTANCE FiniteSetsExt

CONSTANTS GenesisMs,   \* genesisTimeMs
          IntervalMs,  \* INTERVAL_DURATION_MS
          Grain,       \* ticks of the clock in a millisecond
          MaxClock     \* bound: ticks at which intervals are planned

VARIABLES clock,
          started, stopped,
          planned,     \* the interval to be posted next and how long it waits
          calls,       \* pending calls of the handler thread, in order
          handled,     \* the last interval that the production module got
          forkTime     \* time_ of the fork choice store

tlVars == <<clock, started, stopped, planned, calls, handled, forkTime>>

NoInterval == -1
NoPlan == [interval |-> NoInterval, wait |-> 0]

-----------------------------------------------------------------------------
(* Clock and intervals. *)

\* nowMsec: a duration_cast, which drops what is left of a millisecond
NowMsec == clock \div Grain

\* Interval::fromTime
FromTime(ms) ==
  IF ms < GenesisMs THEN NoInterval ELSE (ms - GenesisMs) \div IntervalMs

\* Interval::time
TimeOf(interval) == GenesisMs + interval * IntervalMs

\* Mutant: the unsigned difference wraps when the thread is late.
WaitWrapped(ms) == (ms - NowMsec) % 2 ^ 20

\* the wait is never negative
WaitUntil(ms) == Max({0, ms - NowMsec})

\* waitNextInterval, up to the call of notifyDelayed
PlanAfter(interval) ==
  LET next == IF interval = NoInterval THEN 0 ELSE interval + 1
  IN  [interval |-> next, wait |-> WaitUntil(TimeOf(next))]

-----------------------------------------------------------------------------
Start ==
  /\ ~started
  /\ clock <= MaxClock
  /\ started' = TRUE
  /\ planned' = PlanAfter(FromTime(NowMsec))
  /\ UNCHANGED <<clock, stopped, calls, handled, forkTime>>

Stop ==
  /\ started
  /\ stopped' = TRUE
  /\ UNCHANGED <<clock, started, planned, calls, handled, forkTime>>

\* the modules were loaded, and subscribed, before the timeline's prepare()
Recipients == <<"production", "timeline">>

\* notifyDelayed: the wait counts from now, for both subscribers
PostNext ==
  /\ planned # NoPlan
  /\ calls' = calls \o [i \in DOMAIN Recipients |->
                          [to |-> Recipients[i], interval |-> planned.interval,
                           due |-> clock + Grain * planned.wait]]
  /\ planned' = NoPlan
  /\ UNCHANGED <<clock, started, stopped, handled, forkTime>>

Due(subscriber) ==
  /\ calls # << >>
  /\ Head(calls).to = subscriber
  /\ Head(calls).due <= clock

\* onTick: the fork choice advances to the clock, if genesis has passed
AdvanceToClock == Max({forkTime, FromTime(NowMsec)})

\* ProductionModuleImpl::on_slot_interval_started
Produce ==
  /\ Due("production")
  /\ forkTime' = AdvanceToClock
  /\ handled' = Head(calls).interval
  /\ calls' = Tail(calls)
  /\ UNCHANGED <<clock, started, stopped, planned>>

\* TimelineImpl::on_slot_interval_started
Continue ==
  /\ Due("timeline")
  /\ planned' = IF stopped THEN planned ELSE PlanAfter(Head(calls).interval)
  /\ calls' = Tail(calls)
  /\ UNCHANGED <<clock, started, stopped, handled, forkTime>>

\* Time is bounded so that what was planned still becomes due.
TickClock ==
  /\ clock < (IF planned # NoPlan THEN MaxClock
              ELSE MaxClock + Grain * (GenesisMs + IntervalMs))
  /\ clock' = clock + 1
  /\ UNCHANGED <<started, stopped, planned, calls, handled, forkTime>>

tlInit ==
  /\ clock = 0
  /\ started = FALSE /\ stopped = FALSE
  /\ planned = NoPlan
  /\ calls = << >>
  /\ handled = NoInterval
  /\ forkTime = 0

tlNext == Start \/ Stop \/ PostNext \/ Produce \/ Continue \/ TickClock

\* the threads are scheduled and time passes
tlFairness ==
  /\ WF_tlVars(PostNext \/ Produce \/ Continue)
  /\ WF_tlVars(TickClock)

tlSpec == tlInit /\ [][tlNext]_tlVars /\ tlFairness

-----------------------------------------------------------------------------
(* Properties. *)

\* When the production module is told that an interval has started, the fork
\* choice has reached it: the event never comes before the interval, although
\* milliseconds are cut off and time passes between planning and posting.
IntervalReached == handled <= forkTime

\* No interval is skipped or announced twice, however late the thread is.
NoIntervalSkipped ==
  [][handled' # handled => handled = NoInterval \/ handled' = handled + 1]_tlVars

\* The heartbeat does not stop: each interval whose time comes is announced,
\* unless the timeline was stopped.
EveryIntervalAnnounced ==
  \A interval \in 0 .. (MaxClock \div Grain - GenesisMs) \div IntervalMs :
    (started /\ clock >= Grain * TimeOf(interval))
      ~> (handled >= interval \/ stopped)
=============================================================================

------------------------------ MODULE MCRuntime ------------------------------
(***************************************************************************)
(* TLC instance of the components that the node runs on.  They share no    *)
(* state: each behaviour is one of one component, in focus, while the      *)
(* others keep their initial state.  Scheduler, Dispatcher, Subscriptions  *)
(* and ApiServer are extended, the rest instantiated, some with variables  *)
(* renamed.                                                                *)
(***************************************************************************)
EXTENDS Scheduler, Dispatcher, Subscriptions, ApiServer

\* StateManager
CONSTANTS Prepare, Launch, Shutdown, CanFail, StateSync, Signals, AnyPoint
VARIABLES state, callbacks, alive, main, running, mutex, handler, enabled, ran
smVars == <<state, callbacks, alive, main, running, mutex, handler, enabled, ran>>
SM == INSTANCE StateManager

\* Timeline
CONSTANTS GenesisMs, IntervalMs, Grain, MaxClock
VARIABLES clock, started, stopped, planned, tlCalls, handled, forkTime
tlVars == <<clock, started, stopped, planned, tlCalls, handled, forkTime>>
TL == INSTANCE Timeline WITH calls <- tlCalls

\* LruCache
CONSTANTS CacheKeys, Capacity, ValueOf(_), TickBits
VARIABLES cache, ticks, lruAnswer
lruVars == <<cache, ticks, lruAnswer>>
LRU == INSTANCE LruCache WITH answer <- lruAnswer

\* Publishing
CONSTANTS OwnSubnets, Outputs, MaxBeats
VARIABLES loaders, puHeld, puTasks, io, ioThread, produced, published, beats, process
puVars == <<loaders, puHeld, puTasks, io, ioThread, produced, published, beats, process>>
PU == INSTANCE Publishing WITH held <- puHeld, tasks <- puTasks

\* StateSync
CONSTANTS UrlOk, Tls
VARIABLES attempt, syBusy, step, pending, ready, reason, result, freed, anchor
syVars == <<attempt, syBusy, step, pending, ready, reason, result, freed, anchor>>
SY == INSTANCE StateSync WITH busy <- syBusy

\* NodeSetup
CONSTANTS RegistryFiles, NodesFiles, OwnNode, OwnPeer, CliIsAggregator,
          SubnetCount, ValidatorCount
VARIABLES suStage, file, owner, indices, current, bootnodes, aggregates,
          connectable, aggregators
suVars == <<suStage, file, owner, indices, current, bootnodes, aggregates,
            connectable, aggregators>>
SU == INSTANCE NodeSetup WITH stage <- suStage

\* Configurator
CONSTANT Inputs
VARIABLES phase, given, config, metrics
cfVars == <<phase, given, config, metrics>>
CF == INSTANCE Configurator

VARIABLE focus

Init ==
  /\ focus \in {"StateManager", "Scheduler", "Dispatcher", "Subscriptions", "Timeline",
                "LruCache", "Publishing", "ApiServer", "StateSync",
                "NodeSetup", "Configurator"}
  /\ SM!smInit /\ scInit /\ diInit /\ seInit /\ TL!tlInit /\ LRU!lruInit
  /\ PU!puInit /\ apInit /\ SY!syInit /\ SU!suInit /\ CF!cfInit

Next ==
  \/ focus = "StateManager" /\ SM!smNext
     /\ UNCHANGED <<focus, scVars, diVars, seVars, tlVars, lruVars, puVars, apVars,
                    syVars, suVars, cfVars>>
  \/ focus = "Scheduler" /\ scNext
     /\ UNCHANGED <<focus, smVars, diVars, seVars, tlVars, lruVars, puVars, apVars,
                    syVars, suVars, cfVars>>
  \/ focus = "Dispatcher" /\ diNext
     /\ UNCHANGED <<focus, smVars, scVars, seVars, tlVars, lruVars, puVars, apVars,
                    syVars, suVars, cfVars>>
  \/ focus = "Subscriptions" /\ seNext
     /\ UNCHANGED <<focus, smVars, scVars, diVars, tlVars, lruVars, puVars, apVars,
                    syVars, suVars, cfVars>>
  \/ focus = "Timeline" /\ TL!tlNext
     /\ UNCHANGED <<focus, smVars, scVars, diVars, seVars, lruVars, puVars, apVars,
                    syVars, suVars, cfVars>>
  \/ focus = "LruCache" /\ LRU!lruNext
     /\ UNCHANGED <<focus, smVars, scVars, diVars, seVars, tlVars, puVars, apVars,
                    syVars, suVars, cfVars>>
  \/ focus = "Publishing" /\ PU!puNext
     /\ UNCHANGED <<focus, smVars, scVars, diVars, seVars, tlVars, lruVars, apVars,
                    syVars, suVars, cfVars>>
  \/ focus = "ApiServer" /\ apNext
     /\ UNCHANGED <<focus, smVars, scVars, diVars, seVars, tlVars, lruVars, puVars,
                    syVars, suVars, cfVars>>
  \/ focus = "StateSync" /\ SY!syNext
     /\ UNCHANGED <<focus, smVars, scVars, diVars, seVars, tlVars, lruVars, puVars,
                    apVars, suVars, cfVars>>
  \/ focus = "NodeSetup" /\ SU!suNext
     /\ UNCHANGED <<focus, smVars, scVars, diVars, seVars, tlVars, lruVars, puVars,
                    apVars, syVars, cfVars>>
  \/ focus = "Configurator" /\ CF!cfNext
     /\ UNCHANGED <<focus, smVars, scVars, diVars, seVars, tlVars, lruVars, puVars,
                    apVars, syVars, suVars>>

vars == <<focus, smVars, scVars, diVars, seVars, tlVars, lruVars, puVars, apVars,
          syVars, suVars, cfVars>>

\* the fairness of each component while it is in focus
Fairness ==
  /\ WF_smVars(focus = "StateManager" /\ SM!MainStep)
  /\ \A s \in Signals : WF_smVars(focus = "StateManager" /\ SM!HandlerStep(s))
  /\ WF_scVars(focus = "Scheduler" /\ WorkerStep)
  /\ WF_scVars(focus = "Scheduler" /\ (WakeWorker \/ Join))
  /\ WF_scVars(focus = "Scheduler" /\ Tick)
  /\ WF_seVars(focus = "Subscriptions" /\ \E n \in notifying : PostAll(n))
  /\ WF_seVars(focus = "Subscriptions" /\ Deliver)
  /\ WF_tlVars(focus = "Timeline" /\ (TL!PostNext \/ TL!Produce \/ TL!Continue))
  /\ WF_tlVars(focus = "Timeline" /\ TL!TickClock)
  /\ WF_puVars(focus = "Publishing" /\ PU!HandlerStep)
  /\ WF_puVars(focus = "Publishing" /\ PU!IoStep)
  /\ WF_syVars(focus = "StateSync" /\ (SY!Fetch \/ SY!FetchReturns))
  /\ WF_syVars(focus = "StateSync" /\ SY!Resume)
  /\ WF_syVars(focus = "StateSync" /\ SY!Expires("timer"))
  /\ WF_syVars(focus = "StateSync" /\ SY!StreamExpires)
  /\ WF_syVars(focus = "StateSync" /\ SY!ResolveEnds)

Spec == Init /\ [][Next]_vars /\ Fairness

-----------------------------------------------------------------------------
(* Values of the constants. *)

Controlled == <<"timeline", "http">>

OwnKey(key) == key

\* a slot's block; its vote and what was aggregated, after a late interval
TickOutputs == {<< >>, <<"block">>, <<"vote", "aggregate">>}

\* validators of three nodes in any order, one of them twice; an index may be
\* given to two nodes or repeated
RegistryEntries == {[node |-> "n1", indices |-> <<0>>], [node |-> "n1", indices |-> <<0, 0>>],
            [node |-> "n1", indices |-> <<2>>], [node |-> "n2", indices |-> <<1, 2>>],
            [node |-> "n3", indices |-> << >>]}
MCRegistryFiles == UNION {[1 .. n -> RegistryEntries] : n \in 0 .. 3}

\* no file, or four lines of distinct peers; each decodes or not, and is an
\* aggregator or not
Node(p) == {[valid |-> v, peer |-> p, aggregator |-> a] : v, a \in BOOLEAN}
MCNodesFiles ==
  {<< >>} \cup {<<m, n, o, q>> : m \in Node("p2"), n \in Node("p1"),
                                 o \in Node("p3"), q \in Node("p4")}

Arguments(from, options, values) ==
  [from : {from}, option : options, value : values]

InFiles ==
  Arguments("file", {"name", "node-key", "base-path", "bootnodes", "db_path",
                     "db_cache_size", "metrics-host", "metrics-port"}, {"ok", "odd"})
    \cup Arguments("file", {"node-key", "base-path", "db_cache_size", "metrics-host",
                            "metrics-port"}, {"bad"})
    \cup Arguments("file", {"metrics-port"}, {"text"})
    \cup Arguments("file", {"enabled"}, {"true", "false", "odd"})
    \cup Arguments("file", {"general", "database"}, {"odd"})

OnCommandLines ==
  Arguments("cli", {"name", "node-key", "base-path", "bootnodes", "db_path",
                    "db_cache_size", "metrics-host", "metrics-port", "api-host",
                    "committee-count"}, {"ok", "odd"})
    \cup Arguments("cli", {"node-key", "base-path", "bootnodes", "api-host",
                           "committee-count", "metrics-host"}, {"bad"})
    \cup Arguments("cli", {"help", "metrics-disable"}, {"ok"})

\* with or without genesis directory and configuration file one more argument;
\* with both two more, or three about metrics
Needed ==
  {g \cup c : g \in {{}} \cup {{x} : x \in Arguments("cli", {"genesis-dir"}, {"ok", "bad"})},
             c \in {{}} \cup {{x} : x \in Arguments("cli", {"config"}, {"ok", "bad", "odd"})}}
Usual == Arguments("cli", {"genesis-dir", "config"}, {"ok"})
AboutMetrics ==
  {a \in InFiles \cup OnCommandLines :
     a.option \in {"metrics-host", "metrics-port", "metrics-disable", "enabled"}
       /\ a.value \notin {"odd", "text"}}
Once(arguments) ==
  \A a, b \in arguments : a.from = b.from /\ a.option = b.option => a = b
MCInputs ==
  {i \in {n \cup {a} : n \in Needed, a \in InFiles \cup OnCommandLines}
           \cup {Usual \cup {a, b} : a, b \in InFiles \cup OnCommandLines}
           \cup {Usual \cup {a, b, c} : a, b, c \in AboutMetrics} : Once(i)}

-----------------------------------------------------------------------------
(* Properties. *)


\* ThreadHandler: every task is run unless the thread is disposed of, and dispose
\* returns.
WorkerServes == EveryTaskRuns /\ DisposeReturns

\* TimelineImpl and ProductionModuleImpl: intervals are announced one by one until
\* the heartbeat is stopped, and none before the fork choice can reach it.
HeartbeatRegular ==
  []TL!IntervalReached /\ TL!NoIntervalSkipped /\ TL!EveryIntervalAnnounced

\* SmallLruCache: the cache implements a list of keys in the order of their use.
ImplementsRecency == LRU!ImplementsRecency

\* NetworkingImpl: what the node produced is published, in that order, and nothing
\* comes before the io context exists.
EverythingPublished ==
  /\ [](PU!PublishedInOrder /\ PU!SetUpBeforeUse)
  /\ focus = "Publishing" => PU!EverythingPublished

\* AnchorStateImpl: the anchor state is fetched or an error raised.
AnchorDecided == focus = "StateSync" => SY!AnchorDecided

=============================================================================

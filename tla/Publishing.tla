----------------------------- MODULE Publishing -----------------------------
(***************************************************************************)
(* How a block or an attestation of this node gets to the network.         *)
(*                                                                         *)
(* run_node (src/src/executable/lean_node.cpp) starts the loaders of the   *)
(* networking and of the production module on the main thread; each posts  *)
(* an event that sets its module up on the handler thread.  There every    *)
(* interval of the timeline makes the production module dispatch what the  *)
(* fork choice produced; the subscriptions of the networking module hand   *)
(* it to the io context, whose thread publishes it.  At the end the        *)
(* loaders are destroyed.                                                  *)
(*                                                                         *)
(* Abstractions.  The handler thread's queue is in order of posting: only  *)
(* the heartbeat is delayed, and it is posted when nothing due later is in *)
(* the queue (modules Scheduler and Timeline).  Messages are numbered as   *)
(* they are produced.                                                      *)
(***************************************************************************)
EXTENDS Integers, Sequences, FiniteSets
LOCAL INSTANCE SequencesExt

CONSTANTS OwnSubnets,  \* subnets of the node's validators
          Outputs,     \* bound: what onTick returns, sequences of kinds
          MaxBeats     \* bound: intervals

VARIABLES loaders,     \* loaders started so far, in order
          held,        \* loaders that exist
          tasks,       \* queue of the handler thread
          io,          \* lambdas of the io context; each holds the module
          ioThread,    \* "none", "running", "ended", "joined", "joins itself"
          produced,    \* messages the fork choice returned
          published,   \* messages given to gossip
          beats,
          process      \* "up", "fatal" (SL_FATAL) or "null" (no io context)

puVars == <<loaders, held, tasks, io, ioThread, produced, published, beats, process>>

LoadOrder == <<"networking", "production">>

\* uploadToHandler without a delay
PostLast(queue, new) == queue \o new

Subscribed(loader) == loader \in held

-----------------------------------------------------------------------------
(* Main thread. *)

\* Loader::start: the module is created and subscribed, then announced
StartLoader ==
  /\ Len(loaders) < Len(LoadOrder)
  /\ LET next == LoadOrder[Len(loaders) + 1]
     IN  /\ loaders' = Append(loaders, next)
         /\ held' = held \cup {next}
         /\ tasks' = PostLast(tasks, <<[do |-> "loaded", of |-> next]>>)
  /\ UNCHANGED <<io, ioThread, produced, published, beats, process>>

\* the timeline runs once the loaders were started
Beat ==
  /\ loaders = LoadOrder
  /\ beats < MaxBeats
  /\ beats' = beats + 1
  /\ tasks' = PostLast(tasks, <<[do |-> "interval", of |-> "production"]>>)
  /\ UNCHANGED <<loaders, held, io, ioThread, produced, published, process>>

\* A loader is destroyed, its subscriptions first.  If no lambda holds the
\* networking module, it is destroyed here too: io_context stop, thread join.
Destroy(loader) ==
  /\ loaders = LoadOrder
  /\ loader \in held
  /\ held' = held \ {loader}
  /\ ioThread' = IF loader = "networking" /\ ioThread = "running" /\ io = << >>
                 THEN "joined" ELSE ioThread
  /\ UNCHANGED <<loaders, tasks, io, produced, published, beats, process>>

-----------------------------------------------------------------------------
(* Handler thread.  A task whose subscriber is gone is dropped.            *)

Drop ==
  /\ tasks # << >>
  /\ ~Subscribed(Head(tasks).of)
  /\ tasks' = Tail(tasks)
  /\ UNCHANGED <<loaders, held, io, ioThread, produced, published, beats, process>>

Take(do) ==
  /\ tasks # << >>
  /\ Head(tasks).do = do
  /\ Subscribed(Head(tasks).of)

\* on_loaded_success: of the networking module, up to the io thread; the
\* production module only logs
OnLoaded ==
  /\ Take("loaded")
  /\ LET fails == Head(tasks).of = "networking" /\ Cardinality(OwnSubnets) # 1
     IN  /\ process' = IF fails THEN "fatal" ELSE process
         /\ ioThread' = IF Head(tasks).of = "networking" /\ ~fails
                        THEN "running" ELSE ioThread
  /\ tasks' = Tail(tasks)
  /\ UNCHANGED <<loaders, held, io, produced, published, beats>>

\* dispatchDerive of each message, in the order of onTick's result; without a
\* subscriber it is lost.  The block was added to the tree by onTick, so the
\* addBlock that follows its dispatch fails and changes nothing.
OnSlotIntervalStarted ==
  /\ Take("interval")
  /\ \E kinds \in Outputs :
       LET new == [i \in DOMAIN kinds |-> [kind |-> kinds[i], id |-> Len(produced) + i]]
           sends == [i \in DOMAIN new |->
                       [do |-> "send", of |-> "networking", message |-> new[i]]]
       IN  /\ produced' = produced \o new
           /\ tasks' = IF Subscribed("networking")
                       THEN PostLast(Tail(tasks), sends) ELSE Tail(tasks)
  /\ UNCHANGED <<loaders, held, io, ioThread, published, beats, process>>

\* boost::asio::post with the module and the message
PostToIo(message) == io' = Append(io, message) /\ UNCHANGED published

\* onSendSignedBlock, onSendSignedVote and onSendSignedAggregatedAttestation
OnSend ==
  /\ Take("send")
  /\ IF ioThread = "none"
     THEN process' = "null" /\ UNCHANGED <<io, published>>
     ELSE PostToIo(Head(tasks).message) /\ UNCHANGED process
  /\ tasks' = Tail(tasks)
  /\ UNCHANGED <<loaders, held, ioThread, produced, beats>>

-----------------------------------------------------------------------------
(* The io thread. *)

\* Mutant: without a work guard run() returns when nothing is left to do.
EndsWhenIdle == IF Len(io) = 1 THEN "ended" ELSE ioThread

\* The work guard keeps run() going.  The last lambda may be the last that
\* holds the module, whose destructor then joins the thread it runs on.
AfterPublish ==
  IF Len(io) = 1 /\ ~Subscribed("networking") THEN "joins itself" ELSE ioThread

Publish ==
  /\ ioThread = "running"
  /\ io # << >>
  /\ published' = Append(published, Head(io))
  /\ io' = Tail(io)
  /\ ioThread' = AfterPublish
  /\ UNCHANGED <<loaders, held, tasks, produced, beats, process>>

-----------------------------------------------------------------------------
puInit ==
  /\ loaders = << >> /\ held = {}
  /\ tasks = << >> /\ io = << >>
  /\ ioThread = "none"
  /\ produced = << >> /\ published = << >>
  /\ beats = 0
  /\ process = "up"

HandlerStep ==
  /\ process = "up"
  /\ Drop \/ OnLoaded \/ OnSlotIntervalStarted \/ OnSend

MainStep ==
  /\ process = "up"
  /\ StartLoader \/ Beat \/ (\E loader \in held : Destroy(loader))

IoStep == process = "up" /\ Publish

puNext == MainStep \/ HandlerStep \/ IoStep

\* the threads are scheduled
puFairness == WF_puVars(HandlerStep) /\ WF_puVars(IoStep)

puSpec == puInit /\ [][puNext]_puVars /\ puFairness

-----------------------------------------------------------------------------
(* Properties. *)

\* Messages are published in the order in which the fork choice produced
\* them, none twice and none left out before another, through two queues and
\* three threads and whatever is destroyed first.
PublishedInOrder == IsPrefix(published, produced)

\* No message comes to the networking module before on_loaded_success has
\* created the io context, although that runs on another thread than start.
SetUpBeforeUse == process # "null"

\* What was produced is published as long as the networking module exists.
EverythingPublished ==
  \A n \in 1 .. MaxBeats :
    Len(produced) >= n ~> (Len(published) >= n \/ "networking" \notin held)
=============================================================================

------------------------------ MODULE ApiServer ------------------------------
(***************************************************************************)
(* The HTTP API (src/src/app/impl/http_server.cpp, src/src/utils/http.cpp) *)
(* beside the threads that drive the fork choice.  One thread runs the io  *)
(* context of the server; a request is answered without interruption on    *)
(* that thread, but calls the fork choice through ForkChoiceStoreMutex,    *)
(* which it shares with the handler thread (onTick) and the networking     *)
(* thread (onBlock and the attestations).                                  *)
(*                                                                         *)
(* Abstractions.  Of the chain there is what the requests see: block n is  *)
(* followed by n + 1, and -n is a sibling of n that dies when n is         *)
(* finalized (modules CachedTree and BlockStore have the real tree).       *)
(***************************************************************************)
EXTENDS Integers, FiniteSets

CONSTANTS Connections,  \* bound: connections at a time
          MaxBlock      \* bound: blocks after the anchor

NodeThreads == {"handler", "networking"}
Urls == {"health", "finalized", "justified", "fork_choice", "aggregator", "other"}

VARIABLES server,       \* "new", "listening", "stopping" or "stopped"
          connection,   \* of each: its phase and what is asked
          answer,       \* status of the last answer
          calls,        \* what each thread is doing in the fork choice
          top,          \* the last block
          finalized,    \* the last finalized block
          states,       \* blocks whose state is stored
          aggregator    \* is_aggregator_ of the chain spec

apVars == <<server, connection, answer, calls, top, finalized, states, aggregator>>

Threads == NodeThreads \cup {"http"}
NoCall == [op |-> "none", root |-> 0]
Free == [phase |-> "free", url |-> "none", root |-> 0]

-----------------------------------------------------------------------------
(* ForkChoiceStoreMutex. *)

LockOf(op) == IF op = "apiForkChoice" THEN "shared" ELSE "unique"

\* getLatestFinalized and getLatestJustified only read and are single steps;
\* the other calls last, with their lock held
Inside(t) == calls[t].op # "none"

CanLock(t, op) ==
  \A u \in Threads \ {t} :
    Inside(u) => LockOf(op) = "shared" /\ LockOf(calls[u].op) = "shared"

CanRead(t) == \A u \in Threads \ {t} : Inside(u) => LockOf(calls[u].op) = "shared"

Enter(t, op, root) ==
  /\ ~Inside(t)
  /\ CanLock(t, op)
  /\ calls' = [calls EXCEPT ![t] = [op |-> op, root |-> root]]

-----------------------------------------------------------------------------
(* The node. *)

\* Mutant: the states of finalized blocks are removed too.
KeepDescendants(blocks, n) == {b \in blocks : b >= n \/ b < -n}

\* reorgAndPrune removes the blocks of dead branches, with their states
KeepFinalized(blocks, n) == {b \in blocks : b >= 0 \/ b < -n}

\* onTick and onBlock may add a block and finalize one
StartNodeCall(t) ==
  /\ Enter(t, "onBlock", 0)
  /\ top < MaxBlock
  /\ UNCHANGED <<server, connection, answer, top, finalized, states, aggregator>>

EndNodeCall(t) ==
  /\ calls[t].op = "onBlock"
  /\ \E n \in finalized .. top + 1 :
       /\ top' = top + 1
       /\ finalized' = n
       /\ states' = KeepFinalized(states \cup {top + 1, -(top + 1)}, n)
  /\ calls' = [calls EXCEPT ![t] = NoCall]
  /\ UNCHANGED <<server, connection, answer, aggregator>>

-----------------------------------------------------------------------------
(* Server. *)

\* HttpServer::start.  An endpoint that cannot be listened on is only logged.
Start ==
  /\ server = "new"
  /\ server' = "listening"
  /\ UNCHANGED <<connection, answer, calls, top, finalized, states, aggregator>>

Handling == {c \in Connections : connection[c].phase = "handling"}

\* the thread of the io context is between two handlers
IoFree == server = "listening" /\ Handling = {}

Accept(c) ==
  /\ IoFree
  /\ connection[c].phase = "free"
  /\ \E url \in Urls :
       connection' = [connection EXCEPT ![c] = [phase |-> "reading", url |-> url, root |-> 0]]
  /\ UNCHANGED <<server, answer, calls, top, finalized, states, aggregator>>

\* the request did not come in time, is too large, or the client is gone
ReadFails(c) ==
  /\ IoFree
  /\ connection[c].phase = "reading"
  /\ connection' = [connection EXCEPT ![c] = Free]
  /\ UNCHANGED <<server, answer, calls, top, finalized, states, aggregator>>

Reply(c, status) ==
  /\ connection' = [connection EXCEPT ![c].phase = "writing"]
  /\ answer' = status

\* requests that need no call that lasts
Request(c) ==
  /\ IoFree
  /\ connection[c].phase = "reading"
  /\ \/ /\ connection[c].url = "health"
        /\ Reply(c, 200) /\ UNCHANGED aggregator
     \/ /\ connection[c].url = "other"
        /\ Reply(c, 404) /\ UNCHANGED aggregator
     \/ /\ connection[c].url = "justified"
        /\ CanRead("http")
        /\ Reply(c, 200) /\ UNCHANGED aggregator
     \/ /\ connection[c].url = "aggregator"
        /\ \/ Reply(c, 200) /\ UNCHANGED aggregator          \* get
           \/ Reply(c, 200) /\ aggregator' \in BOOLEAN       \* post, exchange
           \/ Reply(c, 400) /\ UNCHANGED aggregator          \* post, not JSON
  /\ UNCHANGED <<server, calls, top, finalized, states>>

\* getLatestFinalized, then getState of that root: two calls, two locks.  The
\* second may wait for the node.
ReadFinalized(c) ==
  /\ IoFree
  /\ connection[c].phase = "reading" /\ connection[c].url = "finalized"
  /\ CanRead("http")
  /\ connection' = [connection EXCEPT ![c].phase = "handling", ![c].root = finalized]
  /\ UNCHANGED <<server, answer, calls, top, finalized, states, aggregator>>

GetState(c) ==
  /\ connection[c].phase = "handling" /\ connection[c].url = "finalized"
  /\ Enter("http", "getState", connection[c].root)
  /\ UNCHANGED <<server, connection, answer, top, finalized, states, aggregator>>

\* apiForkChoice takes the state of the head from the cache, too
ApiForkChoice(c) ==
  /\ IoFree
  /\ connection[c].phase = "reading" /\ connection[c].url = "fork_choice"
  /\ Enter("http", "apiForkChoice", top)
  /\ connection' = [connection EXCEPT ![c].phase = "handling"]
  /\ UNCHANGED <<server, answer, top, finalized, states, aggregator>>

Return(c) ==
  /\ connection[c].phase = "handling" /\ Inside("http")
  /\ Reply(c, IF calls["http"].root \in states THEN 200 ELSE 500)
  /\ calls' = [calls EXCEPT !["http"] = NoCall]
  /\ UNCHANGED <<server, top, finalized, states, aggregator>>

\* written, or not; the connection is closed
Written(c) ==
  /\ IoFree
  /\ connection[c].phase = "writing"
  /\ connection' = [connection EXCEPT ![c] = Free]
  /\ UNCHANGED <<server, answer, calls, top, finalized, states, aggregator>>

-----------------------------------------------------------------------------
(* HttpServer::stop, on the main thread: stop the io context, join. *)

Stop ==
  /\ server = "listening"
  /\ server' = "stopping"
  /\ UNCHANGED <<connection, answer, calls, top, finalized, states, aggregator>>

\* run() returns after the handler that is running
RunReturns == Handling = {}

JoinServer ==
  /\ server = "stopping"
  /\ RunReturns
  /\ server' = "stopped"
  /\ UNCHANGED <<connection, answer, calls, top, finalized, states, aggregator>>

-----------------------------------------------------------------------------
apInit ==
  /\ server = "new"
  /\ connection = [c \in Connections |-> Free]
  /\ answer = 200
  /\ calls = [t \in Threads |-> NoCall]
  /\ top = 0 /\ finalized = 0 /\ states = {0}
  /\ aggregator = FALSE

NodeStep(t) == StartNodeCall(t) \/ EndNodeCall(t)

HttpStep ==
  \E c \in Connections :
    \/ Accept(c) \/ ReadFails(c) \/ Request(c) \/ Written(c)
    \/ ReadFinalized(c) \/ GetState(c) \/ ApiForkChoice(c) \/ Return(c)

apNext == Start \/ Stop \/ JoinServer \/ HttpStep \/ \E t \in NodeThreads : NodeStep(t)

apSpec == apInit /\ [][apNext]_apVars

-----------------------------------------------------------------------------
(* Properties. *)

\* The state of the finalized block is served whatever the node finalizes and
\* prunes between the two calls that the request makes.
StateServed == answer # 500

\* The cache of states, which getState, apiForkChoice, onTick and onBlock all
\* change, is used by one thread at a time, although apiForkChoice holds a
\* shared lock only.
CacheExclusive == Cardinality({t \in Threads : Inside(t)}) <= 1

\* HttpServer and ForkChoiceStoreMutex: the finalized state can be served when it
\* is asked for, and one thread at a time uses the cache of states.
FinalizedServed == StateServed /\ CacheExclusive
=============================================================================

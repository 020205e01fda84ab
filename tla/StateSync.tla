------------------------------ MODULE StateSync ------------------------------
(***************************************************************************)
(* How a node that is given a URL gets its anchor state:                   *)
(* StateSyncClient::fetch (src/src/modules/networking/                     *)
(* state_sync_client.cpp), called up to three times by AnchorStateImpl     *)
(* (src/src/blockchain/impl/anchor_state_impl.cpp).                        *)
(*                                                                         *)
(* fetch runs an io context of its own, on the calling thread, with three  *)
(* coroutines: the flow of the request, a timer that cancels its socket    *)
(* and a watcher that looks for a shutdown every 100 ms.  A coroutine goes *)
(* on when its completion is the first of the queue.  run() returns when   *)
(* nothing is pending.                                                     *)
(*                                                                         *)
(* Abstractions.  stop() is called by the thread that is in fetch, so the  *)
(* watcher and fetch find the flag clear.  Header fields and the parts of  *)
(* the URL are left out; the state decodes or does not.                    *)
(***************************************************************************)
EXTENDS Integers, Sequences

CONSTANTS UrlOk,   \* parse_url accepts the URL and the host name can be set
          Tls      \* an https URL

Attempts == 3

\* the awaited operations of the flow, in order
Flow == IF Tls THEN <<"resolve", "connect", "handshake", "write", "read", "close">>
        ELSE <<"resolve", "connect", "write", "read">>

VARIABLES attempt,    \* fetches begun
          busy,       \* a fetch is running
          step,       \* index in Flow, 0 when the flow has returned
          pending,    \* what can still complete: "op", "timer", "watcher"
          ready,      \* completions: whose, and with which result
          reason,     \* CancelState
          result,     \* of the fetch
          freed,      \* a coroutine went on with the frame of the flow gone
          anchor      \* "none", "fetched" or "raised"

syVars == <<attempt, busy, step, pending, ready, reason, result, freed, anchor>>

Completion(who, ec) == [who |-> who, ec |-> ec]

\* timeout_timer and shutdown_timer: cancelled, or destroyed with the frame
CancelTimers(waiting) == waiting \cap {"timer", "watcher"}

Aborted(whos) ==
  (IF "timer" \in whos THEN <<Completion("timer", "aborted")>> ELSE << >>)
    \o (IF "watcher" \in whos THEN <<Completion("watcher", "aborted")>> ELSE << >>)

-----------------------------------------------------------------------------
(* fetch and its caller. *)

Fetch ==
  /\ ~busy
  /\ anchor = "none"
  /\ attempt' = attempt + 1
  /\ busy' = TRUE
  /\ reason' = "none"
  /\ IF UrlOk
     THEN /\ step' = 1
          /\ pending' = {"op"}
          /\ result' = "none"
     ELSE /\ result' = "error"
          /\ UNCHANGED <<step, pending>>
  /\ UNCHANGED <<ready, freed, anchor>>

\* run() and then fetch return; the third failure is raised
FetchReturns ==
  /\ busy
  /\ pending = {} /\ ready = << >>
  /\ busy' = FALSE
  /\ anchor' = IF result = "state" THEN "fetched"
               ELSE IF attempt = Attempts THEN "raised" ELSE "none"
  /\ UNCHANGED <<attempt, step, pending, ready, reason, result, freed>>

-----------------------------------------------------------------------------
(* Outside: the network, and time. *)

\* error: not found, refused or reset
OpCompletes(ec) ==
  /\ "op" \in pending
  /\ ready' = Append(ready, Completion("op", ec))
  /\ pending' = pending \ {"op"}
  /\ UNCHANGED <<attempt, busy, step, reason, result, freed, anchor>>

\* Mutant: the time of the stream ends with the connect.
OnlyConnect(op) == op = "connect"

\* expires_after of the stream: set once, for whatever is done on it
OnStream(op) == op # "resolve"

StreamExpires == step > 0 /\ OnStream(Flow[step]) /\ OpCompletes("expired")

ResolveEnds == step > 0 /\ Flow[step] = "resolve" /\ OpCompletes("error")

Expires(timer) ==
  /\ timer \in pending
  /\ ready' = Append(ready, Completion(timer, "ok"))
  /\ pending' = pending \ {timer}
  /\ UNCHANGED <<attempt, busy, step, reason, result, freed, anchor>>

-----------------------------------------------------------------------------
(* The io context: the first completion resumes its coroutine. *)

\* the flow returns and its frame, with the timers, is destroyed
EndFlow(outcome) ==
  /\ step' = 0
  /\ result' = outcome
  /\ ready' = Tail(ready) \o Aborted(CancelTimers(pending))
  /\ pending' = pending \ CancelTimers(pending)

\* map_aborted
ErrorOf(ec) == IF ec = "aborted" /\ reason = "timeout" THEN "timeout" ELSE "error"

\* the timers start once the name is resolved, and are cancelled when the
\* answer has been read
NextOp ==
  /\ step' = step + 1
  /\ LET kept == CASE Flow[step] = "resolve" -> pending \cup {"timer", "watcher"}
                   [] Flow[step] = "read"    -> pending \ CancelTimers(pending)
                   [] OTHER                  -> pending
     IN  /\ pending' = kept \cup {"op"}
         /\ ready' = Tail(ready) \o Aborted(pending \ kept)
  /\ UNCHANGED result

Go(who) == ready # << >> /\ Head(ready).who = who

ResumeFlow ==
  /\ Go("op")
  /\ \/ /\ Head(ready).ec # "ok" /\ Flow[step] # "close"
        /\ EndFlow(ErrorOf(Head(ready).ec))
     \/ /\ Head(ready).ec = "ok" /\ Flow[step] = "read"
        /\ EndFlow("error")              \* bad status or not a state
     \/ /\ Head(ready).ec = "ok" /\ step < Len(Flow)
        /\ NextOp
     \/ /\ step = Len(Flow)              \* how the connection closes is ignored
        /\ Head(ready).ec = "ok" \/ Flow[step] = "close"
        /\ EndFlow("state")
  /\ UNCHANGED <<attempt, busy, reason, freed, anchor>>

\* the time is over: an operation that is pending is cancelled
ResumeTimer ==
  /\ Go("timer")
  /\ LET fired == Head(ready).ec = "ok"
         cancelled == fired /\ step > 0 /\ "op" \in pending
     IN  /\ reason' = IF fired /\ step > 0 THEN "timeout" ELSE reason
         /\ freed' = (freed \/ (fired /\ step = 0))
         /\ ready' = Tail(ready) \o (IF cancelled THEN <<Completion("op", "aborted")>>
                                     ELSE << >>)
         /\ pending' = IF cancelled THEN pending \ {"op"} ELSE pending
  /\ UNCHANGED <<attempt, busy, step, result, anchor>>

\* the watcher waits again, unless its timer was cancelled
ResumeWatcher ==
  /\ Go("watcher")
  /\ LET fired == Head(ready).ec = "ok"
     IN  /\ freed' = (freed \/ (fired /\ step = 0))
         /\ pending' = IF fired /\ step > 0 THEN pending \cup {"watcher"} ELSE pending
  /\ ready' = Tail(ready)
  /\ UNCHANGED <<attempt, busy, step, reason, result, anchor>>

-----------------------------------------------------------------------------
syInit ==
  /\ attempt = 0
  /\ busy = FALSE
  /\ step = 0
  /\ pending = {} /\ ready = << >>
  /\ reason = "none" /\ result = "none"
  /\ freed = FALSE
  /\ anchor = "none"

Resume == ResumeFlow \/ ResumeTimer \/ ResumeWatcher

syNext ==
  \/ Fetch \/ FetchReturns
  \/ (\E ec \in {"ok", "error"} : OpCompletes(ec)) \/ StreamExpires
  \/ \E timer \in {"timer", "watcher"} : Expires(timer)
  \/ Resume

\* The thread runs and time passes; resolving a name ends.  The network may
\* be silent.
syFairness ==
  /\ WF_syVars(Fetch \/ FetchReturns)
  /\ WF_syVars(Resume)
  /\ WF_syVars(Expires("timer"))
  /\ WF_syVars(StreamExpires)
  /\ WF_syVars(ResolveEnds)

sySpec == syInit /\ [][syNext]_syVars /\ syFairness

-----------------------------------------------------------------------------
(* Properties. *)

\* The node's start is not held up for ever by a peer that does not answer:
\* in the end the anchor state was fetched, or the third failure is raised.
\* The timer alone does not see to that, since it may fire between two
\* operations of the flow, when there is nothing to cancel.
AnchorDecided == <>(anchor # "none")
=============================================================================

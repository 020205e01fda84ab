--------------------------- MODULE Subscriptions ---------------------------
(***************************************************************************)
(* The subscription engine that connects the modules of the node:          *)
(* subscribers (src/src/se/impl/subscriber_impl.hpp) keep iterators into   *)
(* the lists of an engine (subscription_engine.hpp), any thread notifies,  *)
(* the thread of the subscribers (module Scheduler) makes the calls, and   *)
(* the manager (subscription_manager.hpp) disposes of engine and threads.  *)
(*                                                                         *)
(* Abstractions.  One engine and one handler thread, as in the node, whose *)
(* subscriptions all name kTest.  Notifications have no delay.  What an    *)
(* event carries, and what a callback does, are left out.                  *)
(***************************************************************************)
EXTENDS Naturals, Sequences

CONSTANTS Subscribers, Keys, SetIds,
          MaxEvents,   \* bound: notifications
          MaxEntries   \* bound: entries ever made in the lists

VARIABLES lists,       \* subscribers_map_: the entries of each key, in order
          held,        \* subscriptions_sets_: the iterators of each subscriber
          living,      \* subscribers that some shared_ptr refers to
          notifying,   \* notifications that have read dispatcher_
          posted,      \* tasks of the handler thread
          received,    \* calls each subscriber got
          service,     \* how far dispose has come
          events, entries

seVars == <<lists, held, living, notifying, posted, received, service, events, entries>>

-----------------------------------------------------------------------------
(* Subscribing. *)

\* emplace into subscriptions_sets_ inserted something
NewSubscription(s, set, key) == \A h \in held[s] : h.set # set \/ h.key # key

\* SubscriberImpl::subscribe and, under its locks, SubscriptionEngine::subscribe
Subscribe(s, set, key) ==
  /\ s \in living
  /\ entries < MaxEntries
  /\ NewSubscription(s, set, key)
  /\ lists' = [lists EXCEPT ![key] =
                 Append(@, [entry |-> entries + 1, sub |-> s, set |-> set])]
  /\ held' = [held EXCEPT ![s] =
                @ \cup {[set |-> set, key |-> key, entry |-> entries + 1]}]
  /\ entries' = entries + 1
  /\ UNCHANGED <<living, notifying, posted, received, service, events>>

\* the entries of a list that are in a set, in their order
Kept(list, set) ==
  LET walk[i \in 0 .. Len(list)] ==
        IF i = 0 THEN << >>
        ELSE IF list[i] \in set THEN Append(walk[i - 1], list[i]) ELSE walk[i - 1]
  IN  walk[Len(list)]

Entries(list) == {list[i] : i \in DOMAIN list}

\* an iterator is erased
Drop(list, entry) == Kept(list, {e \in Entries(list) : e.entry # entry})

\* SubscriberImpl::unsubscribe from one key.  Leaving a set, or all sets, is
\* this step for each of their keys: the engine is unlocked in between.
Unsubscribe(s, h) ==
  /\ s \in living
  /\ lists' = [lists EXCEPT ![h.key] = Drop(@, h.entry)]
  /\ held' = [held EXCEPT ![s] = @ \ {h}]
  /\ UNCHANGED <<living, notifying, posted, received, service, events, entries>>

\* The last shared_ptr to the subscriber goes, and its iterators with it; the
\* entries stay in the lists until somebody meets them.
Release(s) ==
  /\ s \in living
  /\ living' = living \ {s}
  /\ held' = [held EXCEPT ![s] = {}]
  /\ UNCHANGED <<lists, notifying, posted, received, service, events, entries>>

-----------------------------------------------------------------------------
(* Notifying: notifyDelayed. *)

\* The dispatcher is read before any lock is taken.
ReadDispatcher(key) ==
  /\ service = "open"
  /\ events < MaxEvents
  /\ notifying' = notifying \cup {[key |-> key, event |-> events + 1]}
  /\ events' = events + 1
  /\ UNCHANGED <<lists, held, living, posted, received, service, entries>>

\* Mutant: the loop ends at the first subscriber that is gone.
UpToExpired(list) ==
  LET live == {n \in 0 .. Len(list) : \A i \in 1 .. n : list[i].sub \in living}
  IN  SubSeq(list, 1, CHOOSE n \in live : \A m \in live : m <= n)

\* expired entries are erased on the way
Unexpired(list) == Kept(list, {e \in Entries(list) : e.sub \in living})

\* Mutant: the newest task comes first.
PostFirst(calls) == posted' = calls \o posted

Post(calls) == posted' = posted \o calls

\* The list is locked while a task is posted for each of its subscribers.
\* uploadToHandler drops what comes after the dispatcher was disposed of,
\* which may happen on the way.
PostAll(n) ==
  LET list  == Unexpired(lists[n.key])
      calls == [i \in DOMAIN list |->
                  [sub |-> list[i].sub, set |-> list[i].set,
                   key |-> n.key, event |-> n.event]]
  IN  /\ lists' = [lists EXCEPT ![n.key] = list]
      /\ notifying' = notifying \ {n}
      /\ CASE service \in {"open", "detached"} -> Post(calls)
           [] service = "closed" -> \E count \in 0 .. Len(calls) :
                                      Post(SubSeq(calls, 1, count))
           [] service = "joined" -> UNCHANGED posted
      /\ UNCHANGED <<held, living, received, service, events, entries>>

\* The handler thread makes the next call, if the subscriber still lives.
Deliver ==
  LET call == Head(posted)
  IN  /\ service # "joined"
      /\ posted # << >>
      /\ posted' = Tail(posted)
      /\ received' = IF call.sub \in living
                     THEN [received EXCEPT ![call.sub] =
                             Append(@, [set |-> call.set, key |-> call.key,
                                        event |-> call.event])]
                     ELSE received
      /\ UNCHANGED <<lists, held, living, notifying, service, events, entries>>

-----------------------------------------------------------------------------
(* SubscriptionManager::dispose: the engine loses its dispatcher, then the *)
(* dispatcher says it is disposed of and joins its thread.                 *)

ServiceGoes(from, to) ==
  /\ service = from
  /\ service' = to
  /\ UNCHANGED <<lists, held, living, notifying, received, events, entries>>

Detach == ServiceGoes("open", "detached") /\ UNCHANGED posted
Close  == ServiceGoes("detached", "closed") /\ UNCHANGED posted

\* tasks that the thread did not get to are lost
JoinThread == ServiceGoes("closed", "joined") /\ posted' = << >>

seInit ==
  /\ lists = [key \in Keys |-> << >>]
  /\ held = [s \in Subscribers |-> {}]
  /\ living = Subscribers
  /\ notifying = {}
  /\ posted = << >>
  /\ received = [s \in Subscribers |-> << >>]
  /\ service = "open"
  /\ events = 0
  /\ entries = 0

seNext ==
  \/ \E s \in Subscribers :
       \/ \E set \in SetIds, key \in Keys : Subscribe(s, set, key)
       \/ \E h \in held[s] : Unsubscribe(s, h)
       \/ Release(s)
  \/ \E key \in Keys : ReadDispatcher(key)
  \/ \E n \in notifying : PostAll(n)
  \/ Deliver \/ Detach \/ Close \/ JoinThread

\* the threads that notify, and the handler thread, are scheduled
seFairness ==
  /\ WF_seVars(\E n \in notifying : PostAll(n))
  /\ WF_seVars(Deliver)

seSpec == seInit /\ [][seNext]_seVars /\ seFairness

-----------------------------------------------------------------------------
(* Properties. *)

\* The iterators a living subscriber keeps stay valid: each refers to one
\* entry, its own, in the list of its key, whatever other subscribers do and
\* whatever notify erases.  (Comment of SubscriptionEngine::subscribe.)
IteratorsValid ==
  \A s \in living : \A h \in held[s] :
    \E i \in DOMAIN lists[h.key] :
      /\ lists[h.key][i] = [entry |-> h.entry, sub |-> s, set |-> h.set]
      /\ \A j \in DOMAIN lists[h.key] : lists[h.key][j].entry = h.entry => j = i

\* One notification is one call for each set that the subscriber subscribed to
\* the key with, although it may leave and come back in between.
OneCallPerSet ==
  \A s \in Subscribers : \A i, j \in DOMAIN received[s] :
    received[s][i] = received[s][j] => i = j

\* Subscribers that got the same two notifications of a key got them in the same
\* order, although they were notified by different threads.
SameOrder ==
  \A s, t \in Subscribers : \A i, j \in DOMAIN received[s], k, l \in DOMAIN received[t] :
    /\ i < j
    /\ received[s][i].key = received[s][j].key
    /\ received[s][i].event = received[t][k].event
    /\ received[s][j].event = received[t][l].event
    /\ received[s][i].event # received[s][j].event
    => k < l

\* SubscriptionEngine: a subscriber's iterators stay valid, one notification is
\* one call for each subscription set, and subscribers get the notifications of
\* a key in one order.
DeliveredInOrder == IteratorsValid /\ OneCallPerSet /\ SameOrder

\* A subscriber that lives and stays subscribed gets every notification, though
\* others come, leave and die meanwhile, until the service is disposed of.
EveryoneIsCalled ==
  \A s \in Subscribers, key \in Keys, event \in 1 .. MaxEvents :
    ([key |-> key, event |-> event] \in notifying /\ \E h \in held[s] : h.key = key)
      ~> \/ \E i \in DOMAIN received[s] : received[s][i].event = event
         \/ \A h \in held[s] : h.key # key
         \/ service # "open"
=============================================================================

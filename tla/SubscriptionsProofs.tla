------------------------ MODULE SubscriptionsProofs ------------------------
(***************************************************************************)
(* Theorems about Subscriptions, for any subscribers, keys and sets, any   *)
(* number of notifications, and any interleaving of the threads that       *)
(* notify, subscribe and go with the thread that makes the calls.          *)
(***************************************************************************)
EXTENDS Subscriptions, SequenceTheorems, WellFoundedInduction, TLAPS

Entry == [entry : Nat, sub : Subscribers, set : SetIds]
Iterator == [set : SetIds, key : Keys, entry : Nat]
Call == [sub : Subscribers, set : SetIds, key : Keys, event : Nat]
Receipt == [set : SetIds, key : Keys, event : Nat]

\* the lists and the iterators into them
ListsTyped ==
  /\ lists \in [Keys -> Seq(Entry)]
  /\ held \in [Subscribers -> SUBSET Iterator]
  /\ living \in SUBSET Subscribers
  /\ entries \in Nat

\* the calls, posted and made
CallsTyped ==
  /\ notifying \in SUBSET [key : Keys, event : Nat]
  /\ posted \in Seq(Call)
  /\ received \in [Subscribers -> Seq(Receipt)]
  /\ events \in Nat

\* What is in a list is there once, and was given its number before.
EntriesDiffer ==
  \A key \in Keys : \A i, j \in DOMAIN lists[key] :
    /\ lists[key][i].entry <= entries
    /\ lists[key][i].entry = lists[key][j].entry => i = j

\* Iterators and the entries of living subscribers correspond.
HeldListed ==
  \A s \in living : \A h \in held[s] :
    \E i \in DOMAIN lists[h.key] :
      lists[h.key][i] = [entry |-> h.entry, sub |-> s, set |-> h.set]

ListedHeld ==
  \A key \in Keys : \A i \in DOMAIN lists[key] :
    lists[key][i].sub \in living =>
      [set |-> lists[key][i].set, key |-> key, entry |-> lists[key][i].entry]
        \in held[lists[key][i].sub]

HeldOnce ==
  \A s \in Subscribers : \A g, h \in held[s] : g.set = h.set /\ g.key = h.key => g = h

\* the events that calls were posted for, as far as they are not lost
Called ==
  {posted[i].event : i \in DOMAIN posted}
    \cup UNION {{received[s][i].event : i \in DOMAIN received[s]} : s \in Subscribers}

\* A notification under way has a number of its own, and no calls yet.
NotifyingFresh ==
  /\ \A n \in notifying : n.event <= events /\ n.event \notin Called
  /\ \A m, n \in notifying : m.event = n.event => m = n
  /\ \A e \in Called : e <= events

ReceiptOf(call) == [set |-> call.set, key |-> call.key, event |-> call.event]

\* No call was made or is to be made twice.
CallsDiffer ==
  /\ \A i, j \in DOMAIN posted : posted[i] = posted[j] => i = j
  /\ OneCallPerSet
  /\ \A i \in DOMAIN posted : \A j \in DOMAIN received[posted[i].sub] :
       received[posted[i].sub][j] # ReceiptOf(posted[i])

\* The calls are in the order of some ranking of the notifications.
Ranked(rank, top) ==
  /\ \A e \in Called : rank[e] <= top
  /\ \A d, e \in Called : rank[d] = rank[e] => d = e
  /\ \A i, j \in DOMAIN posted : i <= j => rank[posted[i].event] <= rank[posted[j].event]
  /\ \A s \in Subscribers : \A i, j \in DOMAIN received[s] :
       i <= j => rank[received[s][i].event] <= rank[received[s][j].event]
  /\ \A s \in Subscribers : \A i \in DOMAIN received[s], j \in DOMAIN posted :
       rank[received[s][i].event] <= rank[posted[j].event]

InPostingOrder == \E rank \in [Nat -> Nat], top \in Nat : Ranked(rank, top)

ListsInv == ListsTyped /\ EntriesDiffer /\ HeldListed /\ ListedHeld /\ HeldOnce

CallsInv == CallsTyped /\ NotifyingFresh /\ CallsDiffer /\ InPostingOrder

\* The service a notification is posted to.
ServiceTyped == service \in {"open", "detached", "closed", "joined"}

\* The inductive invariant.
SubscriptionsInv == ServiceTyped /\ ListsInv /\ CallsInv

-----------------------------------------------------------------------------
(* Lists. *)

\* Induction up to a bound.
LEMMA UpTo ==
  ASSUME NEW n \in Nat, NEW P, 0 \in P, \A i \in 1 .. n : i - 1 \in P => i \in P
  PROVE  0 .. n \subseteq P
<1> DEFINE bad == (0 .. n) \ P
<1> SUFFICES ASSUME bad # {} PROVE FALSE
  OBVIOUS
<1>1. bad \subseteq Nat
  OBVIOUS
<1>2. PICK m \in bad : \A k \in bad : ~(<<k, m>> \in OpToRel(<, Nat))
  <2> HIDE DEF bad
  <2> QED BY Zenon, <1>1, NatLessThanWellFounded, WFMin
<1>3. m \in 1 .. n /\ m - 1 \notin P
  OBVIOUS
<1>4. m - 1 \in bad /\ m - 1 \in Nat /\ m \in Nat /\ m - 1 < m
  BY <1>3
<1>5. <<m - 1, m>> \in OpToRel(<, Nat)
  BY <1>4 DEF OpToRel
<1> QED BY Zenon, <1>2, <1>4, <1>5

\* walk is the recursion of Kept
WalksOver(walk, list, set, T) ==
  /\ walk \in [0 .. Len(list) -> Seq(T)]
  /\ walk[0] = << >>
  /\ \A i \in 1 .. Len(list) :
       walk[i] = IF list[i] \in set THEN Append(walk[i - 1], list[i]) ELSE walk[i - 1]

\* The walk of Kept exists.
LEMMA KeptRecursion ==
  ASSUME NEW T, NEW list \in Seq(T), NEW set
  PROVE  \E walk : WalksOver(walk, list, set, T) /\ Kept(list, set) = walk[Len(list)]
<1> DEFINE n == Len(list)
           Go(w, i) == IF list[i] \in set THEN Append(w, list[i]) ELSE w
           Upto(f, i) == f[0] = << >> /\ \A j \in 1 .. i : f[j] = Go(f[j - 1], j)
           P == {i \in 0 .. n : \E f \in [0 .. i -> Seq(T)] : Upto(f, i)}
           Step(f) == [i \in 0 .. n |-> IF i = 0 THEN << >> ELSE Go(f[i - 1], i)]
           walk == CHOOSE f : f = Step(f)
<1>0. n \in Nat /\ \A i \in 1 .. n : list[i] \in T
  OBVIOUS
<1>1. 0 \in P
  <2>1. [i \in 0 .. 0 |-> << >>] \in [0 .. 0 -> Seq(T)] /\ Upto([i \in 0 .. 0 |-> << >>], 0)
    OBVIOUS
  <2>2. 0 \in 0 .. n
    BY <1>0
  <2> HIDE DEF Upto, n
  <2> QED BY Zenon, <2>1, <2>2
<1>2. ASSUME NEW i \in 1 .. n, i - 1 \in P PROVE i \in P
  <2>1. PICK f \in [0 .. i - 1 -> Seq(T)] : Upto(f, i - 1)
    BY Zenon, <1>2
  <2> DEFINE g == [j \in 0 .. i |-> IF j = i THEN Go(f[i - 1], i) ELSE f[j]]
  <2>2. i \in Nat /\ i - 1 \in 0 .. i - 1 /\ list[i] \in T /\ 0 # i
    BY <1>0
  <2>3. Go(f[i - 1], i) \in Seq(T)
    BY <2>1, <2>2
  <2>4. g \in [0 .. i -> Seq(T)]
    <3> HIDE DEF Go
    <3> QED BY <2>1, <2>2, <2>3
  <2>5. g[0] = << >>
    <3> HIDE DEF Go
    <3> QED BY <2>1, <2>2
  <2>6. ASSUME NEW j \in 1 .. i PROVE g[j] = Go(g[j - 1], j)
    <3>1. g[j - 1] = f[j - 1]
      BY <2>2
    <3>2. CASE j = i
      BY <3>1, <3>2
    <3>3. CASE j # i
      <4>1. j \in 1 .. i - 1 /\ g[j] = f[j]
        BY <2>2, <3>3
      <4> QED BY Zenon, <2>1, <3>1, <4>1
    <3> QED BY <3>2, <3>3
  <2>7. Upto(g, i)
    BY Zenon, <2>5, <2>6
  <2> HIDE DEF Upto, g
  <2> QED BY <2>4, <2>7
<1>3. 0 .. n \subseteq P
  <2> HIDE DEF P, n
  <2> QED BY Zenon, <1>0, <1>1, <1>2, UpTo
<1>4. PICK f \in [0 .. n -> Seq(T)] : Upto(f, n)
  <2>1. n \in 0 .. n
    BY <1>0
  <2>2. n \in P
    BY Zenon, <1>3, <2>1
  <2> HIDE DEF Upto, n
  <2> QED BY <2>2
<1>5. f = Step(f)
  <2>1. ASSUME NEW i \in 0 .. n
        PROVE  f[i] = IF i = 0 THEN << >> ELSE Go(f[i - 1], i)
    <3>1. i # 0 => i \in 1 .. n
      BY <1>0
    <3> HIDE DEF Go, n
    <3> QED BY <1>4, <3>1
  <2> HIDE DEF Go, Upto
  <2> QED BY <2>1
<1>6. walk = Step(walk)
  <2> HIDE DEF Step
  <2> QED BY <1>5
<1>7. ASSUME NEW i \in 0 .. n
      PROVE  walk[i] = IF i = 0 THEN << >> ELSE Go(walk[i - 1], i)
  <2> HIDE DEF walk, Go
  <2> QED BY Zenon, <1>6
<1>8. Kept(list, set) = walk[n]
  BY DEF Kept
<1>9. walk[0] = << >>
  <2>1. 0 \in 0 .. n
    BY <1>0
  <2> HIDE DEF walk, n, Go
  <2> QED BY <1>7, <2>1
<1>10. \A i \in 1 .. n : walk[i] = Go(walk[i - 1], i)
  <2> HIDE DEF walk, Go
  <2> QED BY <1>0, <1>7
<1>11. walk \in [0 .. n -> Seq(T)]
  <2> DEFINE Q == {i \in 0 .. n : walk[i] \in Seq(T)}
  <2>1. 0 \in Q
    <3>1. 0 \in 0 .. n /\ << >> \in Seq(T)
      BY <1>0
    <3> HIDE DEF walk, n
    <3> QED BY Zenon, <1>9, <3>1
  <2>2. ASSUME NEW i \in 1 .. n, i - 1 \in Q PROVE i \in Q
    <3> HIDE DEF walk
    <3>1. walk[i - 1] \in Seq(T) /\ list[i] \in T /\ i \in 0 .. n
      BY <1>0, <2>2
    <3>2. Go(walk[i - 1], i) \in Seq(T)
      BY <3>1
    <3> HIDE DEF Go
    <3> QED BY <1>10, <3>1, <3>2
  <2>3. 0 .. n \subseteq Q
    <3> HIDE DEF Q, n
    <3> QED BY Zenon, <1>0, <2>1, <2>2, UpTo
  <2> HIDE DEF walk, Go
  <2>4. walk = [i \in 0 .. n |-> IF i = 0 THEN << >> ELSE Go(walk[i - 1], i)]
    BY Zenon, <1>6
  <2> QED BY <2>3, <2>4
<1> HIDE DEF walk
<1>12. WalksOver(walk, list, set, T)
  BY <1>9, <1>10, <1>11 DEF WalksOver
<1> QED BY <1>8, <1>12

\* part[i] is entry at[i] of the list
PicksFrom(part, list, set, at) ==
  /\ at \in [DOMAIN part -> DOMAIN list]
  /\ \A i, j \in DOMAIN part : at[i] = at[j] => i = j
  /\ \A i \in DOMAIN part : part[i] = list[at[i]] /\ list[at[i]] \in set
  /\ \A j \in DOMAIN list : list[j] \in set => \E i \in DOMAIN part : at[i] = j

\* Kept has the entries of the list that are in the set, each from a place of its own.
LEMMA KeptIs ==
  ASSUME NEW T, NEW list \in Seq(T), NEW set
  PROVE  Kept(list, set) \in Seq(T) /\ \E at : PicksFrom(Kept(list, set), list, set, at)
<1> DEFINE n == Len(list)
<1>0. n \in Nat /\ DOMAIN list = 1 .. n /\ \A i \in 1 .. n : list[i] \in T
  OBVIOUS
<1>1. PICK walk :
         /\ walk \in [0 .. n -> Seq(T)]
         /\ walk[0] = << >>
         /\ \A i \in 1 .. n : walk[i] = IF list[i] \in set THEN Append(walk[i - 1], list[i])
                                        ELSE walk[i - 1]
         /\ Kept(list, set) = walk[n]
  <2>1. PICK walk : WalksOver(walk, list, set, T) /\ Kept(list, set) = walk[Len(list)]
    BY KeptRecursion
  <2> QED BY Zenon, <2>1 DEF WalksOver
<1> DEFINE Fits(w, m, at) ==
             /\ \A i, j \in DOMAIN w : at[i] = at[j] => i = j
             /\ \A i \in DOMAIN w : w[i] = list[at[i]] /\ list[at[i]] \in set
             /\ \A j \in 1 .. m : list[j] \in set => \E i \in DOMAIN w : at[i] = j
           P == {m \in 0 .. n : \E at \in [DOMAIN walk[m] -> 1 .. m] : Fits(walk[m], m, at)}
<1> HIDE DEF n
<1>2. 0 \in P
  <2>1. << >> \in [DOMAIN walk[0] -> 1 .. 0]
    BY <1>1
  <2>2. Fits(walk[0], 0, << >>)
    BY <1>1
  <2>3. 0 \in 0 .. n
    BY <1>0
  <2> HIDE DEF Fits
  <2> QED BY Zenon, <2>1, <2>2, <2>3
<1>3. ASSUME NEW m \in 1 .. n, m - 1 \in P PROVE m \in P
  <2> DEFINE old == walk[m - 1]
             new == walk[m]
             k == Len(old)
  <2>0. m \in Nat /\ m \in 0 .. n /\ m - 1 \in 0 .. n /\ m - 1 < m
    BY <1>0
  <2>1. PICK at \in [DOMAIN old -> 1 .. m - 1] : Fits(old, m - 1, at)
    BY <1>3
  <2>2. old \in Seq(T) /\ k \in Nat /\ DOMAIN old = 1 .. k
    BY <1>1, <2>0
  <2>3. CASE list[m] \notin set
    <3>1. new = old
      BY <1>1, <2>3
    <3>2. at \in [DOMAIN old -> 1 .. m]
      BY <2>0
    <3>3. Fits(old, m, at)
      <4>1. ASSUME NEW j \in 1 .. m, list[j] \in set PROVE j \in 1 .. m - 1
        BY <2>0, <2>3, <4>1
      <4> HIDE DEF old
      <4> QED BY <2>1, <4>1
    <3> HIDE DEF Fits, old
    <3> QED BY <2>0, <3>1, <3>2, <3>3
  <2>4. CASE list[m] \in set
    <3>1. new = Append(old, list[m])
      BY Zenon, <1>1, <2>4
    <3> HIDE DEF old, new
    <3> DEFINE to == [i \in 1 .. k + 1 |-> IF i = k + 1 THEN m ELSE at[i]]
    <3>2. /\ DOMAIN new = 1 .. k + 1 /\ new[k + 1] = list[m]
          /\ \A i \in 1 .. k : new[i] = old[i]
      BY <2>2, <3>1
    <3> HIDE DEF k
    <3>3. to[k + 1] = m /\ \A i \in 1 .. k : to[i] = at[i] /\ to[i] \in 1 .. m - 1
      BY <2>1, <2>2
    <3>4. to \in [DOMAIN new -> 1 .. m]
      <4>1. ASSUME NEW i \in 1 .. k + 1 PROVE to[i] \in 1 .. m
        <5>1. i = k + 1 \/ i \in 1 .. k
          BY <2>2
        <5> HIDE DEF to
        <5> QED BY <2>0, <3>3, <5>1
      <4> QED BY <3>2, <4>1
    <3> HIDE DEF to
    <3>5. Fits(new, m, to)
      <4>0. \A i \in 1 .. k + 1 : i = k + 1 \/ i \in 1 .. k
        BY <2>2
      <4>1. ASSUME NEW i \in DOMAIN new, NEW j \in DOMAIN new, to[i] = to[j]
            PROVE  i = j
        <5>1. m \notin 1 .. m - 1
          BY <2>0
        <5>2. CASE i \in 1 .. k /\ j \in 1 .. k
          BY <2>1, <2>2, <3>3, <4>1, <5>2
        <5> QED BY <3>2, <3>3, <4>0, <4>1, <5>1, <5>2
      <4>2. \A i \in DOMAIN new : new[i] = list[to[i]] /\ list[to[i]] \in set
        BY <2>1, <2>2, <2>4, <3>2, <3>3, <4>0
      <4>3. ASSUME NEW j \in 1 .. m, list[j] \in set PROVE \E i \in DOMAIN new : to[i] = j
        <5>1. j = m \/ j \in 1 .. m - 1
          BY <2>0
        <5>2. k + 1 \in DOMAIN new /\ \A i \in 1 .. k : i \in DOMAIN new
          BY <2>2, <3>2
        <5> QED BY Zenon, <2>1, <2>2, <3>3, <4>3, <5>1, <5>2
      <4> QED BY <4>1, <4>2, <4>3
    <3> HIDE DEF Fits
    <3> QED BY <2>0, <3>4, <3>5 DEF new
  <2> QED BY Zenon, <2>3, <2>4
<1>4. 0 .. n \subseteq P
  <2> HIDE DEF P
  <2> QED BY Zenon, <1>0, <1>2, <1>3, UpTo
<1>5. n \in P /\ walk[n] \in Seq(T)
  <2>1. n \in 0 .. n
    BY <1>0
  <2> HIDE DEF P
  <2> QED BY <1>1, <1>4, <2>1
<1>6. PICK at \in [DOMAIN walk[n] -> 1 .. n] : Fits(walk[n], n, at)
  <2> HIDE DEF Fits
  <2> QED BY <1>5
<1> DEFINE w == walk[n]
<1>7. w = Kept(list, set) /\ w \in Seq(T) /\ at \in [DOMAIN w -> DOMAIN list]
  BY <1>0, <1>1, <1>5
<1>8. Fits(w, n, at)
  BY <1>6
<1> HIDE DEF w
<1>9. PicksFrom(w, list, set, at)
  BY <1>0, <1>7, <1>8 DEF PicksFrom
<1> QED BY <1>7, <1>9

-----------------------------------------------------------------------------
(* The lists and the iterators into them. *)

\* a new entry at the end of a list
LEMMA SubscribeKeeps ==
  ASSUME ListsInv, NEW s \in Subscribers, NEW set \in SetIds, NEW key \in Keys,
         Subscribe(s, set, key)
  PROVE  ListsInv'
<1> DEFINE new == [entry |-> entries + 1, sub |-> s, set |-> set]
           it == [set |-> set, key |-> key, entry |-> entries + 1]
           n == Len(lists[key])
<1>0. /\ lists \in [Keys -> Seq(Entry)] /\ held \in [Subscribers -> SUBSET Iterator]
      /\ living \in SUBSET Subscribers /\ entries \in Nat /\ n \in Nat
  BY DEF ListsInv, ListsTyped
<1>1. /\ lists' = [lists EXCEPT ![key] = Append(lists[key], new)]
      /\ held' = [held EXCEPT ![s] = held[s] \cup {it}]
      /\ entries' = entries + 1 /\ living' = living /\ s \in living
      /\ NewSubscription(s, set, key)
  BY DEF Subscribe
<1>2. new \in Entry /\ it \in Iterator
  BY <1>0 DEF Entry, Iterator
<1>3. /\ new.entry = entries + 1 /\ new.sub = s /\ new.set = set
      /\ it.entry = entries + 1 /\ it.key = key /\ it.set = set
  OBVIOUS
<1> HIDE DEF new, it
<1>4. /\ lists'[key] = Append(lists[key], new)
      /\ \A k \in Keys \ {key} : lists'[k] = lists[k]
      /\ held'[s] = held[s] \cup {it}
      /\ \A t \in Subscribers \ {s} : held'[t] = held[t]
  BY <1>0, <1>1
<1>5. ListsTyped'
  <2>1. Append(lists[key], new) \in Seq(Entry)
    BY <1>0, <1>2
  <2> QED BY <1>0, <1>1, <1>2, <2>1 DEF ListsTyped
<1>6. /\ DOMAIN lists[key] = 1 .. n /\ DOMAIN lists'[key] = 1 .. n + 1
      /\ \A i \in 1 .. n : lists'[key][i] = lists[key][i]
      /\ lists'[key][n + 1] = new
      /\ \A i \in 1 .. n + 1 : i = n + 1 \/ i \in 1 .. n
  <2> DEFINE l == lists[key]
  <2>1. l \in Seq(Entry) /\ lists'[key] = Append(l, new) /\ n = Len(l) /\ n \in Nat
    BY <1>0, <1>4
  <2> HIDE DEF l, n
  <2>2. /\ DOMAIN l = 1 .. n /\ DOMAIN Append(l, new) = 1 .. n + 1
        /\ \A i \in 1 .. n : Append(l, new)[i] = l[i]
        /\ Append(l, new)[n + 1] = new
    BY <1>2, <2>1
  <2>3. \A i \in 1 .. n + 1 : i = n + 1 \/ i \in 1 .. n
    BY <2>1
  <2> QED BY <2>1, <2>2, <2>3 DEF l
<1>7. \A k \in Keys : \A i \in DOMAIN lists[k] : lists[k][i].entry \in Nat
  <2>1. \A k \in Keys : lists[k] \in Seq(Entry)
    BY <1>0
  <2>2. \A k \in Keys : \A i \in DOMAIN lists[k] : lists[k][i] \in Entry
    BY <2>1
  <2> QED BY <2>2 DEF Entry
<1>8. EntriesDiffer'
  <2> SUFFICES ASSUME NEW k \in Keys, NEW i \in DOMAIN lists'[k], NEW j \in DOMAIN lists'[k]
               PROVE  /\ lists'[k][i].entry <= entries + 1
                      /\ lists'[k][i].entry = lists'[k][j].entry => i = j
    BY <1>1 DEF EntriesDiffer
  <2>1. CASE k # key
    BY <1>0, <1>4, <1>7, <2>1 DEF ListsInv, EntriesDiffer
  <2>2. CASE k = key
    <3>1. \A x \in 1 .. n : lists[key][x].entry <= entries /\ lists[key][x].entry \in Nat
      BY <1>6, <1>7 DEF ListsInv, EntriesDiffer
    <3>2. CASE i \in 1 .. n /\ j \in 1 .. n
      <4>1. lists'[k][i] = lists[key][i] /\ lists'[k][j] = lists[key][j]
        BY Zenon, <1>6, <2>2, <3>2
      <4>2. i \in DOMAIN lists[key] /\ j \in DOMAIN lists[key]
        BY <1>6, <3>2
      <4>3. lists[key][i].entry = lists[key][j].entry => i = j
        BY Zenon, <4>2 DEF ListsInv, EntriesDiffer
      <4>4. lists[key][i].entry <= entries /\ lists[key][i].entry \in Nat
        BY Zenon, <3>1, <3>2
      <4> QED BY <1>0, <4>1, <4>3, <4>4
    <3>3. CASE i = n + 1
      BY <1>0, <1>3, <1>6, <2>2, <3>1, <3>3
    <3>4. CASE i \in 1 .. n /\ j = n + 1
      BY <1>0, <1>3, <1>6, <2>2, <3>1, <3>4
    <3> QED BY <1>6, <2>2, <3>2, <3>3, <3>4
  <2> QED BY <2>1, <2>2
<1>9. HeldListed'
  <2> SUFFICES ASSUME NEW t \in living, NEW h \in held'[t]
               PROVE  \E i \in DOMAIN lists'[h.key] :
                        lists'[h.key][i] = [entry |-> h.entry, sub |-> t, set |-> h.set]
    BY Zenon, <1>1 DEF HeldListed
  <2>1. CASE h \in held[t]
    <3>1. PICK i \in DOMAIN lists[h.key] :
            lists[h.key][i] = [entry |-> h.entry, sub |-> t, set |-> h.set]
      BY <2>1 DEF ListsInv, HeldListed
    <3>2. h.key \in Keys
      BY <1>0, <2>1 DEF Iterator
    <3>3. i \in DOMAIN lists'[h.key] /\ lists'[h.key][i] = lists[h.key][i]
      BY <1>4, <1>6, <3>1, <3>2
    <3> QED BY <3>1, <3>3
  <2>2. CASE t = s /\ h = it
    <3>1. new = [entry |-> h.entry, sub |-> t, set |-> h.set]
      BY <1>3, <2>2 DEF new
    <3>2. n + 1 \in DOMAIN lists'[key]
      BY <1>0, <1>6
    <3> QED BY <1>3, <1>6, <2>2, <3>1, <3>2
  <2> QED BY <1>0, <1>4, <2>1, <2>2
<1>10. ListedHeld'
  <2> SUFFICES ASSUME NEW k \in Keys, NEW i \in DOMAIN lists'[k], lists'[k][i].sub \in living
               PROVE  [set |-> lists'[k][i].set, key |-> k, entry |-> lists'[k][i].entry]
                        \in held'[lists'[k][i].sub]
    BY <1>1 DEF ListedHeld
  <2>1. CASE i \in DOMAIN lists[k] /\ lists'[k][i] = lists[k][i]
    <3>1. lists[k][i].sub \in Subscribers
      BY <1>0, <2>1
    <3> QED BY <1>4, <2>1, <3>1 DEF ListsInv, ListedHeld
  <2>2. CASE k = key /\ i = n + 1
    <3>1. it = [set |-> new.set, key |-> k, entry |-> new.entry]
      BY <1>3, <2>2 DEF it
    <3> QED BY <1>3, <1>4, <1>6, <2>2, <3>1
  <2> QED BY <1>4, <1>6, <2>1, <2>2
<1>11. HeldOnce'
  <2> SUFFICES ASSUME NEW t \in Subscribers, NEW g \in held'[t], NEW h \in held'[t],
                      g.set = h.set, g.key = h.key
               PROVE  g = h
    BY DEF HeldOnce
  <2>1. CASE g \in held[t] /\ h \in held[t]
    BY <2>1 DEF ListsInv, HeldOnce
  <2>2. \A f \in held[s] : ~(f.set = it.set /\ f.key = it.key)
    BY <1>1, <1>3 DEF NewSubscription
  <2> QED BY <1>4, <2>1, <2>2
<1> QED BY <1>5, <1>8, <1>9, <1>10, <1>11 DEF ListsInv

\* Lists lose entries of which nobody who lives has an iterator any more.
LEMMA ErasureKeeps ==
  ASSUME ListsInv, NEW key \in Keys, NEW set,
         lists' = [lists EXCEPT ![key] = Kept(lists[key], set)],
         held' \in [Subscribers -> SUBSET Iterator],
         \A s \in Subscribers : held'[s] \subseteq held[s],
         living' = living, entries' = entries,
         \A i \in DOMAIN lists[key] :
           lists[key][i].sub \in living =>
             (lists[key][i] \in set <=>
                [set |-> lists[key][i].set, key |-> key, entry |-> lists[key][i].entry]
                  \in held'[lists[key][i].sub]),
         \A s \in living : \A h \in held[s] : h.key # key => h \in held'[s]
  PROVE  ListsInv'
<1> DEFINE l == lists[key]
           part == Kept(l, set)
<1>0. /\ lists \in [Keys -> Seq(Entry)] /\ held \in [Subscribers -> SUBSET Iterator]
      /\ living \in SUBSET Subscribers /\ entries \in Nat
      /\ l \in Seq(Entry)
  BY DEF ListsInv, ListsTyped
<1>1. part \in Seq(Entry) /\ \E at : PicksFrom(part, l, set, at)
  <2> HIDE DEF l
  <2> QED BY Zenon, <1>0, KeptIs
<1> HIDE DEF part
<1>2. PICK at : PicksFrom(part, l, set, at)
  BY <1>1
<1>3. /\ at \in [DOMAIN part -> DOMAIN l]
      /\ \A i, j \in DOMAIN part : at[i] = at[j] => i = j
      /\ \A i \in DOMAIN part : part[i] = l[at[i]] /\ l[at[i]] \in set
      /\ \A j \in DOMAIN l : l[j] \in set => \E i \in DOMAIN part : at[i] = j
  <2> HIDE DEF l
  <2> QED BY <1>2 DEF PicksFrom
<1>4. lists'[key] = part /\ \A k \in Keys \ {key} : lists'[k] = lists[k]
  BY <1>0 DEF part
<1>5. ListsTyped'
  BY <1>0, <1>1 DEF ListsTyped, part
<1>6. EntriesDiffer'
  <2> SUFFICES ASSUME NEW k \in Keys, NEW i \in DOMAIN lists'[k], NEW j \in DOMAIN lists'[k]
               PROVE  /\ lists'[k][i].entry <= entries
                      /\ lists'[k][i].entry = lists'[k][j].entry => i = j
    BY DEF EntriesDiffer
  <2>1. CASE k # key
    BY <1>4, <2>1 DEF ListsInv, EntriesDiffer
  <2>2. CASE k = key
    <3>1. /\ at[i] \in DOMAIN l /\ at[j] \in DOMAIN l
          /\ lists'[k][i] = l[at[i]] /\ lists'[k][j] = l[at[j]]
      BY <1>3, <1>4, <2>2
    <3>2. l[at[i]].entry <= entries /\ (l[at[i]].entry = l[at[j]].entry => at[i] = at[j])
      BY <3>1 DEF ListsInv, EntriesDiffer
    <3> QED BY <1>3, <1>4, <2>2, <3>1, <3>2
  <2> QED BY <2>1, <2>2
<1>7. HeldListed'
  <2> SUFFICES ASSUME NEW s \in living, NEW h \in held'[s]
               PROVE  \E i \in DOMAIN lists'[h.key] :
                        lists'[h.key][i] = [entry |-> h.entry, sub |-> s, set |-> h.set]
    BY DEF HeldListed
  <2>1. h \in held[s] /\ h \in Iterator
    BY <1>0
  <2>2. h.key \in Keys /\ h = [set |-> h.set, key |-> h.key, entry |-> h.entry]
    BY <2>1 DEF Iterator
  <2>3. PICK j \in DOMAIN lists[h.key] :
          lists[h.key][j] = [entry |-> h.entry, sub |-> s, set |-> h.set]
    BY <2>1 DEF ListsInv, HeldListed
  <2>4. CASE h.key # key
    BY <1>4, <2>2, <2>3, <2>4
  <2>5. CASE h.key = key
    <3>1. l[j].sub = s /\ l[j].set = h.set /\ l[j].entry = h.entry /\ j \in DOMAIN l
      BY <2>3, <2>5
    <3>2. l[j] \in set
      BY <2>2, <2>5, <3>1
    <3>3. PICK i \in DOMAIN part : at[i] = j
      BY <1>3, <3>1, <3>2
    <3> QED BY <1>3, <1>4, <2>3, <2>5, <3>3
  <2> QED BY <2>4, <2>5
<1>8. ListedHeld'
  <2> SUFFICES ASSUME NEW k \in Keys, NEW i \in DOMAIN lists'[k], lists'[k][i].sub \in living
               PROVE  [set |-> lists'[k][i].set, key |-> k, entry |-> lists'[k][i].entry]
                        \in held'[lists'[k][i].sub]
    BY DEF ListedHeld
  <2>1. CASE k # key
    <3> DEFINE h == [set |-> lists[k][i].set, key |-> k, entry |-> lists[k][i].entry]
    <3>1. i \in DOMAIN lists[k] /\ lists'[k][i] = lists[k][i]
      BY <1>4, <2>1
    <3>2. h \in held[lists[k][i].sub]
      BY <3>1 DEF ListsInv, ListedHeld
    <3>3. h.key = k
      OBVIOUS
    <3> HIDE DEF h
    <3>4. h \in held'[lists[k][i].sub]
      BY <2>1, <3>1, <3>2, <3>3
    <3> QED BY <3>1, <3>4 DEF h
  <2>2. CASE k = key
    <3>1. at[i] \in DOMAIN l /\ lists'[k][i] = l[at[i]] /\ l[at[i]] \in set
      BY <1>3, <1>4, <2>2
    <3> QED BY <2>2, <3>1
  <2> QED BY <2>1, <2>2
<1>9. HeldOnce'
  BY DEF HeldOnce, ListsInv
<1> QED BY <1>5, <1>6, <1>7, <1>8, <1>9 DEF ListsInv

\* a subscriber leaves a key
LEMMA UnsubscribeKeeps ==
  ASSUME ListsInv, NEW s \in Subscribers, NEW h \in held[s], Unsubscribe(s, h)
  PROVE  ListsInv'
<1> DEFINE l == lists[h.key]
           set == {e \in Entries(l) : e.entry # h.entry}
<1>0. /\ lists \in [Keys -> Seq(Entry)] /\ held \in [Subscribers -> SUBSET Iterator]
      /\ living \in SUBSET Subscribers /\ h \in Iterator
  BY DEF ListsInv, ListsTyped
<1>1. h.key \in Keys /\ h = [set |-> h.set, key |-> h.key, entry |-> h.entry]
  BY <1>0 DEF Iterator
<1>2. /\ lists' = [lists EXCEPT ![h.key] = Kept(l, set)]
      /\ held' = [held EXCEPT ![s] = held[s] \ {h}]
      /\ s \in living /\ living' = living /\ entries' = entries
  BY DEF Unsubscribe, Drop
<1>3. /\ held'[s] = held[s] \ {h} /\ \A t \in Subscribers \ {s} : held'[t] = held[t]
      /\ held' \in [Subscribers -> SUBSET Iterator]
  BY <1>0, <1>2
<1>4. PICK j \in DOMAIN l : l[j] = [entry |-> h.entry, sub |-> s, set |-> h.set]
  BY <1>2 DEF ListsInv, HeldListed
<1>5. ASSUME NEW i \in DOMAIN l, l[i].sub \in living
      PROVE  l[i] \in set <=>
               [set |-> l[i].set, key |-> h.key, entry |-> l[i].entry] \in held'[l[i].sub]
  <2> DEFINE g == [set |-> l[i].set, key |-> h.key, entry |-> l[i].entry]
  <2>1. g \in held[l[i].sub]
    BY <1>1, <1>5 DEF ListsInv, ListedHeld
  <2>2. l[i] \in set <=> l[i].entry # h.entry
    BY DEF Entries
  <2>3. ASSUME l[i].entry = h.entry PROVE g \notin held'[l[i].sub]
    <3>1. l[j].entry = h.entry /\ l[j].sub = s /\ l[j].set = h.set
      BY <1>4
    <3>2. i = j
      BY <1>1, <2>3, <3>1 DEF ListsInv, EntriesDiffer
    <3>3. g = h
      BY <1>1, <3>1, <3>2
    <3> QED BY <1>3, <3>1, <3>2, <3>3
  <2>4. ASSUME l[i].entry # h.entry PROVE g \in held'[l[i].sub]
    <3>1. g # h
      <4>1. g.entry = l[i].entry
        OBVIOUS
      <4> QED BY <2>4, <4>1
    <3> HIDE DEF g
    <3> QED BY Zenon, <1>0, <1>3, <1>5, <2>1, <3>1
  <2> QED BY <2>2, <2>3, <2>4
<1>6. \A t \in living : \A g \in held[t] : g.key # h.key => g \in held'[t]
  BY <1>0, <1>3
<1>7. \A t \in Subscribers : held'[t] \subseteq held[t]
  BY <1>3
<1> HIDE DEF set
<1> QED BY Zenon, <1>1, <1>2, <1>3, <1>5, <1>6, <1>7, ErasureKeeps

\* a subscriber goes; its entries stay behind
LEMMA ReleaseKeeps ==
  ASSUME ListsInv, NEW s \in Subscribers, Release(s)
  PROVE  ListsInv'
<1>0. /\ lists \in [Keys -> Seq(Entry)] /\ held \in [Subscribers -> SUBSET Iterator]
      /\ living \in SUBSET Subscribers
  BY DEF ListsInv, ListsTyped
<1>1. /\ lists' = lists /\ entries' = entries /\ living' = living \ {s}
      /\ held' = [held EXCEPT ![s] = {}]
  BY DEF Release
<1>2. held'[s] = {} /\ \A t \in Subscribers \ {s} : held'[t] = held[t]
  BY <1>0, <1>1
<1>3. ListsTyped' /\ EntriesDiffer'
  BY <1>0, <1>1 DEF ListsInv, ListsTyped, EntriesDiffer
<1>4. HeldListed' /\ ListedHeld' /\ HeldOnce'
  <2>1. HeldListed'
    BY <1>0, <1>1, <1>2 DEF ListsInv, HeldListed
  <2>2. ListedHeld'
    BY <1>0, <1>1, <1>2 DEF ListsInv, ListedHeld
  <2>3. HeldOnce'
    BY <1>0, <1>1, <1>2 DEF ListsInv, HeldOnce
  <2> QED BY <2>1, <2>2, <2>3
<1> QED BY <1>3, <1>4 DEF ListsInv

\* notify erases the entries of subscribers that are gone
LEMMA NotifyErases ==
  ASSUME ListsInv, NEW key \in Keys,
         lists' = [lists EXCEPT ![key] = Unexpired(lists[key])],
         UNCHANGED <<held, living, entries>>
  PROVE  ListsInv'
<1> DEFINE l == lists[key]
           set == {e \in Entries(l) : e.sub \in living}
<1>1. lists' = [lists EXCEPT ![key] = Kept(l, set)] /\ held' = held
  BY DEF Unexpired
<1>2. held' \in [Subscribers -> SUBSET Iterator] /\ \A s \in Subscribers : held'[s] \subseteq held[s]
  BY DEF ListsInv, ListsTyped
<1>3. \A i \in DOMAIN l : l[i].sub \in living =>
        (l[i] \in set <=> [set |-> l[i].set, key |-> key, entry |-> l[i].entry]
                            \in held'[l[i].sub])
  <2>1. \A i \in DOMAIN l : l[i].sub \in living => l[i] \in set
    BY DEF Entries
  <2> QED BY <1>1, <2>1 DEF ListsInv, ListedHeld
<1>4. \A s \in living : \A h \in held[s] : h.key # key => h \in held'[s]
  BY <1>1
<1> HIDE DEF set
<1> QED BY Zenon, <1>1, <1>2, <1>3, <1>4, ErasureKeeps

\* Of the entries that are left, no two are the same subscriber's with one set.
LEMMA UnexpiredDiffer ==
  ASSUME ListsInv, NEW key \in Keys
  PROVE  /\ Unexpired(lists[key]) \in Seq(Entry)
         /\ \A i, j \in DOMAIN Unexpired(lists[key]) :
              /\ Unexpired(lists[key])[i].sub = Unexpired(lists[key])[j].sub
              /\ Unexpired(lists[key])[i].set = Unexpired(lists[key])[j].set
              => i = j
<1> DEFINE l == lists[key]
           set == {e \in Entries(l) : e.sub \in living}
           part == Unexpired(l)
<1>0. l \in Seq(Entry) /\ living \in SUBSET Subscribers
  BY DEF ListsInv, ListsTyped
<1>1. part \in Seq(Entry) /\ \E at : PicksFrom(part, l, set, at)
  <2> HIDE DEF l
  <2> QED BY Zenon, <1>0, KeptIs DEF Unexpired
<1> HIDE DEF part
<1>2. PICK at : PicksFrom(part, l, set, at)
  BY Zenon, <1>1
<1>3. ASSUME NEW i \in DOMAIN part, NEW j \in DOMAIN part,
             part[i].sub = part[j].sub, part[i].set = part[j].set
      PROVE  i = j
  <2> DEFINE a == l[at[i]]
             b == l[at[j]]
  <2>1. at[i] \in DOMAIN l /\ at[j] \in DOMAIN l /\ part[i] = a /\ part[j] = b
    BY <1>2 DEF PicksFrom
  <2>2. a \in set /\ b \in set
    BY <1>2 DEF PicksFrom
  <2>3. a.sub \in living /\ b.sub = a.sub /\ b.set = a.set /\ a.sub \in Subscribers
    BY <1>0, <1>3, <2>1, <2>2
  <2> DEFINE g == [set |-> a.set, key |-> key, entry |-> a.entry]
             h == [set |-> b.set, key |-> key, entry |-> b.entry]
  <2>4. g \in held[a.sub] /\ h \in held[a.sub]
    BY <2>1, <2>3 DEF ListsInv, ListedHeld
  <2>5. g.set = h.set /\ g.key = h.key /\ g.entry = a.entry /\ h.entry = b.entry
    BY <2>3
  <2> HIDE DEF g, h
  <2>6. g = h
    BY <2>3, <2>4, <2>5 DEF ListsInv, HeldOnce
  <2>7. at[i] = at[j]
    BY <2>1, <2>5, <2>6 DEF ListsInv, EntriesDiffer
  <2> QED BY <1>2, <2>7 DEF PicksFrom
<1> QED BY <1>1, <1>3 DEF part

-----------------------------------------------------------------------------
(* The calls. *)

\* A step that makes and posts no call keeps what is said of calls.
LEMMA CallsStay ==
  ASSUME CallsInv, UNCHANGED <<posted, received, events>>, notifying' \subseteq notifying
  PROVE  CallsInv'
<1>1. Called' = Called
  BY DEF Called
<1>2. CallsTyped' /\ NotifyingFresh'
  BY <1>1 DEF CallsInv, CallsTyped, NotifyingFresh
<1>3. CallsDiffer'
  BY DEF CallsInv, CallsDiffer, OneCallPerSet
<1>4. ASSUME NEW rank, NEW top, Ranked(rank, top) PROVE Ranked(rank, top)'
  BY <1>1, <1>4 DEF Ranked
<1>5. InPostingOrder'
  BY <1>4 DEF CallsInv, InPostingOrder
<1> QED BY <1>2, <1>3, <1>5 DEF CallsInv

\* calls are for notifications that have a number
LEMMA CalledNumbers ==
  ASSUME CallsInv
  PROVE  /\ \A e \in Called : e \in Nat
         /\ \A i \in DOMAIN posted : posted[i] \in Call /\ posted[i].event \in Called
         /\ \A s \in Subscribers : \A i \in DOMAIN received[s] : received[s][i].event \in Called
<1>1. \A i \in DOMAIN posted : posted[i] \in Call
  BY DEF CallsInv, CallsTyped
<1>2. \A i \in DOMAIN posted : posted[i].event \in Nat
  BY <1>1 DEF Call
<1>3. \A s \in Subscribers : received[s] \in Seq(Receipt)
  BY DEF CallsInv, CallsTyped
<1>4. \A s \in Subscribers : \A i \in DOMAIN received[s] : received[s][i] \in Receipt
  BY <1>3
<1>5. \A s \in Subscribers : \A i \in DOMAIN received[s] : received[s][i].event \in Nat
  BY <1>4 DEF Receipt
<1> QED BY <1>1, <1>2, <1>5 DEF Called

\* a notification begins
LEMMA ReadKeeps ==
  ASSUME CallsInv, NEW key \in Keys, ReadDispatcher(key)
  PROVE  CallsInv'
<1> DEFINE n == [key |-> key, event |-> events + 1]
<1>1. /\ notifying' = notifying \cup {n} /\ events' = events + 1
      /\ posted' = posted /\ received' = received
  BY DEF ReadDispatcher
<1>2. events \in Nat /\ n \in [key : Keys, event : Nat] /\ n.event = events + 1
  BY DEF CallsInv, CallsTyped
<1> HIDE DEF n
<1>3. Called' = Called
  BY <1>1 DEF Called
<1>4. \A e \in Called : e \in Nat
  BY CalledNumbers
<1>5. CallsTyped'
  BY <1>1, <1>2 DEF CallsInv, CallsTyped
<1>6. NotifyingFresh'
  <2>1. \A m \in notifying : m.event \in Nat /\ m.event <= events /\ m.event \notin Called
    BY DEF CallsInv, CallsTyped, NotifyingFresh
  <2>2. \A e \in Called : e <= events /\ e \in Nat
    BY <1>4 DEF CallsInv, NotifyingFresh
  <2>3. n.event \notin Called
    BY <1>2, <2>2
  <2>4. \A m \in notifying' : m.event <= events' /\ m.event \notin Called'
    BY <1>1, <1>2, <1>3, <2>1, <2>3
  <2>5. ASSUME NEW l \in notifying', NEW m \in notifying', l.event = m.event
        PROVE  l = m
    BY <1>1, <1>2, <2>1, <2>5 DEF CallsInv, NotifyingFresh
  <2>6. \A e \in Called' : e <= events'
    BY <1>1, <1>2, <1>3, <2>2
  <2> QED BY <2>4, <2>5, <2>6 DEF NotifyingFresh
<1>7. CallsDiffer'
  BY <1>1 DEF CallsInv, CallsDiffer, OneCallPerSet
<1>8. ASSUME NEW rank, NEW top, Ranked(rank, top) PROVE Ranked(rank, top)'
  BY <1>1, <1>3, <1>8 DEF Ranked
<1>9. InPostingOrder'
  BY <1>8 DEF CallsInv, InPostingOrder
<1> QED BY <1>5, <1>6, <1>7, <1>9 DEF CallsInv

\* calls for one notification, no two the same
CallsFor(n, calls) ==
  /\ calls \in Seq(Call)
  /\ \A i \in DOMAIN calls : calls[i].event = n.event
  /\ \A i, j \in DOMAIN calls : calls[i] = calls[j] => i = j

\* they are put at the end of the queue
LEMMA PostKeeps ==
  ASSUME CallsInv, NEW n \in notifying, NEW calls, CallsFor(n, calls),
         Post(calls), notifying' = notifying \ {n},
         UNCHANGED <<received, events>>
  PROVE  CallsInv'
<1> DEFINE p == Len(posted)
           c == Len(calls)
           new == posted \o calls
           own == n.event
<1>p. posted' = new
  BY DEF Post
<1>0. posted \in Seq(Call) /\ calls \in Seq(Call) /\ p \in Nat /\ c \in Nat
  BY DEF CallsInv, CallsTyped, CallsFor
<1>1. /\ new \in Seq(Call) /\ DOMAIN posted = 1 .. p /\ DOMAIN calls = 1 .. c
      /\ DOMAIN new = 1 .. p + c
      /\ \A i \in 1 .. p + c : new[i] = IF i <= p THEN posted[i] ELSE calls[i - p]
  BY <1>0, ConcatProperties
<1> HIDE DEF new, p, c, own
<1>c. p \in Nat /\ \A i \in DOMAIN new : new[i] \in Call
  BY <1>0, <1>1
<1>2. ASSUME NEW i \in DOMAIN new
      PROVE  \/ i \in DOMAIN posted /\ new[i] = posted[i]
             \/ i > p /\ i - p \in DOMAIN calls /\ new[i] = calls[i - p]
  BY <1>0, <1>1
<1>3. ASSUME NEW i \in DOMAIN new
      PROVE  i \in Nat /\ (i \in DOMAIN posted => i <= p)
  BY <1>0, <1>1
<1>4. /\ own \in Nat /\ own <= events /\ own \notin Called /\ events \in Nat
      /\ \A e \in Called : e \in Nat /\ e <= events
  BY CalledNumbers DEF CallsInv, CallsTyped, NotifyingFresh, own
<1>a. \A i \in DOMAIN calls : calls[i].event = own
  BY DEF CallsFor, own
<1>b. \A i \in DOMAIN posted : posted[i].event \in Called
  BY CalledNumbers
<1>5. Called' \subseteq Called \cup {own}
  <2>1. \A i \in DOMAIN new : new[i].event \in Called \cup {own}
    BY <1>2, <1>a, <1>b
  <2> QED BY <1>p, <2>1, CalledNumbers DEF Called
<1>6. CallsTyped'
  BY <1>p, <1>1 DEF CallsInv, CallsTyped
<1>7. NotifyingFresh'
  <2>1. \A m \in notifying' : m.event <= events /\ m.event \notin Called \cup {own}
    BY DEF CallsInv, NotifyingFresh, own
  <2> QED BY <1>4, <1>5, <2>1 DEF CallsInv, NotifyingFresh
<1>8. CallsDiffer'
  <2>1. ASSUME NEW i \in DOMAIN new, NEW j \in DOMAIN new, new[i] = new[j]
        PROVE  i = j
    <3>1. CASE i \in DOMAIN posted /\ new[i] = posted[i]
      <4>1. posted[i].event # own
        BY <1>4, <1>b, <3>1
      <4>2. j \in DOMAIN posted /\ new[j] = posted[j]
        BY Zenon, <1>2, <1>a, <2>1, <3>1, <4>1
      <4> QED BY Zenon, <2>1, <3>1, <4>2 DEF CallsInv, CallsDiffer
    <3>2. CASE i > p /\ i - p \in DOMAIN calls /\ new[i] = calls[i - p]
      <4>1. CASE j \in DOMAIN posted /\ new[j] = posted[j]
        BY Zenon, <1>4, <1>a, <1>b, <2>1, <3>2, <4>1
      <4>2. CASE j > p /\ j - p \in DOMAIN calls /\ new[j] = calls[j - p]
        <5>1. i - p = j - p
          BY Zenon, <2>1, <3>2, <4>2 DEF CallsFor
        <5> QED BY <1>0, <1>3, <5>1
      <4> QED BY <1>2, <4>1, <4>2
    <3> QED BY <1>2, <3>1, <3>2
  <2>2. ASSUME NEW i \in DOMAIN new, NEW j \in DOMAIN received[new[i].sub]
        PROVE  received[new[i].sub][j] # ReceiptOf(new[i])
    <3>1. CASE i \in DOMAIN posted /\ new[i] = posted[i]
      BY <3>1 DEF CallsInv, CallsDiffer
    <3>2. CASE i - p \in DOMAIN calls /\ new[i] = calls[i - p]
      <4>1. new[i].sub \in Subscribers
        <5>1. new[i] \in Call
          BY <1>c
        <5> QED BY <5>1 DEF Call
      <4>2. received[new[i].sub][j].event \in Called
        BY <4>1, CalledNumbers
      <4>3. ReceiptOf(new[i]).event = own
        BY <1>a, <3>2 DEF ReceiptOf
      <4> QED BY <1>4, <4>2, <4>3
    <3> QED BY <1>2, <3>1, <3>2
  <2>3. OneCallPerSet'
    BY DEF CallsInv, CallsDiffer, OneCallPerSet
  <2> QED BY <1>p, <2>1, <2>2, <2>3 DEF CallsDiffer
<1>9. InPostingOrder'
  <2>1. PICK rank \in [Nat -> Nat], top \in Nat : Ranked(rank, top)
    BY DEF CallsInv, InPostingOrder
  <2> DEFINE next == [rank EXCEPT ![own] = top + 1]
  <2>2. next \in [Nat -> Nat] /\ top + 1 \in Nat
    BY <1>4
  <2>3. /\ next[own] = top + 1
        /\ \A e \in Called : next[e] = rank[e] /\ rank[e] \in Nat /\ rank[e] <= top
    BY <1>4, <2>1 DEF Ranked
  <2> HIDE DEF next
  <2>4. \A e \in Called' : next[e] <= top + 1
    BY <1>5, <2>3
  <2>5. \A d, e \in Called' : next[d] = next[e] => d = e
    <3>1. \A d, e \in Called : next[d] = next[e] => d = e
      BY <2>1, <2>3 DEF Ranked
    <3>2. \A e \in Called : next[e] # next[own]
      BY <2>3
    <3> QED BY <1>5, <3>1, <3>2
  <2>6. ASSUME NEW i \in DOMAIN new, NEW j \in DOMAIN new, i <= j
        PROVE  next[new[i].event] <= next[new[j].event]
    <3>1. CASE j \in DOMAIN posted /\ new[j] = posted[j]
      <4>0. i \in Nat /\ j \in Nat /\ j <= p
        BY <1>3, <3>1
      <4>1. i \in DOMAIN posted /\ new[i] = posted[i]
        <5>1. ~(i > p)
          BY <1>c, <2>6, <4>0
        <5> QED BY <1>2, <5>1
      <4>2. rank[posted[i].event] <= rank[posted[j].event]
        BY <2>1, <2>6, <3>1, <4>1 DEF Ranked
      <4> QED BY <1>b, <2>3, <3>1, <4>1, <4>2
    <3>2. CASE j - p \in DOMAIN calls /\ new[j] = calls[j - p]
      <4>1. next[new[j].event] = top + 1
        BY <1>a, <2>3, <3>2
      <4>2. new[i].event \in Called \cup {own}
        BY <1>2, <1>a, <1>b
      <4> QED BY <2>3, <4>1, <4>2
    <3> QED BY <1>2, <3>1, <3>2
  <2>7. ASSUME NEW s \in Subscribers, NEW i \in DOMAIN received[s], NEW j \in DOMAIN received[s],
               i <= j
        PROVE  next[received[s][i].event] <= next[received[s][j].event]
    BY <2>1, <2>3, <2>7, CalledNumbers DEF Ranked
  <2>8. ASSUME NEW s \in Subscribers, NEW i \in DOMAIN received[s], NEW j \in DOMAIN new
        PROVE  next[received[s][i].event] <= next[new[j].event]
    <3>0. received[s][i].event \in Called
      BY CalledNumbers
    <3>1. CASE j \in DOMAIN posted /\ new[j] = posted[j]
      <4>1. rank[received[s][i].event] <= rank[posted[j].event]
        BY <2>1, <3>1 DEF Ranked
      <4> QED BY <1>b, <2>3, <3>0, <3>1, <4>1
    <3>2. CASE j - p \in DOMAIN calls /\ new[j] = calls[j - p]
      <4>1. next[new[j].event] = top + 1
        BY <1>a, <2>3, <3>2
      <4> QED BY <2>3, <3>0, <4>1
    <3> QED BY Zenon, <1>2, <3>1, <3>2
  <2>9. Ranked(next, top + 1)'
    BY <1>p, <2>4, <2>5, <2>6, <2>7, <2>8 DEF Ranked
  <2> QED BY <2>2, <2>9 DEF InPostingOrder
<1> QED BY <1>6, <1>7, <1>8, <1>9 DEF CallsInv

\* the next call is taken from the queue, and made or left
LEMMA DeliverKeeps ==
  ASSUME CallsInv, Deliver
  PROVE  CallsInv'
<1> DEFINE call == Head(posted)
           new == ReceiptOf(call)
           u == call.sub
<1>1. /\ posted \in Seq(Call) /\ posted # << >> /\ posted' = Tail(posted)
      /\ notifying' = notifying /\ events' = events
      /\ received \in [Subscribers -> Seq(Receipt)]
  BY DEF CallsInv, CallsTyped, Deliver
<1>2. /\ 1 \in DOMAIN posted /\ call = posted[1] /\ posted' \in Seq(Call)
      /\ \A i \in DOMAIN posted' :
           i \in Nat /\ i >= 1 /\ i + 1 \in DOMAIN posted /\ posted'[i] = posted[i + 1]
  BY <1>1
<1>3. \A i \in DOMAIN posted : posted[i] \in Call /\ posted[i].event \in Called
  BY CalledNumbers
<1>4. \A s \in Subscribers : \A i \in DOMAIN received[s] : received[s][i].event \in Called
  BY CalledNumbers
<1> HIDE DEF call
<1>5. call \in Call /\ u \in Subscribers /\ new \in Receipt /\ new.event = call.event
  <2>1. call \in Call
    BY <1>2, <1>3
  <2> QED BY <2>1 DEF Call, Receipt, ReceiptOf
<1> HIDE DEF new, u
<1>6. /\ received' \in [Subscribers -> Seq(Receipt)]
      /\ \A s \in Subscribers : \A i \in DOMAIN received'[s] :
           /\ i \in DOMAIN received[s] =>
                i \in Nat /\ i <= Len(received[s]) /\ received'[s][i] = received[s][i]
           /\ i \notin DOMAIN received[s] =>
                s = u /\ i = Len(received[s]) + 1 /\ received'[s][i] = new
  <2>0. received[u] \in Seq(Receipt) /\ \A s \in Subscribers : received[s] \in Seq(Receipt)
    BY <1>1, <1>5
  <2>1. CASE u \in living
    <3>1. received' = [received EXCEPT ![u] = Append(received[u], new)]
      BY <2>1 DEF Deliver, u, new, ReceiptOf, call
    <3>2. Append(received[u], new) \in Seq(Receipt)
      BY <1>5, <2>0
    <3>3. \A i \in DOMAIN Append(received[u], new) :
            /\ i \in DOMAIN received[u] =>
                 /\ i \in Nat /\ i <= Len(received[u])
                 /\ Append(received[u], new)[i] = received[u][i]
            /\ i \notin DOMAIN received[u] =>
                 i = Len(received[u]) + 1 /\ Append(received[u], new)[i] = new
      BY <1>5, <2>0
    <3>4. \A s \in Subscribers : \A i \in DOMAIN received[s] : i \in Nat /\ i <= Len(received[s])
      BY <2>0
    <3> DEFINE longer == Append(received[u], new)
    <3> HIDE DEF longer
    <3>5. /\ received'[u] = longer /\ received' \in [Subscribers -> Seq(Receipt)]
          /\ \A s \in Subscribers \ {u} : received'[s] = received[s]
      BY <1>1, <1>5, <3>1, <3>2 DEF longer
    <3>6. \A i \in DOMAIN longer :
            /\ i \in DOMAIN received[u] =>
                 i \in Nat /\ i <= Len(received[u]) /\ longer[i] = received[u][i]
            /\ i \notin DOMAIN received[u] => i = Len(received[u]) + 1 /\ longer[i] = new
      BY <3>3 DEF longer
    <3> QED BY <3>4, <3>5, <3>6
  <2>2. CASE u \notin living
    <3>1. received' = received
      BY <2>2 DEF Deliver, u, call
    <3>2. \A s \in Subscribers : \A i \in DOMAIN received[s] : i \in Nat /\ i <= Len(received[s])
      BY <2>0
    <3> QED BY <1>1, <3>1, <3>2
  <2> QED BY <2>1, <2>2
<1>7. Called' \subseteq Called
  <2>1. \A i \in DOMAIN posted' : posted'[i].event \in Called
    BY <1>2, <1>3
  <2>2. \A s \in Subscribers : \A i \in DOMAIN received'[s] : received'[s][i].event \in Called
    BY <1>2, <1>3, <1>4, <1>5, <1>6
  <2> QED BY <2>1, <2>2 DEF Called
<1>8. CallsTyped'
  BY <1>1, <1>2, <1>6 DEF CallsInv, CallsTyped
<1>9. NotifyingFresh'
  BY <1>1, <1>7 DEF CallsInv, NotifyingFresh
<1>10. \A i \in DOMAIN posted : \A j \in DOMAIN received[posted[i].sub] :
         received[posted[i].sub][j] # ReceiptOf(posted[i])
  BY DEF CallsInv, CallsDiffer
<1>11. CallsDiffer'
  <2>1. ASSUME NEW i \in DOMAIN posted', NEW j \in DOMAIN posted', posted'[i] = posted'[j]
        PROVE  i = j
    <3>1. i + 1 = j + 1
      BY <1>2, <2>1 DEF CallsInv, CallsDiffer
    <3> QED BY <1>2, <3>1
  <2>2. ASSUME NEW s \in Subscribers, NEW i \in DOMAIN received'[s],
               NEW j \in DOMAIN received'[s], received'[s][i] = received'[s][j]
        PROVE  i = j
    <3>1. \A k \in DOMAIN received[u] : received[u][k] # new
      BY Zenon, <1>2, <1>10 DEF u, new
    <3>2. CASE i \in DOMAIN received[s] /\ j \in DOMAIN received[s]
      BY <1>6, <2>2, <3>1, <3>2 DEF CallsInv, CallsDiffer, OneCallPerSet
    <3> QED BY <1>6, <2>2, <3>1, <3>2
  <2>3. ASSUME NEW i \in DOMAIN posted', NEW j \in DOMAIN received'[posted'[i].sub]
        PROVE  received'[posted'[i].sub][j] # ReceiptOf(posted'[i])
    <3>1. i \in Nat /\ i >= 1 /\ i + 1 \in DOMAIN posted /\ posted'[i] = posted[i + 1]
      BY <1>2
    <3>2. posted[i + 1] \in Call /\ posted[i + 1].sub \in Subscribers
      <4>1. posted[i + 1] \in Call
        BY <1>3, <3>1
      <4> QED BY <4>1 DEF Call
    <3>3. CASE /\ j \in DOMAIN received[posted[i + 1].sub]
               /\ received'[posted[i + 1].sub][j] = received[posted[i + 1].sub][j]
      BY <1>10, <3>1, <3>3
    <3>4. CASE posted[i + 1].sub = u /\ received'[u][j] = new
      <4>1. ASSUME new = ReceiptOf(posted[i + 1]) PROVE call = posted[i + 1]
        BY <1>5, <3>2, <3>4, <4>1 DEF Call, ReceiptOf, new, u
      <4>2. call # posted[i + 1]
        BY <1>2, <3>1 DEF CallsInv, CallsDiffer
      <4> QED BY <3>1, <3>4, <4>1, <4>2
    <3> QED BY <1>6, <3>1, <3>2, <3>3, <3>4
  <2> QED BY <2>1, <2>2, <2>3 DEF CallsDiffer, OneCallPerSet
<1>12. InPostingOrder'
  <2>1. PICK rank \in [Nat -> Nat], top \in Nat : Ranked(rank, top)
    BY DEF CallsInv, InPostingOrder
  <2>2. \A e \in Called' : rank[e] <= top
    BY <1>7, <2>1 DEF Ranked
  <2>3. \A d, e \in Called' : rank[d] = rank[e] => d = e
    BY <1>7, <2>1 DEF Ranked
  <2>4. ASSUME NEW i \in DOMAIN posted', NEW j \in DOMAIN posted', i <= j
        PROVE  rank[posted'[i].event] <= rank[posted'[j].event]
    <3>1. i + 1 <= j + 1
      BY <1>2, <2>4
    <3> QED BY Zenon, <1>2, <2>1, <3>1 DEF Ranked
  <2>5. \A s \in Subscribers : \A i \in DOMAIN received[s] : \A j \in DOMAIN posted :
          rank[received[s][i].event] <= rank[posted[j].event]
    BY <2>1 DEF Ranked
  <2>6. ASSUME NEW s \in Subscribers, NEW i \in DOMAIN received'[s],
               NEW j \in DOMAIN received'[s], i <= j
        PROVE  rank[received'[s][i].event] <= rank[received'[s][j].event]
    <3>0. \A k \in DOMAIN received[s] : rank[received[s][k].event] <= rank[new.event]
      BY Zenon, <1>2, <1>5, <2>5
    <3>1. CASE i \in DOMAIN received[s] /\ j \in DOMAIN received[s]
      <4>1. received'[s][i] = received[s][i] /\ received'[s][j] = received[s][j]
        BY Zenon, <1>6, <3>1
      <4> QED BY <2>1, <2>6, <3>1, <4>1 DEF Ranked
    <3>2. CASE s = u /\ received'[s][j] = new
      <4>1. rank[new.event] \in Nat
        BY <1>2, <1>3, <1>5, CalledNumbers
      <4>2. CASE i \in DOMAIN received[s]
        BY Zenon, <1>6, <3>0, <3>2, <4>2
      <4>3. CASE i \notin DOMAIN received[s]
        <5>1. received'[s][i] = new
          BY Zenon, <1>6, <4>3
        <5>2. rank[new.event] <= rank[new.event]
          BY <4>1
        <5> QED BY <3>2, <5>1, <5>2
      <4> QED BY <4>2, <4>3
    <3>3. CASE j \in DOMAIN received[s] /\ i \notin DOMAIN received[s]
      <4> DEFINE n == Len(received[s])
      <4>1. n \in Nat
        BY <1>1
      <4>2. j \in Nat /\ j <= n /\ i = n + 1
        BY Zenon, <1>6, <3>3
      <4> HIDE DEF n
      <4> QED BY <2>6, <4>1, <4>2
    <3> QED BY Zenon, <1>6, <3>1, <3>2, <3>3
  <2>7. ASSUME NEW s \in Subscribers, NEW i \in DOMAIN received'[s], NEW j \in DOMAIN posted'
        PROVE  rank[received'[s][i].event] <= rank[posted'[j].event]
    <3>1. j + 1 \in DOMAIN posted /\ posted'[j] = posted[j + 1] /\ 1 <= j + 1
      BY <1>2
    <3>2. rank[call.event] <= rank[posted[j + 1].event]
      BY Zenon, <1>2, <2>1, <3>1 DEF Ranked
    <3> QED BY Zenon, <1>5, <1>6, <2>5, <3>1, <3>2
  <2>8. Ranked(rank, top)'
    BY <2>2, <2>3, <2>4, <2>6, <2>7 DEF Ranked
  <2> QED BY <2>1, <2>8 DEF InPostingOrder
<1> QED BY <1>8, <1>9, <1>11, <1>12 DEF CallsInv

\* the queue is thrown away with its thread
LEMMA JoinKeeps ==
  ASSUME CallsInv, posted' = << >>, UNCHANGED <<received, notifying, events>>
  PROVE  CallsInv'
<1>1. DOMAIN posted' = {} /\ Called' \subseteq Called /\ posted' \in Seq(Call)
  BY DEF Called
<1>2. CallsTyped' /\ NotifyingFresh'
  BY <1>1 DEF CallsInv, CallsTyped, NotifyingFresh
<1>3. CallsDiffer'
  BY <1>1 DEF CallsInv, CallsDiffer, OneCallPerSet
<1>4. ASSUME NEW rank, NEW top, Ranked(rank, top) PROVE Ranked(rank, top)'
  BY Zenon, <1>1, <1>4 DEF Ranked
<1>5. InPostingOrder'
  BY <1>4 DEF CallsInv, InPostingOrder
<1> QED BY <1>2, <1>3, <1>5 DEF CallsInv

\* a notification goes through its list
LEMMA PostAllKeeps ==
  ASSUME SubscriptionsInv, NEW n \in notifying, PostAll(n)
  PROVE  SubscriptionsInv'
<1> DEFINE list == Unexpired(lists[n.key])
           calls == [i \in DOMAIN list |->
                       [sub |-> list[i].sub, set |-> list[i].set,
                        key |-> n.key, event |-> n.event]]
<1>0. n.key \in Keys /\ n.event \in Nat
  BY DEF SubscriptionsInv, CallsInv, CallsTyped
<1>1. /\ list \in Seq(Entry)
      /\ \A i, j \in DOMAIN list : list[i].sub = list[j].sub /\ list[i].set = list[j].set => i = j
  BY Zenon, <1>0, UnexpiredDiffer DEF SubscriptionsInv
<1>2. /\ lists' = [lists EXCEPT ![n.key] = list]
      /\ notifying' = notifying \ {n}
      /\ UNCHANGED <<held, living, received, service, events, entries>>
      /\ \/ Post(calls)
         \/ \E count \in 0 .. Len(calls) : Post(SubSeq(calls, 1, count))
         \/ UNCHANGED posted
  <2>1. CASE service \in {"open", "detached"}
    BY Zenon, <2>1 DEF PostAll
  <2>2. CASE service = "closed"
    BY <2>2 DEF PostAll
  <2>3. CASE service = "joined"
    BY <2>3 DEF PostAll
  <2> QED BY Zenon, <2>1, <2>2, <2>3 DEF SubscriptionsInv, ServiceTyped
<1>3. ListsInv'
  BY Zenon, <1>0, <1>2, NotifyErases DEF SubscriptionsInv
<1> HIDE DEF list
<1>4. CallsFor(n, calls)
  <2>1. DOMAIN list = 1 .. Len(list) /\ Len(list) \in Nat /\ \A i \in DOMAIN list : list[i] \in Entry
    BY <1>1
  <2>2. \A i \in DOMAIN list : calls[i] \in Call
    BY Zenon, <1>0, <2>1 DEF Entry, Call
  <2>3. DOMAIN calls = DOMAIN list
    OBVIOUS
  <2>4. \A i \in DOMAIN list :
          calls[i].event = n.event /\ calls[i].sub = list[i].sub /\ calls[i].set = list[i].set
    OBVIOUS
  <2>5. calls \in Seq(Call)
    <3>1. calls \in [1 .. Len(list) -> Call]
      BY <2>1, <2>2
    <3> HIDE DEF calls
    <3> QED BY <2>1, <3>1
  <2> HIDE DEF calls
  <2>6. \A i, j \in DOMAIN calls : calls[i] = calls[j] => i = j
    BY <1>1, <2>3, <2>4
  <2> QED BY <2>3, <2>4, <2>5, <2>6 DEF CallsFor
<1> HIDE DEF calls
<1>5. ASSUME NEW count \in 0 .. Len(calls) PROVE CallsFor(n, SubSeq(calls, 1, count))
  <2> DEFINE part == SubSeq(calls, 1, count)
  <2>1. calls \in Seq(Call)
    BY <1>4 DEF CallsFor
  <2>2. /\ part \in Seq(Call)
        /\ \A i \in DOMAIN part : i \in DOMAIN calls /\ part[i] = calls[i]
    BY <2>1
  <2> HIDE DEF part
  <2>3. CallsFor(n, part)
    BY <1>4, <2>2 DEF CallsFor
  <2> QED BY <2>3 DEF part
<1>6. CallsInv'
  <2>1. CASE Post(calls)
    BY <1>2, <1>4, <2>1, PostKeeps DEF SubscriptionsInv
  <2>2. ASSUME NEW count \in 0 .. Len(calls), Post(SubSeq(calls, 1, count))
        PROVE  CallsInv'
    <3> DEFINE part == SubSeq(calls, 1, count)
    <3>1. CallsFor(n, part) /\ Post(part)
      BY <1>5, <2>2
    <3> HIDE DEF part
    <3> QED BY <1>2, <3>1, PostKeeps DEF SubscriptionsInv
  <2>3. CASE UNCHANGED posted
    BY <1>2, <2>3, CallsStay DEF SubscriptionsInv
  <2> QED BY <1>2, <2>1, <2>2, <2>3
<1> QED BY <1>2, <1>3, <1>6 DEF SubscriptionsInv, ServiceTyped

\* a step that does not touch lists and iterators
LEMMA ListsStay ==
  ASSUME ListsInv, UNCHANGED <<lists, held, living, entries>>
  PROVE  ListsInv'
<1>1. ListsTyped'
  BY DEF ListsInv, ListsTyped
<1>2. EntriesDiffer'
  BY DEF ListsInv, EntriesDiffer
<1>3. HeldListed'
  BY DEF ListsInv, HeldListed
<1>4. ListedHeld'
  BY DEF ListsInv, ListedHeld
<1>5. HeldOnce'
  BY DEF ListsInv, HeldOnce
<1> QED BY Zenon, <1>1, <1>2, <1>3, <1>4, <1>5 DEF ListsInv

\* Every step keeps the invariant.
LEMMA SubscriptionsStep ==
  ASSUME SubscriptionsInv, [seNext]_seVars
  PROVE  SubscriptionsInv'
<1> USE DEF SubscriptionsInv, ServiceTyped
<1>1. ASSUME NEW s \in Subscribers, NEW set \in SetIds, NEW key \in Keys,
             Subscribe(s, set, key)
      PROVE  SubscriptionsInv'
  <2>1. UNCHANGED <<posted, received, events, notifying, service>>
    BY <1>1 DEF Subscribe
  <2> QED BY <1>1, <2>1, SubscribeKeeps, CallsStay
<1>2. ASSUME NEW s \in Subscribers, NEW h \in held[s], Unsubscribe(s, h)
      PROVE  SubscriptionsInv'
  <2>1. UNCHANGED <<posted, received, events, notifying, service>>
    BY <1>2 DEF Unsubscribe
  <2> QED BY <1>2, <2>1, UnsubscribeKeeps, CallsStay
<1>3. ASSUME NEW s \in Subscribers, Release(s)
      PROVE  SubscriptionsInv'
  <2>1. UNCHANGED <<posted, received, events, notifying, service>>
    BY <1>3 DEF Release
  <2> QED BY <1>3, <2>1, ReleaseKeeps, CallsStay
<1>4. ASSUME NEW key \in Keys, ReadDispatcher(key)
      PROVE  SubscriptionsInv'
  <2>1. UNCHANGED <<lists, held, living, entries, service>>
    BY <1>4 DEF ReadDispatcher
  <2> QED BY <1>4, <2>1, ReadKeeps, ListsStay
<1>5. ASSUME NEW n \in notifying, PostAll(n)
      PROVE  SubscriptionsInv'
  BY <1>5, PostAllKeeps
<1>6. CASE Deliver
  <2>1. UNCHANGED <<lists, held, living, entries, service>>
    BY <1>6 DEF Deliver
  <2> QED BY <1>6, <2>1, DeliverKeeps, ListsStay
<1>7. CASE Detach \/ Close
  <2>1. /\ UNCHANGED <<lists, held, living, entries, posted, received, events, notifying>>
        /\ ServiceTyped'
    BY <1>7 DEF Detach, Close, ServiceGoes, ServiceTyped
  <2> QED BY <2>1, CallsStay, ListsStay
<1>8. CASE JoinThread
  <2>1. /\ UNCHANGED <<lists, held, living, entries>> /\ posted' = << >>
        /\ UNCHANGED <<received, notifying, events>> /\ ServiceTyped'
    BY <1>8 DEF JoinThread, ServiceGoes, ServiceTyped
  <2> QED BY <2>1, JoinKeeps, ListsStay
<1>9. CASE UNCHANGED seVars
  <2>1. UNCHANGED <<lists, held, living, entries, posted, received, events, notifying, service>>
    BY <1>9 DEF seVars
  <2> QED BY <2>1, CallsStay, ListsStay
<1> QED BY Zenon, <1>1, <1>2, <1>3, <1>4, <1>5, <1>6, <1>7, <1>8, <1>9 DEF seNext

\* It holds at first.
LEMMA SubscriptionsInit == seInit => SubscriptionsInv
<1> SUFFICES ASSUME seInit PROVE SubscriptionsInv
  OBVIOUS
<1>1. /\ lists = [key \in Keys |-> << >>] /\ held = [s \in Subscribers |-> {}]
      /\ living = Subscribers /\ notifying = {} /\ posted = << >>
      /\ received = [s \in Subscribers |-> << >>] /\ events = 0 /\ entries = 0
      /\ service = "open"
  BY DEF seInit
<1>2. ListsTyped /\ CallsTyped
  BY <1>1 DEF ListsTyped, CallsTyped
<1>3. EntriesDiffer /\ HeldListed /\ ListedHeld /\ HeldOnce
  BY <1>1 DEF EntriesDiffer, HeldListed, ListedHeld, HeldOnce
<1>4. DOMAIN posted = {} /\ \A s \in Subscribers : DOMAIN received[s] = {}
  BY <1>1
<1>5. Called = {}
  BY <1>4 DEF Called
<1>6. NotifyingFresh
  BY <1>1, <1>5 DEF NotifyingFresh
<1>7. CallsDiffer
  BY <1>4 DEF CallsDiffer, OneCallPerSet
<1>8. Ranked([e \in Nat |-> 0], 0)
  BY <1>4, <1>5 DEF Ranked
<1>9. [e \in Nat |-> 0] \in [Nat -> Nat] /\ 0 \in Nat
  OBVIOUS
<1>10. InPostingOrder
  BY <1>8, <1>9 DEF InPostingOrder
<1> QED BY <1>1, <1>2, <1>3, <1>6, <1>7, <1>10
        DEF SubscriptionsInv, ServiceTyped, ListsInv, CallsInv

\* The lists of the engine, the iterators into them and the calls under way fit
\* together.
THEOREM SubscriptionsInvariant == seSpec => []SubscriptionsInv
<1>1. SubscriptionsInv /\ [seNext]_seVars => SubscriptionsInv'
  BY SubscriptionsStep
<1> QED BY <1>1, SubscriptionsInit, PTL DEF seSpec

\* The iterators of a living subscriber stay valid, a notification is one call for
\* each subscription set, and all subscribers get notifications in one order, for
\* any number of subscribers, keys, threads that notify, and notifications.
THEOREM AlwaysDeliveredInOrder == seSpec => []DeliveredInOrder
<1>1. ASSUME SubscriptionsInv PROVE IteratorsValid
  <2> SUFFICES ASSUME NEW s \in living, NEW h \in held[s]
               PROVE  \E i \in DOMAIN lists[h.key] :
                        /\ lists[h.key][i] = [entry |-> h.entry, sub |-> s, set |-> h.set]
                        /\ \A j \in DOMAIN lists[h.key] : lists[h.key][j].entry = h.entry => j = i
    BY DEF IteratorsValid
  <2>1. h.key \in Keys
    <3>1. h \in Iterator
      BY <1>1 DEF SubscriptionsInv, ListsInv, ListsTyped
    <3> QED BY <3>1 DEF Iterator
  <2>2. PICK i \in DOMAIN lists[h.key] :
          lists[h.key][i] = [entry |-> h.entry, sub |-> s, set |-> h.set]
    BY <1>1 DEF SubscriptionsInv, ListsInv, HeldListed
  <2>3. lists[h.key][i].entry = h.entry
    BY <2>2
  <2>4. \A j \in DOMAIN lists[h.key] : lists[h.key][j].entry = h.entry => j = i
    BY <1>1, <2>1, <2>2, <2>3 DEF SubscriptionsInv, ListsInv, EntriesDiffer
  <2> QED BY <2>2, <2>4
<1>2. ASSUME SubscriptionsInv PROVE OneCallPerSet
  BY <1>2 DEF SubscriptionsInv, CallsInv, CallsDiffer
<1>3. ASSUME SubscriptionsInv PROVE SameOrder
  <2> SUFFICES ASSUME NEW s \in Subscribers, NEW t \in Subscribers,
                      NEW i \in DOMAIN received[s], NEW j \in DOMAIN received[s],
                      NEW k \in DOMAIN received[t], NEW l \in DOMAIN received[t],
                      i < j, received[s][i].event = received[t][k].event,
                      received[s][j].event = received[t][l].event,
                      received[s][i].event # received[s][j].event
               PROVE  k < l
    BY DEF SameOrder
  <2> DEFINE a == received[s][i].event
             b == received[s][j].event
  <2>1. PICK rank \in [Nat -> Nat], top \in Nat : Ranked(rank, top)
    BY <1>3 DEF SubscriptionsInv, CallsInv, InPostingOrder
  <2>2. a \in Called /\ b \in Called /\ \A e \in Called : e \in Nat
    BY <1>3, CalledNumbers DEF SubscriptionsInv
  <2>3. \A x \in Subscribers : \A m \in DOMAIN received[x] : m \in Nat
    <3> SUFFICES ASSUME NEW x \in Subscribers PROVE \A m \in DOMAIN received[x] : m \in Nat
      OBVIOUS
    <3> DEFINE r == received[x]
    <3>1. r \in Seq(Receipt)
      BY <1>3 DEF SubscriptionsInv, CallsInv, CallsTyped
    <3> HIDE DEF r
    <3>2. \A m \in DOMAIN r : m \in Nat
      BY <3>1
    <3> QED BY <3>2 DEF r
  <2>4. rank[a] <= rank[b] /\ rank[a] # rank[b]
    <3>1. i <= j
      BY <2>3
    <3>2. rank[a] <= rank[b]
      BY Zenon, <2>1, <3>1 DEF Ranked
    <3>3. rank[a] = rank[b] => a = b
      BY <2>1, <2>2 DEF Ranked
    <3> QED BY <3>2, <3>3
  <2>5. l <= k => rank[b] <= rank[a]
    BY Zenon, <2>1 DEF Ranked
  <2>6. rank[a] \in Nat /\ rank[b] \in Nat /\ k \in Nat /\ l \in Nat
    BY <2>1, <2>2, <2>3
  <2> HIDE DEF a, b
  <2> QED BY <2>4, <2>5, <2>6
<1>4. SubscriptionsInv => DeliveredInOrder
  BY <1>1, <1>2, <1>3 DEF DeliveredInOrder
<1> QED BY <1>4, SubscriptionsInvariant, PTL
=============================================================================

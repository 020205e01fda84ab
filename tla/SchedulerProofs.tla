--------------------------- MODULE SchedulerProofs ---------------------------
(***************************************************************************)
(* Theorems about Scheduler, for any delays, any number of tasks and any   *)
(* interleaving of the threads that add them with the worker.              *)
(***************************************************************************)
EXTENDS Scheduler, SequenceTheorems, WellFoundedInduction, TLAPS

Places == {"loop", "run", "until", "enter", "sleep", "test", "ended"}

WorkerState == [at : Places, task : Task, asked : Nat, looked : Nat, deadline : Int]

Typed ==
  /\ now \in Nat /\ added \in Nat
  /\ tasks \in Seq(Task)
  /\ worker \in WorkerState

\* A task to be run at once is due already.
AtOnceIsDue == \A i \in DOMAIN tasks : tasks[i].delay = 0 => tasks[i].due <= now

\* The inductive invariant.
SchedulerInv ==
  /\ Typed
  /\ \A i \in DOMAIN tasks : tasks[i].rank <= added
  /\ TasksInOrder
  /\ AtOnceIsDue
  /\ WakesInTime
  /\ FreeIsFree

-----------------------------------------------------------------------------
(* Sequences. *)

\* A set of natural numbers has its least element.
LEMMA MinIsLeast ==
  ASSUME NEW S \in SUBSET Nat, S # {}
  PROVE  Min(S) \in S /\ \A y \in S : Min(S) <= y
<1>1. PICK x \in S : \A y \in S : ~(<<y, x>> \in OpToRel(<, Nat))
  BY Zenon, NatLessThanWellFounded, WFMin
<1>2. \A y \in S : x <= y
  <2> SUFFICES ASSUME NEW y \in S PROVE ~(y < x)
    OBVIOUS
  <2>1. <<y, x>> \in Nat \X Nat
    OBVIOUS
  <2> QED BY <1>1, <2>1 DEF OpToRel
<1> QED BY <1>2, Zenon DEF Min

\* A sequence with one entry inserted, entry by entry.
LEMMA Inserted ==
  ASSUME NEW T, NEW s \in Seq(T), NEW i \in 1 .. Len(s) + 1, NEW e \in T
  PROVE  /\ InsertAt(s, i, e) \in Seq(T)
         /\ Len(InsertAt(s, i, e)) = Len(s) + 1
         /\ \A j \in 1 .. Len(s) + 1 :
              InsertAt(s, i, e)[j] = IF j < i THEN s[j] ELSE IF j = i THEN e ELSE s[j - 1]
<1> DEFINE a == SubSeq(s, 1, i - 1)
           b == SubSeq(s, i, Len(s))
<1>0. Len(s) \in Nat /\ i \in Nat
  OBVIOUS
<1>1. a \in Seq(T) /\ Len(a) = i - 1 /\ \A j \in 1 .. i - 1 : a[j] = s[j]
  BY <1>0, SubSeqProperties
<1>2. b \in Seq(T) /\ Len(b) = Len(s) - i + 1 /\ \A j \in 1 .. Len(s) - i + 1 : b[j] = s[i + j - 1]
  BY <1>0, SubSeqProperties
<1>3. InsertAt(s, i, e) = (a \o <<e>>) \o b
  BY DEF InsertAt
<1> HIDE DEF a, b
<1> DEFINE c == a \o <<e>>
<1>4. c \in Seq(T) /\ Len(c) = i /\ (\A j \in 1 .. i - 1 : c[j] = s[j]) /\ c[i] = e
  BY <1>0, <1>1, SMTT(40)
<1> HIDE DEF c
<1>5. c \o b \in Seq(T) /\ Len(c \o b) = Len(s) + 1
  BY <1>0, <1>2, <1>4
<1>6. ASSUME NEW j \in 1 .. Len(s) + 1
      PROVE  (c \o b)[j] = IF j < i THEN s[j] ELSE IF j = i THEN e ELSE s[j - 1]
  <2>1. CASE j <= i
    <3>1. (c \o b)[j] = c[j]
      BY <1>0, <1>2, <1>4, <2>1
    <3>2. CASE j = i
      BY <1>0, <1>4, <3>1, <3>2
    <3>3. CASE j # i
      <4>1. j < i /\ j \in 1 .. i - 1
        BY <1>0, <2>1, <3>3
      <4>2. c[j] = s[j]
        BY <1>4, <4>1
      <4> QED BY <3>1, <3>3, <4>1, <4>2
    <3> QED BY Zenon, <3>2, <3>3
  <2>2. CASE j > i
    <3>1. (c \o b)[j] = b[j - i]
      BY <1>0, <1>2, <1>4, <2>2
    <3>2. j - i \in 1 .. Len(s) - i + 1 /\ i + (j - i) - 1 = j - 1
      BY <1>0, <2>2
    <3> QED BY <1>0, <1>2, <2>2, <3>1, <3>2
  <2>3. j <= i \/ j > i
    BY <1>0
  <2> QED BY Zenon, <2>1, <2>2, <2>3
<1> QED BY <1>3, <1>5, <1>6 DEF c

\* The place of a task is after those not due later and before those that are.
LEMMA PlaceDivides ==
  ASSUME Typed, TasksInOrder, NEW task \in Task
  PROVE  /\ PlaceFor(task) \in 1 .. Len(tasks) + 1
         /\ \A j \in DOMAIN tasks : j < PlaceFor(task) => tasks[j].due <= task.due
         /\ \A j \in DOMAIN tasks : j >= PlaceFor(task) => tasks[j].due > task.due
<1> DEFINE later == {i \in DOMAIN tasks : tasks[i].due > task.due}
           p == PlaceFor(task)
<1>1. /\ Len(tasks) \in Nat /\ DOMAIN tasks = 1 .. Len(tasks) /\ task.due \in Nat
      /\ \A i \in DOMAIN tasks : tasks[i].due \in Nat
  <2>1. tasks \in Seq(Task) /\ task.due \in Nat
    BY DEF Typed, Task
  <2>2. \A i \in DOMAIN tasks : tasks[i] \in Task
    BY <2>1
  <2> QED BY <2>1, <2>2 DEF Task
<1>2. p = Min(later \cup {Len(tasks) + 1})
  BY DEF PlaceFor
<1>3. p \in later \cup {Len(tasks) + 1} /\ \A y \in later \cup {Len(tasks) + 1} : p <= y
  <2>1. later \cup {Len(tasks) + 1} \in SUBSET Nat
    BY <1>1
  <2> QED BY Zenon, <1>2, <2>1, MinIsLeast
<1> HIDE DEF p
<1>4. p \in 1 .. Len(tasks) + 1
  BY <1>1, <1>3
<1>5. ASSUME NEW j \in DOMAIN tasks, j < p PROVE tasks[j].due <= task.due
  BY <1>1, <1>3, <1>4, <1>5
<1>6. ASSUME NEW j \in DOMAIN tasks, j >= p PROVE tasks[j].due > task.due
  <2>1. p \in later
    BY <1>1, <1>3, <1>6
  <2>2. j = p \/ p < j
    BY <1>1, <1>4, <1>6
  <2>3. p < j => tasks[p].due <= tasks[j].due
    BY <1>1, <2>1 DEF TasksInOrder
  <2> QED BY <1>1, <2>1, <2>2, <2>3
<1> QED BY <1>4, <1>5, <1>6 DEF p

-----------------------------------------------------------------------------
(* Steps. *)

\* What is known of a task of the queue.
LEMMA Queued ==
  ASSUME Typed
  PROVE  /\ Len(tasks) \in Nat /\ DOMAIN tasks = 1 .. Len(tasks)
         /\ \A i \in DOMAIN tasks : /\ tasks[i] \in Task
                                    /\ tasks[i].due \in Nat /\ tasks[i].rank \in Nat
                                    /\ tasks[i].delay \in Nat
<1>1. tasks \in Seq(Task)
  BY DEF Typed
<1>2. \A i \in DOMAIN tasks : tasks[i] \in Task
  BY <1>1
<1> QED BY <1>1, <1>2 DEF Task

\* The queue is empty when the thread starts.
LEMMA InitInv == scInit => SchedulerInv
<1> SUFFICES ASSUME scInit PROVE SchedulerInv
  OBVIOUS
<1>1. tasks = << >> /\ DOMAIN tasks = {} /\ tasks \in Seq(Task)
  BY DEF scInit
<1>2. Typed
  BY <1>1 DEF scInit, Typed, WorkerState, Awake, NoTask, Task, Places
<1>3. worker.at = "loop"
  BY DEF scInit, Awake
<1> QED BY <1>1, <1>2, <1>3
        DEF SchedulerInv, TasksInOrder, AtOnceIsDue, WakesInTime, FreeIsFree, At

\* A task comes between those due not later and those due later, wakes the
\* worker, and makes the thread busy if it is to be run at once.
LEMMA AddStep ==
  ASSUME SchedulerInv, NEW delay \in Nat, NEW repeats \in BOOLEAN,
         Add(delay, repeats), now' = now,
         worker' \in WorkerState,
         worker'.at = "run" => worker.at = "run"
  PROVE  SchedulerInv'
<1> DEFINE task == [due |-> now + delay, delay |-> delay, rank |-> added + 1,
                    repeats |-> repeats]
           p == PlaceFor(task)
           new == InsertAt(tasks, p, task)
<1>1. /\ tasks' = new /\ added' = added + 1 /\ signalled' = TRUE
      /\ busy' = (busy \/ delay = 0)
  BY DEF Add, SignalledByAdd, BusyByAdd
<1>2. Typed /\ TasksInOrder /\ now \in Nat /\ added \in Nat /\ tasks \in Seq(Task)
  BY DEF SchedulerInv, Typed
<1>3. /\ task \in Task /\ task.due = now + delay /\ task.rank = added + 1
      /\ task.delay = delay /\ task.due \in Nat /\ task.rank \in Nat
  BY <1>2 DEF Task
<1> HIDE DEF task
<1>4. /\ p \in 1 .. Len(tasks) + 1
      /\ \A j \in DOMAIN tasks : j < p => tasks[j].due <= task.due
      /\ \A j \in DOMAIN tasks : j >= p => tasks[j].due > task.due
  BY <1>2, <1>3, PlaceDivides
<1> HIDE DEF p
<1>5. /\ new \in Seq(Task) /\ Len(new) = Len(tasks) + 1
      /\ \A j \in 1 .. Len(tasks) + 1 :
           new[j] = IF j < p THEN tasks[j] ELSE IF j = p THEN task ELSE tasks[j - 1]
  <2>1. tasks \in Seq(Task) /\ p \in 1 .. Len(tasks) + 1 /\ task \in Task
    BY <1>2, <1>3, <1>4
  <2>2. InsertAt(tasks, p, task) \in Seq(Task)
    BY <2>1, Inserted
  <2>3. Len(InsertAt(tasks, p, task)) = Len(tasks) + 1
    BY <2>1, Inserted
  <2>4. ASSUME NEW j \in 1 .. Len(tasks) + 1
        PROVE  InsertAt(tasks, p, task)[j]
                 = IF j < p THEN tasks[j] ELSE IF j = p THEN task ELSE tasks[j - 1]
    BY <2>1, Inserted
  <2> QED BY <2>2, <2>3, <2>4
<1> HIDE DEF new
<1>6. /\ Len(tasks) \in Nat /\ DOMAIN tasks = 1 .. Len(tasks)
      /\ DOMAIN new = 1 .. Len(tasks) + 1
      /\ \A i \in DOMAIN tasks : tasks[i].due \in Nat /\ tasks[i].rank \in Nat
                                 /\ tasks[i].delay \in Nat /\ tasks[i].rank <= added
  <2>1. Len(new) = Len(tasks) + 1 /\ new \in Seq(Task)
    BY <1>5
  <2>2. DOMAIN new = 1 .. Len(tasks) + 1
    BY <2>1
  <2>3. \A i \in DOMAIN tasks : tasks[i].rank <= added
    BY DEF SchedulerInv
  <2> QED BY <1>2, <2>2, <2>3, Queued
\* a place of the new queue is one of the old, or the new task's
<1>7. ASSUME NEW j \in 1 .. Len(tasks) + 1
      PROVE  \/ j < p /\ j \in DOMAIN tasks /\ new[j] = tasks[j]
             \/ j = p /\ new[j] = task
             \/ j > p /\ j - 1 \in DOMAIN tasks /\ j - 1 >= p /\ new[j] = tasks[j - 1]
  <2>1. p \in Nat /\ p >= 1 /\ p <= Len(tasks) + 1
    BY <1>4, <1>6
  <2>2. CASE j < p
    BY <1>5, <1>6, <2>1, <2>2
  <2>3. CASE j = p
    BY <1>5, <1>6, <2>1, <2>3
  <2>4. CASE j > p
    <3>1. j - 1 \in 1 .. Len(tasks) /\ j - 1 >= p /\ ~(j < p) /\ j # p
      BY <1>6, <2>1, <2>4
    <3> QED BY <1>5, <1>6, <2>4, <3>1
  <2> QED BY <2>1, <2>2, <2>3, <2>4
<1>8. TasksInOrder'
  <2> SUFFICES ASSUME NEW i \in 1 .. Len(tasks) + 1, NEW j \in 1 .. Len(tasks) + 1, i < j
               PROVE  \/ new[i].due < new[j].due
                      \/ new[i].due = new[j].due /\ new[i].rank < new[j].rank
    BY <1>1, <1>6 DEF TasksInOrder
  <2>1. CASE j < p
    <3>1. i \in DOMAIN tasks /\ new[i] = tasks[i] /\ j \in DOMAIN tasks /\ new[j] = tasks[j]
      BY <1>4, <1>7, <2>1
    <3> QED BY <1>2, <3>1 DEF TasksInOrder
  <2>2. CASE j = p
    <3>1. i \in DOMAIN tasks /\ new[i] = tasks[i] /\ i < p /\ new[j] = task
      BY <1>4, <1>7, <2>2
    <3>2. tasks[i].due <= task.due /\ tasks[i].rank < task.rank
      <4>1. tasks[i].due <= task.due
        BY <1>4, <3>1
      <4>2. tasks[i].rank \in Nat /\ tasks[i].rank <= added
        BY <1>6, <3>1
      <4> QED BY <1>2, <1>3, <4>1, <4>2
    <3>3. tasks[i].due < task.due \/ tasks[i].due = task.due
      <4>1. tasks[i].due \in Nat /\ task.due \in Nat
        BY <1>3, <1>6, <3>1
      <4> QED BY <3>2, <4>1
    <3> QED BY <3>1, <3>2, <3>3
  <2>3. CASE j > p
    <3>1. j - 1 \in DOMAIN tasks /\ j - 1 >= p /\ new[j] = tasks[j - 1]
      BY <1>4, <1>7, <2>3
    <3>2. CASE i < p
      <4>1. i \in DOMAIN tasks /\ new[i] = tasks[i] /\ i < j - 1
        BY <1>4, <1>6, <1>7, <3>1, <3>2
      <4> DEFINE k == j - 1
      <4>2. k \in DOMAIN tasks /\ i < k /\ new[j] = tasks[k]
        BY <3>1, <4>1
      <4> HIDE DEF k
      <4> QED BY <1>2, <4>1, <4>2 DEF TasksInOrder
    <3>3. CASE i = p
      <4>1. new[i] = task
        BY <1>7, <3>3, <1>4
      <4> QED BY <1>4, <1>6, <3>1, <4>1
    <3>4. CASE i > p
      <4>1. i - 1 \in DOMAIN tasks /\ new[i] = tasks[i - 1] /\ i - 1 < j - 1
        BY <1>4, <1>6, <1>7, <3>4
      <4> QED BY <1>2, <3>1, <4>1 DEF TasksInOrder
    <3> QED BY <1>4, <3>2, <3>3, <3>4
  <2> QED BY <1>4, <2>1, <2>2, <2>3
<1>9. ASSUME NEW i \in DOMAIN new
      PROVE  new[i] = task \/ \E k \in DOMAIN tasks : new[i] = tasks[k]
  BY <1>6, <1>7
<1>10. ASSUME NEW i \in DOMAIN new PROVE new[i].rank <= added + 1
  <2>1. CASE new[i] = task
    BY <1>2, <1>3, <2>1
  <2>2. ASSUME NEW k \in DOMAIN tasks, new[i] = tasks[k] PROVE new[i].rank <= added + 1
    <3>1. tasks[k].rank \in Nat /\ tasks[k].rank <= added
      BY <1>6
    <3> QED BY <1>2, <2>2, <3>1
  <2> QED BY <1>9, <2>1, <2>2
<1>11. AtOnceIsDue'
  <2>1. ASSUME NEW i \in DOMAIN new, new[i].delay = 0 PROVE new[i].due <= now
    <3>1. CASE new[i] = task
      BY <1>2, <1>3, <2>1, <3>1
    <3>2. ASSUME NEW k \in DOMAIN tasks, new[i] = tasks[k] PROVE new[i].due <= now
      BY <2>1, <3>2 DEF SchedulerInv, AtOnceIsDue
    <3> QED BY <1>9, <3>1, <3>2
  <2> QED BY <1>1, <2>1 DEF AtOnceIsDue
<1>12. WakesInTime'
  BY <1>1 DEF WakesInTime
<1>13. FreeIsFree'
  <2> SUFFICES ASSUME ~busy' PROVE ~(worker'.at = "run") /\ \A i \in DOMAIN new : new[i].delay > 0
    BY <1>1 DEF FreeIsFree, At
  <2>1. ~busy /\ delay # 0
    BY <1>1, Zenon
  <2>2. ~(worker.at = "run") /\ \A i \in DOMAIN tasks : tasks[i].delay > 0
    BY <2>1 DEF SchedulerInv, FreeIsFree, At
  <2>3. ASSUME NEW i \in DOMAIN new PROVE new[i].delay > 0
    BY <1>3, <1>9, <2>1, <2>2
  <2> QED BY <2>2, <2>3
<1>14. Typed'
  BY <1>1, <1>2, <1>5 DEF Typed
<1> QED BY <1>1, <1>8, <1>10, <1>11, <1>12, <1>13, <1>14 DEF SchedulerInv

\* A step that leaves the queue alone, while time does not go back, keeps what
\* is said of the queue.
LEMMA QueueKept ==
  ASSUME SchedulerInv, tasks' = tasks, added' = added, now' \in Nat, now' >= now,
         worker' \in WorkerState, WakesInTime', FreeIsFree'
  PROVE  SchedulerInv'
<1>1. Typed /\ TasksInOrder /\ AtOnceIsDue /\ now \in Nat
  BY DEF SchedulerInv, Typed
<1>2. Typed'
  BY <1>1 DEF Typed
<1>3. TasksInOrder'
  BY <1>1 DEF TasksInOrder
<1>4. AtOnceIsDue'
  <2>1. ASSUME NEW i \in DOMAIN tasks, tasks[i].delay = 0 PROVE tasks[i].due <= now'
    <3>1. tasks[i].due <= now /\ tasks[i].due \in Nat
      BY <1>1, <2>1, Queued DEF AtOnceIsDue
    <3> QED BY <1>1, <3>1
  <2> QED BY <2>1 DEF AtOnceIsDue
<1>5. (\A i \in DOMAIN tasks : tasks[i].rank <= added)'
  BY DEF SchedulerInv
<1> QED BY <1>2, <1>3, <1>4, <1>5 DEF SchedulerInv

\* The worker takes the first task if it is due.  If it is not, none is, so
\* that no task to be run at once is left and the thread may call itself free.
LEMMA ExtractStep ==
  ASSUME SchedulerInv, Extract
  PROVE  SchedulerInv'
<1>1. Typed /\ TasksInOrder /\ AtOnceIsDue /\ now \in Nat /\ tasks \in Seq(Task)
      /\ worker \in WorkerState
  BY DEF SchedulerInv, Typed
<1>2. now' = now /\ added' = added
  BY DEF Extract
<1>3. CASE tasks # << >> /\ Head(tasks).due <= now
  <2> DEFINE rest == Tail(tasks)
  <2>1. /\ worker' = [worker EXCEPT !.at = "run", !.task = Head(tasks)]
        /\ tasks' = rest /\ busy' = TRUE
    BY <1>3 DEF Extract
  <2>2. /\ rest \in Seq(Task) /\ Head(tasks) \in Task
        /\ DOMAIN rest = 1 .. Len(tasks) - 1
        /\ \A i \in 1 .. Len(tasks) - 1 : i + 1 \in DOMAIN tasks /\ rest[i] = tasks[i + 1]
    BY <1>1, <1>3
  <2> HIDE DEF rest
  <2>3. worker' \in WorkerState /\ worker'.at = "run"
    BY Zenon, <1>1, <2>1, <2>2 DEF WorkerState, Places
  <2>4. Typed'
    BY <1>1, <1>2, <2>1, <2>2, <2>3 DEF Typed, SchedulerInv
  <2>5. TasksInOrder'
    <3> SUFFICES ASSUME NEW i \in DOMAIN rest, NEW j \in DOMAIN rest, i < j
                 PROVE  \/ rest[i].due < rest[j].due
                        \/ rest[i].due = rest[j].due /\ rest[i].rank < rest[j].rank
      BY <2>1 DEF TasksInOrder
    <3> DEFINE k == i + 1
               l == j + 1
    <3>1. /\ k \in DOMAIN tasks /\ l \in DOMAIN tasks /\ k < l
          /\ rest[i] = tasks[k] /\ rest[j] = tasks[l]
      BY <2>2
    <3> HIDE DEF k, l
    <3> QED BY <1>1, <3>1 DEF TasksInOrder
  <2>6. AtOnceIsDue'
    BY <1>1, <1>2, <2>1, <2>2 DEF AtOnceIsDue
  <2>7. (\A i \in DOMAIN tasks : tasks[i].rank <= added)'
    BY <1>2, <2>1, <2>2 DEF SchedulerInv
  <2>8. WakesInTime' /\ FreeIsFree'
    BY <2>1, <2>3 DEF WakesInTime, FreeIsFree, At
  <2> QED BY <2>4, <2>5, <2>6, <2>7, <2>8 DEF SchedulerInv
<1>4. CASE ~(tasks # << >> /\ Head(tasks).due <= now)
  <2>1. worker' = [worker EXCEPT !.at = "until"] /\ tasks' = tasks
    BY <1>4 DEF Extract, Goes
  <2>2. worker' \in WorkerState /\ worker'.at = "until"
    BY <1>1, <2>1 DEF WorkerState, Places
  <2>3. ASSUME NEW i \in DOMAIN tasks PROVE tasks[i].delay > 0
    <3>1. tasks # << >> /\ Head(tasks) = tasks[1] /\ 1 \in DOMAIN tasks /\ i \in Nat /\ i >= 1
      BY <1>1
    <3>2. tasks[1].due \in Nat /\ tasks[i].due \in Nat /\ tasks[i].delay \in Nat
      BY <1>1, <3>1, Queued
    <3>3. tasks[1].due <= tasks[i].due
      <4>1. CASE i = 1
        BY <3>2, <4>1
      <4>2. CASE 1 < i
        BY <1>1, <3>1, <3>2, <4>2 DEF TasksInOrder
      <4> QED BY <3>1, <4>1, <4>2
    <3>4. ~(tasks[i].due <= now)
      BY <1>1, <1>4, <3>1, <3>2, <3>3
    <3>5. tasks[i].delay # 0
      BY <1>1, <3>4 DEF AtOnceIsDue
    <3> QED BY <3>2, <3>5
  <2>4. WakesInTime' /\ FreeIsFree'
    BY <2>1, <2>2, <2>3 DEF WakesInTime, FreeIsFree, At
  <2> QED BY <1>1, <1>2, <2>1, <2>2, <2>4, QueueKept
<1> QED BY <1>3, <1>4

\* The worker asks to be woken when the first task is due, or at once.
LEMMA UntilFirstStep ==
  ASSUME SchedulerInv, UntilFirst
  PROVE  SchedulerInv'
<1>1. Typed /\ now \in Nat /\ tasks \in Seq(Task) /\ worker \in WorkerState /\ FreeIsFree
  BY DEF SchedulerInv, Typed
<1>2. tasks' = tasks /\ added' = added /\ now' = now /\ busy' = busy
  BY DEF UntilFirst
<1> DEFINE asked == IF tasks = << >> THEN now + IdleWait
                    ELSE IF Head(tasks).due > now THEN Head(tasks).due
                    ELSE now
<1>3. tasks # << >> => Head(tasks) = tasks[1] /\ 1 \in DOMAIN tasks
  BY <1>1
<1>4. tasks # << >> => Head(tasks).due \in Nat
  BY <1>1, <1>3, Queued
<1>5. asked \in Nat /\ (tasks # << >> => asked <= Head(tasks).due \/ asked <= now)
  BY <1>1, <1>4, SchedulerAssumption
<1>6. worker' = [worker EXCEPT !.at = "enter", !.asked = asked, !.looked = now]
  BY DEF UntilFirst
<1> HIDE DEF asked
<1>7. worker' \in WorkerState /\ worker'.at = "enter" /\ worker'.asked = asked
  BY Zenon, <1>1, <1>5, <1>6 DEF WorkerState, Places
<1>8. WakesInTime'
  BY <1>2, <1>5, <1>7 DEF WakesInTime
<1>9. FreeIsFree'
  BY <1>1, <1>2, <1>7 DEF FreeIsFree, At
<1> QED BY <1>1, <1>2, <1>7, <1>8, <1>9, QueueKept

\* Falling asleep changes neither the time asked for nor the event.
LEMMA SleepStep ==
  ASSUME SchedulerInv, Sleep
  PROVE  SchedulerInv'
<1>1. Typed /\ now \in Nat /\ worker \in WorkerState /\ WakesInTime /\ FreeIsFree
  BY DEF SchedulerInv, Typed
<1>2. /\ tasks' = tasks /\ added' = added /\ now' = now /\ busy' = busy
      /\ signalled' = signalled /\ worker.at = "enter"
      /\ worker' = [worker EXCEPT !.at = "sleep",
                                  !.deadline = now + (worker.asked - worker.looked)]
  BY DEF Sleep, At
<1>3. now + (worker.asked - worker.looked) \in Int
  BY <1>1 DEF WorkerState
<1>4. worker' \in WorkerState /\ worker'.at = "sleep" /\ worker'.asked = worker.asked
  BY Zenon, <1>1, <1>2, <1>3 DEF WorkerState, Places
<1>5. WakesInTime'
  BY <1>1, <1>2, <1>4 DEF WakesInTime, At
<1>6. FreeIsFree'
  BY <1>1, <1>2, <1>4 DEF FreeIsFree, At
<1> QED BY <1>1, <1>2, <1>4, <1>5, <1>6, QueueKept

\* A worker that goes to where it neither sleeps nor runs a task.
LEMMA WorkerMoves ==
  ASSUME SchedulerInv, tasks' = tasks, added' = added, now' = now, busy' = busy,
         worker' \in WorkerState, worker'.at \in {"test", "loop", "ended"}
  PROVE  SchedulerInv'
<1>1. now \in Nat /\ FreeIsFree
  BY DEF SchedulerInv, Typed
<1>2. WakesInTime' /\ FreeIsFree'
  BY <1>1 DEF WakesInTime, FreeIsFree, At
<1> QED BY <1>1, <1>2, QueueKept

\* where the worker is after a task, and after its sleep
LEMMA Tests ==
  /\ [Awake EXCEPT !.at = "test"] \in WorkerState
  /\ [Awake EXCEPT !.at = "test"].at = "test"
<1>1. Awake \in WorkerState
  BY DEF Awake, NoTask, WorkerState, Places, Task
<1> QED BY <1>1 DEF WorkerState, Places

\* Every step keeps the invariant.
LEMMA StepInv == SchedulerInv /\ [scNext]_scVars => SchedulerInv'
<1> SUFFICES ASSUME SchedulerInv, [scNext]_scVars PROVE SchedulerInv'
  OBVIOUS
<1>1. now \in Nat /\ worker \in WorkerState /\ WakesInTime /\ FreeIsFree
  BY DEF SchedulerInv, Typed
<1>2. ASSUME NEW delay \in Delays, NEW repeats \in BOOLEAN, AddTask(delay, repeats)
      PROVE  SchedulerInv'
  <2>1. delay \in Nat /\ Add(delay, repeats) /\ now' = now /\ worker' = worker
    BY <1>2, SchedulerAssumption DEF AddTask
  <2> QED BY <1>1, <2>1, AddStep
<1>3. ASSUME NEW delay \in Delays, UploadIfFree(delay) PROVE SchedulerInv'
  BY Zenon, <1>2, <1>3 DEF UploadIfFree
<1>4. CASE Extract
  BY <1>4, ExtractStep
<1>5. CASE UntilFirst
  BY <1>5, UntilFirstStep
<1>6. CASE Sleep
  BY <1>6, SleepStep
<1>7. CASE Wake
  <2>1. /\ tasks' = tasks /\ added' = added /\ now' = now /\ busy' = busy
        /\ worker' = [Awake EXCEPT !.at = "test"]
    BY <1>7 DEF Wake
  <2> QED BY <2>1, Tests, WorkerMoves
<1>8. CASE RunOnce
  <2>1. /\ tasks' = tasks /\ added' = added /\ now' = now /\ busy' = busy
        /\ worker' = [Awake EXCEPT !.at = "test"]
    BY <1>8 DEF RunOnce
  <2> QED BY <2>1, Tests, WorkerMoves
<1>9. CASE RunAgain
  <2>1. Add(worker.task.delay, TRUE) /\ now' = now /\ worker' = [Awake EXCEPT !.at = "test"]
    BY Zenon, <1>9 DEF RunAgain
  <2>2. worker.task.delay \in Nat
    BY <1>1 DEF WorkerState, Task
  <2> QED BY Zenon, <2>1, <2>2, Tests, AddStep
<1>10. CASE Test
  <2> DEFINE place == IF proceed THEN "loop" ELSE "ended"
  <2>1. /\ tasks' = tasks /\ added' = added /\ now' = now /\ busy' = busy
        /\ worker' = [worker EXCEPT !.at = place]
    BY <1>10 DEF Test, Goes
  <2>2. place \in {"loop", "ended"}
    OBVIOUS
  <2> HIDE DEF place
  <2>3. worker' \in WorkerState /\ worker'.at = place
    BY <1>1, <2>1, <2>2 DEF WorkerState, Places
  <2> QED BY <2>1, <2>2, <2>3, WorkerMoves
\* the event is at most set, and the worker stays where it is
<1>11. ASSUME tasks' = tasks, added' = added, now' \in Nat, now' >= now, busy' = busy,
              worker' = worker, signalled' = signalled \/ signalled' = TRUE
       PROVE  SchedulerInv'
  <2>1. FreeIsFree'
    BY <1>1, <1>11 DEF FreeIsFree, At
  <2>2. WakesInTime'
    <3> SUFFICES ASSUME At("enter") \/ At("sleep"), ~signalled', tasks # << >>
                 PROVE  worker.asked <= Head(tasks).due \/ worker.asked <= now'
      BY <1>11 DEF WakesInTime, At
    <3>1. ~signalled
      BY <1>11, Zenon
    <3>2. worker.asked <= Head(tasks).due \/ worker.asked <= now
      BY <1>1, <3>1 DEF WakesInTime
    <3>3. worker.asked \in Nat
      BY <1>1 DEF WorkerState
    <3> QED BY <1>1, <1>11, <3>2, <3>3
  <2> QED BY <1>1, <1>11, <2>1, <2>2, QueueKept
<1>12. CASE Clear \/ Join \/ UNCHANGED scVars
  <2>1. /\ tasks' = tasks /\ added' = added /\ now' = now /\ busy' = busy
        /\ worker' = worker /\ signalled' = signalled
    BY <1>12 DEF Clear, Join, scVars
  <2> QED BY <1>1, <1>11, <2>1
<1>13. CASE WakeWorker
  <2>1. /\ tasks' = tasks /\ added' = added /\ now' = now /\ busy' = busy
        /\ worker' = worker /\ signalled' = TRUE
    BY <1>13 DEF WakeWorker
  <2> QED BY <1>1, <1>11, <2>1
<1>14. CASE Tick
  <2>1. /\ tasks' = tasks /\ added' = added /\ now' = now + 1 /\ busy' = busy
        /\ worker' = worker /\ signalled' = signalled
    BY <1>14 DEF Tick
  <2> QED BY <1>1, <1>11, <2>1
<1> QED BY <1>2, <1>3, <1>4, <1>5, <1>6, <1>7, <1>8, <1>9, <1>10, <1>12, <1>13, <1>14
        DEF scNext

-----------------------------------------------------------------------------

\* The invariant holds in every state of a thread of the engine.
THEOREM SchedulerInvariant ==
  scSpec => []SchedulerInv
BY InitInv, StepInv, PTL DEF scSpec

\* The queue of a thread is in the order in which its tasks are due and, for
\* those due at the same time, were added, whichever threads add them.
THEOREM TasksAlwaysInOrder ==
  scSpec => []TasksInOrder
<1>1. SchedulerInv => TasksInOrder
  BY DEF SchedulerInv
<1> QED BY <1>1, SchedulerInvariant, PTL

\* The worker never sleeps past the first task of its queue, whenever tasks are
\* added between its look at the queue and its sleep: the event of add stays
\* set until the sleep begins.
THEOREM AlwaysWakesInTime ==
  scSpec => []WakesInTime
<1>1. SchedulerInv => WakesInTime
  BY DEF SchedulerInv
<1> QED BY <1>1, SchedulerInvariant, PTL

\* A thread that uploadIfFree takes to be free runs no task and has none that
\* was to be run at once.
THEOREM FreeIsAlwaysFree ==
  scSpec => []FreeIsFree
<1>1. SchedulerInv => FreeIsFree
  BY DEF SchedulerInv
<1> QED BY <1>1, SchedulerInvariant, PTL

\* The queue of a thread is in order, is looked at in time, and is empty of tasks to
\* be run at once when the thread calls itself free, for all delays and any number
\* of tasks.
THEOREM QueueAlwaysServed ==
  scSpec => []QueueServed
<1>1. SchedulerInv => QueueServed
  BY DEF SchedulerInv, QueueServed
<1> QED BY <1>1, SchedulerInvariant, PTL
=============================================================================

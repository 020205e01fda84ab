------------------------ MODULE RequestStreamProofs ------------------------
(***************************************************************************)
(* Theorems about RequestStream, for all lengths of the two messages, all  *)
(* sizes of a block and of the longest message, and a stream that breaks   *)
(* at any point: one exchange of the status protocol or of the block       *)
(* request protocol.                                                       *)
(***************************************************************************)
EXTENDS RequestStream, SequenceTheorems, TLAPS

\* What may be on the way.
Items == [type : {"status", "size", "identifier", "data"}, n : Int]

\* The chunks of a message of length n.
Chunks(n) == (n + BlockSize - 1) \div BlockSize

\* Where the message begins in all that an end is sent: after the status.
Start(e) == IF e = "client" THEN 1 ELSE 0

\* The items that an end is sent in all, and the k-th of them.
Total(e) == Start(e) + 2 + Chunks(length[Other(e)])

Sent(e, k) ==
  LET i == k - Start(e)
      n == length[Other(e)]
  IN  IF i = 0 THEN Item("status", 0)
      ELSE IF i = 1 THEN Item("size", n)
      ELSE IF i = 2 THEN Item("identifier", 0)
      ELSE Item("data", Lower(BlockSize, n - (i - 3) * BlockSize))

\* What the coroutines have still to do after their first step, and later.
AfterWrite  == <<"read_status", "read">>
AfterRead   == <<"write_status", "write">>
LastRead    == <<"read">>
LastWrite   == <<"write">>
Through     == << >>

\* The steps that an end is in while it has not read the whole message.
Reads(e) == IF e = "client" THEN {LastRead} ELSE {LastRead, ServerSteps}

\* How many items have been written to an end: what its peer has still to do
\* tells.
Written(e) ==
  IF e = "client"
  THEN IF length["server"] = 0 THEN 0
       ELSE IF todo["server"] = LastWrite THEN 1
       ELSE IF todo["server"] = Through THEN Total(e) ELSE 0
  ELSE IF todo["client"] = ClientSteps THEN 0 ELSE Total(e)

\* How far an end is that has taken c items: before the message, in it, after it.
Before(e, c) ==
  /\ c <= Start(e)
  /\ todo[e] \in IF c < Start(e) THEN {ClientSteps, AfterWrite} ELSE Reads(e)
  /\ reading[e] = NotReading
  /\ got[e] = 0

Within(e, c) ==
  /\ Start(e) < c /\ c < Total(e)
  /\ todo[e] \in Reads(e)
  /\ reading[e].size = length[Other(e)]
  /\ reading[e].have = IF c = Start(e) + 1 THEN 0 ELSE (c - Start(e) - 2) * BlockSize
  /\ got[e] = 0
  /\ 0 < length[Other(e)] /\ length[Other(e)] <= MaxSize

After(e, c) ==
  /\ c = Total(e)
  /\ todo[e] \in IF e = "client" THEN {Through} ELSE {AfterRead, LastWrite, Through}
  /\ reading[e] = NotReading
  /\ got[e] = length[Other(e)] /\ length[Other(e)] <= MaxSize

\* An end has taken c items.
HasTaken(e, c) == Before(e, c) \/ Within(e, c) \/ After(e, c)

\* What is on the way to an end is what was written and not taken, up to item w:
\* up to the last, unless the stream broke.
OnTheWay(e, c, w) ==
  /\ c <= w /\ w <= Written(e)
  /\ broken \/ w = Written(e)
  /\ Len(incoming[e]) = w - c
  /\ \A i \in 1 .. (w - c) : incoming[e][i] = Sent(e, c + i)

\* One direction of the stream: what is on the way and how far the reader is.
InStep(e) == \E c, w \in 0 .. Total(e) : OnTheWay(e, c, w) /\ HasTaken(e, c)

\* The types of the variables, and the steps that each coroutine may have left.
StreamTyped ==
  /\ length \in [Ends -> Nat] /\ length["client"] # 0
  /\ todo \in [Ends -> {ClientSteps, ServerSteps, AfterWrite, AfterRead,
                        LastRead, LastWrite, Through}]
  /\ todo["server"] \in IF length["server"] = 0 THEN {LastRead, Through}
                        ELSE {ServerSteps, AfterRead, LastWrite, Through}
  /\ todo["client"] \in {ClientSteps, AfterWrite, LastRead, Through}
  /\ incoming \in [Ends -> Seq(Items)]
  /\ reading \in [Ends -> [size : Nat, have : Nat]]
  /\ got \in [Ends -> Nat]
  /\ outcome \in [Ends -> {"running", "done", "closed", "too_long"}]
  /\ \A e \in Ends : outcome[e] = "done" <=> todo[e] = Through
  /\ broken \in BOOLEAN

\* The inductive invariant.  All that an end is ever sent is known from the lengths;
\* it has taken a part of it from the front, the next part is on the way, and what
\* both coroutines have still to do agrees with where these parts end.
StreamInv == StreamTyped /\ FailsForReason /\ \A e \in Ends : InStep(e)

-----------------------------------------------------------------------------
(* Framing. *)

\* Multiplication by a size is monotone.
LEMMA TimesMonotone ==
  ASSUME NEW b \in Nat, NEW i \in Nat, NEW j \in Nat, i <= j
  PROVE  i * b <= j * b
<1> DEFINE d == j - i
<1>1. d \in Nat /\ j = i + d
  OBVIOUS
<1> HIDE DEF d
<1>2. j * b = i * b + d * b
  BY <1>1
<1>3. d * b \in Nat /\ i * b \in Nat
  BY <1>1
<1> QED BY <1>2, <1>3

\* The chunks of a message cover it, and the last of them is needed.
LEMMA ChunksCover ==
  ASSUME NEW n \in Nat
  PROVE  /\ Chunks(n) \in Nat
         /\ n > 0 => Chunks(n) > 0
         /\ \A i \in Nat : (i < Chunks(n)) <=> (i * BlockSize < n)
<1> DEFINE b == BlockSize
           a == n + b - 1
           q == a \div b
<1>1. b \in Nat \ {0} /\ a \in Nat
  BY SizesAssumption
<1> HIDE DEF b
<1>2. q \in Nat /\ q * b <= a /\ a < (q + 1) * b
  <2> HIDE DEF a
  <2> QED BY <1>1
<1>3. Chunks(n) = q
  BY DEF Chunks, b
<1>4. a = n + b - 1
  OBVIOUS
<1> HIDE DEF q, a
<1>5. ASSUME NEW i \in Nat PROVE i < q <=> i * b < n
  <2>1. (q + 1) * b = q * b + b /\ (i + 1) * b = i * b + b /\ i * b \in Nat /\ q * b \in Nat
    BY <1>1, <1>2
  <2>2. CASE i < q
    <3>1. (i + 1) * b <= q * b
      BY <1>1, <1>2, <2>2, TimesMonotone
    <3> QED BY <1>1, <1>2, <1>4, <2>1, <2>2, <3>1
  <2>3. CASE ~(i < q)
    <3>1. q * b <= i * b
      BY <1>1, <1>2, <2>3, TimesMonotone
    <3> QED BY <1>1, <1>2, <1>4, <2>1, <2>3, <3>1
  <2> QED BY <2>2, <2>3
<1>6. n > 0 => q > 0
  <2>1. 0 < q <=> 0 * b < n
    BY <1>5
  <2> QED BY <1>1, <1>2, <2>1
<1> QED BY <1>2, <1>3, <1>5, <1>6 DEF b

\* What coCompressFramed sends, item by item.
LEMMA FramedIs ==
  ASSUME NEW n \in Nat
  PROVE  /\ Framed(n) \in Seq(Items)
         /\ Len(Framed(n)) = 2 + Chunks(n)
         /\ Framed(n)[1] = Item("size", n)
         /\ Framed(n)[2] = Item("identifier", 0)
         /\ \A i \in 1 .. Chunks(n) :
              Framed(n)[2 + i] = Item("data", Lower(BlockSize, n - (i - 1) * BlockSize))
<1> DEFINE q == Chunks(n)
           rest == [i \in 1 .. q |-> Item("data", Lower(BlockSize, n - (i - 1) * BlockSize))]
<1>1. q \in Nat
  BY ChunksCover
<1>2. \A i \in 1 .. q : Item("data", Lower(BlockSize, n - (i - 1) * BlockSize)) \in Items
  <2> SUFFICES ASSUME NEW i \in 1 .. q
               PROVE  Lower(BlockSize, n - (i - 1) * BlockSize) \in Int
    BY DEF Items, Item
  <2>1. BlockSize \in Int /\ (i - 1) * BlockSize \in Int
    BY <1>1, SizesAssumption
  <2> QED BY <2>1 DEF Lower
<1>3. /\ rest \in Seq(Items) /\ Len(rest) = q
      /\ \A i \in 1 .. q : rest[i] = Item("data", Lower(BlockSize, n - (i - 1) * BlockSize))
  <2> HIDE DEF q
  <2> QED BY <1>1, <1>2
<1>4. Framed(n) = <<Item("size", n)>> \o (<<Item("identifier", 0)>> \o rest)
  BY DEF Framed, CompressFramed, Chunks
<1>5. Item("size", n) \in Items /\ Item("identifier", 0) \in Items
  BY DEF Item, Items
<1> HIDE DEF rest, q
<1>6. /\ Framed(n) \in Seq(Items) /\ Len(Framed(n)) = 2 + q
      /\ Framed(n)[1] = Item("size", n) /\ Framed(n)[2] = Item("identifier", 0)
      /\ \A i \in 1 .. q : Framed(n)[2 + i] = rest[i]
  <2> DEFINE size == Item("size", n)
             head == Item("identifier", 0)
             part == <<head>> \o rest
  <2>1. size \in Items /\ head \in Items
    BY <1>5
  <2>2. rest \in Seq(Items) /\ Len(rest) = q
    BY <1>3
  <2> HIDE DEF size, head
  <2>3. /\ part \in Seq(Items) /\ Len(part) = q + 1 /\ part[1] = head
        /\ \A i \in 1 .. q : part[i + 1] = rest[i]
    BY <1>1, <2>1, <2>2
  <2>4. Framed(n) = <<size>> \o part
    BY <1>4 DEF size, head
  <2> HIDE DEF part
  <2>5. /\ <<size>> \o part \in Seq(Items) /\ Len(<<size>> \o part) = 2 + q
        /\ (<<size>> \o part)[1] = size
        /\ \A i \in 1 .. q + 1 : (<<size>> \o part)[i + 1] = part[i]
    BY <1>1, <2>1, <2>3
  <2>6. 1 \in 1 .. q + 1 /\ 1 + 1 = 2
    BY <1>1
  <2>7. \A i \in 1 .. q : i + 1 \in 1 .. q + 1 /\ (i + 1) + 1 = 2 + i
    BY <1>1
  <2> QED BY Zenon, <2>3, <2>4, <2>5, <2>6, <2>7 DEF size, head
<1> QED BY <1>3, <1>6 DEF q

-----------------------------------------------------------------------------
(* The steps of the coroutines. *)

\* The steps of a coroutine.
Steps == {"read", "write", "read_status", "write_status"}

\* The lists of steps of the two coroutines.
LEMMA StepLists ==
  /\ Head(ClientSteps) = "write" /\ Tail(ClientSteps) = AfterWrite /\ Len(ClientSteps) = 3
  /\ Head(AfterWrite) = "read_status" /\ Tail(AfterWrite) = LastRead /\ Len(AfterWrite) = 2
  /\ Head(LastRead) = "read" /\ Tail(LastRead) = Through /\ Len(LastRead) = 1
  /\ Head(ServerSteps) = "read" /\ Tail(ServerSteps) = AfterRead /\ Len(ServerSteps) = 3
  /\ Head(AfterRead) = "write_status" /\ Tail(AfterRead) = LastWrite /\ Len(AfterRead) = 2
  /\ Head(LastWrite) = "write" /\ Tail(LastWrite) = Through /\ Len(LastWrite) = 1
  /\ Len(Through) = 0
<1>1. Head(ClientSteps) = "write" /\ Len(ClientSteps) = 3
  BY DEF ClientSteps
<1>2. Head(AfterWrite) = "read_status" /\ Len(AfterWrite) = 2
  BY DEF AfterWrite
<1>3. Head(LastRead) = "read" /\ Len(LastRead) = 1
  BY DEF LastRead
<1>4. Head(ServerSteps) = "read" /\ Len(ServerSteps) = 3
  BY DEF ServerSteps
<1>5. Head(AfterRead) = "write_status" /\ Len(AfterRead) = 2
  BY DEF AfterRead
<1>6. Head(LastWrite) = "write" /\ Len(LastWrite) = 1 /\ Len(Through) = 0
  BY DEF LastWrite, Through
<1>7. Tail(ClientSteps) = AfterWrite
  <2> DEFINE t == Tail(ClientSteps)
  <2>1. t \in Seq(Steps) /\ Len(t) = 2 /\ t[1] = AfterWrite[1] /\ t[2] = AfterWrite[2]
    BY DEF ClientSteps, AfterWrite, Steps
  <2>2. AfterWrite \in Seq(Steps) /\ Len(AfterWrite) = 2
    BY DEF AfterWrite, Steps
  <2> HIDE DEF t
  <2>3. \A i \in 1 .. 2 : t[i] = AfterWrite[i]
    BY <2>1
  <2>4. t = AfterWrite
    BY <2>1, <2>2, <2>3, SeqEqual
  <2> QED BY <2>4 DEF t
<1>8. Tail(AfterWrite) = LastRead
  BY DEF AfterWrite, LastRead
<1>9. Tail(LastRead) = Through
  BY DEF LastRead, Through
<1>10. Tail(ServerSteps) = AfterRead
  <2> DEFINE t == Tail(ServerSteps)
  <2>1. t \in Seq(Steps) /\ Len(t) = 2 /\ t[1] = AfterRead[1] /\ t[2] = AfterRead[2]
    BY DEF ServerSteps, AfterRead, Steps
  <2>2. AfterRead \in Seq(Steps) /\ Len(AfterRead) = 2
    BY DEF AfterRead, Steps
  <2> HIDE DEF t
  <2>3. \A i \in 1 .. 2 : t[i] = AfterRead[i]
    BY <2>1
  <2>4. t = AfterRead
    BY <2>1, <2>2, <2>3, SeqEqual
  <2> QED BY <2>4 DEF t
<1>11. Tail(AfterRead) = LastWrite
  BY DEF AfterRead, LastWrite
<1>12. Tail(LastWrite) = Through
  BY DEF LastWrite, Through
<1> QED BY <1>1, <1>2, <1>3, <1>4, <1>5, <1>6, <1>7, <1>8, <1>9, <1>10, <1>11, <1>12

\* The first step of each list.
LEMMA StepHeads ==
  /\ Head(ClientSteps) = "write" /\ Head(AfterWrite) = "read_status" /\ Head(LastRead) = "read"
  /\ Head(ServerSteps) = "read" /\ Head(AfterRead) = "write_status" /\ Head(LastWrite) = "write"
  BY StepLists, Zenon

\* What is left of each list after its first step.
LEMMA StepTails ==
  /\ Tail(ClientSteps) = AfterWrite /\ Tail(AfterWrite) = LastRead /\ Tail(LastRead) = Through
  /\ Tail(ServerSteps) = AfterRead /\ Tail(AfterRead) = LastWrite /\ Tail(LastWrite) = Through
  BY StepLists, Zenon

\* How many steps are left in each list.
LEMMA StepLengths ==
  /\ Len(ClientSteps) = 3 /\ Len(ServerSteps) = 3 /\ Len(AfterWrite) = 2 /\ Len(AfterRead) = 2
  /\ Len(LastRead) = 1 /\ Len(LastWrite) = 1 /\ Len(Through) = 0
  BY StepLists, Zenon

\* No two lists of steps are the same.
LEMMA StepsDiffer ==
  /\ ClientSteps \notin {ServerSteps, AfterWrite, AfterRead, LastRead, LastWrite, Through}
  /\ ServerSteps \notin {AfterWrite, AfterRead, LastRead, LastWrite, Through}
  /\ AfterWrite \notin {AfterRead, LastRead, LastWrite, Through}
  /\ AfterRead \notin {LastRead, LastWrite, Through}
  /\ LastRead \notin {LastWrite, Through}
  /\ LastWrite # Through
<1>1. /\ ClientSteps # ServerSteps /\ AfterWrite # AfterRead /\ LastRead # LastWrite
  BY StepHeads
<1>2. /\ Len(ClientSteps) = 3 /\ Len(ServerSteps) = 3
      /\ Len(AfterWrite) = 2 /\ Len(AfterRead) = 2
      /\ Len(LastRead) = 1 /\ Len(LastWrite) = 1 /\ Len(Through) = 0
  BY Zenon, StepLengths
<1>3. 3 # 2 /\ 3 # 1 /\ 3 # 0 /\ 2 # 1 /\ 2 # 0 /\ 1 # 0
  OBVIOUS
<1>4. ClientSteps \notin {AfterWrite, AfterRead, LastRead, LastWrite, Through}
  BY Zenon, <1>2, <1>3
<1>5. ServerSteps \notin {AfterWrite, AfterRead, LastRead, LastWrite, Through}
  BY Zenon, <1>2, <1>3
<1>6. /\ AfterWrite \notin {LastRead, LastWrite, Through}
      /\ AfterRead \notin {LastRead, LastWrite, Through}
  BY Zenon, <1>2, <1>3
<1>7. LastRead # Through /\ LastWrite # Through
  BY Zenon, <1>2, <1>3
<1> QED BY Zenon, <1>1, <1>4, <1>5, <1>6, <1>7

-----------------------------------------------------------------------------
(* One direction of the stream. *)

\* How many items an end is sent, and how many have been.
LEMMA Bounds ==
  ASSUME StreamTyped, NEW e \in Ends
  PROVE  /\ Other(e) \in Ends /\ length[Other(e)] \in Nat
         /\ Start(e) \in {0, 1}
         /\ Total(e) \in Nat /\ Start(e) + 2 <= Total(e)
         /\ Chunks(length[Other(e)]) \in Nat
         /\ Total(e) = Start(e) + 2 + Chunks(length[Other(e)])
         /\ Written(e) \in 0 .. Total(e)
<1>1. Other(e) \in Ends /\ length[Other(e)] \in Nat
  BY DEF StreamTyped, Ends, Other
<1>2. Start(e) \in {0, 1}
  BY DEF Start
<1>3. Chunks(length[Other(e)]) \in Nat
  BY <1>1, ChunksCover
<1>4. Total(e) = Start(e) + 2 + Chunks(length[Other(e)])
  BY DEF Total
<1>5. Total(e) \in Nat /\ Start(e) + 2 <= Total(e)
  BY <1>2, <1>3, <1>4
<1>6. Written(e) \in {0, 1, Total(e)}
  BY DEF Written
<1>7. 0 \in 0 .. Total(e) /\ 1 \in 0 .. Total(e) /\ Total(e) \in 0 .. Total(e)
  BY <1>2, <1>5
<1> QED BY <1>1, <1>2, <1>3, <1>4, <1>5, <1>6, <1>7

\* An end is as far as before, or goes on to write.
GoesOn(e) ==
  \/ todo'[e] = todo[e]
  \/ e = "client" /\ todo[e] = ClientSteps /\ todo'[e] = AfterWrite
  \/ e = "server" /\ todo[e] \in {AfterRead, LastWrite} /\ todo'[e] \in {LastWrite, Through}

\* An end that does not read stays where it was in the message.
LEMMA TakenStays ==
  ASSUME NEW e \in Ends, NEW c, HasTaken(e, c), GoesOn(e), length' = length,
         reading'[e] = reading[e], got'[e] = got[e]
  PROVE  HasTaken(e, c)'
<1>1. Total(e)' = Total(e)
  BY DEF Total
<1>2. CASE Before(e, c)
  <2>1. (todo'[e] \in IF c < Start(e) THEN {ClientSteps, AfterWrite} ELSE Reads(e))
    BY <1>2, StepsDiffer DEF Before, GoesOn, Reads, Start
  <2> QED BY <1>2, <2>1 DEF Before, HasTaken
<1>3. CASE Within(e, c)
  <2>1. todo'[e] \in Reads(e)
    BY <1>3, StepsDiffer DEF Within, GoesOn, Reads
  <2> QED BY <1>1, <1>3, <2>1 DEF Within, HasTaken
<1>4. CASE After(e, c)
  <2>1. todo'[e] \in IF e = "client" THEN {Through} ELSE {AfterRead, LastWrite, Through}
    BY <1>4, StepsDiffer DEF After, GoesOn, Ends
  <2> QED BY <1>1, <1>4, <2>1 DEF After, HasTaken
<1> QED BY <1>2, <1>3, <1>4 DEF HasTaken

\* Which items are sent depends on the lengths alone.
LEMMA SentStays == ASSUME length' = length, NEW e, NEW k PROVE Sent(e, k)' = Sent(e, k)
  BY DEF Sent

\* nothing happens in this direction
LEMMA QuietKeeps ==
  ASSUME NEW e \in Ends, InStep(e), GoesOn(e), length' = length, broken' = broken,
         Written(e)' = Written(e), incoming'[e] = incoming[e],
         reading'[e] = reading[e], got'[e] = got[e]
  PROVE  InStep(e)'
<1>1. PICK c \in 0 .. Total(e), w \in 0 .. Total(e) : OnTheWay(e, c, w) /\ HasTaken(e, c)
  BY DEF InStep
<1>2. HasTaken(e, c)'
  BY <1>1, TakenStays
<1>3. OnTheWay(e, c, w)'
  BY <1>1, SentStays DEF OnTheWay
<1>4. Total(e)' = Total(e)
  BY DEF Total
<1> QED BY <1>1, <1>2, <1>3, <1>4 DEF InStep

\* Sequence r holds items c + 1 to u: those to v are in s, the others in t.
Extends(r, s, t, c, v, u) ==
  /\ Len(r) = u - c
  /\ \A i \in 1 .. (v - c) : r[i] = s[i]
  /\ \A i \in 1 .. (u - c) :
       i > v - c => /\ i - (v - c) \in 1 .. Len(t)
                    /\ r[i] = t[i - (v - c)]
                    /\ v + (i - (v - c)) = c + i

\* items are written
LEMMA Extended ==
  ASSUME NEW s \in Seq(Items), NEW t \in Seq(Items), NEW r, r = s \o t,
         NEW c \in Nat, NEW v \in Nat, NEW u \in Nat,
         c <= v, Len(s) = v - c, u = v + Len(t)
  PROVE  Extends(r, s, t, c, v, u)
<1>1. Len(r) = Len(s) + Len(t) /\ Len(t) \in Nat
  OBVIOUS
<1>2. \A i \in 1 .. (v - c) : r[i] = s[i]
  OBVIOUS
<1>3. ASSUME NEW i \in 1 .. (u - c), i > v - c
      PROVE  /\ i - (v - c) \in 1 .. Len(t)
             /\ r[i] = t[i - (v - c)]
             /\ v + (i - (v - c)) = c + i
  <2>1. i - (v - c) \in 1 .. Len(t) /\ v + (i - (v - c)) = c + i
    BY <1>1, <1>3
  <2>2. i \in Len(s) + 1 .. Len(s) + Len(t)
    BY <1>1, <1>3
  <2>3. r[i] = t[i - Len(s)]
    BY <2>2, ConcatProperties
  <2> QED BY <2>1, <2>3
<1>4. Len(r) = u - c
  BY <1>1
<1> QED BY Zenon, <1>2, <1>3, <1>4 DEF Extends

\* The items come after what is on the way to an end.
Arrive(e, items) == incoming'[e] = incoming[e] \o items

\* The items are those that an end is to be sent next.
AreSent(e, items) == \A i \in 1 .. Len(items) : items[i] = Sent(e, Written(e) + i)

\* Items are written to an end that takes none meanwhile.
LEMMA SendKeeps ==
  ASSUME StreamTyped, NEW e \in Ends, InStep(e), length' = length,
         ~broken, broken' = broken,
         NEW items \in Seq(Items), Written(e)' = Written(e) + Len(items), Written(e)' <= Total(e),
         AreSent(e, items), Arrive(e, items),
         todo'[e] = todo[e], reading'[e] = reading[e], got'[e] = got[e]
  PROVE  InStep(e)'
<1> DEFINE in == incoming[e]
           v == Written(e)
<1>0. in \in Seq(Items) /\ Len(items) \in Nat /\ Total(e) \in Nat /\ v \in 0 .. Total(e)
  <2>1. in \in Seq(Items)
    BY DEF StreamTyped
  <2>2. Total(e) \in Nat /\ v \in 0 .. Total(e)
    BY Bounds
  <2> QED BY <2>1, <2>2
<1>1. PICK c \in 0 .. Total(e), w \in 0 .. Total(e) : OnTheWay(e, c, w) /\ HasTaken(e, c)
  BY DEF InStep
<1>2. HasTaken(e, c)'
  BY <1>1, TakenStays DEF GoesOn
<1>3. w = v /\ c <= v /\ Len(in) = v - c /\ \A i \in 1 .. (v - c) : in[i] = Sent(e, c + i)
  BY <1>1 DEF OnTheWay
<1>4. Total(e)' = Total(e)
  BY DEF Total
<1>5. \A i \in 1 .. Len(items) : items[i] = Sent(e, v + i)
  BY DEF AreSent
<1>6. PICK u \in 0 .. Total(e) : u = v + Len(items) /\ Written(e)' = u
  BY <1>0
<1>7. c \in Nat /\ v \in Nat /\ u \in Nat /\ c <= v /\ Len(in) = v - c
  BY <1>0, <1>1, <1>3, <1>6
<1>8. /\ Len(incoming'[e]) = u - c
      /\ \A i \in 1 .. (v - c) : incoming'[e][i] = in[i]
      /\ \A i \in 1 .. (u - c) :
           i > v - c => /\ i - (v - c) \in 1 .. Len(items)
                        /\ incoming'[e][i] = items[i - (v - c)]
                        /\ v + (i - (v - c)) = c + i
  <2>1. incoming'[e] = in \o items
    BY DEF Arrive
  <2> HIDE DEF in, v
  <2>2. in \in Seq(Items)
    BY <1>0
  <2>3. c \in Nat /\ v \in Nat /\ u \in Nat
    BY <1>7
  <2>4. c <= v
    BY <1>7
  <2>5. Len(in) = v - c
    BY <1>7
  <2>6. u = v + Len(items)
    BY <1>6
  <2>7. Extends(incoming'[e], in, items, c, v, u)
    BY Zenon, <2>1, <2>2, <2>3, <2>4, <2>5, <2>6, Extended
  <2> QED BY <2>7 DEF Extends
<1> HIDE DEF in, v
<1>9. ASSUME NEW i \in 1 .. (u - c) PROVE incoming'[e][i] = Sent(e, c + i)
  <2>1. CASE i <= v - c
    <3>1. i \in 1 .. (v - c)
      BY <1>0, <1>7, <2>1
    <3> QED BY <1>3, <1>8, <3>1
  <2>2. CASE ~(i <= v - c)
    <3>1. i > v - c
      BY <1>0, <1>7, <2>2
    <3> DEFINE j == i - (v - c)
    <3>2. j \in 1 .. Len(items) /\ incoming'[e][i] = items[j] /\ v + j = c + i
      BY <1>8, <3>1
    <3> HIDE DEF j
    <3>3. items[j] = Sent(e, v + j)
      BY <1>5, <3>2
    <3> QED BY <3>2, <3>3
  <2> QED BY <2>1, <2>2
<1>10. c <= u /\ u <= u
  BY <1>0, <1>6, <1>7
<1>11. OnTheWay(e, c, u)'
  BY <1>6, <1>8, <1>9, <1>10, SentStays DEF OnTheWay
<1> QED BY <1>1, <1>2, <1>4, <1>11 DEF InStep

\* the item that an end meets
LEMMA NextIsSent ==
  ASSUME StreamTyped, NEW e \in Ends, incoming[e] # << >>,
         NEW c \in 0 .. Total(e), NEW w \in 0 .. Total(e), OnTheWay(e, c, w)
  PROVE  Next_(e) = Sent(e, c + 1) /\ c < w
<1> DEFINE in == incoming[e]
<1>1. in \in Seq(Items) /\ in # << >> /\ Total(e) \in Nat
  BY Zenon, Bounds DEF StreamTyped
<1>2. Len(in) = w - c /\ \A i \in 1 .. (w - c) : in[i] = Sent(e, c + i)
  BY DEF OnTheWay
<1>3. Next_(e) = Head(in)
  BY DEF Next_
<1> HIDE DEF in
<1>4. Len(in) \in Nat /\ Len(in) # 0 /\ Head(in) = in[1]
  BY <1>1
<1>5. c < w /\ 1 \in 1 .. (w - c)
  BY <1>1, <1>2, <1>4
<1> QED BY <1>2, <1>3, <1>4, <1>5

\* an item is taken
LEMMA TakeKeeps ==
  ASSUME StreamTyped, NEW e \in Ends, incoming[e] # << >>, Taken(e),
         NEW c \in 0 .. Total(e), NEW w \in 0 .. Total(e), OnTheWay(e, c, w),
         length' = length, broken' = broken, Written(e)' = Written(e), HasTaken(e, c + 1)'
  PROVE  InStep(e)'
<1> DEFINE in == incoming[e]
           new == Tail(in)
<1>1. in \in Seq(Items) /\ in # << >> /\ Total(e) \in Nat
  BY Bounds DEF StreamTyped
<1>2. /\ Len(in) = w - c /\ \A i \in 1 .. (w - c) : in[i] = Sent(e, c + i)
      /\ w <= Written(e) /\ (broken \/ w = Written(e))
  BY DEF OnTheWay
<1>3. incoming'[e] = new
  BY DEF Taken, StreamTyped
<1>4. c < w
  BY NextIsSent
<1> HIDE DEF in
<1>5. Len(new) = w - (c + 1) /\ \A i \in 1 .. (w - (c + 1)) : new[i] = in[i + 1]
  BY <1>1, <1>2, <1>4
<1> HIDE DEF new
<1>6. ASSUME NEW i \in 1 .. (w - (c + 1)) PROVE new[i] = Sent(e, (c + 1) + i)
  <2>1. i + 1 \in 1 .. (w - c) /\ c + (i + 1) = (c + 1) + i
    BY <1>1
  <2>2. in[i + 1] = Sent(e, c + (i + 1))
    BY <1>2, <2>1
  <2> QED BY <1>5, <2>1, <2>2
<1>7. c + 1 \in 0 .. Total(e) /\ c + 1 <= w
  BY <1>1, <1>4
<1>8. OnTheWay(e, c + 1, w)'
  <2>1. \A i \in 1 .. (w - (c + 1)) : incoming'[e][i] = Sent(e, (c + 1) + i)'
    BY <1>3, <1>6, SentStays
  <2> QED BY <1>2, <1>3, <1>5, <1>7, <2>1 DEF OnTheWay
<1>9. Total(e)' = Total(e)
  BY DEF Total
<1> QED BY <1>7, <1>8, <1>9 DEF InStep

\* the stream breaks
LEMMA BreakKeeps ==
  ASSUME StreamTyped, NEW e \in Ends, InStep(e), broken',
         NEW m \in 0 .. Len(incoming[e]), incoming'[e] = SubSeq(incoming[e], 1, m),
         UNCHANGED <<length, todo, reading, got>>
  PROVE  InStep(e)'
<1> DEFINE in == incoming[e]
           new == SubSeq(in, 1, m)
<1>1. in \in Seq(Items) /\ Total(e) \in Nat /\ Written(e) \in 0 .. Total(e) /\ Len(in) \in Nat
  <2>1. in \in Seq(Items)
    BY DEF StreamTyped
  <2>2. Total(e) \in Nat /\ Written(e) \in 0 .. Total(e)
    BY Bounds
  <2> QED BY <2>1, <2>2
<1>2. PICK c \in 0 .. Total(e), w \in 0 .. Total(e) : OnTheWay(e, c, w) /\ HasTaken(e, c)
  BY DEF InStep
<1>3. HasTaken(e, c)'
  BY <1>2, TakenStays DEF GoesOn
<1>4. /\ Len(in) = w - c /\ \A i \in 1 .. (w - c) : in[i] = Sent(e, c + i)
      /\ w <= Written(e)
  BY <1>2 DEF OnTheWay
<1>5. incoming'[e] = new /\ m \in 0 .. Len(in)
  OBVIOUS
<1> HIDE DEF in
<1>6. Len(new) = m /\ \A i \in 1 .. m : new[i] = in[i]
  BY <1>1, <1>5
<1> HIDE DEF new
<1> DEFINE u == c + m
<1>7. u \in 0 .. Total(e) /\ c <= u /\ u <= Written(e) /\ u - c = m
  BY <1>1, <1>4, <1>5
<1>8. \A i \in 1 .. m : new[i] = Sent(e, c + i)
  <2> SUFFICES ASSUME NEW i \in 1 .. m PROVE new[i] = Sent(e, c + i)
    OBVIOUS
  <2>1. i \in 1 .. (w - c)
    BY <1>1, <1>4, <1>5
  <2> QED BY <1>4, <1>6, <2>1
<1>9. Written(e)' = Written(e) /\ Total(e)' = Total(e)
  BY DEF Written, Total
<1> HIDE DEF u
<1>10. OnTheWay(e, c, u)'
  BY <1>5, <1>6, <1>7, <1>8, <1>9, SentStays DEF OnTheWay
<1> QED BY <1>3, <1>7, <1>9, <1>10 DEF InStep

-----------------------------------------------------------------------------
(* The actions. *)

\* Why an exchange may fail.
Reason == broken \/ length["server"] = 0 \/ \E e \in Ends : length[e] > MaxSize

\* There are two ends.
LEMMA OtherEnd ==
  ASSUME NEW e \in Ends
  PROVE  /\ Other(e) \in Ends /\ Other(e) # e /\ Other(Other(e)) = e
         /\ \A d \in Ends : d = e \/ d = Other(e)
  BY DEF Ends, Other

\* after a step an end is where its list of steps says
LEMMA AdvancedIs ==
  ASSUME StreamTyped, NEW e \in Ends, NEW what \in Steps, At(e, what), Advanced(e)
  PROVE  /\ todo'[e] = Tail(todo[e]) /\ todo'[Other(e)] = todo[Other(e)]
         /\ outcome'[Other(e)] = outcome[Other(e)]
         /\ outcome'[e] \in {"running", "done"}
         /\ outcome'[e] = "done" <=> todo'[e] = Through
         /\ DOMAIN todo' = Ends /\ todo' = [d \in Ends |-> todo'[d]]
         /\ outcome' \in [Ends -> {"running", "done", "closed", "too_long"}]
<1>1. /\ todo[e] \in {ClientSteps, ServerSteps, AfterWrite, AfterRead, LastRead, LastWrite}
      /\ outcome[e] = "running"
  BY DEF StreamTyped, At
<1>2. /\ todo' = [todo EXCEPT ![e] = Tail(todo[e])]
      /\ outcome' = IF Len(todo[e]) = 1 THEN [outcome EXCEPT ![e] = "done"] ELSE outcome
  BY DEF Advanced
<1>3. /\ DOMAIN todo = Ends /\ todo \in [Ends -> {ClientSteps, ServerSteps, AfterWrite, AfterRead,
                        LastRead, LastWrite, Through}]
      /\ outcome \in [Ends -> {"running", "done", "closed", "too_long"}]
  BY Zenon DEF StreamTyped
<1>4. todo'[e] = Tail(todo[e]) /\ todo'[Other(e)] = todo[Other(e)] /\ DOMAIN todo' = Ends
      /\ todo' = [d \in Ends |-> todo'[d]]
  <2>1. todo' = [d \in Ends |-> IF d = e THEN Tail(todo[e]) ELSE todo[d]]
    BY Zenon, <1>2, <1>3
  <2>2. Other(e) \in Ends /\ Other(e) # e
    BY OtherEnd
  <2> QED BY <2>1, <2>2
<1>5. Len(todo[e]) = 1 <=> todo[e] \in {LastRead, LastWrite}
  <2>1. CASE todo[e] \in {LastRead, LastWrite}
    BY <2>1, StepLengths
  <2>2. CASE todo[e] \in {ClientSteps, ServerSteps, AfterWrite, AfterRead}
    <3>1. Len(todo[e]) # 1
      BY <2>2, StepLengths
    <3>2. todo[e] \notin {LastRead, LastWrite}
      BY <2>2, StepsDiffer
    <3> QED BY <3>1, <3>2
  <2> QED BY <1>1, <2>1, <2>2
<1>6. Tail(todo[e]) = Through <=> todo[e] \in {LastRead, LastWrite}
  BY Zenon, <1>1, StepTails, StepsDiffer
<1>7. outcome'[e] = (IF todo[e] \in {LastRead, LastWrite} THEN "done" ELSE "running")
  BY <1>1, <1>2, <1>3, <1>5
<1>8. outcome'[Other(e)] = outcome[Other(e)]
      /\ outcome' \in [Ends -> {"running", "done", "closed", "too_long"}]
  BY <1>2, <1>3, OtherEnd
<1> QED BY <1>4, <1>6, <1>7, <1>8

\* where an end is that makes a step
LEMMA StepsAt ==
  ASSUME StreamTyped, NEW e \in Ends, outcome[e] = "running"
  PROVE  /\ Head(todo[e]) = "write" => \/ e = "client" /\ todo[e] = ClientSteps
                                       \/ e = "server" /\ todo[e] = LastWrite
         /\ Head(todo[e]) = "write_status" => e = "server" /\ todo[e] = AfterRead
         /\ Head(todo[e]) = "read_status" => e = "client" /\ todo[e] = AfterWrite
         /\ Head(todo[e]) = "read" => todo[e] \in Reads(e)
         /\ todo[e] # Through
<1>1. todo[e] # Through
  BY DEF StreamTyped
<1>2. CASE e = "client"
  <2>1. todo[e] \in {ClientSteps, AfterWrite, LastRead}
    BY <1>1, <1>2 DEF StreamTyped
  <2> QED BY <1>1, <1>2, <2>1, StepHeads DEF Reads
<1>3. CASE e = "server"
  <2>1. todo[e] \in {LastRead, ServerSteps, AfterRead, LastWrite}
    BY <1>1, <1>3 DEF StreamTyped
  <2> QED BY <1>1, <1>3, <2>1, StepHeads DEF Reads
<1> QED BY <1>2, <1>3 DEF Ends

\* an end fails for a reason
LEMMA FailKeeps ==
  ASSUME StreamInv, NEW e \in Ends, outcome[e] = "running",
         NEW why \in {"closed", "too_long"}, Fail(e, why), Reason
  PROVE  StreamInv'
<1>1. /\ UNCHANGED <<length, todo, incoming, reading, got, broken>>
      /\ outcome' = [outcome EXCEPT ![e] = why]
  BY DEF Fail
<1>2. StreamTyped'
  <2>1. todo[e] # Through
    BY DEF StreamInv, StreamTyped
  <2>2. /\ outcome' \in [Ends -> {"running", "done", "closed", "too_long"}]
        /\ \A d \in Ends : outcome'[d] = "done" <=> todo[d] = Through
    BY Zenon, <1>1, <2>1 DEF StreamInv, StreamTyped
  <2> QED BY <1>1, <2>2 DEF StreamInv, StreamTyped
<1>3. FailsForReason'
  BY <1>1 DEF FailsForReason, Reason
<1>4. ASSUME NEW d \in Ends PROVE InStep(d)'
  <2>1. Written(d)' = Written(d)
    BY <1>1 DEF Written, Total
  <2>2. /\ todo'[d] = todo[d] /\ incoming'[d] = incoming[d] /\ reading'[d] = reading[d]
        /\ got'[d] = got[d] /\ length' = length /\ broken' = broken /\ InStep(d)
    BY <1>1 DEF StreamInv
  <2> QED BY <2>1, <2>2, QuietKeeps DEF GoesOn
<1> QED BY <1>2, <1>3, <1>4 DEF StreamInv

\* an end goes on: no new failure
LEMMA ReasonStays ==
  ASSUME FailsForReason, UNCHANGED <<length, broken>>,
         \A e \in Ends : outcome'[e] \in {outcome[e], "running", "done"}
  PROVE  FailsForReason'
  BY DEF FailsForReason

\* items are written
LEMMA SendStep ==
  ASSUME StreamInv, NEW e \in Ends, NEW what \in Steps, At(e, what),
         NEW items \in Seq(Items), Send(e, items),
         Advanced(e) => /\ GoesOn(e)
                        /\ Written(e)' = Written(e)
                        /\ Written(Other(e))' = Written(Other(e)) + Len(items)
                        /\ Written(Other(e))' <= Total(Other(e))
                        /\ todo'["client"] \in {ClientSteps, AfterWrite, LastRead, Through}
                        /\ todo'["server"] \in
                             IF length["server"] = 0 THEN {LastRead, Through}
                             ELSE {ServerSteps, AfterRead, LastWrite, Through},
         AreSent(Other(e), items)
  PROVE  StreamInv'
<1> DEFINE o == Other(e)
<1>0. o \in Ends /\ o # e /\ \A d \in Ends : d = e \/ d = o
  BY OtherEnd
<1>1. CASE broken
  <2>1. Fail(e, "closed") /\ Reason /\ outcome[e] = "running"
    BY <1>1 DEF Send, Reason, At
  <2> QED BY <2>1, FailKeeps
<1>2. CASE ~broken
  <2>1. /\ incoming' = [incoming EXCEPT ![o] = @ \o items]
        /\ Advanced(e)
        /\ UNCHANGED <<length, reading, got, broken>>
    BY <1>2 DEF Send
  <2>2. /\ todo'[o] = todo[o] /\ outcome'[o] = outcome[o]
        /\ outcome'[e] \in {"running", "done"}
        /\ outcome'[e] = "done" <=> todo'[e] = Through
        /\ DOMAIN todo' = Ends /\ todo' = [d \in Ends |-> todo'[d]]
        /\ outcome' \in [Ends -> {"running", "done", "closed", "too_long"}]
    BY <2>1, AdvancedIs DEF StreamInv
  <2>3. incoming'[e] = incoming[e] /\ incoming'[o] = incoming[o] \o items
        /\ incoming' \in [Ends -> Seq(Items)]
    <3>1. incoming \in [Ends -> Seq(Items)]
      BY DEF StreamInv, StreamTyped
    <3>2. incoming[o] \o items \in Seq(Items)
      BY <1>0, <3>1
    <3> HIDE DEF o
    <3> QED BY <1>0, <2>1, <3>1, <3>2
  <2>4. StreamTyped'
    <3>1. \A d \in Ends : outcome'[d] = "done" <=> todo'[d] = Through
      <4>1. \A d \in Ends : outcome[d] = "done" <=> todo[d] = Through
        BY Zenon DEF StreamInv, StreamTyped
      <4>2. \A d \in Ends : d = e \/ d = o
        BY DEF Ends, Other
      <4>3. outcome[o] = "done" <=> todo[o] = Through
        BY Zenon, <1>0, <4>1
      <4> HIDE DEF o
      <4>4. outcome'[o] = "done" <=> todo'[o] = Through
        BY Zenon, <2>2, <4>3
      <4>5. outcome'[e] = "done" <=> todo'[e] = Through
        BY Zenon, <2>2
      <4> QED BY Zenon, <4>2, <4>4, <4>5
    <3>2. todo' \in [Ends -> {ClientSteps, ServerSteps, AfterWrite, AfterRead,
                        LastRead, LastWrite, Through}]
      <4>1. \A d \in Ends : todo'[d] \in {ClientSteps, ServerSteps, AfterWrite, AfterRead,
                        LastRead, LastWrite, Through}
        BY <2>1 DEF Ends
      <4> QED BY <2>2, <4>1
    <3> QED BY Zenon, <2>1, <2>2, <2>3, <3>1, <3>2 DEF StreamInv, StreamTyped
  <2>5. FailsForReason'
    BY <1>0, <2>1, <2>2, ReasonStays DEF StreamInv
  <2>6. InStep(e)'
    BY <2>1, <2>3, QuietKeeps DEF StreamInv
  <2>7. InStep(o)'
    <3>1. Arrive(o, items)
      BY <2>3 DEF Arrive
    <3>2. /\ StreamTyped /\ InStep(o) /\ length' = length /\ ~broken /\ broken' = broken
          /\ todo'[o] = todo[o] /\ reading'[o] = reading[o] /\ got'[o] = got[o]
          /\ Written(o)' = Written(o) + Len(items) /\ Written(o)' <= Total(o)
          /\ AreSent(o, items)
      BY <1>0, <1>2, <2>1, <2>2 DEF StreamInv
    <3> HIDE DEF o
    <3> QED BY <1>0, <3>1, <3>2, SendKeeps
  <2> QED BY <1>0, <2>4, <2>5, <2>6, <2>7 DEF StreamInv
<1> QED BY <1>1, <1>2

\* what Written says when an end has gone on
LEMMA WrittenOn ==
  ASSUME NEW e \in Ends, length' = length, todo'[Other(e)] = todo[Other(e)]
  PROVE  Written(e)' = Written(e) /\ Total(e)' = Total(e)
<1>1. Total(e)' = Total(e)
  BY DEF Total
<1> QED BY <1>1 DEF Written, Other, Ends

\* The framed message is what the other end is to be sent next.
LEMMA FramedIsSent ==
  ASSUME StreamTyped, NEW e \in Ends, Written(Other(e)) = Start(Other(e))
  PROVE  AreSent(Other(e), Framed(length[e]))
<1> DEFINE items == Framed(length[e])
           n == length[e]
<1>0. n \in Nat
  BY DEF StreamTyped
<1>1. /\ Len(items) = 2 + Chunks(n) /\ Chunks(n) \in Nat
      /\ items[1] = Item("size", n) /\ items[2] = Item("identifier", 0)
      /\ \A i \in 1 .. Chunks(n) :
           items[2 + i] = Item("data", Lower(BlockSize, n - (i - 1) * BlockSize))
  BY Zenon, <1>0, FramedIs, ChunksCover
<1> HIDE DEF items
<1> SUFFICES ASSUME NEW k \in 1 .. Len(items)
             PROVE  items[k] = Sent(Other(e), Start(Other(e)) + k)
  BY DEF AreSent, items
<1>2. (Start(Other(e)) + k) - Start(Other(e)) = k
  BY <1>1 DEF Start
<1>3. length[Other(Other(e))] = n
  BY OtherEnd
<1>4. Sent(Other(e), Start(Other(e)) + k) =
        IF k = 0 THEN Item("status", 0)
        ELSE IF k = 1 THEN Item("size", n)
        ELSE IF k = 2 THEN Item("identifier", 0)
        ELSE Item("data", Lower(BlockSize, n - (k - 3) * BlockSize))
  BY <1>2, <1>3 DEF Sent
<1> HIDE DEF n
<1>5. CASE k = 1 \/ k = 2
  BY <1>1, <1>4, <1>5
<1>6. CASE ~(k = 1 \/ k = 2)
  <2> DEFINE i == k - 2
  <2>1. i \in 1 .. Chunks(n) /\ k = 2 + i /\ i - 1 = k - 3 /\ k # 0
    BY <1>1, <1>6
  <2>2. items[2 + i] = Item("data", Lower(BlockSize, n - (i - 1) * BlockSize))
    BY <1>1, <2>1
  <2> HIDE DEF i
  <2> QED BY <1>4, <1>6, <2>1, <2>2
<1> QED BY <1>5, <1>6

\* a message is written
LEMMA WriteMessageKeeps ==
  ASSUME StreamInv, NEW e \in Ends, WriteMessage(e)
  PROVE  StreamInv'
<1> DEFINE items == Framed(length[e])
           o == Other(e)
<1>0. StreamTyped /\ length[e] \in Nat /\ outcome[e] = "running" /\ Head(todo[e]) = "write"
  BY Zenon DEF StreamInv, StreamTyped, WriteMessage, At
<1>1. items \in Seq(Items) /\ Len(items) = 2 + Chunks(length[e])
  BY Zenon, <1>0, FramedIs
<1>2. At(e, "write") /\ Send(e, items) /\ "write" \in Steps /\ length' = length
  BY Zenon DEF WriteMessage, Steps, Send, Fail
<1>3. ASSUME Advanced(e) PROVE todo'[e] = Tail(todo[e]) /\ todo'[o] = todo[o]
  BY <1>0, <1>2, <1>3, AdvancedIs
<1>4. ASSUME Advanced(e) PROVE Written(e)' = Written(e)
  BY <1>2, <1>3, <1>4, WrittenOn
<1>5. o \in Ends /\ Total(o) = Start(o) + 2 + Chunks(length[e]) /\ Total(o) \in Nat
      /\ Chunks(length[e]) \in Nat
  <2>1. o \in Ends /\ Other(o) = e
    BY OtherEnd
  <2> QED BY <1>0, <2>1, Bounds
<1>6. CASE e = "client" /\ todo[e] = ClientSteps
  <2>1. o = "server" /\ Start(o) = 0 /\ Written(o) = 0
    BY <1>6 DEF Other, Start, Written
  <2>2. AreSent(o, items)
    BY <1>0, <2>1, FramedIsSent
  <2>3. ASSUME Advanced(e)
        PROVE  /\ GoesOn(e)
               /\ Written(o)' = Total(o)
               /\ todo'["client"] \in {ClientSteps, AfterWrite, LastRead, Through}
               /\ todo'["server"] \in
                    IF length["server"] = 0 THEN {LastRead, Through}
                    ELSE {ServerSteps, AfterRead, LastWrite, Through}
    <3>1. todo'["client"] = AfterWrite /\ todo'["server"] = todo["server"]
      BY Zenon, <1>3, <1>6, <2>1, <2>3, StepTails
    <3>2. GoesOn(e)
      BY <1>6, <3>1 DEF GoesOn
    <3>3. Written(o)' = Total(o)
      BY <1>2, <2>1, <3>1, StepsDiffer DEF Written, Total
    <3> QED BY <1>0, <3>1, <3>2, <3>3 DEF StreamTyped
  <2>4. Total(o) = Written(o) + Len(items) /\ Total(o) <= Total(o)
    BY <1>1, <1>5, <2>1
  <2> HIDE DEF items
  <2> QED BY <1>0, <1>1, <1>2, <1>4, <2>2, <2>3, <2>4, SendStep
<1>7. CASE e = "server" /\ todo[e] = LastWrite
  <2>0. length["server"] # 0
    BY <1>0, <1>7, StepsDiffer DEF StreamTyped
  <2>1. o = "client" /\ Start(o) = 1 /\ Written(o) = 1
    BY <1>7, <2>0 DEF Other, Start, Written
  <2>2. AreSent(o, items)
    BY <1>0, <2>1, FramedIsSent
  <2>3. ASSUME Advanced(e)
        PROVE  /\ GoesOn(e)
               /\ Written(o)' = Total(o)
               /\ todo'["client"] \in {ClientSteps, AfterWrite, LastRead, Through}
               /\ todo'["server"] \in
                    IF length["server"] = 0 THEN {LastRead, Through}
                    ELSE {ServerSteps, AfterRead, LastWrite, Through}
    <3>1. todo'["server"] = Through /\ todo'["client"] = todo["client"]
      BY Zenon, <1>3, <1>7, <2>1, <2>3, StepTails
    <3>2. GoesOn(e)
      BY <1>7, <3>1 DEF GoesOn
    <3>3. Written(o)' = Total(o)
      BY <1>2, <2>0, <2>1, <3>1, StepsDiffer DEF Written, Total
    <3> QED BY <1>0, <3>1, <3>2, <3>3 DEF StreamTyped
  <2>4. Total(o) = Written(o) + Len(items) /\ Total(o) <= Total(o)
    BY <1>1, <1>5, <2>1
  <2> HIDE DEF items
  <2> QED BY <1>0, <1>1, <1>2, <1>4, <2>2, <2>3, <2>4, SendStep
<1> QED BY <1>0, <1>6, <1>7, StepsAt

\* the status is written
LEMMA WriteStatusKeeps ==
  ASSUME StreamInv, NEW e \in Ends, WriteStatus(e)
  PROVE  StreamInv'
<1> DEFINE items == <<Item("status", 0)>>
           o == Other(e)
<1>0. StreamTyped /\ outcome[e] = "running" /\ Head(todo[e]) = "write_status"
  BY DEF StreamInv, WriteStatus, At
<1>1. items \in Seq(Items) /\ Len(items) = 1 /\ items[1] = Item("status", 0)
  BY DEF Item, Items
<1>2. At(e, "write_status") /\ Send(e, items) /\ "write_status" \in Steps /\ length' = length
  BY DEF WriteStatus, Steps, Send, Fail
<1>3. e = "server" /\ todo[e] = AfterRead
  BY <1>0, StepsAt
<1>4. length["server"] # 0
  BY <1>0, <1>3, StepsDiffer DEF StreamTyped
<1>5. o = "client" /\ o \in Ends /\ Start(o) = 1 /\ Written(o) = 0
  BY <1>3, <1>4, StepsDiffer DEF Other, Start, Written, Ends
<1> HIDE DEF items
<1>6. AreSent(o, items)
  <2>1. Sent(o, 0 + 1) = Item("status", 0)
    BY <1>5 DEF Sent
  <2>2. \A i \in 1 .. Len(items) : i = 1
    BY <1>1
  <2> QED BY <1>1, <1>5, <2>1, <2>2 DEF AreSent
<1>7. ASSUME Advanced(e)
      PROVE  /\ GoesOn(e)
             /\ Written(e)' = Written(e)
             /\ Written(o)' = 1
             /\ todo'["client"] \in {ClientSteps, AfterWrite, LastRead, Through}
             /\ todo'["server"] \in
                  IF length["server"] = 0 THEN {LastRead, Through}
                  ELSE {ServerSteps, AfterRead, LastWrite, Through}
  <2>1. todo'[e] = Tail(todo[e]) /\ todo'[o] = todo[o]
    BY <1>0, <1>2, <1>7, AdvancedIs
  <2>2. todo'["server"] = LastWrite /\ todo'["client"] = todo["client"]
    BY <1>3, <1>5, <2>1, StepTails
  <2>3. GoesOn(e)
    BY <1>3, <2>2 DEF GoesOn
  <2>4. Written(o)' = 1
    BY <1>2, <1>4, <1>5, <2>2 DEF Written
  <2>5. Written(e)' = Written(e)
    BY <1>2, <2>1, WrittenOn
  <2> QED BY <1>0, <1>4, <2>2, <2>3, <2>4, <2>5 DEF StreamTyped
<1>8. 1 = Written(o) + Len(items) /\ 1 <= Total(o)
  <2>1. Start(o) + 2 <= Total(o) /\ Total(o) \in Nat
    BY <1>0, <1>5, Bounds
  <2> QED BY <1>1, <1>5, <2>1
<1> QED BY Zenon, <1>0, <1>1, <1>2, <1>6, <1>7, <1>8, SendStep

\* an end has read, and goes on or reads more
LEMMA ReadOn ==
  ASSUME StreamTyped, NEW e \in Ends, NEW what \in {"read", "read_status"}, At(e, what),
         length' = length, Advanced(e) \/ UNCHANGED <<todo, outcome>>
  PROVE  /\ todo'[Other(e)] = todo[Other(e)]
         /\ outcome'[Other(e)] = outcome[Other(e)]
         /\ outcome'[e] \in {"running", "done"}
         /\ Written(Other(e))' = Written(Other(e))
         /\ todo' \in [Ends -> {ClientSteps, ServerSteps, AfterWrite, AfterRead,
                                LastRead, LastWrite, Through}]
         /\ todo'["client"] \in {ClientSteps, AfterWrite, LastRead, Through}
         /\ todo'["server"] \in IF length["server"] = 0 THEN {LastRead, Through}
                                ELSE {ServerSteps, AfterRead, LastWrite, Through}
         /\ outcome' \in [Ends -> {"running", "done", "closed", "too_long"}]
         /\ \A d \in Ends : outcome'[d] = "done" <=> todo'[d] = Through
<1> DEFINE o == Other(e)
<1>0. o \in Ends /\ o # e /\ Other(o) = e /\ \A d \in Ends : d = e \/ d = o
  BY OtherEnd
<1>1. outcome[e] = "running" /\ Head(todo[e]) = what /\ what \in Steps
  BY DEF At, Steps
<1>2. CASE UNCHANGED <<todo, outcome>>
  <2>1. Written(o)' = Written(o)
    BY <1>0, <1>2, WrittenOn
  <2> QED BY Zenon, <1>1, <1>2, <2>1 DEF StreamTyped
<1>3. CASE Advanced(e)
  <2>1. /\ todo'[e] = Tail(todo[e]) /\ todo'[o] = todo[o]
        /\ outcome'[o] = outcome[o] /\ outcome'[e] \in {"running", "done"}
        /\ outcome'[e] = "done" <=> todo'[e] = Through
        /\ todo' = [d \in Ends |-> todo'[d]]
        /\ outcome' \in [Ends -> {"running", "done", "closed", "too_long"}]
    BY <1>1, <1>3, AdvancedIs
  <2>2. \A d \in Ends : outcome'[d] = "done" <=> todo'[d] = Through
    BY Zenon, <1>0, <2>1 DEF StreamTyped
  <2>3. todo[e] \in Reads(e) \cup {AfterWrite} /\ (todo[e] = AfterWrite => e = "client")
    BY <1>1, StepsAt, StepsDiffer DEF Reads
  <2>4. CASE e = "client"
    <3>1. todo[e] \in {LastRead, AfterWrite} /\ todo'["client"] \in {LastRead, Through} /\ o = "server"
      BY Zenon, <2>1, <2>3, <2>4, StepTails DEF Reads, Other
    <3>2. Written(o)' = Total(o)' /\ Written(o) = Total(o) /\ Total(o)' = Total(o)
      BY <2>4, <3>1, StepsDiffer DEF Written, Total
    <3>3. todo'["server"] = todo["server"]
      BY <2>1, <3>1
    <3>4. todo'["server"] \in IF length["server"] = 0 THEN {LastRead, Through}
                              ELSE {ServerSteps, AfterRead, LastWrite, Through}
      BY <3>3 DEF StreamTyped
    <3>5. \A d \in Ends : todo'[d] \in {ClientSteps, ServerSteps, AfterWrite, AfterRead,
                                        LastRead, LastWrite, Through}
      BY <3>1, <3>4 DEF Ends
    <3> QED BY <2>1, <2>2, <3>1, <3>2, <3>4, <3>5
  <2>5. CASE e = "server"
    <3>1. o = "client" /\ todo'["client"] = todo["client"]
      BY <2>1, <2>5 DEF Other
    <3>2. todo'["client"] \in {ClientSteps, AfterWrite, LastRead, Through}
      BY <3>1 DEF StreamTyped
    <3>3. CASE length["server"] = 0
      <4>1. todo["server"] = LastRead
        BY <2>3, <2>5, <3>3, StepsDiffer DEF StreamTyped, Reads
      <4>2. todo'["server"] = Through
        BY Zenon, <2>1, <2>5, <4>1, StepTails
      <4>3. Written(o)' = Written(o)
        BY <3>1, <3>3 DEF Written
      <4>5. \A d \in Ends : todo'[d] \in {ClientSteps, ServerSteps, AfterWrite, AfterRead,
                                          LastRead, LastWrite, Through}
        BY <3>2, <4>2 DEF Ends
      <4> QED BY <2>1, <2>2, <3>2, <3>3, <4>2, <4>3, <4>5
    <3>4. CASE length["server"] # 0
      <4>1. todo["server"] = ServerSteps
        BY <2>3, <2>5, <3>4, StepsDiffer DEF StreamTyped, Reads
      <4>2. todo'["server"] = AfterRead
        BY Zenon, <2>1, <2>5, <4>1, StepTails
      <4>3. Written(o)' = 0 /\ Written(o) = 0
        BY <3>1, <3>4, <4>1, <4>2, StepsDiffer DEF Written
      <4>5. \A d \in Ends : todo'[d] \in {ClientSteps, ServerSteps, AfterWrite, AfterRead,
                                          LastRead, LastWrite, Through}
        BY <3>2, <4>2 DEF Ends
      <4> QED BY <2>1, <2>2, <3>2, <3>4, <4>2, <4>3, <4>5
    <3> QED BY <3>3, <3>4
  <2> QED BY <2>4, <2>5 DEF Ends
<1> QED BY <1>2, <1>3

\* an end takes an item
LEMMA TakeStep ==
  ASSUME StreamInv, NEW e \in Ends, NEW what \in {"read", "read_status"}, At(e, what),
         incoming[e] # << >>, Taken(e), length' = length, broken' = broken,
         Advanced(e) \/ UNCHANGED <<todo, outcome>>,
         reading' \in [Ends -> [size : Nat, have : Nat]], got' \in [Ends -> Nat],
         reading'[Other(e)] = reading[Other(e)], got'[Other(e)] = got[Other(e)],
         NEW c \in 0 .. Total(e), NEW w \in 0 .. Total(e), OnTheWay(e, c, w), HasTaken(e, c + 1)'
  PROVE  StreamInv'
<1> DEFINE o == Other(e)
<1>0. o \in Ends /\ o # e /\ Other(o) = e /\ \A d \in Ends : d = e \/ d = o
  BY OtherEnd
<1>1. StreamTyped
  BY DEF StreamInv
<1>2. /\ todo'[o] = todo[o]
      /\ outcome'[o] = outcome[o]
      /\ outcome'[e] \in {"running", "done"}
      /\ Written(o)' = Written(o)
      /\ todo' \in [Ends -> {ClientSteps, ServerSteps, AfterWrite, AfterRead,
                             LastRead, LastWrite, Through}]
      /\ todo'["client"] \in {ClientSteps, AfterWrite, LastRead, Through}
      /\ todo'["server"] \in IF length["server"] = 0 THEN {LastRead, Through}
                             ELSE {ServerSteps, AfterRead, LastWrite, Through}
      /\ outcome' \in [Ends -> {"running", "done", "closed", "too_long"}]
      /\ \A d \in Ends : outcome'[d] = "done" <=> todo'[d] = Through
  BY Zenon, <1>1, ReadOn
<1>3. incoming' \in [Ends -> Seq(Items)] /\ incoming'[o] = incoming[o]
  <2>1. incoming \in [Ends -> Seq(Items)]
    BY <1>1 DEF StreamTyped
  <2>2. Tail(incoming[e]) \in Seq(Items)
    BY <2>1
  <2> HIDE DEF o
  <2> QED BY Zenon, <1>0, <2>1, <2>2 DEF Taken
<1>4. StreamTyped'
  BY Zenon, <1>1, <1>2, <1>3 DEF StreamTyped
<1>5. FailsForReason'
  BY Zenon, <1>0, <1>2, ReasonStays DEF StreamInv
<1>6. InStep(o)'
  BY Zenon, <1>0, <1>2, <1>3, QuietKeeps DEF StreamInv, GoesOn
<1>7. InStep(e)'
  <2>1. Written(e)' = Written(e)
    BY Zenon, <1>2, WrittenOn
  <2> QED BY Zenon, <1>1, <2>1, TakeKeeps
<1> QED BY Zenon, <1>0, <1>4, <1>5, <1>6, <1>7 DEF StreamInv

\* a read fails
LEMMA ReadFailsKeeps ==
  ASSUME StreamInv, NEW e \in Ends, ReadFails(e)
  PROVE  StreamInv'
<1> DEFINE o == Other(e)
<1>0. o \in Ends /\ StreamTyped /\ FailsForReason
  BY OtherEnd DEF StreamInv
<1>1. /\ outcome[e] = "running" /\ Head(todo[e]) \in {"read", "read_status"}
      /\ incoming[e] = << >>
      /\ broken \/ outcome[o] # "running"
      /\ Fail(e, "closed")
  BY DEF ReadFails, At
<1>2. Reason
  <2>1. CASE broken \/ outcome[o] # "done"
    BY <1>0, <1>1, <2>1 DEF Reason, FailsForReason
  <2>2. CASE ~broken /\ outcome[o] = "done"
    <3>1. todo[o] = Through
      BY <1>0, <2>2 DEF StreamTyped
    <3>2. SUFFICES ASSUME length["server"] # 0 PROVE FALSE
      BY DEF Reason
    <3>3. Written(e) = Total(e)
      BY <3>1, <3>2, StepsDiffer DEF Written, Other, Ends
    <3>4. PICK c \in 0 .. Total(e), w \in 0 .. Total(e) : OnTheWay(e, c, w) /\ HasTaken(e, c)
      BY DEF InStep, StreamInv
    <3>5. Len(incoming[e]) = w - c /\ w = Total(e)
      BY <2>2, <3>3, <3>4 DEF OnTheWay
    <3>6. Total(e) \in Nat /\ Start(e) + 2 <= Total(e) /\ Start(e) \in {0, 1}
      BY <1>0, Bounds
    <3>7. Len(incoming[e]) = 0
      BY <1>1
    <3>8. c = Total(e)
      BY <3>5, <3>6, <3>7
    <3>9. After(e, c)
      BY <3>4, <3>6, <3>8 DEF HasTaken, Before, Within
    <3>10. todo[e] \in IF e = "client" THEN {Through} ELSE {AfterRead, LastWrite, Through}
      BY <3>9 DEF After
    <3>11. todo[e] \in Reads(e) \cup {AfterWrite}
      BY <1>0, <1>1, StepsAt
    <3> QED BY <3>10, <3>11, StepsDiffer DEF Reads
  <2> QED BY <2>1, <2>2
<1> QED BY <1>1, <1>2, FailKeeps

\* the status is read
LEMMA ReadStatusKeeps ==
  ASSUME StreamInv, NEW e \in Ends, ReadStatus(e)
  PROVE  StreamInv'
<1>0. StreamTyped /\ At(e, "read_status") /\ incoming[e] # << >>
  BY DEF StreamInv, ReadStatus
<1>1. e = "client" /\ todo[e] = AfterWrite
  BY <1>0, StepsAt DEF At
<1>2. PICK c \in 0 .. Total(e), w \in 0 .. Total(e) : OnTheWay(e, c, w) /\ HasTaken(e, c)
  BY DEF InStep, StreamInv
<1>3. Before(e, c) /\ c < Start(e)
  BY <1>1, <1>2, StepsDiffer DEF HasTaken, Before, Within, After, Reads
<1>4. Start(e) = 1 /\ c = 0 /\ c + 1 = 1
  BY <1>1, <1>3 DEF Start
<1>5. Next_(e) = Sent(e, c + 1)
  BY <1>0, <1>2, NextIsSent
<1>6. Next_(e).type = "status"
  <2>1. (c + 1) - Start(e) = 0
    BY <1>4
  <2>2. Sent(e, c + 1) = Item("status", 0)
    BY Zenon, <2>1 DEF Sent
  <2> QED BY <1>5, <2>2 DEF Item
<1>7. Taken(e) /\ Advanced(e) /\ UNCHANGED <<length, reading, got, broken>>
  BY <1>6 DEF ReadStatus
<1>8. todo'[e] = LastRead
  <2>1. "read_status" \in Steps
    BY DEF Steps
  <2> QED BY Zenon, <1>0, <1>1, <1>7, <2>1, AdvancedIs, StepTails
<1>9. HasTaken(e, c + 1)'
  BY <1>1, <1>3, <1>4, <1>7, <1>8 DEF HasTaken, Before, Reads
<1>10. reading' \in [Ends -> [size : Nat, have : Nat]] /\ got' \in [Ends -> Nat]
  BY Zenon, <1>0, <1>7 DEF StreamTyped
<1> QED BY Zenon, <1>0, <1>2, <1>7, <1>9, <1>10, TakeStep

\* the length is read
LEMMA ReadSizeKeeps ==
  ASSUME StreamInv, NEW e \in Ends, ReadSize(e)
  PROVE  StreamInv'
<1> DEFINE n == length[Other(e)]
           s == Start(e)
<1>0. StreamTyped /\ At(e, "read") /\ incoming[e] # << >> /\ reading[e] = NotReading
  BY DEF StreamInv, ReadSize
<1>1. todo[e] \in Reads(e) /\ outcome[e] = "running"
  BY <1>0, StepsAt DEF At
<1>2. PICK c \in 0 .. Total(e), w \in 0 .. Total(e) : OnTheWay(e, c, w) /\ HasTaken(e, c)
  BY DEF InStep, StreamInv
<1>3. n \in Nat /\ s \in {0, 1} /\ Total(e) \in Nat /\ s + 2 <= Total(e) /\ Other(e) \in Ends
      /\ Written(e) \in 0 .. Total(e)
  BY <1>0, Bounds
<1>4. ~Within(e, c)
  BY <1>0 DEF Within, NotReading
<1>5. ~After(e, c)
  BY <1>1, StepsDiffer DEF After, Reads
<1>6. Before(e, c)
  BY <1>2, <1>4, <1>5 DEF HasTaken
<1>7. c = s /\ got[e] = 0
  <2>1. c <= s /\ ~(c < s)
    BY <1>1, <1>6, StepsDiffer DEF Before, Reads
  <2> QED BY <1>3, <1>6, <2>1 DEF Before
<1>8. Next_(e) = Sent(e, c + 1) /\ c < w /\ w <= Written(e)
  BY <1>0, <1>2, NextIsSent DEF OnTheWay
<1>9. Next_(e) = Item("size", n)
  <2>1. (c + 1) - s = 1
    BY <1>3, <1>7
  <2> QED BY <1>8, <2>1 DEF Sent
<1>10. Next_(e).type = "size" /\ Next_(e).n = n
  BY <1>9 DEF Item
<1>11. 0 < n
  <2>1. Written(e) # 0
    BY <1>3, <1>7, <1>8
  <2>2. n # 0
    BY <1>0, <2>1 DEF StreamTyped, Written, Other, Ends
  <2> QED BY <1>3, <2>2
<1>12. CASE n > MaxSize
  <2>1. Fail(e, "too_long")
    BY <1>10, <1>12 DEF ReadSize
  <2>2. Reason
    BY <1>3, <1>12 DEF Reason
  <2> QED BY <1>1, <2>1, <2>2, FailKeeps
<1>13. CASE ~(n > MaxSize)
  <2>1. /\ reading' = [reading EXCEPT ![e] = [size |-> n, have |-> 0]]
        /\ Taken(e)
        /\ UNCHANGED <<length, todo, got, outcome, broken>>
    BY Zenon, <1>10, <1>13 DEF ReadSize
  <2>2. n <= MaxSize
    BY <1>3, <1>13, SizesAssumption
  <2>3. /\ reading' \in [Ends -> [size : Nat, have : Nat]] /\ got' \in [Ends -> Nat]
        /\ reading'[e].size = n /\ reading'[e].have = 0
        /\ reading'[Other(e)] = reading[Other(e)]
    <3>1. reading \in [Ends -> [size : Nat, have : Nat]] /\ got \in [Ends -> Nat]
      BY <1>0 DEF StreamTyped
    <3>2. Other(e) # e
      BY OtherEnd
    <3> HIDE DEF n
    <3> QED BY <1>3, <2>1, <3>1, <3>2
  <2>4. s < c + 1 /\ c + 1 < Total(e) /\ c + 1 = s + 1
    BY <1>3, <1>7
  <2>5. Total(e)' = Total(e)
    BY <2>1 DEF Total
  <2>6. Within(e, c + 1)'
    BY <1>1, <1>7, <1>11, <2>1, <2>2, <2>3, <2>4, <2>5 DEF Within
  <2>7. HasTaken(e, c + 1)'
    BY <2>6 DEF HasTaken
  <2>8. UNCHANGED <<todo, outcome>> /\ length' = length /\ broken' = broken /\ got' = got
    BY <2>1
  <2> QED BY Zenon, <1>0, <1>2, <2>1, <2>3, <2>7, <2>8, TakeStep
<1> QED BY <1>12, <1>13

\* chunk k of a message, and what has been read with it
LEMMA ChunkIs ==
  ASSUME NEW n \in Nat, NEW k \in Nat, k < Chunks(n), NEW m,
         m = Lower(BlockSize, n - k * BlockSize)
  PROVE  /\ m \in Nat /\ m <= n - k * BlockSize /\ k * BlockSize \in Nat
         /\ k * BlockSize + m < n => /\ k * BlockSize + m = (k + 1) * BlockSize
                                     /\ k + 1 < Chunks(n)
         /\ ~(k * BlockSize + m < n) => k * BlockSize + m = n /\ k + 1 = Chunks(n)
<1>1. Chunks(n) \in Nat /\ k * BlockSize < n /\ (k + 1 < Chunks(n) <=> (k + 1) * BlockSize < n)
  BY ChunksCover
<1> DEFINE b == BlockSize
           kb == k * b
           kb1 == (k + 1) * b
<1>2. b \in Nat \ {0} /\ kb \in Nat /\ kb1 = kb + b
  BY SizesAssumption
<1>3. m = IF b < n - kb THEN b ELSE n - kb
  BY DEF Lower
<1>4. Chunks(n) \in Nat /\ kb < n /\ (k + 1 < Chunks(n) <=> kb1 < n)
  BY <1>1
<1> HIDE DEF b, kb, kb1
<1>5. /\ m \in Nat /\ m <= n - kb /\ kb \in Nat
      /\ kb + m < n => kb + m = kb1 /\ k + 1 < Chunks(n)
      /\ ~(kb + m < n) => kb + m = n /\ k + 1 = Chunks(n)
  BY <1>2, <1>3, <1>4
<1> QED BY <1>5 DEF b, kb, kb1

\* a chunk is read
LEMMA ReadChunkKeeps ==
  ASSUME StreamInv, NEW e \in Ends, ReadChunk(e)
  PROVE  StreamInv'
<1> DEFINE n == length[Other(e)]
           s == Start(e)
           h == reading[e].have
           m == Next_(e).n
<1>0. StreamTyped /\ At(e, "read") /\ incoming[e] # << >> /\ h < reading[e].size
  BY DEF StreamInv, ReadChunk
<1>1. todo[e] \in Reads(e) /\ outcome[e] = "running"
  BY <1>0, StepsAt DEF At
<1>2. PICK c \in 0 .. Total(e), w \in 0 .. Total(e) : OnTheWay(e, c, w) /\ HasTaken(e, c)
  BY DEF InStep, StreamInv
<1>3. n \in Nat /\ s \in {0, 1} /\ Total(e) \in Nat /\ Other(e) \in Ends
      /\ Chunks(n) \in Nat /\ Total(e) = s + 2 + Chunks(n)
  BY <1>0, Bounds
<1>4. ~Before(e, c) /\ ~After(e, c)
  <2>1. ~(NotReading.have < NotReading.size)
    BY DEF NotReading
  <2>2. reading[e] # NotReading
    BY <1>0, <2>1
  <2> QED BY <2>2 DEF Before, After
<1>5. Within(e, c)
  BY <1>2, <1>4 DEF HasTaken
<1>6. /\ s < c /\ c < Total(e) /\ reading[e].size = n
      /\ h = IF c = s + 1 THEN 0 ELSE (c - s - 2) * BlockSize
      /\ got[e] = 0 /\ 0 < n /\ n <= MaxSize
  BY <1>5 DEF Within
<1>7. Next_(e) = Sent(e, c + 1)
  BY <1>0, <1>2, NextIsSent
\* what the item does to the reading
<1>8. /\ Next_(e).type \in {"identifier", "data"}
      /\ m \in Nat /\ h \in Nat /\ m <= n - h
      /\ h + m < n => c + 1 < Total(e) /\ c + 1 # s + 1 /\ h + m = ((c + 1) - s - 2) * BlockSize
      /\ ~(h + m < n) => c + 1 = Total(e) /\ h + m = n
  <2>1. CASE c = s + 1
    <3>1. (c + 1) - s = 2
      BY <1>3, <2>1
    <3>2. Next_(e) = Item("identifier", 0)
      BY <1>7, <3>1 DEF Sent
    <3>3. Next_(e).type = "identifier" /\ m = 0 /\ h = 0
      BY <1>6, <2>1, <3>2 DEF Item
    <3>4. Chunks(n) > 0
      BY <1>3, <1>6, ChunksCover
    <3>5. c + 1 < Total(e) /\ c + 1 # s + 1 /\ (c + 1) - s - 2 = 0
      BY <1>3, <2>1, <3>4
    <3>6. 0 * BlockSize = 0
      BY SizesAssumption
    <3>7. 0 = ((c + 1) - s - 2) * BlockSize
      BY <3>5, <3>6
    <3> HIDE DEF n, s, h, m
    <3> QED BY <1>3, <1>6, <3>3, <3>5, <3>7
  <2>2. CASE c # s + 1
    <3>1. PICK k \in Nat : k = c - s - 2 /\ (c + 1) - s = k + 3 /\ k < Chunks(n)
                           /\ (c + 1) - s - 2 = k + 1
      <4>1. c - s - 2 \in Nat /\ (c + 1) - s = (c - s - 2) + 3 /\ c - s - 2 < Chunks(n)
            /\ (c + 1) - s - 2 = (c - s - 2) + 1
        BY <1>3, <1>6, <2>2
      <4> QED BY <4>1
    <3>2. Next_(e) = Item("data", Lower(BlockSize, n - k * BlockSize))
      <4>1. ((c + 1) - s) - 3 = k /\ (c + 1) - s \notin {0, 1, 2}
        BY <3>1
      <4> QED BY <1>7, <4>1 DEF Sent
    <3>3. Next_(e).type = "data" /\ m = Lower(BlockSize, n - k * BlockSize)
      BY <3>2 DEF Item
    <3>4. h = k * BlockSize
      BY <1>6, <2>2, <3>1
    <3>5. n \in Nat /\ k < Chunks(n)
      BY <1>3, <3>1
    <3> HIDE DEF n, s, h, m
    <3>6. /\ m \in Nat /\ m <= n - k * BlockSize /\ k * BlockSize \in Nat
          /\ k * BlockSize + m < n => /\ k * BlockSize + m = (k + 1) * BlockSize
                                      /\ k + 1 < Chunks(n)
          /\ ~(k * BlockSize + m < n) => k * BlockSize + m = n /\ k + 1 = Chunks(n)
      BY <3>3, <3>5, ChunkIs, SMTT(30)
    <3>7. /\ k + 1 < Chunks(n) => c + 1 < Total(e)
          /\ k + 1 = Chunks(n) => c + 1 = Total(e)
          /\ c + 1 # s + 1
      BY <1>3, <1>6, <3>1
    <3> QED BY <3>1, <3>3, <3>4, <3>6, <3>7
  <2> QED BY Zenon, <2>1, <2>2
<1>9. Fits(reading[e], m)
  BY <1>6, <1>8 DEF Fits
<1>10. /\ Taken(e)
       /\ IF h + m < n
          THEN /\ reading' = [reading EXCEPT ![e].have = h + m]
               /\ UNCHANGED <<todo, got, outcome>>
          ELSE /\ reading' = [reading EXCEPT ![e] = NotReading]
               /\ got' = [got EXCEPT ![e] = h + m]
               /\ Advanced(e)
       /\ UNCHANGED <<length, broken>>
  BY <1>6, <1>8, <1>9 DEF ReadChunk
<1>11. reading \in [Ends -> [size : Nat, have : Nat]] /\ got \in [Ends -> Nat]
  BY Zenon, <1>0 DEF StreamTyped
<1>12. Other(e) # e /\ length' = length /\ broken' = broken /\ Total(e)' = Total(e)
  BY <1>10, OtherEnd DEF Total
<1> HIDE DEF h, m, n
<1>13. CASE h + m < n
  <2>1. reading' = [reading EXCEPT ![e].have = h + m] /\ UNCHANGED <<todo, got, outcome>>
    BY <1>10, <1>13
  <2>2. /\ reading' \in [Ends -> [size : Nat, have : Nat]] /\ got' \in [Ends -> Nat]
        /\ reading'[e].size = n /\ reading'[e].have = h + m
        /\ reading'[Other(e)] = reading[Other(e)] /\ got'[Other(e)] = got[Other(e)]
    <3>1. h + m \in Nat
      BY <1>8
    <3> QED BY <1>3, <1>6, <1>11, <1>12, <2>1, <3>1
  <2>3. s < c + 1 /\ c + 1 < Total(e) /\ c + 1 # s + 1 /\ h + m = ((c + 1) - s - 2) * BlockSize
    <3>1. s < c + 1
      BY <1>3, <1>6
    <3> QED BY <1>8, <1>13, <3>1
  <2>4. Within(e, c + 1)'
    <3>1. reading'[e].have = IF c + 1 = Start(e) + 1 THEN 0 ELSE ((c + 1) - Start(e) - 2) * BlockSize
      BY <2>2, <2>3
    <3>2. length'[Other(e)] = n /\ 0 < n /\ n <= MaxSize /\ got'[e] = 0 /\ todo'[e] \in Reads(e)
      BY <1>1, <1>6, <1>12, <2>1 DEF n
    <3>3. Start(e) < c + 1 /\ c + 1 < Total(e)'
      BY <1>12, <2>3
    <3> QED BY <2>2, <3>1, <3>2, <3>3 DEF Within
  <2>5. HasTaken(e, c + 1)'
    BY <2>4 DEF HasTaken
  <2>6. UNCHANGED <<todo, outcome>>
    BY <2>1
  <2> QED BY Zenon, <1>0, <1>2, <1>10, <1>12, <2>2, <2>5, <2>6, TakeStep
<1>14. CASE ~(h + m < n)
  <2>1. reading' = [reading EXCEPT ![e] = NotReading] /\ got' = [got EXCEPT ![e] = h + m] /\ Advanced(e)
    BY <1>10, <1>14
  <2>2. c + 1 = Total(e) /\ h + m = n
    BY <1>8, <1>14
  <2>3. /\ reading' \in [Ends -> [size : Nat, have : Nat]] /\ got' \in [Ends -> Nat]
        /\ reading'[e] = NotReading /\ got'[e] = n
        /\ reading'[Other(e)] = reading[Other(e)] /\ got'[Other(e)] = got[Other(e)]
    BY <1>3, <1>11, <1>12, <2>1, <2>2 DEF NotReading
  <2>4. todo'[e] \in IF e = "client" THEN {Through} ELSE {AfterRead, LastWrite, Through}
    <3>1. "read" \in Steps
      BY DEF Steps
    <3>2. todo'[e] = Tail(todo[e])
      BY <1>0, <2>1, <3>1, AdvancedIs
    <3> QED BY Zenon, <1>1, <3>2, StepTails DEF Reads
  <2>5. After(e, c + 1)'
    BY <1>6, <1>12, <2>2, <2>3, <2>4 DEF After, n
  <2>6. HasTaken(e, c + 1)'
    BY <2>5 DEF HasTaken
  <2> QED BY <1>0, <1>2, <1>10, <1>12, <2>1, <2>3, <2>6, TakeStep
<1> QED BY <1>13, <1>14

\* the stream breaks
LEMMA BreakStep ==
  ASSUME StreamInv, Break
  PROVE  StreamInv'
<1>0. StreamTyped /\ broken' = TRUE /\ UNCHANGED <<length, todo, reading, got, outcome>>
  BY DEF StreamInv, Break
<1>1. PICK a \in 0 .. Len(incoming["client"]), b \in 0 .. Len(incoming["server"]) :
        incoming' = [client |-> SubSeq(incoming["client"], 1, a),
                     server |-> SubSeq(incoming["server"], 1, b)]
  BY Zenon DEF Break
<1>2. /\ incoming'["client"] = SubSeq(incoming["client"], 1, a)
      /\ incoming'["server"] = SubSeq(incoming["server"], 1, b)
      /\ incoming' = [d \in Ends |-> incoming'[d]]
  BY <1>1 DEF Ends
<1>3. incoming["client"] \in Seq(Items) /\ incoming["server"] \in Seq(Items)
  BY <1>0 DEF StreamTyped, Ends
<1>4. /\ SubSeq(incoming["client"], 1, a) \in Seq(Items)
      /\ SubSeq(incoming["server"], 1, b) \in Seq(Items)
  BY <1>3
<1>5. StreamTyped'
  <2>1. \A d \in Ends : incoming'[d] \in Seq(Items)
    BY Zenon, <1>2, <1>4 DEF Ends
  <2>2. incoming' \in [Ends -> Seq(Items)]
    BY <1>2, <2>1
  <2> QED BY Zenon, <1>0, <2>2 DEF StreamTyped
<1>6. FailsForReason'
  BY <1>0 DEF FailsForReason
<1>7. InStep("client")'
  <2>1. "client" \in Ends /\ InStep("client")
    BY DEF StreamInv, Ends
  <2> QED BY <1>0, <1>2, <2>1, BreakKeeps
<1>8. InStep("server")'
  <2>1. "server" \in Ends /\ InStep("server")
    BY DEF StreamInv, Ends
  <2> QED BY <1>0, <1>2, <2>1, BreakKeeps
<1> QED BY <1>5, <1>6, <1>7, <1>8 DEF StreamInv, Ends

\* an exchange begins
LEMMA StreamStarts ==
  ASSUME rsInit
  PROVE  StreamInv
<1>1. /\ length \in [Ends -> Nat] /\ length["client"] # 0
      /\ todo["client"] = ClientSteps
      /\ todo["server"] = IF length["server"] = 0 THEN LastRead ELSE ServerSteps
      /\ todo = [e \in Ends |-> todo[e]]
  <2>1. length \in [Ends -> Nat] /\ length["client"] # 0
    <3>1. Lengths \cup {0} \subseteq Nat
      BY SizesAssumption
    <3>2. length \in [Ends -> Lengths \cup {0}] /\ length["client"] # 0
      BY DEF rsInit
    <3> QED BY <3>1, <3>2
  <2>2. todo = [e \in Ends |-> IF e = "client" THEN ClientSteps
                              ELSE IF length[e] = 0 THEN LastRead ELSE ServerSteps]
    BY DEF rsInit, LastRead
  <2>3. "client" \in Ends /\ "server" \in Ends
    BY DEF Ends
  <2> QED BY <2>1, <2>2, <2>3
<1>2. \A e \in Ends : /\ incoming[e] = << >> /\ reading[e] = NotReading
                      /\ got[e] = 0 /\ outcome[e] = "running"
  BY DEF rsInit
<1>3. StreamTyped
  <2>1. \A e \in Ends : /\ todo[e] \in {ClientSteps, ServerSteps, LastRead}
                        /\ todo[e] # Through
    BY <1>1, StepsDiffer DEF Ends
  <2>2. todo \in [Ends -> {ClientSteps, ServerSteps, AfterWrite, AfterRead,
                        LastRead, LastWrite, Through}]
    BY <1>1, <2>1
  <2>3. /\ incoming \in [Ends -> Seq(Items)]
        /\ reading \in [Ends -> [size : Nat, have : Nat]]
        /\ got \in [Ends -> Nat]
        /\ outcome \in [Ends -> {"running", "done", "closed", "too_long"}]
        /\ broken \in BOOLEAN
    <3>1. << >> \in Seq(Items) /\ NotReading \in [size : Nat, have : Nat]
      BY DEF NotReading
    <3> QED BY Zenon, <3>1 DEF rsInit
  <2> QED BY <1>1, <1>2, <2>1, <2>2, <2>3 DEF StreamTyped
<1>4. FailsForReason
  BY <1>2 DEF FailsForReason
<1>5. ASSUME NEW e \in Ends PROVE InStep(e)
  <2>1. Start(e) \in {0, 1} /\ Total(e) \in Nat
    BY <1>3, Bounds
  <2>2. Written(e) = 0
    BY <1>1, StepsDiffer DEF Written, Ends
  <2>3. OnTheWay(e, 0, 0)
    BY <1>2, <2>2 DEF OnTheWay
  <2>4. Before(e, 0)
    <3>1. todo[e] \in IF 0 < Start(e) THEN {ClientSteps, AfterWrite} ELSE Reads(e)
      BY <1>1 DEF Start, Reads, Ends
    <3> QED BY <1>2, <2>1, <3>1 DEF Before
  <2>5. 0 \in 0 .. Total(e)
    BY <2>1
  <2> QED BY <2>3, <2>4, <2>5 DEF InStep, HasTaken
<1> QED BY <1>3, <1>4, <1>5 DEF StreamInv

\* A step of no coroutine keeps the invariant.
LEMMA StreamStutters ==
  ASSUME StreamInv, UNCHANGED rsVars
  PROVE  StreamInv'
<1>1. UNCHANGED <<length, todo, incoming, reading, got, outcome, broken>>
  BY DEF rsVars
<1>2. StreamTyped'
  BY <1>1 DEF StreamInv, StreamTyped
<1>3. FailsForReason'
  BY <1>1 DEF StreamInv, FailsForReason
<1>4. ASSUME NEW d \in Ends PROVE InStep(d)'
  <2>1. Written(d)' = Written(d)
    BY <1>1 DEF Written, Total
  <2>2. /\ todo'[d] = todo[d] /\ incoming'[d] = incoming[d] /\ reading'[d] = reading[d]
        /\ got'[d] = got[d] /\ length' = length /\ broken' = broken /\ InStep(d)
    BY <1>1 DEF StreamInv
  <2> QED BY Zenon, <2>1, <2>2, QuietKeeps DEF GoesOn
<1> QED BY <1>2, <1>3, <1>4 DEF StreamInv

\* Where the two coroutines are in what they send each other.
THEOREM StreamInvariant == rsSpec => []StreamInv
<1>1. rsInit => StreamInv
  BY StreamStarts
<1>2. StreamInv /\ [rsNext]_rsVars => StreamInv'
  <2> SUFFICES ASSUME StreamInv, [rsNext]_rsVars PROVE StreamInv'
    OBVIOUS
  <2>1. CASE UNCHANGED rsVars
    BY <2>1, StreamStutters
  <2>2. CASE Break
    BY <2>2, BreakStep
  <2>3. ASSUME NEW e \in Ends, EndStep(e) PROVE StreamInv'
    <3>1. CASE WriteMessage(e)
      BY <3>1, WriteMessageKeeps
    <3>2. CASE WriteStatus(e)
      BY <3>2, WriteStatusKeeps
    <3>3. CASE ReadFails(e)
      BY <3>3, ReadFailsKeeps
    <3>4. CASE ReadStatus(e)
      BY <3>4, ReadStatusKeeps
    <3>5. CASE ReadSize(e)
      BY <3>5, ReadSizeKeeps
    <3>6. CASE ReadChunk(e)
      BY <3>6, ReadChunkKeeps
    <3> QED BY <2>3, <3>1, <3>2, <3>3, <3>4, <3>5, <3>6 DEF EndStep
  <2> QED BY <2>1, <2>2, <2>3 DEF rsNext
<1> QED BY <1>1, <1>2, PTL DEF rsSpec

\* What is read is what was sent, the ends stay in step, and an exchange fails only
\* for a reason.
THEOREM ExchangeAlwaysRight == rsSpec => []ExchangeRight
<1>1. StreamInv => ExchangeRight
  <2> SUFFICES ASSUME StreamInv PROVE ExchangeRight
    OBVIOUS
  <2>0. StreamTyped /\ FailsForReason
    BY DEF StreamInv
  <2>1. ASSUME NEW e \in Ends
        PROVE  \E c, w \in 0 .. Total(e) : OnTheWay(e, c, w) /\ HasTaken(e, c)
    BY DEF StreamInv, InStep
  <2>2. MessagesWhole
    <3> SUFFICES ASSUME NEW e \in Ends, got[e] # 0
                 PROVE  got[e] = length[Other(e)] /\ got[e] <= MaxSize
      BY DEF MessagesWhole
    <3>1. PICK c \in 0 .. Total(e) : HasTaken(e, c)
      BY <2>1
    <3>2. After(e, c)
      BY <3>1 DEF HasTaken, Before, Within
    <3> QED BY <3>2 DEF After
  <2>3. EndsInStep
    <3> SUFFICES ASSUME NEW e \in Ends
                 PROVE  /\ outcome[e] # "garbled"
                        /\ outcome[e] = "done" /\ todo[e] = << >> => incoming[e] = << >>
      BY DEF EndsInStep
    <3>1. outcome[e] # "garbled"
      BY Zenon, <2>0 DEF StreamTyped
    <3>2. ASSUME todo[e] = Through PROVE incoming[e] = << >>
      <4>1. PICK c \in 0 .. Total(e), w \in 0 .. Total(e) : OnTheWay(e, c, w) /\ HasTaken(e, c)
        BY <2>1
      <4>2. After(e, c)
        BY <3>2, <4>1, StepsDiffer DEF HasTaken, Before, Within, Reads
      <4>3. c = Total(e) /\ Total(e) \in Nat
        BY <2>0, <4>2, Bounds DEF After
      <4>4. Len(incoming[e]) = w - c /\ c <= w
        BY <4>1 DEF OnTheWay
      <4>5. Len(incoming[e]) = 0
        BY <4>3, <4>4
      <4>6. incoming[e] \in Seq(Items)
        BY <2>0 DEF StreamTyped
      <4> QED BY <4>5, <4>6
    <3> QED BY <3>1, <3>2 DEF Through
  <2> QED BY <2>0, <2>2, <2>3 DEF ExchangeRight
<1> QED BY <1>1, StreamInvariant, PTL
=============================================================================

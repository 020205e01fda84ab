--------------------------- MODULE RequestStream ---------------------------
(***************************************************************************)
(* One exchange of the status protocol or of the block request protocol    *)
(* (src/src/modules/networking/status_protocol.cpp and                     *)
(* block_request_protocol.cpp) over a stream of libp2p, with the framing   *)
(* of src/src/serde/snappy.hpp: the length of the message, a chunk that    *)
(* identifies the stream, and chunks of at most kMaxBlockSize bytes.       *)
(*                                                                         *)
(* Abstractions.  Of a message only its encoded length matters, in units   *)
(* of bytes; a chunk is one item of the stream.  Compression and checksums *)
(* are external: a chunk uncompresses to what was compressed.  A stream    *)
(* keeps order, may break at any point, and closes when an end is through. *)
(***************************************************************************)
EXTENDS Naturals, Sequences

CONSTANTS Lengths,    \* lengths of encoded messages
          BlockSize,  \* kMaxBlockSize
          MaxSize     \* kDefaultMaxSize

\* no message is empty, nor is a block
ASSUME SizesAssumption ==
  Lengths \subseteq Nat \ {0} /\ BlockSize \in Nat \ {0} /\ MaxSize \in Nat

VARIABLES length,    \* length[e]: the message that end e sends; 0 when it has none
          todo,      \* todo[e]: what the coroutine of e has still to do
          incoming,  \* incoming[e]: what is on the way to e
          reading,   \* reading[e]: length announced and length read so far
          got,       \* got[e]: length of the message e has read
          outcome,   \* outcome[e]: "running", "done", or how e failed
          broken     \* the stream has broken

rsVars == <<length, todo, incoming, reading, got, outcome, broken>>

Ends == {"client", "server"}
Other(e) == IF e = "client" THEN "server" ELSE "client"
NotReading == [size |-> 0, have |-> 0]
Lower(m, n) == IF m < n THEN m ELSE n

-----------------------------------------------------------------------------
(* Framing. *)

Item(type, n) == [type |-> type, n |-> n]

\* Mutant: a rest that is shorter than a block is not sent.
FullBlocksOnly(n) ==
  <<Item("identifier", 0)>> \o [i \in 1 .. (n \div BlockSize) |-> Item("data", BlockSize)]

CompressFramed(n) ==
  LET count == (n + BlockSize - 1) \div BlockSize
  IN  <<Item("identifier", 0)>>
        \o [i \in 1 .. count |-> Item("data", Lower(BlockSize, n - (i - 1) * BlockSize))]

\* coCompressFramed
Framed(n) == <<Item("size", n)>> \o CompressFramed(n)

-----------------------------------------------------------------------------
(* The two coroutines. *)

\* connect of the status protocol, and request
ClientSteps == <<"write", "read_status", "read">>

\* coroHandle of the status protocol; coroRespond, when it has the block
ServerSteps == <<"read", "write_status", "write">>

\* a server without the block is through when it has read the request
rsInit ==
  /\ length \in [Ends -> Lengths \cup {0}]
  /\ length["client"] # 0
  /\ todo = [e \in Ends |-> IF e = "client" THEN ClientSteps
                            ELSE IF length[e] = 0 THEN <<"read">> ELSE ServerSteps]
  /\ incoming = [e \in Ends |-> << >>]
  /\ reading = [e \in Ends |-> NotReading]
  /\ got = [e \in Ends |-> 0]
  /\ outcome = [e \in Ends |-> "running"]
  /\ broken = FALSE

At(e, what) == outcome[e] = "running" /\ Head(todo[e]) = what

\* the step is done; after the last one the coroutine returns
Advanced(e) ==
  /\ todo' = [todo EXCEPT ![e] = Tail(@)]
  /\ outcome' = IF Len(todo[e]) = 1 THEN [outcome EXCEPT ![e] = "done"] ELSE outcome

Fail(e, why) ==
  /\ outcome' = [outcome EXCEPT ![e] = why]
  /\ UNCHANGED <<length, todo, incoming, reading, got, broken>>

Send(e, items) ==
  IF broken THEN Fail(e, "closed")
  ELSE /\ incoming' = [incoming EXCEPT ![Other(e)] = @ \o items]
       /\ Advanced(e)
       /\ UNCHANGED <<length, reading, got, broken>>

WriteMessage(e) == At(e, "write") /\ Send(e, Framed(length[e]))

\* writeResponseStatus
WriteStatus(e) == At(e, "write_status") /\ Send(e, <<Item("status", 0)>>)

\* a read meets the end of a stream that nobody writes to any more
ReadFails(e) ==
  /\ At(e, "read") \/ At(e, "read_status")
  /\ incoming[e] = << >>
  /\ broken \/ outcome[Other(e)] # "running"
  /\ Fail(e, "closed")

Next_(e) == Head(incoming[e])
Taken(e) == incoming' = [incoming EXCEPT ![e] = Tail(@)]

\* readResponseStatus: a byte is read, whatever it says
ReadStatus(e) ==
  /\ At(e, "read_status") /\ incoming[e] # << >>
  /\ IF Next_(e).type = "status"
     THEN Taken(e) /\ Advanced(e) /\ UNCHANGED <<length, reading, got, broken>>
     ELSE Fail(e, "garbled")

\* coUncompressFramed: the length,
ReadSize(e) ==
  /\ At(e, "read") /\ reading[e] = NotReading /\ incoming[e] # << >>
  /\ IF Next_(e).type # "size" THEN Fail(e, "garbled")
     ELSE IF Next_(e).n > MaxSize THEN Fail(e, "too_long")
     ELSE /\ reading' = [reading EXCEPT ![e] = [size |-> Next_(e).n, have |-> 0]]
          /\ Taken(e)
          /\ UNCHANGED <<length, todo, got, outcome, broken>>

\* Mutant: the rest of a message may be a whole block.
FitsBlock(r, n) == n < BlockSize \/ r.size - r.have > BlockSize

\* a chunk must not exceed what is missing
Fits(r, n) == n <= r.size - r.have

\* and chunk after chunk until the length is reached
ReadChunk(e) ==
  /\ At(e, "read") /\ reading[e].have < reading[e].size /\ incoming[e] # << >>
  /\ LET item == Next_(e)
         have == reading[e].have + item.n
     IN  IF item.type \notin {"identifier", "data"} THEN Fail(e, "garbled")
         ELSE IF ~Fits(reading[e], item.n) THEN Fail(e, "too_long")
         ELSE /\ Taken(e)
              /\ IF have < reading[e].size
                 THEN /\ reading' = [reading EXCEPT ![e].have = have]
                      /\ UNCHANGED <<todo, got, outcome>>
                 ELSE /\ reading' = [reading EXCEPT ![e] = NotReading]
                      /\ got' = [got EXCEPT ![e] = have]
                      /\ Advanced(e)
              /\ UNCHANGED <<length, broken>>

\* the connection is lost, with some of what was on the way
Break ==
  /\ ~broken
  /\ broken' = TRUE
  /\ \E m \in 0 .. Len(incoming["client"]), n \in 0 .. Len(incoming["server"]) :
       incoming' = [client |-> SubSeq(incoming["client"], 1, m),
                    server |-> SubSeq(incoming["server"], 1, n)]
  /\ UNCHANGED <<length, todo, reading, got, outcome>>

EndStep(e) ==
  \/ WriteMessage(e) \/ WriteStatus(e)
  \/ ReadFails(e) \/ ReadStatus(e) \/ ReadSize(e) \/ ReadChunk(e)

rsNext == Break \/ \E e \in Ends : EndStep(e)

rsSpec == rsInit /\ [][rsNext]_rsVars

\* the coroutines of an io context that runs go on
rsFairness == \A e \in Ends : WF_rsVars(EndStep(e))

-----------------------------------------------------------------------------
(* Properties. *)

\* What an end has read is what the other one sent, whole, and within the limit.
MessagesWhole ==
  \A e \in Ends : got[e] # 0 => got[e] = length[Other(e)] /\ got[e] <= MaxSize

\* The ends stay in step: a reader stops where its message stops, so that neither
\* of them takes a part of one item for another, and an end that is done has left
\* nothing unread.
EndsInStep ==
  \A e \in Ends : /\ outcome[e] # "garbled"
                  /\ outcome[e] = "done" /\ todo[e] = << >> => incoming[e] = << >>

\* An exchange fails only for a reason: the stream broke, a message is longer than
\* the limit, or the server does not have the block.
FailsForReason ==
  (\E e \in Ends : outcome[e] \notin {"running", "done"}) =>
     broken \/ length["server"] = 0 \/ \E e \in Ends : length[e] > MaxSize

\* StatusProtocol and BlockRequestProtocol: what is read is what was sent, ends
\* stay in step, and an exchange fails only when the stream breaks, a message is
\* too long, or the block is not there.
ExchangeRight == MessagesWhole /\ EndsInStep /\ FailsForReason

\* Neither end waits for ever: both coroutines return.
BothReturn == <>(\A e \in Ends : outcome[e] # "running")
=============================================================================

------------------------------ MODULE MCPeers ------------------------------
(***************************************************************************)
(* TLC instance of the parts of the networking module below block sync:    *)
(* Peers, one exchange over a stream (RequestStream), and node records     *)
(* (Enr).  They share no state: each behaviour is one of one part, in      *)
(* focus, while the others keep their initial state.                       *)
(***************************************************************************)
EXTENDS Peers, RequestStream

\* Enr
CONSTANTS EnrRecords, ByteStrings
VARIABLES enr, text, read
enVars == <<enr, text, read>>
EN == INSTANCE Enr

VARIABLE focus

\* the parts out of focus start in one of their initial states
MCInit ==
  /\ focus \in {"Peers", "RequestStream", "Enr"}
  /\ Init /\ rsInit /\ EN!enInit
  /\ focus # "Peers" => limit = CHOOSE n \in Limits : TRUE
  /\ focus # "RequestStream" => length = [e \in Ends |-> CHOOSE n \in Lengths : TRUE]
  /\ focus # "Enr" => enr = CHOOSE r \in EnrRecords : TRUE

MCNext ==
  \/ focus = "Peers" /\ Next /\ UNCHANGED <<focus, rsVars, enVars>>
  \/ focus = "RequestStream" /\ rsNext /\ UNCHANGED <<focus, vars, enVars>>
  \/ focus = "Enr" /\ EN!enNext /\ UNCHANGED <<focus, vars, rsVars>>

\* the fairness of each part while it is in focus
MCFairness ==
  /\ WF_vars(focus = "Peers" /\ ConnectToPeers)
  /\ \A p \in Bootnodes : /\ WF_vars(focus = "Peers" /\ AttemptEnds(p))
                          /\ WF_vars(focus = "Peers" /\ BackoffPasses(p))
  /\ \A e \in Ends : WF_rsVars(focus = "RequestStream" /\ EndStep(e))

MCSpec == MCInit /\ [][MCNext]_<<focus, vars, rsVars, enVars>> /\ MCFairness

-----------------------------------------------------------------------------
(* Values of the constants. *)

\* numbers of one, two and more bytes, below and above 0x80
MCEnrRecords ==
  [sequence : {1}, ip : {<<0, 0, 0, 0>>, <<127, 0, 0, 1>>},
   port : {0, 80, 128, 9001, 65535},
   key : {[i \in 1 .. 33 |-> i * 7]}, aggregator : {"none", "yes", "no"}]

\* strings around the longest one with a short prefix, and around 256
MCByteStrings ==
  {[i \in 1 .. n |-> x] : n \in {0, 1, 2, 54, 55, 56, 255, 256}, x \in {0, 127, 128, 255}}

-----------------------------------------------------------------------------
(* Properties. *)

\* NetworkingImpl: without a limit no peer is given up (NeverGivenUp).
PeersTried == focus = "Peers" => NeverGivenUp

\* StatusProtocol and BlockRequestProtocol: both coroutines return.
ExchangeEnds == focus = "RequestStream" => BothReturn

\* enr::encode and enr::decode: a record is read back as it was written, its
\* signature valid, and so is every string and number of RLP.
RecordsReadBack == EN!RecordReadBack /\ EN!RlpReadBack
=============================================================================

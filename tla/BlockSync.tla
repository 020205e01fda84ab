----------------------------- MODULE BlockSync -----------------------------
(***************************************************************************)
(* How the networking module brings blocks and votes from peers to the     *)
(* fork choice (src/src/modules/networking/networking.cpp): the cache of   *)
(* blocks whose parent is missing, the requests for missing parents and    *)
(* the votes that wait for their head.                                     *)
(*                                                                         *)
(* The handlers run one at a time on the io thread.  The fork choice lock  *)
(* is taken for each import alone, so the thread that produces blocks may  *)
(* act between two imports of one handler: `queue` is what the handler in  *)
(* progress has still to import.                                           *)
(*                                                                         *)
(* Abstractions.  The blocks of the network, with their slots and parents, *)
(* and what their import does are constants.  The pending votes for a head *)
(* are in the cache or not; their number does not matter.                  *)
(***************************************************************************)
EXTENDS Naturals, FiniteSets, SequencesExt

CONSTANTS Genesis,     \* the anchor block
          Blocks,      \* the other blocks of the network
          Parent,      \* Parent[b]
          SlotOf,      \* SlotOf[b]; the anchor has slot 0
          Finalizes,   \* Finalizes[b]: finalized block of b's post-state
          Own,         \* blocks this node produces
          Bad,         \* blocks whose import fails
          Peers,
          MaxErrors,   \* bound: requests that fail
          MaxWaits     \* bound: requests that take longer than kRetryRequestBlock

Roots == Blocks \cup {Genesis}

ASSUME SyncAssumption ==
  /\ Genesis \notin Blocks
  /\ Parent \in [Blocks -> Roots]
  /\ SlotOf \in [Roots -> Nat]
  /\ \A b \in Blocks : SlotOf[Parent[b]] < SlotOf[b]
  /\ Finalizes \in [Blocks -> Roots]
  /\ Own \cup Bad \subseteq Blocks
  /\ {MaxErrors, MaxWaits} \subseteq Nat

VARIABLES known,      \* blocks with a header in the storage
          tree,       \* blocks in the tree in memory
          finalized,  \* the last finalized block
          cache,      \* block_cache_
          children,   \* block_children_, as pairs of parent and child
          pending,    \* heads of the attestations that wait
          requested,  \* block_requested_at_: "recent", or old enough to retry
          inflight,   \* requests without an answer, <<peer, root>>
          queue,      \* blocks the running handler has still to consume
          status,     \* "idle", "consuming", or how the process ended
          errors,     \* failed requests and
          waits       \* slow requests so far

chain == <<known, tree, finalized>>
vars == <<known, tree, finalized, cache, children, pending,
          requested, inflight, queue, status, errors, waits>>

-----------------------------------------------------------------------------
(* The chain, as the handlers see it. *)

Ancestors(b) ==
  LET chainOf[x \in Roots] ==
        IF x = Genesis THEN {x} ELSE {x} \cup chainOf[Parent[x]]
  IN  chainOf[b]

Descends(b, a) == a \in Ancestors(b)

\* a state transition takes its finalized checkpoint from the chain of the block
\* (CheckpointsOnChain of StateTransition)
ASSUME FinalizesAncestor == \A b \in Blocks : Finalizes[b] \in Ancestors(b)

\* blocks that exist: others build on our blocks once they are published
Published(b) == Ancestors(b) \cap Own \subseteq known

\* ForkChoiceStore::onBlock succeeds in adding the block
Addable(b) == b \notin known /\ b \notin Bad /\ Parent[b] \in tree

\* onBlock, with addBlock and finalize of the block tree
AddToChain(b) ==
  LET new == Finalizes[b]
      added == tree \cup {b}
      fin == IF SlotOf[new] > SlotOf[finalized] THEN new ELSE finalized
  IN  /\ finalized' = fin
      /\ tree' = {x \in added : Descends(x, fin)}
      /\ known' = (known \cup {b})
                    \ {x \in added : ~Descends(x, fin) /\ ~Descends(fin, x)}

ImportBlock(b) == IF Addable(b) THEN AddToChain(b) ELSE UNCHANGED chain

-----------------------------------------------------------------------------
(* Requests. *)

\* Mutant: cached blocks on the way are asked for again.
WantedDirect(c, root) ==
  IF root \in known \cup c THEN {} ELSE {root}

\* the first block that is not in the cache, going down from root; none when
\* it is known, or the way leads through a slot that is finalized
Wanted(c, root) ==
  LET walk[x \in Roots] ==
        IF x \in c
        THEN IF SlotOf[x] <= SlotOf[finalized] THEN {} ELSE walk[Parent[x]]
        ELSE IF x \in known THEN {} ELSE {x}
  IN  walk[root]

\* the roots to ask for: none that was asked for less than kRetryRequestBlock ago
Ask(marks, c, root) ==
  {r \in Wanted(c, root) : r \in DOMAIN marks => marks[r] # "recent"}

\* requestBlock, given the marks and the requests it starts from
RequestBlock(marks, open, peer, ask) ==
  /\ requested' = [r \in DOMAIN marks \cup ask |->
                     IF r \in ask THEN "recent" ELSE marks[r]]
  /\ inflight' = open \cup {<<peer, r>> : r \in ask}

-----------------------------------------------------------------------------
(* consumeBlockTree and prune. *)

ChildrenOf(pairs, b) == {p[2] : p \in {q \in pairs : q[1] = b}}

\* Mutant: the children of a consumed block stay in the cache.
NextInQueueOnly(b) == Tail(queue)

NextInQueue(b) == Tail(queue) \o SetToSeq(ChildrenOf(children, b))

\* one block of the queue: taken out of the caches and given to the fork choice,
\* or to nobody when its branch is forgotten
Consume ==
  /\ status \in {"consuming", "forgetting"}
  /\ queue # << >>
  /\ LET b == Head(queue)
     IN  IF b \notin cache
         THEN /\ status' = "fatal"
              /\ UNCHANGED <<known, tree, finalized, cache, children, pending, queue>>
         ELSE /\ cache' = cache \ {b}
              /\ children' = children \ {<<Parent[b], b>>}
              /\ IF status = "consuming" THEN ImportBlock(b) ELSE UNCHANGED chain
              /\ pending' = pending \ {b}
              /\ queue' = NextInQueue(b)
              /\ UNCHANGED status
  /\ UNCHANGED <<requested, inflight, errors, waits>>

\* Mutant: the index of children keeps the blocks that are forgotten.
CacheOnly(old) == children

Unindexed(old) == {p \in children : p[2] \notin old}

\* prune, at the end of receiveBlock
Prune ==
  /\ status = "consuming"
  /\ queue = << >>
  /\ LET old == {b \in cache : SlotOf[b] <= SlotOf[finalized]}
     IN  /\ cache' = cache \ old
         /\ children' = Unindexed(old)
  /\ pending' = {h \in pending : SlotOf[h] > SlotOf[finalized]}
  /\ status' = "idle"
  /\ UNCHANGED <<known, tree, finalized, requested, inflight, queue,
                 errors, waits>>

Forgotten ==
  /\ status = "forgetting"
  /\ queue = << >>
  /\ status' = "idle"
  /\ UNCHANGED <<known, tree, finalized, cache, children, pending,
                 requested, inflight, queue, errors, waits>>

-----------------------------------------------------------------------------
(* receiveBlock. *)

Cached(b) == b \in cache

Imported(b) == b \notin cache /\ b \in known

Finalized(b) == ~Cached(b) /\ ~Imported(b) /\ SlotOf[b] <= SlotOf[finalized]

\* a block of a finalized slot: its cached descendants are forgotten.  The loop
\* over the children erases the entry it stands on, which is undefined.
ForgetChildren(b) ==
  /\ queue' = SetToSeq(ChildrenOf(children, b))
  /\ status' \in {"forgetting", "undefined"}
  /\ UNCHANGED <<cache, children>>

CacheBlock(b) ==
  /\ cache' = cache \cup {b}
  /\ children' = children \cup {<<Parent[b], b>>}
  /\ IF Parent[b] \in known
     THEN status' = "consuming" /\ queue' = <<b>>
     ELSE UNCHANGED <<status, queue>>

ReceiveBlock(b) ==
  /\ \/ /\ Cached(b) \/ Imported(b)
        /\ UNCHANGED <<cache, children, status, queue>>
     \/ /\ Finalized(b)
        /\ IF ChildrenOf(children, b) # {} THEN ForgetChildren(b)
           ELSE UNCHANGED <<cache, children, status, queue>>
     \/ /\ ~Cached(b) /\ ~Imported(b) /\ ~Finalized(b)
        /\ CacheBlock(b)
  /\ UNCHANGED <<known, tree, finalized, pending>>

\* Mutant: the parent is only asked for when the block comes again.
AsksParentLater(b) == Cached(b)

\* receiveBlock asks the sender for the parent
AsksParent(b) == ~Imported(b) /\ ~Finalized(b)

AskParent(marks, open, peer, b) ==
  RequestBlock(marks, open, peer,
               IF AsksParent(b) THEN Ask(marks, cache \cup {b}, Parent[b]) ELSE {})

GossipBlock(peer, b) ==
  /\ status = "idle"
  /\ Published(b)
  /\ b \notin Own
  /\ ReceiveBlock(b)
  /\ AskParent(requested, inflight, peer, b)
  /\ UNCHANGED <<errors, waits>>

\* a vote for head, from gossip
GossipVote(peer, head) ==
  /\ status = "idle"
  /\ Published(head)
  /\ IF head \in known
     THEN UNCHANGED <<pending, requested, inflight>>
     ELSE /\ SlotOf[head] > SlotOf[finalized]
          /\ pending' = pending \cup {head}
          /\ RequestBlock(requested, inflight, peer, Ask(requested, cache, head))
  /\ UNCHANGED <<known, tree, finalized, cache, children, queue, status, errors, waits>>

\* statusFinalizedIsGood, for a checkpoint of the network
GoodStatus(b) == b \in known \/ SlotOf[b] > SlotOf[finalized]

ReceiveStatus(peer, fin, head) ==
  /\ status = "idle"
  /\ Published(head)
  /\ Descends(head, fin)
  /\ GoodStatus(fin) /\ GoodStatus(head)
  /\ SlotOf[head] > SlotOf[finalized]
  /\ head \notin known
  /\ RequestBlock(requested, inflight, peer, Ask(requested, cache, head))
  /\ UNCHANGED <<known, tree, finalized, cache, children, pending,
                 queue, status, errors, waits>>

-----------------------------------------------------------------------------
(* Answers, time and the other thread. *)

\* the mark of a request goes with its answer
Unmarked(b) == [r \in DOMAIN requested \ {b} |-> requested[r]]

\* the request coroutine goes on with a block
AnswerBlock(peer, b) ==
  /\ status = "idle"
  /\ <<peer, b>> \in inflight
  /\ ReceiveBlock(b)
  /\ AskParent(Unmarked(b), inflight \ {<<peer, b>>}, peer, b)
  /\ UNCHANGED <<errors, waits>>

\* or with an error: nothing is tried again
AnswerError(peer, b) ==
  /\ status = "idle"
  /\ <<peer, b>> \in inflight
  /\ errors < MaxErrors
  /\ errors' = errors + 1
  /\ inflight' = inflight \ {<<peer, b>>}
  /\ requested' = Unmarked(b)
  /\ UNCHANGED <<known, tree, finalized, cache, children, pending,
                 queue, status, waits>>

\* kRetryRequestBlock passes
Wait(root) ==
  /\ status = "idle"
  /\ waits < MaxWaits
  /\ root \in DOMAIN requested
  /\ requested[root] = "recent"
  /\ waits' = waits + 1
  /\ requested' = [requested EXCEPT ![root] = "old"]
  /\ UNCHANGED <<known, tree, finalized, cache, children, pending,
                 inflight, queue, status, errors>>

\* the production thread adds a block of its own
Produce(b) ==
  /\ status \in {"idle", "consuming", "forgetting"}
  /\ b \in Own
  /\ Addable(b)
  /\ AddToChain(b)
  /\ UNCHANGED <<cache, children, pending, requested, inflight,
                 queue, status, errors, waits>>

Init ==
  /\ known = {Genesis}
  /\ tree = {Genesis}
  /\ finalized = Genesis
  /\ cache = {}
  /\ children = {}
  /\ pending = {}
  /\ requested = [r \in {} |-> r]
  /\ inflight = {}
  /\ queue = << >>
  /\ status = "idle"
  /\ errors = 0
  /\ waits = 0

Next ==
  \/ Consume
  \/ Prune
  \/ Forgotten
  \/ \E peer \in Peers, b \in Blocks :
       \/ GossipBlock(peer, b)
       \/ GossipVote(peer, b)
       \/ AnswerBlock(peer, b)
       \/ AnswerError(peer, b)
  \/ \E peer \in Peers, fin \in Roots, head \in Blocks : ReceiveStatus(peer, fin, head)
  \/ \E b \in Blocks : Wait(b) \/ Produce(b)

\* the io thread runs its handlers to the end and takes them in turn: an answer
\* that has come is not passed over for ever
Fairness ==
  /\ WF_vars(Consume)
  /\ WF_vars(Prune)
  /\ WF_vars(Forgotten)
  /\ \A peer \in Peers, b \in Blocks : SF_vars(AnswerBlock(peer, b))

Spec == Init /\ [][Next]_vars

FairSpec == Spec /\ Fairness

-----------------------------------------------------------------------------
(* Properties. *)

\* consumeBlockTree finds every block that the index of children leads it to,
\* in whatever order blocks were cached, consumed, forgotten and pruned.
NoFatal == status # "fatal"

\* Between two handlers, nothing waits for a block that is there: a cached
\* block has no known parent and a pending vote has no known head, although
\* the production thread adds blocks and finalizes in between.
NothingStranded ==
  status = "idle" => /\ \A b \in cache : Parent[b] \notin known
                     /\ pending \cap known = {}

Asked == {r[2] : r \in inflight}

\* the nearest block below b that is neither cached nor known
Missing(b) ==
  {x \in Ancestors(b) \ (cache \cup known) : Ancestors(b) \ Ancestors(x) \subseteq cache}

\* Unless a request failed, the block that a cached block or a pending vote
\* waits for is on its way, as long as it can still matter.
MissingRequested ==
  status = "idle" /\ errors = 0 =>
    \A b \in cache \cup pending : Descends(b, finalized) => Missing(b) \subseteq Asked

\* A block that is cached brings a request for what its branch is missing, also
\* when an earlier request for it has failed: this is what repairs a lost answer.
NewBlockAsks ==
  [][\A b \in cache' \ cache : Descends(b, finalized) => (Missing(b) \subseteq Asked)']_vars

Importable(b) == Ancestors(b) \cap Bad = {}

\* If peers answer, a cached block is imported in the end, unless it is on a
\* fork that finalization has left behind.
CacheDrains ==
  \A b \in Blocks :
    b \in cache /\ Importable(b) ~> b \in known \/ ~Descends(b, finalized)

\* Cached children of a block in a finalized slot are forgotten, and that is all
\* that happens.
ForgetIsDefined == status # "undefined"
=============================================================================

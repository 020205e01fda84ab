---------------------------- MODULE BlockQueries ----------------------------
(***************************************************************************)
(* Questions the block tree answers from two places: the tree in memory    *)
(* for the blocks since the last finalized one, the database for older     *)
(* blocks (src/src/blockchain/impl/block_tree_impl.cpp).  An answer that   *)
(* is an error is << >> or {}.                                             *)
(***************************************************************************)
EXTENDS BlockStore
LOCAL INSTANCE SequencesExt
LOCAL INSTANCE FiniteSetsExt

Limited(chain, maximum) == SubSeq(chain, 1, IF maximum < Len(chain) THEN maximum ELSE Len(chain))

\* the headers on disk from b down to slot 0 or to a header that is missing
StoredChain(b) ==
  LET chain[x \in DOMAIN disk.header] ==
        <<x>> \o (IF SlotOf(x) # 0 /\ disk.header[x] \in DOMAIN disk.header
                  THEN chain[disk.header[x]]
                  ELSE << >>)
  IN  IF b \in DOMAIN disk.header THEN chain[b] ELSE << >>

\* a slip: the loop in memory appends the root before it finds no parent
RootTwice(b, maximum) ==
  IF b \in Nodes(tree)
  THEN Limited(Reverse(Path(tree, b)) \o StoredChain(tree.root), maximum)
  ELSE Limited(StoredChain(b), maximum)

\* getDescendingChainToBlock: parents in memory down to the root, which is
\* left to the loop over the headers on disk
GetDescendingChainToBlock(b, maximum) ==
  IF b \in Nodes(tree)
  THEN Limited(Reverse(Tail(Path(tree, b))) \o StoredChain(tree.root), maximum)
  ELSE Limited(StoredChain(b), maximum)

IsFinalized(b) ==
  /\ SlotOf(b) <= SlotOf(tree.root)
  /\ SlotOf(b) \in DOMAIN disk.index
  /\ disk.index[SlotOf(b)] = b

\* the leaves bestWith looks at: the set orders them by slot alone, so it
\* keeps one leaf of each slot, whichever comes first
CandidateSets ==
  LET slots == {SlotOf(n) : n \in Leaves(tree)}
  IN  {{pick[s] : s \in slots} :
         pick \in {f \in [slots -> Leaves(tree)] : \A s \in slots : SlotOf(f[s]) = s}}

BestWith(b) ==
  {LET above == {n \in c : SlotOf(n) > SlotOf(b) /\ Descends(tree, n, b)}
   IN  IF above = {} THEN b ELSE CHOOSE n \in above : n \in BestLeaves(above) :
     c \in CandidateSets}

\* getBestContaining: the blocks it may answer with
GetBestContaining(b) ==
  IF b = tree.root THEN {tree.best}
  ELSE IF b \in Nodes(tree) THEN BestWith(b)
  ELSE IF b \in DOMAIN disk.header /\ SlotOf(b) \in DOMAIN disk.index
          /\ disk.index[SlotOf(b)] = b
  THEN {tree.best}
  ELSE {}

\* tryGetSignedBlock: a header without signature and body, which the anchor
\* is, is an error.  So is an unknown root, because the storage's error for a
\* missing header is not the block tree's: the answer is never "no block".
HasSignedBlock(b) == b \in DOMAIN disk.header /\ b \in disk.body

\* BlockRequestProtocol::coroRespond: what is written to the stream for a
\* request; the first error ends it
CoroRespond(roots) ==
  LET good == {n \in 0 .. Len(roots) : \A i \in 1 .. n : HasSignedBlock(roots[i])}
  IN  SubSeq(roots, 1, Max(good))

-----------------------------------------------------------------------------
(* Properties. *)

\* A peer that asks for the blocks below any block of this node, from the
\* newest down, gets every one of them but the anchor, also after a crash and
\* whatever was finalized and pruned.
ChainServed ==
  Quiet =>
    \A b \in Nodes(tree) :
      LET asked == SelectSeq(StoredChain(b), LAMBDA x : x # Genesis)
      IN  /\ Genesis \in Ancestry(b)
          /\ CoroRespond(asked) = asked

\* The chain below a block follows the parents of the headers without a gap or
\* a repetition where the answer passes from memory to disk, and ends early
\* only at the anchor.
ChainUnbroken ==
  Quiet =>
    \A b \in Nodes(tree) \cup Ancestry(tree.root), maximum \in 1 .. MaxBlocks :
      LET chain == GetDescendingChainToBlock(b, maximum)
      IN  /\ Head(chain) = b
          /\ \A i \in 1 .. Len(chain) - 1 : disk.header[chain[i]] = chain[i + 1]
          /\ Len(chain) = maximum \/ Last(chain) = Genesis

\* A block counts as finalized exactly when it is on the chain of the last
\* finalized block, also while the best chain is another one below it.
FinalizedChain ==
  Quiet /\ crashes = 0 =>
    \A b \in DOMAIN disk.header : IsFinalized(b) <=> b \in Ancestry(tree.root)

\* The best block that contains a known block does contain it.
BestContains ==
  Quiet /\ crashes = 0 =>
    \A b \in DOMAIN disk.header :
      \A best \in GetBestContaining(b) : b \in Ancestry(best)

\* The answers that are put together from memory and disk are those of one
\* chain, wherever finalization, pruning and restarts have put the border.
QueriesAgree == ChainServed /\ ChainUnbroken /\ FinalizedChain /\ BestContains

=============================================================================

----------------------------- MODULE BlockStore -----------------------------
(***************************************************************************)
(* The block tree, its storage and the path of a block into both, with     *)
(* crashes between any two writes to the database.                         *)
(*                                                                         *)
(*   src/src/blockchain/impl/block_tree_impl.cpp          in memory        *)
(*   src/src/blockchain/impl/block_storage_impl.cpp       on disk          *)
(*   src/src/blockchain/impl/block_storage_initializer.cpp  first start    *)
(*   src/src/blockchain/impl/block_tree_initializer.cpp   every start      *)
(*   src/src/blockchain/fork_choice.cpp, onBlock          the caller       *)
(*                                                                         *)
(* A handler changes memory at once, because it holds the lock of the      *)
(* store until it returns, and leaves its database writes, in the order of *)
(* the code, in `todo`.  Each write is a step; a crash drops the rest.     *)
(* Signature and body are written and read together and count as one.      *)
(***************************************************************************)
EXTENDS BlockTransition, CachedTree
LOCAL INSTANCE SequencesExt
LOCAL INSTANCE FiniteSetsExt

CONSTANTS Genesis,     \* the anchor block, <<0, id>>
          MaxSlot,     \* bound: no block after this slot
          MaxBlocks,   \* bound: headers on disk
          MaxDowns     \* bound: clean stops and crashes together

ASSUME StoreAssumption ==
  /\ Genesis \in {0} \X Ids
  /\ Ids \subseteq Nat
  /\ {MaxSlot, MaxBlocks, MaxDowns} \subseteq Nat

VARIABLES disk,     \* what the database holds
          status,   \* "down", "starting", "up" or how the start failed
          tree,     \* the tree in memory
          head,     \* head of the fork choice
          todo,     \* writes the running handler has still to make
          stops,    \* clean restarts and
          crashes   \* crashes so far

vars == <<disk, status, tree, head, todo, stops, crashes>>

-----------------------------------------------------------------------------
(* The database. *)

EmptyDisk ==
  [header |-> [r \in {} |-> r],    \* parent root in the header of a block
   body |-> {},                    \* blocks with signatures and body
   state |-> [r \in {} |-> r],     \* post-state of a block
   index |-> [s \in {} |-> s],     \* slot to hash
   leaves |-> {}]                  \* block tree leaves; {} when not written

Put(f, k, v) == [x \in DOMAIN f \cup {k} |-> IF x = k THEN v ELSE f[x]]
Drop(f, k) == [x \in DOMAIN f \ {k} |-> f[x]]

PutHeader(b, parent) == [op |-> "header", root |-> b, parent |-> parent]
PutBody(b) == [op |-> "body", root |-> b]
PutState(b, state) == [op |-> "state", root |-> b, state |-> state]
SetLeaves(leaves) == [op |-> "leaves", leaves |-> leaves]
Assign(b) == [op |-> "assign", root |-> b]
Deassign(b) == [op |-> "deassign", root |-> b]
RemoveContent(b) == [op |-> "content", root |-> b]
RemoveHeader(b) == [op |-> "remove", root |-> b]

\* a slot maps to one hash: assigning another one replaces it, and only the
\* hash that is there is taken away
Unassigned(index, b) ==
  IF SlotOf(b) \in DOMAIN index /\ index[SlotOf(b)] = b
  THEN Drop(index, SlotOf(b))
  ELSE index

Written(d, w) ==
  CASE w.op = "header" -> [d EXCEPT !.header = Put(@, w.root, w.parent)]
    [] w.op = "body" -> [d EXCEPT !.body = @ \cup {w.root}]
    [] w.op = "state" -> [d EXCEPT !.state = Put(@, w.root, w.state)]
    [] w.op = "leaves" -> [d EXCEPT !.leaves = w.leaves]
    [] w.op = "assign" -> [d EXCEPT !.index = Put(@, SlotOf(w.root), w.root)]
    [] w.op = "deassign" -> [d EXCEPT !.index = Unassigned(@, w.root)]
    [] w.op = "content" -> [d EXCEPT !.index = Unassigned(@, w.root),
                                     !.body = @ \ {w.root},
                                     !.state = Drop(@, w.root)]
    [] w.op = "remove" -> [d EXCEPT !.header = Drop(@, w.root)]

\* removeBlock, once for each block, children before their parents
Removals(blocks) ==
  LET order == Reverse(SetToSortSeq(blocks, Before))
  IN  FlattenSeq([i \in DOMAIN order |->
                    <<RemoveContent(order[i]), RemoveHeader(order[i])>>])

Each(Op(_), seq) == [i \in DOMAIN seq |-> Op(seq[i])]

\* a slip of reorgAndPrune: no deassignment
ReorgApplyOnly(full, before, after, pruned) ==
  <<SetLeaves(Leaves(after))>>
    \o Each(Assign, ReorgApply(full, before.best, after.best))
    \o Removals(pruned)

\* reorgAndPrune after the tree changed; full is the tree with all its blocks
ReorgAndPrune(full, before, after, pruned) ==
  <<SetLeaves(Leaves(after))>>
    \o Each(Deassign, ReorgRevert(full, before.best, after.best))
    \o Each(Assign, ReorgApply(full, before.best, after.best))
    \o Removals(pruned)

-----------------------------------------------------------------------------
(* A block arrives: ForkChoiceStore::onBlock, with addBlock, setJustified  *)
(* and finalize of the block tree.                                         *)

Has(b) == b \in Nodes(tree) \/ b \in DOMAIN disk.header

\* computeLmdGhostHead: the leaf the votes, or the order of hashes, choose below
\* the justified block or, when that block is gone, below the finalized one
Heads(t) ==
  LET anchor == IF t.justified \in Nodes(t) THEN t.justified ELSE t.root
  IN  {n \in Leaves(t) : Descends(t, n, anchor)}

\* updateHead: it looks up the headers from the old head down to the fork, so
\* a head that was pruned makes it fail
HeadsAfter(t, pruned) ==
  IF head \in pruned \/ head \notin DOMAIN disk.header THEN {head} ELSE Heads(t)

\* setJustified fails for a block that is not in the tree
JustifyFails(t, state) ==
  /\ state.justified.slot > SlotOf(t.justified)
  /\ state.justified.root \notin Nodes(t)

JustifyTree(t, state) ==
  IF state.justified.slot > SlotOf(t.justified)
  THEN WithJustifiedNode(t, state.justified.root)
  ELSE t

\* the trees finalize may leave, and t itself when nothing is finalized
FinalizeTrees(t, state) ==
  IF state.finalized.slot > SlotOf(t.root)
  THEN FinalizedTrees(t, state.finalized.root)
  ELSE {t}

FinalizeWrites(t, after) ==
  IF after.root = t.root THEN << >>
  ELSE ReorgAndPrune(t, t, after, PrunedBy(t, after.root))

\* a slip of onBlock: the state is only cached
AddWithoutState(b, parent, added, state) ==
  <<PutHeader(b, parent), PutBody(b)>> \o ReorgAndPrune(added, tree, added, {})

\* a slip of addBlock: the body last
AddBodyLast(b, parent, added, state) ==
  <<PutHeader(b, parent)>>
    \o ReorgAndPrune(added, tree, added, {})
    \o <<PutState(b, state), PutBody(b)>>

AddWrites(b, parent, added, state) ==
  <<PutHeader(b, parent), PutBody(b)>>
    \o ReorgAndPrune(added, tree, added, {})
    \o <<PutState(b, state)>>

OnBlock(b, parent, atts) ==
  /\ status = "up"
  /\ todo = << >>
  /\ ~Has(b.root)
  /\ parent \in DOMAIN disk.state
  /\ parent \in Nodes(tree)
  /\ LET result == BlockResult(disk.state[parent], b, atts)
         added == AddNode(tree, b.root, parent)
         justified == JustifyTree(added, result.state)
         writes == AddWrites(b.root, parent, added, result.state)
     IN  /\ result.ok
         /\ IF JustifyFails(added, result.state)
            THEN /\ tree' = added
                 /\ todo' = writes
                 /\ UNCHANGED head
            ELSE \E after \in FinalizeTrees(justified, result.state) :
                   /\ tree' = after
                   /\ todo' = writes \o FinalizeWrites(justified, after)
                   /\ \/ head' \in HeadsAfter(after, PrunedBy(justified, after.root))
                      \/ \* an attestation of the block is refused before updateHead
                         atts # << >> /\ UNCHANGED head
  /\ UNCHANGED <<disk, status, stops, crashes>>

-----------------------------------------------------------------------------
(* Start of the node. *)

\* BlockStorageInitializer: the anchor is stored unless its header is there
StartStorage ==
  /\ status = "down"
  /\ status' = "starting"
  /\ todo' = IF Genesis \in DOMAIN disk.header THEN << >>
             ELSE <<PutHeader(Genesis, ZeroHash), Assign(Genesis),
                    SetLeaves({Genesis}), PutState(Genesis, GenesisState(Genesis))>>
  /\ UNCHANGED <<disk, tree, head, stops, crashes>>

\* the leaves on disk; without them, a bisection over the slots that have a
\* hash (MaxSlot stands for the largest slot)
Bisect(index) ==
  LET search[lower \in 0 .. MaxSlot, upper \in 0 .. MaxSlot] ==
        LET slot == lower + (upper - lower) \div 2 + 1
        IN  IF lower = upper THEN lower
            ELSE IF slot \in DOMAIN index THEN search[slot, upper]
            ELSE search[lower, slot - 1]
  IN  search[0, MaxSlot]

LoadLeaves(d) ==
  IF d.leaves # {} THEN d.leaves
  ELSE IF Bisect(d.index) \in DOMAIN d.index THEN {d.index[Bisect(d.index)]}
  ELSE {}

\* the checkpoints of the last leaf.  Its state must be there: the warning
\* about a missing one takes the error of a result that has none, which throws
HasCheckpoints(d, top) == SlotOf(top) = 0 \/ top \in DOMAIN d.state

FinalizedAtStart(d, top) ==
  IF SlotOf(top) = 0 THEN top ELSE d.state[top].finalized.root

JustifiedAtStart(d, top) ==
  IF SlotOf(top) = 0 THEN top ELSE d.state[top].justified.root

\* where the walk down from a leaf ends
WalkEnds(d, fin, seen, b) ==
  \/ b = fin
  \/ b \in seen.observed
  \/ b \notin DOMAIN d.header
  \/ b \in seen.dead
  \/ SlotOf(b) <= SlotOf(fin)

Walk(d, fin, seen, leaf) ==
  LET walk[b \in DOMAIN d.header \cup {leaf} \cup {d.header[x] : x \in DOMAIN d.header}] ==
        IF WalkEnds(d, fin, seen, b) THEN <<b>> ELSE <<b>> \o walk[d.header[b]]
  IN  walk[leaf]

\* what one leaf adds to the blocks seen: the blocks of its branch are
\* collected, and dead when the branch meets a dead block or a block beside
\* the finalized one.  Only for siblings of the finalized block does the loop
\* that looks for the fork point end.
SeeLeaf(d, fin, seen, leaf) ==
  LET walk == Walk(d, fin, seen, leaf)
      end == Last(walk)
      branch == ToSet(Front(walk))
      beside == SlotOf(end) = SlotOf(fin)
      died == end \in seen.dead \/ beside
      known == end = fin \/ end \in seen.observed
  IN  IF known
      THEN [seen EXCEPT !.observed = @ \cup branch, !.collected = @ \cup branch]
      ELSE [observed |-> seen.observed \cup branch
                           \cup (IF died THEN {} ELSE {end}),
            collected |-> seen.collected \cup branch,
            dead |-> seen.dead \cup (IF died THEN branch ELSE {})
                               \cup (IF beside THEN {end} ELSE {}),
            status |-> IF end \notin DOMAIN d.header THEN "corrupted"
                       ELSE IF /\ end \notin seen.dead
                               /\ beside
                               /\ d.header[end] # d.header[fin]
                       THEN "hung"
                       ELSE seen.status]

SeeLeaves(d, fin, leaves) ==
  FoldLeft(LAMBDA seen, leaf :
             IF seen.status = "up" THEN SeeLeaf(d, fin, seen, leaf) ELSE seen,
           [observed |-> {}, collected |-> {}, dead |-> {}, status |-> "up"],
           SetToSortSeq(leaves, Before))

\* addExistingBlock for the collected blocks.  A parent that is not in the
\* tree is dead or not after the finalized block: there is no way to restore it.
AddExisting(load, d, b) ==
  LET added == AddNode(load.tree, b, d.header[b])
  IN  IF load.status # "up" \/ d.header[b] \notin Nodes(load.tree)
      THEN [load EXCEPT !.status = "dead end"]
      ELSE [load EXCEPT !.tree = added,
                        !.writes = @ \o ReorgAndPrune(added, load.tree, added, {})]

\* BlockTreeInitializer and the constructor of BlockTreeImpl
Load(d) ==
  LET leaves == LoadLeaves(d)
      top == Last(SetToSortSeq(leaves, Before))
      fin == FinalizedAtStart(d, top)
      seen == SeeLeaves(d, fin, leaves)
      repaired == IF d.leaves = {} THEN <<SetLeaves(leaves)>> ELSE << >>
      start(st, t, w) == [status |-> st, tree |-> t, writes |-> repaired \o w]
  IN  IF \/ leaves = {}
         \/ ~(leaves \subseteq DOMAIN d.header)
      THEN start("corrupted", tree, << >>)
      ELSE IF ~HasCheckpoints(d, top)
      THEN start("threw", tree, << >>)
      ELSE IF ~({fin, JustifiedAtStart(d, top)} \subseteq DOMAIN d.header)
      THEN start("corrupted", tree, << >>)
      ELSE IF seen.status # "up" THEN start(seen.status, tree, << >>)
      ELSE LET load == FoldLeft(LAMBDA l, b : AddExisting(l, d, b),
                                start("up", NewTree(fin), Removals(seen.dead)),
                                SetToSortSeq(seen.collected \ seen.dead, Before))
           IN  IF load.status # "up" THEN load
               ELSE IF JustifiedAtStart(d, top) \notin Nodes(load.tree)
               THEN [load EXCEPT !.status = "threw"]
               ELSE [load EXCEPT !.tree = WithJustifiedNode(@, JustifiedAtStart(d, top))]

LoadTree ==
  /\ status = "starting"
  /\ todo = << >>
  /\ LET load == Load(disk)
     IN  /\ status' = load.status
         /\ tree' = load.tree
         /\ todo' = load.writes
         /\ head' \in IF load.status = "up" THEN Heads(load.tree) ELSE {head}
  /\ UNCHANGED <<disk, stops, crashes>>

-----------------------------------------------------------------------------
(* The machine. *)

\* one write of the running handler reaches the database
Write ==
  /\ todo # << >>
  /\ disk' = Written(disk, Head(todo))
  /\ todo' = Tail(todo)
  /\ UNCHANGED <<status, tree, head, stops, crashes>>

\* a clean stop
Stop ==
  /\ status = "up"
  /\ todo = << >>
  /\ stops + crashes < MaxDowns
  /\ status' = "down"
  /\ stops' = stops + 1
  /\ UNCHANGED <<disk, tree, head, todo, crashes>>

\* the process dies between two writes
Crash ==
  /\ status \in {"starting", "up"}
  /\ todo # << >>
  /\ stops + crashes < MaxDowns
  /\ status' = "down"
  /\ todo' = << >>
  /\ crashes' = crashes + 1
  /\ UNCHANGED <<disk, tree, head, stops>>

\* the attestations of a block: up to two, that move the checkpoints of the
\* chain.  The votes come from all validators.
Checkpoints(s) ==
  {[root |-> HistoryAt(s, slot), slot |-> slot] : slot \in 0 .. Len(s.history) - 1}

Votes(s) ==
  {a \in [source : Checkpoints(s), target : Checkpoints(s), bits : {Validator}] :
     Counts(s, a)}

Bodies(s, b) ==
  LET s1 == ProcessBlockHeader(s, b)
      base == s1.finalized.slot
  IN  {<< >>} \cup {<<a>> : a \in Votes(s1)}
        \cup UNION {{<<a, c>> : c \in Votes(ProcessAttestation(s1, base, a))} :
                      a \in Votes(s1)}

BlockOf(slot, id, parent) ==
  [slot |-> slot, proposer |-> slot % NumValidators, parent_root |-> parent,
   root |-> <<slot, id>>]

ReceiveBlock ==
  /\ Cardinality(DOMAIN disk.header) < MaxBlocks
  /\ \E slot \in 1 .. MaxSlot, id \in Ids, parent \in Nodes(tree) \cap DOMAIN disk.state :
       /\ SlotOf(parent) < slot
       /\ \E atts \in Bodies(disk.state[parent], BlockOf(slot, id, parent)) :
            OnBlock(BlockOf(slot, id, parent), parent, atts)

Init ==
  /\ disk = EmptyDisk
  /\ status = "down"
  /\ tree = NewTree(Genesis)
  /\ head = Genesis
  /\ todo = << >>
  /\ stops = 0
  /\ crashes = 0

Next ==
  \/ ReceiveBlock
  \/ StartStorage
  \/ LoadTree
  \/ Write
  \/ Stop
  \/ Crash

Spec == Init /\ [][Next]_vars

-----------------------------------------------------------------------------
(* Properties. *)

\* the node runs and no handler is under way
Quiet == status = "up" /\ todo = << >>

\* the chain of headers below a block, down to the anchor
Ancestry(b) ==
  LET chain[x \in DOMAIN disk.header] ==
        IF x = Genesis THEN {x}
        ELSE {x} \cup (IF disk.header[x] \in DOMAIN disk.header
                       THEN chain[disk.header[x]] ELSE {})
  IN  IF b \in DOMAIN disk.header THEN chain[b] ELSE {}

\* Every block of the tree in memory is on disk with its body, below the same
\* parent, on an unbroken chain of headers down to the anchor, and the leaves
\* on disk are the leaves in memory: what the node serves and builds on
\* survives, whichever write a crash cut off.
TreeBacked ==
  Quiet =>
    /\ disk.leaves = Leaves(tree)
    /\ Genesis \in Ancestry(tree.root)
    /\ \A n \in Nodes(tree) :
         /\ n \in DOMAIN disk.header
         /\ n # Genesis => n \in disk.body
         /\ n # tree.root => disk.header[n] = tree.parent[n]

\* The slot index names, for every slot, the block of the best chain in that
\* slot and nothing else, across reorganizations, pruning and restarts that
\* choose another best block.
CanonicalIndex ==
  Quiet /\ crashes = 0 =>
    {<<slot, disk.index[slot]>> : slot \in DOMAIN disk.index}
      = {<<SlotOf(b), b>> : b \in Ancestry(tree.best)}

\* The head is a block of the node: with a head that is gone, updateHead fails
\* for ever and onTick treats the missing header or state as fatal.
HeadKnown == Quiet => head \in DOMAIN disk.header

\* Nothing of a pruned branch stays on disk: has() of the block tree answers
\* from the headers on disk, and a leftover counts as a known block for ever.
NoLeftovers ==
  Quiet /\ crashes = 0 =>
    /\ DOMAIN disk.header = Nodes(tree) \cup Ancestry(tree.root)
    /\ disk.body \cup {Genesis} = DOMAIN disk.header
    /\ DOMAIN disk.state = DOMAIN disk.header

\* Without a crash the disk holds what the tree in memory says and no more: the
\* slot index is the best chain, and no block is there that nobody can reach.
DiskExact == CanonicalIndex /\ NoLeftovers

\* A node that stopped between two blocks comes up again.  The finalized block is
\* not stored: a start takes it from the state of the highest leaf, which may know
\* an older one, but never one of another branch, whichever write a crash cut off.
RestartSucceeds ==
  /\ [](crashes = 0 => status \in {"down", "starting", "up"})
  /\ [][tree'.root \in Ancestry(tree.root) \cup Nodes(tree)]_tree

\* Branches that a crash left beside the finalized chain are removed.
DeadBranchRemoved == status \notin {"dead end", "hung"}

\* The last finalized block never moves back, neither when blocks arrive nor
\* when the node starts again (`tree` keeps the last tree while it is down).
FinalityKept ==
  [][crashes = 0 => SlotOf(tree'.root) >= SlotOf(tree.root)]_tree

=============================================================================

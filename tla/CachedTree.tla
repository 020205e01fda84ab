----------------------------- MODULE CachedTree -----------------------------
(***************************************************************************)
(* The block tree kept in memory (src/src/blockchain/impl/cached_tree.cpp) *)
(* as operators on a tree: the blocks that descend from the last finalized *)
(* one, which is the root.                                                 *)
(*                                                                         *)
(* A block is <<slot, id>>, and the order of hashes is the order of the    *)
(* ids.  TreeNode::reverted is never set, so the weight of a block is its  *)
(* slot.  The depth of a node is written and never read.                   *)
(***************************************************************************)
EXTENDS Integers, Sequences
LOCAL INSTANCE SequencesExt
LOCAL INSTANCE FiniteSetsExt

SlotOf(b) == b[1]

\* BlockIndex: by slot, then by hash
Before(a, b) == a[1] < b[1] \/ (a[1] = b[1] /\ a[2] < b[2])

NewTree(root) ==
  [root |-> root,                 \* the last finalized block
   justified |-> root,
   best |-> root,
   parent |-> [n \in {} |-> n]]   \* parent of every other node

Nodes(tree) == DOMAIN tree.parent \cup {tree.root}

Children(tree, n) == {c \in DOMAIN tree.parent : tree.parent[c] = n}

Leaves(tree) == {n \in Nodes(tree) : Children(tree, n) = {}}

\* the nodes from the root to n, in order
Path(tree, n) ==
  LET path[m \in Nodes(tree)] ==
        IF m = tree.root THEN <<m>> ELSE Append(path[tree.parent[m]], m)
  IN  path[n]

\* canDescend: n is the ancestor or one of its descendants
Descends(tree, n, ancestor) == ancestor \in ToSet(Path(tree, n))

\* the blocks on the way from one node to another one
ReorgRevert(tree, from, to) ==
  Reverse(SelectSeq(Path(tree, from), LAMBDA n : ~Descends(tree, to, n)))

ReorgApply(tree, from, to) ==
  SelectSeq(Path(tree, to), LAMBDA n : ~Descends(tree, from, n))

\* add: the best block changes for a later slot only
AddNode(tree, b, parent) ==
  IF b \in Nodes(tree) THEN tree
  ELSE [tree EXCEPT !.parent = [n \in DOMAIN tree.parent \cup {b} |->
                                  IF n = b THEN parent ELSE tree.parent[n]],
                    !.best = IF SlotOf(b) > SlotOf(@) THEN b ELSE @]

\* the nodes finalization keeps
KeptBy(tree, b) == {n \in Nodes(tree) : Descends(tree, n, b)}

\* the nodes finalization cuts off: neither on the finalized chain nor after it
PrunedBy(tree, b) ==
  {n \in Nodes(tree) : ~Descends(tree, n, b) /\ ~Descends(tree, b, n)}

\* forceRefreshBest: any of the leaves with the highest slot
BestLeaves(leaves) == {n \in leaves : \A m \in leaves : SlotOf(m) <= SlotOf(n)}

\* finalize: the trees it may leave.  The justified node is left alone.
FinalizedTrees(tree, b) ==
  LET kept == [tree EXCEPT !.root = b,
                           !.parent = [n \in KeptBy(tree, b) \ {b} |-> tree.parent[n]]]
  IN  {[kept EXCEPT !.best = best] :
         best \in IF Descends(tree, tree.best, b)
                  THEN {tree.best}
                  ELSE BestLeaves(Leaves(kept))}

\* setJustified of the block tree: only a descendant of the justified block
\* is taken, anything else is ignored without an error
WithJustifiedNode(tree, b) ==
  IF /\ b \in Nodes(tree)
     /\ tree.justified \in Nodes(tree)
     /\ Descends(tree, b, tree.justified)
  THEN [tree EXCEPT !.justified = b]
  ELSE tree

=============================================================================

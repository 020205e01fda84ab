--------------------------- MODULE BlockSyncProofs ---------------------------
(***************************************************************************)
(* Theorems about BlockSync, for any network of blocks, any peers and any  *)
(* interleaving of the handlers with the thread that produces blocks.      *)
(***************************************************************************)
EXTENDS BlockSync, SequenceTheorems, FiniteSetTheorems, TLAPS

\* The tree hangs together above the finalized block, and its blocks are stored.
TreeConnected ==
  /\ known \subseteq Roots
  /\ tree \subseteq known
  /\ finalized \in tree
  /\ \A x \in tree : Descends(x, finalized) /\ (x # finalized => Parent[x] \in tree)

\* The index of children is that of the cached blocks, and nothing is both
\* waiting and known.
CacheIndexed ==
  /\ cache \subseteq Blocks /\ IsFiniteSet(cache)
  /\ pending \subseteq Blocks
  /\ children = {<<Parent[b], b>> : b \in cache}
  /\ (cache \cup pending) \cap known = {}

\* Peers cannot build on a block of this node before it was published, and it
\* cannot be produced again after finalization has left it behind.
Passed(x) == x \in known \/ ~Descends(x, finalized)

OwnPassed ==
  \A b \in cache \cup pending \cup Asked : \A x \in Ancestors(b) \cap Own : Passed(x)

Queued == {queue[i] : i \in DOMAIN queue}

\* The queue has each of its blocks once, in the cache and without its parent,
\* and all cached blocks whose parent is known.
QueueReady ==
  /\ queue \in Seq(Blocks)
  /\ \A i, j \in DOMAIN queue : queue[i] = queue[j] => i = j
  /\ Queued \subseteq cache
  /\ \A b \in Queued : Parent[b] \notin cache
  /\ \A b \in cache : Parent[b] \in known => b \in Queued
  /\ status \in {"idle", "consuming", "forgetting", "undefined"}
  /\ status = "idle" => queue = << >>

\* A request that is marked has not been answered.
MarksOpen ==
  /\ inflight \subseteq Peers \X Roots
  /\ DOMAIN requested \subseteq Asked
  /\ errors \in Nat

\* cached blocks lead from b to a block that is going to be consumed
Reached(b) ==
  \E q \in Queued : q \in Ancestors(b) /\ Ancestors(b) \ Ancestors(q) \subseteq cache

\* What a block waits for is asked for, unless the block is itself on its way out
\* of the cache.
WaitsAsked ==
  errors = 0 =>
    \A b \in cache \cup pending :
      Descends(b, finalized) => Missing(b) \subseteq Asked \/ Reached(b)

\* The inductive invariant.
SyncInv ==
  /\ TreeConnected
  /\ CacheIndexed
  /\ OwnPassed
  /\ QueueReady
  /\ MarksOpen
  /\ WaitsAsked

-----------------------------------------------------------------------------
(* Ancestry. *)

\* Induction along the chain: slots decrease towards the anchor.
LEMMA ChainInduction ==
  ASSUME NEW P, Genesis \in P, \A b \in Blocks : Parent[b] \in P => b \in P
  PROVE  Roots \subseteq P
<1> DEFINE slots == {SlotOf[x] : x \in Roots \ P}
<1> SUFFICES ASSUME slots # {} PROVE FALSE
  OBVIOUS
<1>1. slots \subseteq Nat
  BY SyncAssumption
<1>2. PICK s \in slots : \A t \in slots : ~(<<t, s>> \in OpToRel(<, Nat))
  <2> HIDE DEF slots
  <2> QED BY Zenon, <1>1, NatLessThanWellFounded, WFMin
<1>3. PICK b \in Roots \ P : s = SlotOf[b]
  OBVIOUS
<1>4. b \in Blocks /\ Parent[b] \in Roots /\ SlotOf[Parent[b]] < SlotOf[b]
  BY SyncAssumption DEF Roots
<1>5. Parent[b] \notin P
  BY <1>4
<1>6. SlotOf[Parent[b]] \in slots /\ SlotOf[Parent[b]] \in Nat /\ SlotOf[b] \in Nat
  BY <1>4, <1>5, SyncAssumption
<1>7. <<SlotOf[Parent[b]], SlotOf[b]>> \in OpToRel(<, Nat)
  BY <1>4, <1>6 DEF OpToRel
<1> QED BY Zenon, <1>2, <1>3, <1>6, <1>7

\* Ancestors is what its recursion says.
LEMMA AncestorsRecursion ==
  /\ Ancestors(Genesis) = {Genesis}
  /\ \A b \in Blocks : Ancestors(b) = {b} \cup Ancestors(Parent[b])
<1> DEFINE Closed(S) == \A x \in S \ {Genesis} : Parent[x] \in S
           least(x) == {y \in Roots : \A S \in SUBSET Roots : x \in S /\ Closed(S) => y \in S}
           Step(f) == [x \in Roots |->
                         IF x = Genesis THEN {x} ELSE {x} \cup f[Parent[x]]]
           g == [x \in Roots |-> least(x)]
           chainOf == CHOOSE f : f = Step(f)
<1>1. least(Genesis) = {Genesis}
  <2>1. Closed({Genesis}) /\ {Genesis} \in SUBSET Roots
    BY DEF Roots
  <2> QED BY Zenon, <2>1 DEF Roots
<1>2. ASSUME NEW x \in Blocks
      PROVE  least(x) = {x} \cup least(Parent[x])
  <2>0. Parent[x] \in Roots /\ x \in Roots /\ x # Genesis
    BY SyncAssumption DEF Roots
  <2>1. ASSUME NEW y \in least(x), y # x
        PROVE  y \in least(Parent[x])
    <3> SUFFICES ASSUME NEW S \in SUBSET Roots, Parent[x] \in S, Closed(S)
                 PROVE  y \in S
      OBVIOUS
    <3>1. Closed(S \cup {x}) /\ S \cup {x} \in SUBSET Roots
      BY <2>0
    <3> QED BY Zenon, <2>1, <3>1
  <2>2. ASSUME NEW y \in least(Parent[x])
        PROVE  y \in least(x)
    BY <2>0
  <2>3. x \in least(x)
    BY <2>0
  <2> QED BY <2>1, <2>2, <2>3
<1>3. g = Step(g)
  <2>1. ASSUME NEW x \in Roots
        PROVE  g[x] = IF x = Genesis THEN {x} ELSE {x} \cup g[Parent[x]]
    <3>1. CASE x = Genesis
      <4> HIDE DEF least
      <4> QED BY <3>1, <1>1
    <3>2. CASE x \in Blocks
      <4>1. x # Genesis /\ Parent[x] \in Roots
        BY <3>2, SyncAssumption
      <4> HIDE DEF least
      <4> QED BY <3>2, <4>1, <1>2
    <3> QED BY Zenon, <3>1, <3>2 DEF Roots
  <2> HIDE DEF least
  <2> QED BY <2>1
<1>4. chainOf = Step(chainOf)
  <2> HIDE DEF g
  <2> QED BY Zenon, <1>3
<1>5. \A x : Ancestors(x) = chainOf[x]
  BY DEF Ancestors
<1> HIDE DEF chainOf
<1>6. \A x \in Roots : chainOf[x] = IF x = Genesis THEN {x} ELSE {x} \cup chainOf[Parent[x]]
  BY <1>4
<1> QED BY Zenon, <1>5, <1>6, SyncAssumption DEF Roots

\* A block is its own ancestor, and its ancestors are blocks or the anchor.
LEMMA AncestorsTyped ==
  ASSUME NEW x \in Roots
  PROVE  x \in Ancestors(x) /\ Ancestors(x) \subseteq Roots
<1> DEFINE P == {y \in Roots : y \in Ancestors(y) /\ Ancestors(y) \subseteq Roots}
<1>1. Genesis \in P
  BY AncestorsRecursion DEF Roots
<1>2. \A b \in Blocks : Parent[b] \in P => b \in P
  BY AncestorsRecursion DEF Roots
<1>3. Roots \subseteq P
  <2> HIDE DEF P
  <2> QED BY <1>1, <1>2, ChainInduction
<1> QED BY <1>3

\* Ancestors of ancestors are ancestors, and their slots are lower.
LEMMA AncestorsOfAncestors ==
  ASSUME NEW x \in Roots, NEW y \in Ancestors(x)
  PROVE  /\ Ancestors(y) \subseteq Ancestors(x)
         /\ y # x => SlotOf[y] < SlotOf[x]
<1> DEFINE P == {z \in Roots : \A u \in Ancestors(z) :
                   /\ Ancestors(u) \subseteq Ancestors(z)
                   /\ u # z => SlotOf[u] < SlotOf[z]}
<1>1. Genesis \in P
  BY AncestorsRecursion DEF Roots
<1>2. ASSUME NEW b \in Blocks, Parent[b] \in P
      PROVE  b \in P
  <2> SUFFICES ASSUME NEW u \in Ancestors(b)
               PROVE  /\ Ancestors(u) \subseteq Ancestors(b)
                      /\ u # b => SlotOf[u] < SlotOf[b]
    BY DEF Roots
  <2>1. Ancestors(b) = {b} \cup Ancestors(Parent[b])
    BY AncestorsRecursion
  <2>2. CASE u = b
    BY <2>2
  <2>3. CASE u \in Ancestors(Parent[b])
    <3>1. Ancestors(u) \subseteq Ancestors(b)
      BY <2>1, <2>3, <1>2
    <3>2. /\ SlotOf[u] \in Nat /\ SlotOf[b] \in Nat /\ SlotOf[Parent[b]] \in Nat
          /\ SlotOf[Parent[b]] < SlotOf[b]
      BY <2>3, AncestorsTyped, SyncAssumption DEF Roots
    <3>3. u = Parent[b] \/ SlotOf[u] < SlotOf[Parent[b]]
      BY <2>3, <1>2
    <3> QED BY <3>1, <3>2, <3>3
  <2> QED BY <2>1, <2>2, <2>3
<1>3. Roots \subseteq P
  <2> HIDE DEF P
  <2> QED BY <1>1, <1>2, ChainInduction
<1> QED BY <1>3

\* Two ancestors of a block are on one chain.
LEMMA AncestorsLinear ==
  ASSUME NEW x \in Roots, NEW y \in Ancestors(x), NEW z \in Ancestors(x)
  PROVE  y \in Ancestors(z) \/ z \in Ancestors(y)
<1> DEFINE P == {u \in Roots : \A v, w \in Ancestors(u) :
                   v \in Ancestors(w) \/ w \in Ancestors(v)}
<1>1. Genesis \in P
  BY AncestorsRecursion DEF Roots
<1>2. ASSUME NEW b \in Blocks, Parent[b] \in P
      PROVE  b \in P
  BY <1>2, AncestorsRecursion DEF Roots
<1>3. Roots \subseteq P
  <2> HIDE DEF P
  <2> QED BY <1>1, <1>2, ChainInduction
<1> QED BY <1>3

\* Of two different blocks at most one is an ancestor of the other.
LEMMA AncestorsAcyclic ==
  ASSUME NEW x \in Roots, NEW y \in Ancestors(x), x \in Ancestors(y)
  PROVE  x = y
<1>1. y \in Roots /\ SlotOf[x] \in Nat /\ SlotOf[y] \in Nat
  BY AncestorsTyped, SyncAssumption
<1>2. ~(SlotOf[x] < SlotOf[y] /\ SlotOf[y] < SlotOf[x])
  BY <1>1
<1> QED BY <1>1, <1>2, AncestorsOfAncestors

\* The way from a block up to a later one starts with a child of it.
LEMMA ChildOnTheWay ==
  ASSUME NEW x \in Roots, NEW y \in Ancestors(x), y # x
  PROVE  \E b \in Blocks : b \in Ancestors(x) /\ Parent[b] = y
<1> DEFINE P == {u \in Roots : \A v \in Ancestors(u) \ {u} :
                   \E b \in Blocks : b \in Ancestors(u) /\ Parent[b] = v}
<1>1. Genesis \in P
  BY AncestorsRecursion DEF Roots
<1>2. ASSUME NEW b \in Blocks, Parent[b] \in P
      PROVE  b \in P
  <2>1. Ancestors(b) = {b} \cup Ancestors(Parent[b])
    BY AncestorsRecursion
  <2> SUFFICES ASSUME NEW v \in Ancestors(b) \ {b}
               PROVE  \E c \in Blocks : c \in Ancestors(b) /\ Parent[c] = v
    BY DEF Roots
  <2>2. CASE v = Parent[b]
    BY <2>1, <2>2
  <2>3. CASE v # Parent[b]
    BY <2>1, <2>3, <1>2
  <2> QED BY <2>2, <2>3
<1>3. Roots \subseteq P
  <2> HIDE DEF P
  <2> QED BY <1>1, <1>2, ChainInduction
<1> QED BY <1>3

\* Wanted finds what its walk is for: the first ancestor that is not cached, unless
\* it is known or the way to it leads through a finalized slot.
THEOREM WantedIsMissing ==
  ASSUME NEW c \in SUBSET Blocks, finalized \in Roots, NEW root \in Roots
  PROVE  Wanted(c, root) =
           {y \in Ancestors(root) \ (c \cup known) :
              \A z \in Ancestors(root) \ Ancestors(y) :
                z \in c /\ SlotOf[z] > SlotOf[finalized]}
<1> DEFINE first(x) == {y \in Ancestors(x) \ (c \cup known) :
                          \A z \in Ancestors(x) \ Ancestors(y) :
                            z \in c /\ SlotOf[z] > SlotOf[finalized]}
           Step(f) == [x \in Roots |->
                         IF x \in c
                         THEN IF SlotOf[x] <= SlotOf[finalized] THEN {} ELSE f[Parent[x]]
                         ELSE IF x \in known THEN {} ELSE {x}]
           g == [x \in Roots |-> first(x)]
           walk == CHOOSE f : f = Step(f)
<1>1. ASSUME NEW x \in c, SlotOf[x] <= SlotOf[finalized]
      PROVE  first(x) = {}
  <2> SUFFICES ASSUME NEW y \in first(x) PROVE FALSE
    OBVIOUS
  <2>1. x \in Roots /\ y # x /\ y \in Ancestors(x)
    BY DEF Roots
  <2>2. x \in Ancestors(x) \ Ancestors(y)
    BY <2>1, AncestorsTyped, AncestorsAcyclic
  <2>3. SlotOf[x] \in Nat /\ SlotOf[finalized] \in Nat
    BY <2>1, SyncAssumption
  <2> QED BY <1>1, <2>2, <2>3
<1>2. ASSUME NEW x \in c, ~(SlotOf[x] <= SlotOf[finalized])
      PROVE  first(x) = first(Parent[x])
  <2>1. x \in Roots /\ x \in Blocks /\ Parent[x] \in Roots /\ x # Genesis
    BY SyncAssumption DEF Roots
  <2>2. Ancestors(x) = {x} \cup Ancestors(Parent[x])
    BY <2>1, AncestorsRecursion
  <2>3. x \notin Ancestors(Parent[x])
    <3>1. SlotOf[Parent[x]] < SlotOf[x] /\ SlotOf[x] \in Nat /\ SlotOf[Parent[x]] \in Nat
      BY <2>1, SyncAssumption
    <3> QED BY <2>1, <3>1, AncestorsOfAncestors
  <2>4. SlotOf[x] > SlotOf[finalized]
    BY <1>2, <2>1, SyncAssumption
  <2>5. ASSUME NEW y \in Ancestors(Parent[x])
        PROVE  x \notin Ancestors(y)
    BY <2>1, <2>3, AncestorsOfAncestors
  <2> QED BY <2>2, <2>4, <2>5
<1>3. ASSUME NEW x \in Roots \ c
      PROVE  first(x) = IF x \in known THEN {} ELSE {x}
  <2>1. ASSUME NEW y \in Ancestors(x), y # x
        PROVE  x \in Ancestors(x) \ Ancestors(y)
    BY <2>1, AncestorsTyped, AncestorsAcyclic
  <2>2. x \in Ancestors(x)
    BY AncestorsTyped
  <2> QED BY <2>1, <2>2
<1> HIDE DEF first
<1>4. g = Step(g)
  <2>1. ASSUME NEW x \in Roots
        PROVE  g[x] = Step(g)[x]
    <3>1. x \in c => Parent[x] \in Roots
      BY SyncAssumption
    <3> QED BY <3>1, <1>1, <1>2, <1>3
  <2> QED BY <2>1
<1>5. walk = Step(walk)
  <2> HIDE DEF g
  <2> QED BY Zenon, <1>4
<1>6. Wanted(c, root) = walk[root]
  BY DEF Wanted
<1> HIDE DEF walk
<1>7. ASSUME NEW x \in Roots
      PROVE  walk[x] = IF x \in c
                       THEN IF SlotOf[x] <= SlotOf[finalized] THEN {} ELSE walk[Parent[x]]
                       ELSE IF x \in known THEN {} ELSE {x}
  BY Zenon, <1>5
<1> DEFINE P == {x \in Roots : walk[x] = first(x)}
<1>8. Genesis \in P
  <2>1. Genesis \in Roots \ c
    BY SyncAssumption DEF Roots
  <2> QED BY Zenon, <2>1, <1>3, <1>7
<1>9. ASSUME NEW b \in Blocks, Parent[b] \in P
      PROVE  b \in P
  <2>1. b \in Roots
    BY DEF Roots
  <2>2. CASE b \in c /\ SlotOf[b] <= SlotOf[finalized]
    BY Zenon, <2>1, <2>2, <1>1, <1>7
  <2>3. CASE b \in c /\ ~(SlotOf[b] <= SlotOf[finalized])
    BY Zenon, <2>1, <2>3, <1>2, <1>7, <1>9
  <2>4. CASE b \notin c
    BY Zenon, <2>1, <2>4, <1>3, <1>7
  <2> QED BY <2>2, <2>3, <2>4
<1>10. Roots \subseteq P
  <2> HIDE DEF P
  <2> QED BY <1>8, <1>9, ChainInduction
<1>11. walk[root] = first(root)
  BY <1>10
<1> QED BY <1>6, <1>11 DEF first

\* SetToSeq lists each element of a finite set once.
LEMMA SetListed ==
  ASSUME NEW S, IsFiniteSet(S)
  PROVE  /\ SetToSeq(S) \in Seq(S)
         /\ \A i, j \in DOMAIN SetToSeq(S) : SetToSeq(S)[i] = SetToSeq(S)[j] => i = j
         /\ {SetToSeq(S)[i] : i \in DOMAIN SetToSeq(S)} = S
<1> DEFINE n == Cardinality(S)
           f == SetToSeq(S)
<1>1. n \in Nat /\ ExistsBijection(1 .. n, S)
  BY FS_CardinalityType
<1>2. \E h \in [1 .. n -> S] : IsInjective(h)
  BY <1>1, Zenon DEF ExistsBijection, Bijection, Injection
<1>3. f \in [1 .. n -> S] /\ IsInjective(f)
  BY <1>2, Zenon DEF SetToSeq
<1>4. IsFiniteSet(1 .. n) /\ Cardinality(1 .. n) = n
  <2>1. 1 \in Int /\ n \in Int
    BY <1>1
  <2> QED BY <1>1, <2>1, FS_Interval
<1>5. f \in Injection(1 .. n, S)
  BY <1>3, Zenon DEF Injection
<1> HIDE DEF f
<1>6. f \in Surjection(1 .. n, S)
  BY <1>4, <1>5, FS_Injection
<1>7. \A t \in S : \E i \in 1 .. n : f[i] = t
  BY <1>6, Zenon DEF Surjection
<1>8. f \in Seq(S) /\ DOMAIN f = 1 .. n
  BY <1>1, <1>3
<1>9. \A i, j \in DOMAIN f : f[i] = f[j] => i = j
  BY <1>3, Zenon DEF IsInjective
<1>10. {f[i] : i \in DOMAIN f} = S
  BY <1>3, <1>7, <1>8
<1> QED BY <1>8, <1>9, <1>10 DEF f

-----------------------------------------------------------------------------
(* The chain. *)

\* The tree has everything between one of its blocks and the finalized block.
LEMMA TreeConvex ==
  ASSUME TreeConnected, NEW x \in tree, NEW y \in Ancestors(x), Descends(y, finalized)
  PROVE  y \in tree
<1> DEFINE P == {u \in Roots : u \in tree =>
                   \A v \in Ancestors(u) : finalized \in Ancestors(v) => v \in tree}
<1>0. tree \subseteq Roots /\ finalized \in Roots
  BY DEF TreeConnected
<1>1. ASSUME NEW u \in tree, u = finalized, NEW v \in Ancestors(u), finalized \in Ancestors(v)
      PROVE  v \in tree
  BY <1>0, <1>1, AncestorsAcyclic
<1>2. Genesis \in P
  BY AncestorsRecursion DEF Roots
<1>3. ASSUME NEW b \in Blocks, Parent[b] \in P
      PROVE  b \in P
  <2> SUFFICES ASSUME b \in tree, NEW v \in Ancestors(b), finalized \in Ancestors(v)
               PROVE  v \in tree
    BY DEF Roots
  <2>1. CASE b = finalized
    BY <2>1, <1>1
  <2>2. CASE b # finalized /\ v # b
    BY <2>2, <1>3, AncestorsRecursion DEF TreeConnected
  <2> QED BY <2>1, <2>2
<1>4. Roots \subseteq P
  <2> HIDE DEF P
  <2> QED BY <1>2, <1>3, ChainInduction
<1> QED BY <1>0, <1>4 DEF Descends

\* What a step may do to the chain: b is added or nothing is, and finalization only
\* moves on, leaving behind what is not on its branch.
ChainMoves(b) ==
  /\ TreeConnected'
  /\ Descends(finalized', finalized)
  /\ known' \subseteq known \cup {b}
  /\ \A x \in known \ known' : ~Descends(x, finalized') /\ ~Descends(finalized', x)

\* Adding a block to the chain moves it so.
LEMMA AddMoves ==
  ASSUME TreeConnected, NEW b \in Blocks, Addable(b), AddToChain(b)
  PROVE  ChainMoves(b)
<1> DEFINE added == tree \cup {b}
<1>0. /\ tree \subseteq Roots /\ finalized \in Roots /\ b \in Roots
      /\ Finalizes[b] \in Ancestors(b) /\ Finalizes[b] \in Roots
  BY SyncAssumption, FinalizesAncestor DEF TreeConnected, Roots
<1>1. /\ tree' = {x \in added : finalized' \in Ancestors(x)}
      /\ known' = (known \cup {b}) \ {x \in added : finalized' \notin Ancestors(x)
                                                  /\ x \notin Ancestors(finalized')}
      /\ finalized' = IF SlotOf[Finalizes[b]] > SlotOf[finalized]
                      THEN Finalizes[b] ELSE finalized
  BY DEF AddToChain, Descends
<1>2. Parent[b] \in tree /\ Ancestors(b) = {b} \cup Ancestors(Parent[b])
  BY AncestorsRecursion DEF Addable
<1>3. finalized \in Ancestors(b)
  BY <1>2 DEF TreeConnected, Descends
<1>4. finalized' \in Ancestors(b) /\ finalized' \in Roots /\ finalized \in Ancestors(finalized')
  <2>1. CASE finalized' = finalized
    BY <2>1, <1>0, <1>3, AncestorsTyped
  <2>2. CASE finalized' = Finalizes[b] /\ SlotOf[Finalizes[b]] > SlotOf[finalized]
    <3>1. SlotOf[Finalizes[b]] \in Nat /\ SlotOf[finalized] \in Nat
      BY <1>0, SyncAssumption
    <3>2. Finalizes[b] \notin Ancestors(finalized)
      BY <1>0, <2>2, <3>1, AncestorsOfAncestors
    <3> QED BY <1>0, <1>3, <2>2, <3>2, AncestorsLinear
  <2> QED BY <1>1, <2>1, <2>2
<1>5. finalized' \in added
  BY <1>0, <1>2, <1>4, TreeConvex DEF Descends
<1>6. finalized' \in tree'
  BY <1>1, <1>4, <1>5, AncestorsTyped
<1>7. ASSUME NEW x \in tree', x # finalized'
      PROVE  Parent[x] \in tree'
  <2>1. x \in added /\ x \in Roots /\ finalized' \in Ancestors(x)
    BY <1>0, <1>1
  <2>2. x \in Blocks
    BY <1>7, <2>1, AncestorsRecursion DEF Roots
  <2>3. Ancestors(x) = {x} \cup Ancestors(Parent[x])
    BY <2>2, AncestorsRecursion
  <2>4. x # finalized
    BY <1>0, <1>4, <1>7, <2>1, AncestorsAcyclic
  <2>5. Parent[x] \in tree
    BY <1>2, <2>1, <2>4 DEF TreeConnected
  <2> QED BY <1>1, <1>7, <2>1, <2>3, <2>5
<1>8. tree' \subseteq known'
  BY <1>1 DEF TreeConnected
<1>9. known' \subseteq Roots
  BY <1>0, <1>1 DEF TreeConnected
<1>10. TreeConnected'
  BY <1>1, <1>6, <1>7, <1>8, <1>9 DEF TreeConnected, Descends
<1>11. known' \subseteq known \cup {b}
  BY <1>1
<1>12. \A x \in known \ known' : ~Descends(x, finalized') /\ ~Descends(finalized', x)
  BY <1>1 DEF Descends
<1> QED BY <1>4, <1>10, <1>11, <1>12 DEF ChainMoves, Descends

\* So does the import of a block, whether it succeeds or fails.
LEMMA ImportMoves ==
  ASSUME TreeConnected, NEW b \in Blocks, ImportBlock(b) \/ UNCHANGED chain
  PROVE  ChainMoves(b)
<1>1. CASE UNCHANGED chain
  <2>1. TreeConnected'
    BY <1>1 DEF TreeConnected, chain, Descends
  <2>2. Descends(finalized', finalized)
    BY <1>1, AncestorsTyped DEF TreeConnected, chain, Descends
  <2> QED BY <1>1, <2>1, <2>2 DEF ChainMoves, chain
<1>2. CASE Addable(b) /\ AddToChain(b)
  BY <1>2, AddMoves
<1> QED BY <1>1, <1>2 DEF ImportBlock

\* Moves of the chain keep what was passed, and what is on the finalized branch.
LEMMA MovesKeep ==
  ASSUME TreeConnected, NEW b \in Blocks, ChainMoves(b), NEW c \in Roots
  PROVE  /\ Descends(c, finalized') => Descends(c, finalized)
         /\ Passed(c) => Passed(c)'
         /\ Descends(c, finalized') => Ancestors(c) \cap known \subseteq known'
<1>0. finalized' \in Roots /\ finalized \in Ancestors(finalized')
  BY DEF ChainMoves, TreeConnected, Descends
<1>1. finalized' \in Ancestors(c) => finalized \in Ancestors(c)
  BY <1>0, AncestorsOfAncestors
<1>2. Passed(c) => Passed(c)'
  BY <1>1 DEF Passed, ChainMoves, Descends
<1>3. ASSUME finalized' \in Ancestors(c), NEW x \in Ancestors(c), x \in known, x \notin known'
      PROVE  FALSE
  BY <1>3, AncestorsLinear DEF ChainMoves, Descends
<1> QED BY <1>1, <1>2, <1>3 DEF Descends

\* Where cached blocks lead down from a descendant of the finalized block, they end
\* above that block.
LEMMA GapAboveFinalized ==
  ASSUME NEW C, finalized \in Roots, finalized \notin C,
         NEW c \in Roots, Descends(c, finalized),
         NEW x \in Ancestors(c), x # finalized, Ancestors(c) \ Ancestors(x) \subseteq C
  PROVE  /\ Descends(x, finalized)
         /\ SlotOf[x] > SlotOf[finalized]
<1>0. x \in Roots /\ finalized \in Ancestors(c)
  BY AncestorsTyped DEF Descends
<1>1. x \notin Ancestors(finalized)
  BY <1>0, AncestorsAcyclic
<1>2. finalized \in Ancestors(x)
  BY <1>0, <1>1, AncestorsLinear
<1>3. SlotOf[finalized] < SlotOf[x] /\ SlotOf[x] \in Nat /\ SlotOf[finalized] \in Nat
  BY <1>0, <1>2, AncestorsOfAncestors, SyncAssumption
<1> QED BY <1>2, <1>3 DEF Descends

\* Wanted covers what a descendant of the finalized block is missing.
LEMMA WantedCovers ==
  ASSUME finalized \in Roots, NEW C \in SUBSET Blocks, finalized \notin C,
         NEW root \in Roots, Descends(root, finalized),
         NEW x \in Ancestors(root), x \notin C, x \notin known,
         Ancestors(root) \ Ancestors(x) \subseteq C
  PROVE  x \in Wanted(C, root)
<1>1. ASSUME NEW z \in Ancestors(root) \ Ancestors(x)
      PROVE  z \in C /\ SlotOf[z] > SlotOf[finalized]
  <2>1. z \in C /\ z # finalized /\ z \in Roots
    BY AncestorsTyped
  <2>2. x \in Ancestors(z)
    BY AncestorsLinear
  <2>3. Ancestors(root) \ Ancestors(z) \subseteq C
    BY <2>1, <2>2, AncestorsOfAncestors
  <2> QED BY <2>1, <2>3, GapAboveFinalized
<1> QED BY <1>1, WantedIsMissing

-----------------------------------------------------------------------------
(* Sequences. *)

\* A queue without its head.
LEMMA TailOnce ==
  ASSUME NEW S, NEW s \in Seq(S), s # << >>,
         \A i, j \in DOMAIN s : s[i] = s[j] => i = j
  PROVE  /\ Tail(s) \in Seq(S)
         /\ \A i, j \in DOMAIN Tail(s) : Tail(s)[i] = Tail(s)[j] => i = j
         /\ {Tail(s)[i] : i \in DOMAIN Tail(s)} = {s[i] : i \in DOMAIN s} \ {Head(s)}
<1> DEFINE n == Len(s)
           t == Tail(s)
<1>1. n \in Nat /\ n > 0 /\ DOMAIN s = 1 .. n /\ Head(s) = s[1]
  OBVIOUS
<1>2. t \in Seq(S) /\ DOMAIN t = 1 .. n - 1 /\ \A i \in 1 .. n - 1 : t[i] = s[i + 1]
  BY <1>1
<1> HIDE DEF n, t
<1>3. ASSUME NEW i \in DOMAIN t, NEW j \in DOMAIN t, t[i] = t[j]
      PROVE  i = j
  <2>1. i + 1 \in DOMAIN s /\ j + 1 \in DOMAIN s /\ s[i + 1] = s[j + 1]
    BY <1>1, <1>2, <1>3
  <2>2. i + 1 = j + 1
    BY <2>1
  <2> QED BY <1>1, <1>2, <2>2
<1>4. ASSUME NEW i \in DOMAIN t
      PROVE  t[i] \in {s[k] : k \in DOMAIN s} \ {Head(s)}
  <2>1. i + 1 \in DOMAIN s /\ 1 \in DOMAIN s /\ i + 1 # 1 /\ t[i] = s[i + 1]
    BY <1>1, <1>2
  <2> QED BY <1>1, <2>1
<1>5. ASSUME NEW k \in DOMAIN s, s[k] # Head(s)
      PROVE  \E i \in DOMAIN t : t[i] = s[k]
  <2>1. k # 1
    BY <1>1, <1>5
  <2>2. k - 1 \in DOMAIN t /\ t[k - 1] = s[k]
    BY <1>1, <1>2, <2>1
  <2> QED BY <2>2
<1>6. {t[i] : i \in DOMAIN t} = {s[i] : i \in DOMAIN s} \ {Head(s)}
  BY <1>4, <1>5
<1> QED BY <1>2, <1>3, <1>6 DEF t

\* Two lists that have nothing in common, one after the other.
LEMMA ConcatOnce ==
  ASSUME NEW S, NEW s \in Seq(S), NEW t \in Seq(S),
         \A i, j \in DOMAIN s : s[i] = s[j] => i = j,
         \A i, j \in DOMAIN t : t[i] = t[j] => i = j,
         {s[i] : i \in DOMAIN s} \cap {t[i] : i \in DOMAIN t} = {}
  PROVE  /\ s \o t \in Seq(S)
         /\ \A i, j \in DOMAIN (s \o t) : (s \o t)[i] = (s \o t)[j] => i = j
         /\ {(s \o t)[i] : i \in DOMAIN (s \o t)}
              = {s[i] : i \in DOMAIN s} \cup {t[i] : i \in DOMAIN t}
<1> DEFINE m == Len(s)
           n == Len(t)
           u == s \o t
<1>1. m \in Nat /\ n \in Nat /\ DOMAIN s = 1 .. m /\ DOMAIN t = 1 .. n
  OBVIOUS
<1>2. /\ u \in Seq(S) /\ DOMAIN u = 1 .. m + n
      /\ \A i \in 1 .. m + n : u[i] = IF i <= m THEN s[i] ELSE t[i - m]
  OBVIOUS
<1> HIDE DEF m, n, u
<1>3. \A i \in DOMAIN u : \/ i \in DOMAIN s /\ u[i] = s[i]
                          \/ i - m \in DOMAIN t /\ u[i] = t[i - m]
  BY <1>1, <1>2
<1>4. \A i \in DOMAIN s : i \in DOMAIN u /\ u[i] = s[i]
  BY <1>1, <1>2
<1>5. \A i \in DOMAIN t : i + m \in DOMAIN u /\ u[i + m] = t[i]
  <2> SUFFICES ASSUME NEW i \in DOMAIN t PROVE i + m \in DOMAIN u /\ u[i + m] = t[i]
    OBVIOUS
  <2>1. i + m \in 1 .. m + n /\ ~(i + m <= m) /\ (i + m) - m = i
    BY <1>1
  <2> QED BY <1>2, <2>1
<1>6. ASSUME NEW i \in DOMAIN u, NEW j \in DOMAIN u, u[i] = u[j]
      PROVE  i = j
  <2>0. i \in Int /\ j \in Int /\ m \in Int
    BY <1>1, <1>2
  <2>1. CASE i \in DOMAIN s /\ u[i] = s[i]
    <3>1. ~(j - m \in DOMAIN t /\ u[j] = t[j - m])
      BY Zenon, <2>1, <1>6
    <3> QED BY Zenon, <2>1, <3>1, <1>3, <1>6
  <2>2. CASE i - m \in DOMAIN t /\ u[i] = t[i - m]
    <3>1. ~(j \in DOMAIN s /\ u[j] = s[j])
      BY Zenon, <2>2, <1>6
    <3>2. i - m = j - m
      BY Zenon, <2>2, <3>1, <1>3, <1>6
    <3> QED BY <3>2, <2>0
  <2> QED BY <1>3, <2>1, <2>2
<1>7. {u[i] : i \in DOMAIN u} = {s[i] : i \in DOMAIN s} \cup {t[i] : i \in DOMAIN t}
  BY <1>3, <1>4, <1>5
<1> QED BY Zenon, <1>2, <1>6, <1>7 DEF u

-----------------------------------------------------------------------------
(* Requests. *)

\* the roots that requests ask for
RootsIn(open) == {r[2] : r \in open}

\* requestBlock marks and opens the requests it makes, and closes none.
LEMMA RequestsMade ==
  ASSUME NEW marks, NEW open \in SUBSET (Peers \X Roots), DOMAIN marks \subseteq RootsIn(open),
         NEW peer \in Peers, NEW ask \in SUBSET Roots, RequestBlock(marks, open, peer, ask)
  PROVE  /\ inflight' \subseteq Peers \X Roots
         /\ DOMAIN requested' \subseteq Asked'
         /\ Asked' = RootsIn(open) \cup ask
<1>1. inflight' = open \cup {<<peer, r>> : r \in ask}
  BY DEF RequestBlock
<1>2. Asked' = RootsIn(open) \cup ask
  <2>1. Asked' = {r[2] : r \in inflight'}
    BY DEF Asked
  <2>2. ASSUME NEW x \in Asked'
        PROVE  x \in RootsIn(open) \cup ask
    <3>1. PICK r \in inflight' : x = r[2]
      BY <2>1
    <3>2. CASE r \in open
      BY <3>1, <3>2 DEF RootsIn
    <3>3. CASE r \in {<<peer, y>> : y \in ask}
      BY <3>1, <3>3
    <3> QED BY <1>1, <3>1, <3>2, <3>3
  <2>3. ASSUME NEW x \in RootsIn(open)
        PROVE  x \in Asked'
    BY <1>1, <2>1 DEF RootsIn
  <2>4. ASSUME NEW x \in ask
        PROVE  x \in Asked'
    <3>1. <<peer, x>> \in inflight' /\ <<peer, x>>[2] = x
      BY <1>1
    <3> HIDE DEF Asked
    <3> QED BY <2>1, <3>1
  <2> QED BY <2>2, <2>3, <2>4
<1>3. DOMAIN requested' = DOMAIN marks \cup ask
  BY DEF RequestBlock
<1>4. inflight' \subseteq Peers \X Roots
  BY <1>1
<1> QED BY <1>2, <1>3, <1>4

\* What is wanted is on its way after a request: it was asked for before, or now.
LEMMA WantedAsked ==
  ASSUME finalized \in Roots, NEW C \in SUBSET Blocks, NEW root \in Roots,
         NEW marks, NEW open \in SUBSET (Peers \X Roots), DOMAIN marks \subseteq RootsIn(open),
         NEW peer \in Peers, RequestBlock(marks, open, peer, Ask(marks, C, root))
  PROVE  /\ inflight' \subseteq Peers \X Roots
         /\ DOMAIN requested' \subseteq Asked'
         /\ RootsIn(open) \subseteq Asked'
         /\ Asked' \subseteq RootsIn(open) \cup Ancestors(root)
         /\ Wanted(C, root) \subseteq Asked'
<1>1. Wanted(C, root) \subseteq Ancestors(root)
  BY WantedIsMissing
<1>2. Ask(marks, C, root) \subseteq Ancestors(root) /\ Ask(marks, C, root) \in SUBSET Roots
  BY <1>1, AncestorsTyped DEF Ask
<1>3. \A r \in Wanted(C, root) \ Ask(marks, C, root) : r \in DOMAIN marks
  BY DEF Ask
<1> QED BY <1>2, <1>3, RequestsMade

-----------------------------------------------------------------------------
(* Each action keeps the invariant. *)

\* the children of b in the index are those in the cache
LEMMA IndexedChildren ==
  ASSUME CacheIndexed, NEW b
  PROVE  /\ ChildrenOf(children, b) = {c \in cache : Parent[c] = b}
         /\ IsFiniteSet(ChildrenOf(children, b))
<1>1. ChildrenOf(children, b) = {c \in cache : Parent[c] = b}
  <2>1. children = {<<Parent[c], c>> : c \in cache}
    BY DEF CacheIndexed
  <2>2. ASSUME NEW c \in ChildrenOf(children, b)
        PROVE  c \in cache /\ Parent[c] = b
    <3>1. PICK p \in children : p[1] = b /\ p[2] = c
      BY DEF ChildrenOf
    <3>2. PICK d \in cache : p = <<Parent[d], d>>
      BY <2>1, <3>1
    <3> QED BY <3>1, <3>2
  <2>3. ASSUME NEW c \in cache, Parent[c] = b
        PROVE  c \in ChildrenOf(children, b)
    <3>1. <<b, c>> \in children /\ <<b, c>>[1] = b /\ <<b, c>>[2] = c
      BY <2>1, <2>3
    <3> QED BY <3>1 DEF ChildrenOf
  <2> QED BY <2>2, <2>3
<1>2. IsFiniteSet({c \in cache : Parent[c] = b})
  <2>1. {c \in cache : Parent[c] = b} \subseteq cache
    OBVIOUS
  <2> QED BY <2>1, FS_Subset, Zenon DEF CacheIndexed
<1> QED BY <1>1, <1>2

\* one block of the queue leaves the cache
LEMMA ConsumeKeeps ==
  ASSUME SyncInv, Consume
  PROVE  SyncInv'
<1> DEFINE b == Head(queue)
           K == {c \in cache : Parent[c] = b}
<1>1. queue \in Seq(Blocks) /\ queue # << >> /\ b \in Queued /\ b \in cache /\ b \in Blocks
  <2>1. queue \in Seq(Blocks) /\ queue # << >> /\ Queued \subseteq cache /\ cache \subseteq Blocks
    BY DEF SyncInv, QueueReady, Consume, CacheIndexed
  <2>2. 1 \in DOMAIN queue /\ b = queue[1]
    BY <2>1
  <2> HIDE DEF b
  <2>3. b \in Queued
    BY <2>2 DEF Queued
  <2> QED BY <2>1, <2>3
<1>2. Parent[b] \in Roots /\ b \in Roots /\ Parent[b] # b /\ Parent[b] \notin cache
  <2>1. Parent[b] \notin cache
    BY <1>1 DEF SyncInv, QueueReady
  <2> QED BY <1>1, <2>1, SyncAssumption DEF Roots
<1>3. /\ cache' = cache \ {b}
      /\ children' = children \ {<<Parent[b], b>>}
      /\ ImportBlock(b) \/ UNCHANGED chain
      /\ pending' = pending \ {b}
      /\ queue' = Tail(queue) \o SetToSeq(K)
      /\ status' = status /\ status \in {"consuming", "forgetting"}
      /\ requested' = requested /\ inflight' = inflight /\ errors' = errors
  BY Zenon, <1>1, IndexedChildren DEF SyncInv, Consume, NextInQueue
<1> HIDE DEF b
<1>4. TreeConnected /\ ChainMoves(b)
  BY <1>1, <1>3, ImportMoves DEF SyncInv
<1>5. TreeConnected' /\ known' \subseteq known \cup {b}
  BY <1>4 DEF ChainMoves
<1>6. CacheIndexed'
  <2>1. IsFiniteSet(cache')
    BY <1>3, FS_Subset, Zenon DEF SyncInv, CacheIndexed
  <2>2. children' = {<<Parent[c], c>> : c \in cache'}
    <3>1. children = {<<Parent[c], c>> : c \in cache}
      BY DEF SyncInv, CacheIndexed
    <3> QED BY <1>3, <3>1
  <2> QED BY <1>3, <1>5, <2>1, <2>2 DEF SyncInv, CacheIndexed
<1>7. OwnPassed'
  <2>1. Asked' = Asked
    BY <1>3 DEF Asked
  <2> SUFFICES ASSUME NEW c \in cache' \cup pending' \cup Asked', NEW x \in Ancestors(c) \cap Own
               PROVE  Passed(x)'
    BY DEF OwnPassed
  <2>2. Passed(x) /\ x \in Roots
    BY <1>3, <2>1, SyncAssumption DEF SyncInv, OwnPassed, Roots
  <2> QED BY <1>1, <1>4, <2>2, MovesKeep
<1>8. /\ queue' \in Seq(Blocks)
      /\ \A i, j \in DOMAIN queue' : queue'[i] = queue'[j] => i = j
      /\ Queued' = (Queued \ {b}) \cup K
  <2>1. /\ Tail(queue) \in Seq(Blocks)
        /\ \A i, j \in DOMAIN Tail(queue) : Tail(queue)[i] = Tail(queue)[j] => i = j
        /\ {Tail(queue)[i] : i \in DOMAIN Tail(queue)} = Queued \ {b}
    <3>1. \A i, j \in DOMAIN queue : queue[i] = queue[j] => i = j
      BY DEF SyncInv, QueueReady
    <3> QED BY Zenon, <1>1, <3>1, TailOnce DEF Queued, b
  <2>2. IsFiniteSet(K) /\ K \subseteq Blocks
    BY Zenon, IndexedChildren DEF SyncInv, CacheIndexed
  <2> HIDE DEF K
  <2>3. /\ SetToSeq(K) \in Seq(K)
        /\ \A i, j \in DOMAIN SetToSeq(K) : SetToSeq(K)[i] = SetToSeq(K)[j] => i = j
        /\ {SetToSeq(K)[i] : i \in DOMAIN SetToSeq(K)} = K
    BY <2>2, SetListed
  <2>4. SetToSeq(K) \in Seq(Blocks)
    BY <2>2, <2>3, SeqMonotonic
  <2>5. (Queued \ {b}) \cap K = {}
    BY <1>1 DEF SyncInv, QueueReady, K
  <2> DEFINE t == SetToSeq(K)
             s == Tail(queue)
  <2> HIDE DEF t, s
  <2>6. /\ s \o t \in Seq(Blocks)
        /\ \A i, j \in DOMAIN (s \o t) : (s \o t)[i] = (s \o t)[j] => i = j
        /\ {(s \o t)[i] : i \in DOMAIN (s \o t)} = (Queued \ {b}) \cup K
    <3>1. s \in Seq(Blocks) /\ t \in Seq(Blocks)
      BY <2>1, <2>4 DEF s, t
    <3>2. \A i, j \in DOMAIN s : s[i] = s[j] => i = j
      BY <2>1 DEF s
    <3>3. \A i, j \in DOMAIN t : t[i] = t[j] => i = j
      BY <2>3 DEF t
    <3>4. {s[i] : i \in DOMAIN s} = Queued \ {b} /\ {t[i] : i \in DOMAIN t} = K
      BY <2>1, <2>3 DEF s, t
    <3>5. {s[i] : i \in DOMAIN s} \cap {t[i] : i \in DOMAIN t} = {}
      BY <2>5, <3>4
    <3>6. /\ s \o t \in Seq(Blocks)
          /\ \A i, j \in DOMAIN (s \o t) : (s \o t)[i] = (s \o t)[j] => i = j
          /\ {(s \o t)[i] : i \in DOMAIN (s \o t)}
               = {s[i] : i \in DOMAIN s} \cup {t[i] : i \in DOMAIN t}
      BY Zenon, <3>1, <3>2, <3>3, <3>5, ConcatOnce
    <3> QED BY Zenon, <3>4, <3>6
  <2>7. queue' = s \o t
    BY <1>3 DEF s, t
  <2>8. Queued' = {queue'[i] : i \in DOMAIN queue'}
    BY DEF Queued
  <2> QED BY <2>6, <2>7, <2>8
<1>9. QueueReady'
  <2>1. Queued' \subseteq cache'
    BY <1>2, <1>3, <1>8 DEF SyncInv, QueueReady
  <2>2. ASSUME NEW c \in Queued'
        PROVE  Parent[c] \notin cache'
    BY <1>3, <1>8 DEF SyncInv, QueueReady
  <2>3. ASSUME NEW c \in cache', Parent[c] \in known'
        PROVE  c \in Queued'
    BY <1>3, <1>5, <1>8, <2>3 DEF SyncInv, QueueReady
  <2> QED BY Zenon, <1>3, <1>8, <2>1, <2>2, <2>3 DEF QueueReady
<1>10. MarksOpen'
  BY <1>3 DEF SyncInv, MarksOpen, Asked
<1>11. WaitsAsked'
  <2> SUFFICES ASSUME errors' = 0, NEW c \in cache' \cup pending', Descends(c, finalized')
               PROVE  (Missing(c) \subseteq Asked)' \/ Reached(c)'
    BY DEF WaitsAsked, Descends
  <2>1. c \in cache \cup pending /\ c # b /\ c \in Roots
    BY <1>3 DEF SyncInv, CacheIndexed, Roots
  <2>2. /\ Descends(c, finalized)
        /\ Ancestors(c) \cap known \subseteq known'
    BY <1>1, <1>4, <2>1, MovesKeep
  <2>3. ASSUME NEW q \in Queued, q # b, q \in Ancestors(c),
               Ancestors(c) \ Ancestors(q) \subseteq cache
        PROVE  Reached(c)'
    <3>1. q \in cache /\ q \in Roots
      BY <2>1, <2>3, AncestorsTyped DEF SyncInv, QueueReady
    <3>2. b \notin Ancestors(c) \ Ancestors(q)
      <4> SUFFICES ASSUME b \in Ancestors(c), b \notin Ancestors(q) PROVE FALSE
        OBVIOUS
      <4>1. q \in Ancestors(b)
        BY <2>1, <2>3, AncestorsLinear
      <4>2. Ancestors(b) = {b} \cup Ancestors(Parent[b])
        BY <1>1, AncestorsRecursion
      <4>3. q \in Ancestors(Parent[b]) /\ Parent[b] \in Ancestors(c)
        BY <1>2, <2>1, <2>3, <4>1, <4>2, AncestorsTyped, AncestorsOfAncestors
      <4>4. Parent[b] # q
        BY <1>2, <3>1
      <4>5. Parent[b] \notin Ancestors(q)
        BY <1>2, <4>3, <4>4, AncestorsAcyclic
      <4> QED BY <1>2, <2>3, <4>3, <4>5
    <3>3. q \in Queued' /\ Ancestors(c) \ Ancestors(q) \subseteq cache'
      BY <1>3, <1>8, <2>3, <3>2
    <3> QED BY <2>3, <3>3 DEF Reached
  <2>4. ASSUME b \in Ancestors(c), Ancestors(c) \ Ancestors(b) \subseteq cache
        PROVE  Reached(c)'
    <3>1. PICK d \in Blocks : d \in Ancestors(c) /\ Parent[d] = b
      BY <2>1, <2>4, ChildOnTheWay
    <3>2. d \in Roots /\ Ancestors(d) = {d} \cup Ancestors(b) /\ SlotOf[b] < SlotOf[d]
      BY <3>1, AncestorsRecursion, SyncAssumption DEF Roots
    <3>3. d \notin Ancestors(b)
      <4>1. SlotOf[b] \in Nat /\ SlotOf[d] \in Nat
        BY <1>2, <3>2, SyncAssumption
      <4> QED BY <1>2, <3>2, <4>1, AncestorsOfAncestors
    <3>4. d \in K
      BY <2>4, <3>1, <3>3
    <3>5. b \in Ancestors(b)
      BY <1>2, AncestorsTyped
    <3>6. Ancestors(c) \ Ancestors(d) \subseteq cache'
      BY <1>3, <2>4, <3>2, <3>5
    <3> QED BY <1>8, <3>1, <3>4, <3>6 DEF Reached
  <2>5. CASE Reached(c)
    BY <2>3, <2>4, <2>5 DEF Reached
  <2>6. CASE ~Reached(c)
    <3>1. Missing(c) \subseteq Asked
      BY <1>3, <2>1, <2>2, <2>6 DEF SyncInv, WaitsAsked
    <3>2. ASSUME NEW x \in Missing(c)' PROVE x \in Asked'
      <4>1. /\ x \in Ancestors(c) /\ x \notin cache' /\ x \notin known'
            /\ Ancestors(c) \ Ancestors(x) \subseteq cache'
        BY DEF Missing
      <4>2. x # b
        BY <1>1, <1>3, <2>6, <4>1 DEF Reached
      <4>3. x \in Missing(c)
        BY <1>3, <2>2, <4>1, <4>2 DEF Missing
      <4> QED BY <1>3, <3>1, <4>3 DEF Asked
    <3> QED BY <3>2
  <2> QED BY <2>5, <2>6
<1> QED BY <1>5, <1>6, <1>7, <1>9, <1>10, <1>11 DEF SyncInv

\* between two handlers nothing is queued
LEMMA IdleWaits ==
  ASSUME SyncInv, queue = << >>
  PROVE  /\ Queued = {}
         /\ \A c \in cache : Parent[c] \notin known
         /\ errors = 0 => \A c \in cache \cup pending :
                            Descends(c, finalized) => Missing(c) \subseteq Asked
<1>1. Queued = {}
  BY DEF Queued
<1> QED BY <1>1 DEF SyncInv, QueueReady, WaitsAsked, Reached

\* the caches forget what is finalized
LEMMA PruneKeeps ==
  ASSUME SyncInv, Prune
  PROVE  SyncInv'
<1> DEFINE old == {b \in cache : SlotOf[b] <= SlotOf[finalized]}
<1>1. /\ queue = << >> /\ queue' = queue /\ status' = "idle"
      /\ cache' = cache \ old
      /\ children' = {p \in children : p[2] \notin old}
      /\ pending' = {h \in pending : SlotOf[h] > SlotOf[finalized]}
      /\ known' = known /\ tree' = tree /\ finalized' = finalized
      /\ requested' = requested /\ inflight' = inflight /\ errors' = errors
  BY DEF Prune, Unindexed
<1>2. TreeConnected'
  BY <1>1 DEF SyncInv, TreeConnected, Descends
<1>3. CacheIndexed'
  <2>1. IsFiniteSet(cache')
    BY <1>1, FS_Subset, Zenon DEF SyncInv, CacheIndexed
  <2>2. children' = {<<Parent[c], c>> : c \in cache'}
    <3>1. children = {<<Parent[c], c>> : c \in cache}
      BY DEF SyncInv, CacheIndexed
    <3> HIDE DEF old
    <3> QED BY <1>1, <3>1
  <2> QED BY <1>1, <2>1, <2>2 DEF SyncInv, CacheIndexed
<1>4. OwnPassed'
  BY <1>1 DEF SyncInv, OwnPassed, Passed, Descends, Asked
<1>5. QueueReady'
  <2>1. Queued' = {} /\ Queued = {}
    BY <1>1 DEF Queued
  <2> QED BY <1>1, <2>1 DEF SyncInv, QueueReady
<1>6. MarksOpen'
  BY <1>1 DEF SyncInv, MarksOpen, Asked
<1>7. WaitsAsked'
  <2> SUFFICES ASSUME errors' = 0, NEW c \in cache' \cup pending', Descends(c, finalized)',
                      NEW x \in Missing(c)'
               PROVE  x \in Asked'
    BY DEF WaitsAsked
  <2>0. c \in cache \cup pending /\ c \in Roots /\ Descends(c, finalized)
    BY <1>1 DEF SyncInv, CacheIndexed, Roots, Descends
  <2>1. /\ x \in Ancestors(c) /\ x \notin cache' /\ x \notin known
        /\ Ancestors(c) \ Ancestors(x) \subseteq cache'
    BY <1>1 DEF Missing
  <2>2. finalized \in Roots /\ finalized \in known /\ finalized \notin cache'
    BY <1>1 DEF SyncInv, TreeConnected, CacheIndexed
  <2>3. SlotOf[x] > SlotOf[finalized] /\ SlotOf[x] \in Nat /\ SlotOf[finalized] \in Nat
    <3>1. x # finalized /\ x \in Roots
      BY <2>0, <2>1, <2>2, AncestorsTyped
    <3>2. SlotOf[x] > SlotOf[finalized]
      BY <2>0, <2>1, <2>2, <3>1, GapAboveFinalized
    <3> QED BY <2>2, <3>1, <3>2, SyncAssumption
  <2>4. x \notin old
    BY <2>3
  <2>5. x \in Missing(c)
    BY <1>1, <2>1, <2>4 DEF Missing
  <2> QED BY <1>1, <2>0, <2>5, IdleWaits DEF Asked
<1> QED BY <1>2, <1>3, <1>4, <1>5, <1>6, <1>7 DEF SyncInv

\* the production thread adds a block that nobody waits for
LEMMA ProduceKeeps ==
  ASSUME SyncInv, NEW b \in Blocks, Produce(b)
  PROVE  SyncInv'
<1>1. /\ b \in Own /\ Addable(b) /\ AddToChain(b)
      /\ UNCHANGED <<cache, children, pending, requested, inflight, queue, status, errors>>
  BY DEF Produce
<1>2. TreeConnected /\ ChainMoves(b)
  BY <1>1, AddMoves DEF SyncInv
<1>3. TreeConnected' /\ known' \subseteq known \cup {b}
  BY <1>2 DEF ChainMoves
<1>4. b \in Roots /\ Parent[b] \in tree /\ b \notin known
  BY <1>1 DEF Addable, Roots
<1>5. Descends(b, finalized)
  BY <1>4, AncestorsRecursion DEF SyncInv, TreeConnected, Descends
<1>6. \A c \in cache \cup pending \cup Asked : b \notin Ancestors(c)
  BY <1>1, <1>4, <1>5 DEF SyncInv, OwnPassed, Passed
<1>7. \A c \in cache \cup pending : c \in Blocks /\ c # b /\ Parent[c] # b
  <2> SUFFICES ASSUME NEW c \in cache \cup pending
               PROVE  c \in Blocks /\ c # b /\ Parent[c] # b
    OBVIOUS
  <2>1. c \in Blocks /\ c \in Roots /\ Parent[c] \in Roots
    BY SyncAssumption DEF SyncInv, CacheIndexed, Roots
  <2>2. c \in Ancestors(c) /\ Parent[c] \in Ancestors(c)
    BY <2>1, AncestorsTyped, AncestorsRecursion
  <2> QED BY <1>6, <2>1, <2>2
<1>8. CacheIndexed'
  BY <1>1, <1>3, <1>7 DEF SyncInv, CacheIndexed
<1>9. OwnPassed'
  <2> SUFFICES ASSUME NEW c \in cache \cup pending \cup Asked, NEW x \in Ancestors(c) \cap Own
               PROVE  Passed(x)'
    BY <1>1 DEF OwnPassed, Asked
  <2>1. Passed(x) /\ x \in Roots
    BY SyncAssumption DEF SyncInv, OwnPassed, Roots
  <2> QED BY <1>2, <2>1, MovesKeep
<1>10. QueueReady'
  <2>1. Queued' = Queued
    BY <1>1 DEF Queued
  <2> QED BY <1>1, <1>3, <1>7, <2>1 DEF SyncInv, QueueReady
<1>11. MarksOpen'
  BY <1>1 DEF SyncInv, MarksOpen, Asked
<1>12. WaitsAsked'
  <2> SUFFICES ASSUME errors = 0, NEW c \in cache \cup pending, Descends(c, finalized')
               PROVE  (Missing(c) \subseteq Asked)' \/ Reached(c)'
    BY <1>1 DEF WaitsAsked, Descends
  <2>1. c \in Roots
    BY <1>7 DEF Roots
  <2>2. Descends(c, finalized) /\ Ancestors(c) \cap known \subseteq known'
    BY <1>2, <2>1, MovesKeep
  <2>3. Missing(c)' \subseteq Missing(c)
    BY <1>1, <2>2 DEF Missing
  <2>4. Reached(c) => Reached(c)'
    BY <1>1 DEF Reached, Queued
  <2> QED BY <1>1, <2>2, <2>3, <2>4 DEF SyncInv, WaitsAsked, Asked
<1> QED BY <1>3, <1>8, <1>9, <1>10, <1>11, <1>12 DEF SyncInv

\* A block arrives, by gossip or as an answer: marks and open are what is left of the
\* requests, and only that for b itself may be gone.
LEMMA ReceiveKeeps ==
  ASSUME SyncInv, status = "idle", NEW b \in Blocks, NEW peer \in Peers,
         NEW marks, NEW open \in SUBSET inflight,
         DOMAIN marks \subseteq RootsIn(open), Asked \ {b} \subseteq RootsIn(open),
         \A x \in Ancestors(b) \cap Own : Passed(x),
         ReceiveBlock(b), AskParent(marks, open, peer, b), errors' = errors
  PROVE  /\ SyncInv'
         /\ \A c \in cache' \ cache : Descends(c, finalized) => (Missing(c) \subseteq Asked)'
<1> DEFINE K == {c \in cache : Parent[c] = b}
           P == Parent[b]
<1>1. /\ queue = << >> /\ Queued = {}
      /\ \A c \in cache : Parent[c] \notin known
      /\ errors = 0 => \A c \in cache \cup pending :
                         Descends(c, finalized) => Missing(c) \subseteq Asked
  BY Zenon, IdleWaits DEF SyncInv, QueueReady
<1>2. known' = known /\ tree' = tree /\ finalized' = finalized /\ pending' = pending
  BY DEF ReceiveBlock
<1>3. /\ P \in Roots /\ b \in Roots /\ P # b /\ Ancestors(b) = {b} \cup Ancestors(P)
      /\ cache \subseteq Blocks /\ pending \subseteq Blocks
      /\ inflight \subseteq Peers \X Roots /\ open \in SUBSET (Peers \X Roots)
      /\ finalized \in Roots /\ finalized \in known /\ finalized \notin cache
  <2>1. P \in Roots /\ b \in Roots /\ SlotOf[P] < SlotOf[b] /\ SlotOf[b] \in Nat
    BY SyncAssumption DEF Roots
  <2>2. P # b /\ Ancestors(b) = {b} \cup Ancestors(P)
    BY <2>1, AncestorsRecursion
  <2> QED BY Zenon, <2>1, <2>2 DEF SyncInv, CacheIndexed, MarksOpen, TreeConnected
<1>4. /\ inflight' \subseteq Peers \X Roots
      /\ DOMAIN requested' \subseteq Asked'
      /\ RootsIn(open) \subseteq Asked'
      /\ Asked' \subseteq RootsIn(open) \cup Ancestors(b)
      /\ AsksParent(b) => Wanted(cache \cup {b}, P) \subseteq Asked'
  <2>1. CASE AsksParent(b)
    <3>1. RequestBlock(marks, open, peer, Ask(marks, cache \cup {b}, P))
      BY Zenon, <2>1 DEF AskParent
    <3>2. cache \cup {b} \in SUBSET Blocks
      BY <1>3
    <3> HIDE DEF P
    <3> QED BY Zenon, <1>3, <3>1, <3>2, WantedAsked
  <2>2. CASE ~AsksParent(b)
    <3>1. RequestBlock(marks, open, peer, {})
      BY <2>2 DEF AskParent
    <3> DEFINE none == {}
    <3>2. none \in SUBSET Roots /\ RequestBlock(marks, open, peer, none)
      BY <3>1
    <3> HIDE DEF none
    <3>3. /\ inflight' \subseteq Peers \X Roots
          /\ DOMAIN requested' \subseteq Asked'
          /\ Asked' = RootsIn(open) \cup none
      BY <1>3, <3>2, RequestsMade
    <3>4. RootsIn(open) \subseteq Asked' /\ Asked' \subseteq RootsIn(open) \cup Ancestors(b)
      BY <3>3 DEF none
    <3> QED BY <2>2, <3>3, <3>4, Zenon
  <2> QED BY Zenon, <2>1, <2>2
<1>5. RootsIn(open) \subseteq Asked
  BY DEF RootsIn, Asked
<1>6. TreeConnected'
  BY <1>2 DEF SyncInv, TreeConnected, Descends
<1>7. MarksOpen'
  BY <1>4 DEF SyncInv, MarksOpen
<1>8. ASSUME cache' \subseteq cache \cup {b}
      PROVE  OwnPassed'
  <2> SUFFICES ASSUME NEW c \in cache' \cup pending' \cup Asked', NEW x \in Ancestors(c) \cap Own
               PROVE  Passed(x)'
    BY DEF OwnPassed
  <2>1. c \in cache \cup pending \cup Asked \/ c \in Ancestors(b)
    BY Zenon, <1>2, <1>3, <1>4, <1>5, <1>8, AncestorsTyped
  <2>2. c \in Ancestors(b) => x \in Ancestors(b)
    BY Zenon, <1>3, AncestorsOfAncestors
  <2>3. Passed(x)
    BY <2>1, <2>2 DEF SyncInv, OwnPassed
  <2> QED BY <1>2, <2>3 DEF Passed, Descends
<1>9. ASSUME cache' = cache, children' = children, status' \in {"idle", "forgetting", "undefined"},
             \/ queue' = queue
             \/ queue' = SetToSeq(K) /\ status' # "idle" /\ b \notin cache,
             b \in cache \cup known \/ SlotOf[b] <= SlotOf[finalized]
      PROVE  SyncInv'
  <2>1. CacheIndexed'
    BY Zenon, <1>2, <1>9 DEF SyncInv, CacheIndexed
  <2>2. QueueReady'
    <3>1. CASE queue' = queue
      <4>1. Queued' = Queued
        BY <3>1 DEF Queued
      <4> QED BY Zenon, <1>1, <1>2, <1>9, <3>1, <4>1 DEF SyncInv, QueueReady
    <3>2. CASE queue' = SetToSeq(K) /\ status' # "idle" /\ b \notin cache
      <4>0. ChildrenOf(children, b) = K /\ IsFiniteSet(ChildrenOf(children, b))
        BY IndexedChildren, Zenon DEF SyncInv
      <4>1. IsFiniteSet(K) /\ K \subseteq Blocks
        BY <1>3, <4>0
      <4>2. /\ queue' \in Seq(K)
            /\ \A i, j \in DOMAIN queue' : queue'[i] = queue'[j] => i = j
            /\ {queue'[i] : i \in DOMAIN queue'} = K
        <5> HIDE DEF K
        <5> QED BY <3>2, <4>1, SetListed
      <4>3. queue' \in Seq(Blocks)
        <5> HIDE DEF K
        <5> QED BY Zenon, <4>1, <4>2, SeqMonotonic
      <4>4. Queued' = K
        BY <4>2 DEF Queued
      <4> QED BY Zenon, <1>1, <1>2, <1>9, <3>2, <4>2, <4>3, <4>4 DEF QueueReady
    <3> QED BY <1>9, <3>1, <3>2
  <2>3. WaitsAsked'
    <3> SUFFICES ASSUME errors = 0, NEW c \in cache \cup pending, Descends(c, finalized),
                        NEW x \in Missing(c)
                 PROVE  x \in Asked'
      BY Zenon, <1>2, <1>9 DEF WaitsAsked, Missing, Descends
    <3>1. x \in Asked
      BY <1>1
    <3>2. x # b
      <4>1. /\ x \in Ancestors(c) /\ x \notin cache /\ x \notin known /\ c \in Roots
            /\ Ancestors(c) \ Ancestors(x) \subseteq cache
        BY <1>3 DEF Missing, Roots
      <4>2. SlotOf[x] > SlotOf[finalized]
        BY <1>3, <4>1, GapAboveFinalized
      <4>3. SlotOf[b] \in Nat /\ SlotOf[finalized] \in Nat
        BY <1>3, SyncAssumption
      <4> SUFFICES ASSUME x = b PROVE FALSE
        OBVIOUS
      <4>4. SlotOf[b] <= SlotOf[finalized]
        BY Zenon, <1>9, <4>1
      <4> QED BY <4>2, <4>3, <4>4
    <3> QED BY <1>4, <3>1, <3>2
  <2> QED BY Zenon, <1>6, <1>7, <1>8, <1>9, <2>1, <2>2, <2>3 DEF SyncInv
<1>10. ASSUME CacheBlock(b), ~Cached(b), ~Imported(b), ~Finalized(b)
       PROVE  /\ SyncInv'
              /\ Descends(b, finalized) => (Missing(b) \subseteq Asked)'
  <2>1. /\ b \notin cache /\ b \notin known
        /\ cache' = cache \cup {b} /\ children' = children \cup {<<P, b>>}
        /\ \/ P \in known /\ status' = "consuming" /\ queue' = <<b>>
           \/ P \notin known /\ status' = status /\ queue' = queue
    <3>1. CASE P \in known
      BY Zenon, <1>10, <3>1 DEF CacheBlock, Cached, Imported
    <3>2. CASE P \notin known
      BY <1>10, <3>2 DEF CacheBlock, Cached, Imported
    <3> QED BY <3>1, <3>2
  <2>2. Wanted(cache \cup {b}, P) \subseteq Asked'
    BY <1>4, <1>10, Zenon DEF AsksParent
  <2>3. CacheIndexed'
    <3>1. IsFiniteSet(cache')
      BY <2>1, FS_AddElement, Zenon DEF SyncInv, CacheIndexed
    <3>2. children' = {<<Parent[c], c>> : c \in cache'}
      <4>1. children = {<<Parent[c], c>> : c \in cache}
        BY Zenon DEF SyncInv, CacheIndexed
      <4> QED BY <2>1, <4>1
    <3> QED BY Zenon, <1>2, <2>1, <3>1, <3>2 DEF SyncInv, CacheIndexed
  <2>4. QueueReady'
    <3>1. CASE P \in known /\ status' = "consuming" /\ queue' = <<b>>
      <4>1. queue' \in Seq(Blocks) /\ DOMAIN queue' = {1} /\ queue'[1] = b
        BY <3>1
      <4>2. Queued' = {b}
        BY <4>1 DEF Queued
      <4>3. P \notin cache'
        BY Zenon, <1>3, <2>1, <3>1 DEF SyncInv, CacheIndexed
      <4> QED BY Zenon, <1>1, <1>2, <2>1, <3>1, <4>1, <4>2, <4>3 DEF QueueReady
    <3>2. CASE P \notin known /\ status' = status /\ queue' = queue
      <4>1. Queued' = Queued
        BY Zenon, <3>2 DEF Queued
      <4> QED BY Zenon, <1>1, <1>2, <2>1, <3>2, <4>1 DEF SyncInv, QueueReady
    <3> QED BY Zenon, <2>1, <3>1, <3>2
  <2>5. cache' \in SUBSET Blocks /\ finalized \notin cache' /\ b # finalized
    BY <1>3, <2>1
  <2>6. ASSUME Descends(b, finalized), NEW x \in Ancestors(b), x \notin cache', x \notin known,
               Ancestors(b) \ Ancestors(x) \subseteq cache'
        PROVE  x \in Asked'
    <3>1. Descends(P, finalized) /\ x \in Ancestors(P)
      BY <1>3, <2>1, <2>5, <2>6 DEF Descends
    <3>2. Ancestors(P) \ Ancestors(x) \subseteq cache'
      BY Zenon, <1>3, <2>6
    <3>3. x \in Wanted(cache \cup {b}, P)
      <4> DEFINE C == cache \cup {b}
      <4>1. /\ C \in SUBSET Blocks /\ finalized \notin C /\ x \notin C
            /\ Ancestors(P) \ Ancestors(x) \subseteq C
        BY Zenon, <2>1, <2>5, <2>6, <3>2
      <4> HIDE DEF P, C
      <4>2. x \in Wanted(C, P)
        BY <1>3, <2>6, <3>1, <4>1, WantedCovers
      <4> QED BY <4>2 DEF C
    <3> QED BY <2>2, <3>3
  <2>7. WaitsAsked'
    <3> SUFFICES ASSUME errors = 0, NEW c \in cache' \cup pending, Descends(c, finalized),
                        NEW x \in Missing(c)'
                 PROVE  x \in Asked'
      BY <1>2 DEF WaitsAsked, Descends
    <3>1. /\ x \in Ancestors(c) /\ x \notin cache' /\ x \notin known /\ c \in Roots
          /\ Ancestors(c) \ Ancestors(x) \subseteq cache'
      BY Zenon, <1>2, <1>3, <2>1 DEF Missing, Roots
    <3>2. CASE b \in Ancestors(c) \ Ancestors(x)
      <4>1. x \in Ancestors(b)
        BY <3>1, <3>2, AncestorsLinear
      <4>2. Ancestors(b) \ Ancestors(x) \subseteq cache'
        BY <3>1, <3>2, AncestorsOfAncestors
      <4>3. Ancestors(c) \ Ancestors(b) \subseteq cache'
        BY <1>3, <3>1, <4>1, AncestorsOfAncestors
      <4>4. Descends(b, finalized)
        BY Zenon, <1>3, <2>5, <3>1, <3>2, <4>3, GapAboveFinalized
      <4> QED BY <2>6, <3>1, <4>1, <4>2, <4>4
    <3>3. CASE b \notin Ancestors(c) \ Ancestors(x)
      <4>1. c # b
        <5>1. x # b /\ b \in Ancestors(b)
          BY Zenon, <1>3, <2>1, <3>1, AncestorsTyped
        <5> QED BY Zenon, <1>3, <3>1, <3>3, <5>1, AncestorsAcyclic
      <4>2. x \in Missing(c) /\ x # b
        BY Zenon, <2>1, <3>1, <3>3 DEF Missing
      <4> QED BY Zenon, <1>1, <1>4, <2>1, <4>1, <4>2
    <3> QED BY <3>2, <3>3
  <2>8. Descends(b, finalized) => (Missing(b) \subseteq Asked)'
    BY <1>2, <2>6 DEF Missing
  <2> QED BY Zenon, <1>6, <1>7, <1>8, <2>1, <2>3, <2>4, <2>7, <2>8 DEF SyncInv
<1>11. CASE Cached(b) \/ Imported(b)
  <2>1. cache' = cache /\ children' = children /\ status' = status /\ queue' = queue
    BY Zenon, <1>11 DEF ReceiveBlock, Finalized
  <2>2. b \in cache \cup known
    BY <1>11 DEF Cached, Imported
  <2> QED BY Zenon, <1>9, <2>1, <2>2
<1>12. CASE Finalized(b)
  <2>1. b \notin cache /\ SlotOf[b] <= SlotOf[finalized]
    BY <1>12 DEF Finalized, Cached
  <2>2. /\ cache' = cache /\ children' = children
        /\ \/ status' = status /\ queue' = queue
           \/ status' \in {"forgetting", "undefined"} /\ queue' = SetToSeq(K)
    <3>1. ChildrenOf(children, b) = K
      BY Zenon, IndexedChildren DEF SyncInv
    <3> QED BY Zenon, <1>12, <3>1 DEF ReceiveBlock, Finalized, ForgetChildren
  <2> QED BY <1>9, <2>1, <2>2
<1>13. CASE ~Cached(b) /\ ~Imported(b) /\ ~Finalized(b)
  <2>1. CacheBlock(b)
    BY <1>13 DEF ReceiveBlock
  <2>2. cache' = cache \cup {b}
    BY Zenon, <2>1 DEF CacheBlock
  <2> QED BY <1>10, <1>13, <2>1, <2>2
<1> QED BY <1>11, <1>12, <1>13

\* a step that only asks for blocks, and for those that a new pending vote is missing
LEMMA AskKeeps ==
  ASSUME SyncInv, status = "idle", NEW head \in Blocks, NEW peer \in Peers,
         head \notin known, Published(head),
         RequestBlock(requested, inflight, peer, Ask(requested, cache, head)),
         pending' = pending \/ pending' = pending \cup {head},
         UNCHANGED <<known, tree, finalized, cache, children, queue, status, errors>>
  PROVE  SyncInv'
<1>1. /\ head \in Roots /\ finalized \in Roots /\ cache \in SUBSET Blocks
      /\ inflight \in SUBSET (Peers \X Roots) /\ DOMAIN requested \subseteq RootsIn(inflight)
      /\ finalized \notin cache
  BY Zenon DEF SyncInv, TreeConnected, CacheIndexed, MarksOpen, Asked, RootsIn, Roots
<1>2. /\ inflight' \subseteq Peers \X Roots
      /\ DOMAIN requested' \subseteq Asked'
      /\ RootsIn(inflight) \subseteq Asked'
      /\ Asked' \subseteq RootsIn(inflight) \cup Ancestors(head)
      /\ Wanted(cache, head) \subseteq Asked'
  BY Zenon, <1>1, WantedAsked
<1>3. RootsIn(inflight) = Asked
  BY DEF RootsIn, Asked
<1>4. TreeConnected' /\ CacheIndexed' /\ QueueReady' /\ MarksOpen'
  <2>1. Queued' = Queued
    BY Zenon DEF Queued
  <2> QED BY Zenon, <1>2, <2>1 DEF SyncInv, TreeConnected, CacheIndexed, QueueReady, MarksOpen, Descends
<1>5. OwnPassed'
  <2> SUFFICES ASSUME NEW c \in cache' \cup pending' \cup Asked', NEW x \in Ancestors(c) \cap Own
               PROVE  Passed(x)'
    BY DEF OwnPassed
  <2>1. c \in cache \cup pending \cup Asked \/ c \in Ancestors(head)
    BY Zenon, <1>1, <1>2, <1>3, AncestorsTyped
  <2>2. c \in Ancestors(head) => x \in known
    BY <1>1, AncestorsOfAncestors DEF Published
  <2>3. Passed(x)
    BY <2>1, <2>2 DEF SyncInv, OwnPassed, Passed
  <2> QED BY <2>3 DEF Passed, Descends
<1>6. WaitsAsked'
  <2> SUFFICES ASSUME errors = 0, NEW c \in cache \cup pending \cup {head},
                      Descends(c, finalized), NEW x \in Missing(c)
               PROVE  x \in Asked'
    BY DEF WaitsAsked, Missing, Descends
  <2>1. CASE c \in cache \cup pending
    BY Zenon, <1>2, <1>3, <2>1, IdleWaits DEF SyncInv, QueueReady
  <2>2. CASE c = head
    <3>1. /\ x \in Ancestors(head) /\ x \notin cache /\ x \notin known
          /\ Ancestors(head) \ Ancestors(x) \subseteq cache
      BY <2>2 DEF Missing
    <3>2. x \in Wanted(cache, head)
      BY <1>1, <2>2, <3>1, WantedCovers
    <3> QED BY <1>2, <3>2
  <2> QED BY <2>1, <2>2
<1> QED BY <1>4, <1>5, <1>6 DEF SyncInv

\* the open requests without one of them
LEMMA Answered ==
  ASSUME SyncInv, NEW peer, NEW b
  PROVE  /\ DOMAIN Unmarked(b) \subseteq RootsIn(inflight \ {<<peer, b>>})
         /\ Asked \ {b} \subseteq RootsIn(inflight \ {<<peer, b>>})
<1>1. ASSUME NEW x \in Asked \ {b}
      PROVE  x \in RootsIn(inflight \ {<<peer, b>>})
  <2>1. PICK r \in inflight : x = r[2]
    BY DEF Asked
  <2>2. r # <<peer, b>>
    BY <2>1
  <2> QED BY <2>1, <2>2 DEF RootsIn
<1>2. DOMAIN Unmarked(b) \subseteq Asked \ {b}
  BY DEF Unmarked, SyncInv, MarksOpen
<1> QED BY <1>1, <1>2

\* an error loses what the requests stood for, which the count of errors says
LEMMA AnswerErrorKeeps ==
  ASSUME SyncInv, NEW peer \in Peers, NEW b \in Blocks, AnswerError(peer, b)
  PROVE  SyncInv'
<1> DEFINE open == inflight \ {<<peer, b>>}
<1>1. /\ UNCHANGED <<known, tree, finalized, cache, children, pending, queue, status>>
      /\ inflight' = open /\ requested' = Unmarked(b) /\ errors' = errors + 1
  BY DEF AnswerError
<1>2. errors' \in Nat /\ errors' # 0
  BY <1>1 DEF SyncInv, MarksOpen
<1>3. Asked' = RootsIn(open) /\ Asked' \subseteq Asked
  BY <1>1 DEF Asked, RootsIn
<1>4. TreeConnected' /\ CacheIndexed' /\ QueueReady'
  <2>1. Queued' = Queued
    BY <1>1 DEF Queued
  <2> QED BY Zenon, <1>1, <2>1 DEF SyncInv, TreeConnected, CacheIndexed, QueueReady, Descends
<1>5. OwnPassed'
  BY <1>1, <1>3 DEF SyncInv, OwnPassed, Passed, Descends
<1>6. MarksOpen'
  BY Zenon, <1>1, <1>2, <1>3, Answered DEF SyncInv, MarksOpen
<1>7. WaitsAsked'
  BY <1>2 DEF WaitsAsked
<1> QED BY <1>4, <1>5, <1>6, <1>7 DEF SyncInv

\* a step that changes at most the age of a request or an idle status
LEMMA QuietKeeps ==
  ASSUME SyncInv,
         UNCHANGED <<known, tree, finalized, cache, children, pending, inflight, queue, errors>>,
         DOMAIN requested' = DOMAIN requested,
         status' = status \/ (status' = "idle" /\ queue = << >>)
  PROVE  SyncInv'
<1>1. Queued' = Queued /\ Asked' = Asked
  BY Zenon DEF Queued, Asked
<1>2. TreeConnected' /\ CacheIndexed' /\ QueueReady' /\ MarksOpen'
  BY Zenon, <1>1 DEF SyncInv, TreeConnected, CacheIndexed, QueueReady, MarksOpen, Descends
<1>3. OwnPassed'
  BY <1>1 DEF SyncInv, OwnPassed, Passed, Descends
<1>4. WaitsAsked'
  BY <1>1 DEF SyncInv, WaitsAsked, Missing, Reached, Descends
<1> QED BY <1>2, <1>3, <1>4 DEF SyncInv

\* every step keeps the invariant, and one that caches a block asks for what it misses
LEMMA NextKeeps ==
  ASSUME SyncInv, [Next]_vars
  PROVE  /\ SyncInv'
         /\ \A c \in cache' \ cache : Descends(c, finalized) => (Missing(c) \subseteq Asked)'
<1>1. CASE Consume
  <2>1. cache' \subseteq cache
    BY <1>1 DEF Consume
  <2> QED BY <1>1, <2>1, ConsumeKeeps
<1>2. CASE Prune
  <2>1. cache' \subseteq cache
    BY <1>2 DEF Prune
  <2> QED BY <1>2, <2>1, PruneKeeps
<1>3. CASE Forgotten
  BY <1>3, QuietKeeps DEF Forgotten
<1>4. ASSUME NEW peer \in Peers, NEW b \in Blocks, GossipBlock(peer, b)
      PROVE  /\ SyncInv'
             /\ \A c \in cache' \ cache : Descends(c, finalized) => (Missing(c) \subseteq Asked)'
  <2>1. /\ status = "idle" /\ ReceiveBlock(b) /\ errors' = errors
        /\ AskParent(requested, inflight, peer, b)
    BY <1>4 DEF GossipBlock
  <2>2. \A x \in Ancestors(b) \cap Own : Passed(x)
    BY <1>4 DEF GossipBlock, Published, Passed
  <2>3. /\ DOMAIN requested \subseteq RootsIn(inflight)
        /\ Asked \ {b} \subseteq RootsIn(inflight)
        /\ inflight \in SUBSET inflight
    BY DEF SyncInv, MarksOpen, Asked, RootsIn
  <2> QED BY <2>1, <2>2, <2>3, ReceiveKeeps
<1>5. ASSUME NEW peer \in Peers, NEW b \in Blocks, AnswerBlock(peer, b)
      PROVE  /\ SyncInv'
             /\ \A c \in cache' \ cache : Descends(c, finalized) => (Missing(c) \subseteq Asked)'
  <2> DEFINE open == inflight \ {<<peer, b>>}
             marks == Unmarked(b)
  <2>1. /\ status = "idle" /\ ReceiveBlock(b) /\ errors' = errors
        /\ AskParent(marks, open, peer, b)
    BY <1>5 DEF AnswerBlock
  <2>2. b \in Asked
    <3>1. <<peer, b>> \in inflight
      BY <1>5 DEF AnswerBlock
    <3> QED BY <3>1 DEF Asked
  <2>3. \A x \in Ancestors(b) \cap Own : Passed(x)
    BY <2>2 DEF SyncInv, OwnPassed
  <2>4. DOMAIN marks \subseteq RootsIn(open) /\ Asked \ {b} \subseteq RootsIn(open)
    BY Zenon, Answered
  <2>5. open \in SUBSET inflight
    OBVIOUS
  <2> HIDE DEF open, marks
  <2> QED BY <2>1, <2>3, <2>4, <2>5, ReceiveKeeps
<1>6. ASSUME NEW peer \in Peers, NEW head \in Blocks, GossipVote(peer, head)
      PROVE  SyncInv' /\ cache' = cache
  <2>1. /\ UNCHANGED <<known, tree, finalized, cache, children, queue, status, errors>>
        /\ status = "idle" /\ Published(head)
    BY <1>6 DEF GossipVote
  <2>2. CASE head \in known
    <3>1. UNCHANGED <<pending, requested, inflight>>
      BY <1>6, <2>2 DEF GossipVote
    <3> QED BY <2>1, <3>1, QuietKeeps
  <2>3. CASE head \notin known
    <3>1. /\ pending' = pending \cup {head}
          /\ RequestBlock(requested, inflight, peer, Ask(requested, cache, head))
      BY <1>6, <2>3 DEF GossipVote
    <3> QED BY <2>1, <2>3, <3>1, AskKeeps
  <2> QED BY <2>2, <2>3
<1>7. ASSUME NEW peer \in Peers, NEW b \in Blocks, AnswerError(peer, b)
      PROVE  SyncInv' /\ cache' = cache
  <2>1. cache' = cache
    BY <1>7 DEF AnswerError
  <2> QED BY <1>7, <2>1, AnswerErrorKeeps
<1>8. ASSUME NEW peer \in Peers, NEW fin \in Roots, NEW head \in Blocks,
             ReceiveStatus(peer, fin, head)
      PROVE  SyncInv' /\ cache' = cache
  BY <1>8, AskKeeps DEF ReceiveStatus
<1>9. ASSUME NEW b \in Blocks, Wait(b)
      PROVE  SyncInv' /\ cache' = cache
  <2>1. DOMAIN requested' = DOMAIN requested
    BY <1>9 DEF Wait
  <2>2. UNCHANGED <<known, tree, finalized, cache, children, pending, inflight, queue,
                    status, errors>>
    BY <1>9 DEF Wait
  <2> QED BY <2>1, <2>2, QuietKeeps
<1>10. ASSUME NEW b \in Blocks, Produce(b)
       PROVE  SyncInv' /\ cache' = cache
  <2>1. cache' = cache
    BY <1>10 DEF Produce
  <2> QED BY <1>10, <2>1, ProduceKeeps
<1>11. CASE UNCHANGED vars
  BY <1>11, QuietKeeps DEF vars
<1> QED BY Zenon, <1>1, <1>2, <1>3, <1>4, <1>5, <1>6, <1>7, <1>8, <1>9, <1>10, <1>11 DEF Next

-----------------------------------------------------------------------------
(* The theorems. *)

\* The node starts with the anchor alone.
LEMMA InitHolds == Init => SyncInv
<1> SUFFICES ASSUME Init PROVE SyncInv
  OBVIOUS
<1>1. /\ known = {Genesis} /\ tree = {Genesis} /\ finalized = Genesis
      /\ cache = {} /\ children = {} /\ pending = {} /\ inflight = {} /\ queue = << >>
      /\ status = "idle" /\ errors = 0 /\ DOMAIN requested = {}
  BY DEF Init
<1>2. TreeConnected
  BY <1>1, AncestorsRecursion DEF TreeConnected, Descends, Roots
<1>3. CacheIndexed
  BY <1>1, FS_EmptySet DEF CacheIndexed
<1>4. Asked = {} /\ Queued = {}
  BY <1>1 DEF Asked, Queued
<1>5. OwnPassed /\ MarksOpen /\ WaitsAsked
  BY <1>1, <1>4 DEF OwnPassed, MarksOpen, WaitsAsked
<1>6. Len(queue) = 0 /\ DOMAIN queue = {}
  BY <1>1
<1>7. QueueReady
  BY <1>1, <1>4, <1>6 DEF QueueReady
<1> QED BY Zenon, <1>2, <1>3, <1>5, <1>7 DEF SyncInv

\* The inductive invariant of block synchronisation: the tree, the cache with its
\* index, the queue of the running handler and the requests fit together.
THEOREM SyncInvariant == Spec => []SyncInv
<1>1. SyncInv /\ [Next]_vars => SyncInv'
  BY NextKeeps
<1> QED BY <1>1, InitHolds, PTL DEF Spec

\* consumeBlockTree never meets a block that is not in block_cache_, whatever the
\* blocks of the network are and however imports, answers and production interleave.
THEOREM ConsumeFindsBlocks == Spec => []NoFatal
<1>1. SyncInv => NoFatal
  BY Zenon DEF SyncInv, QueueReady, NoFatal
<1> QED BY <1>1, SyncInvariant, PTL

\* Between two handlers no cached block has a known parent and no pending vote has
\* a known head.
THEOREM CacheServed == Spec => []NothingStranded
<1>1. SyncInv => NothingStranded
  <2>1. SyncInv /\ status = "idle" => queue = << >>
    BY DEF SyncInv, QueueReady
  <2>2. SyncInv => pending \cap known = {}
    BY DEF SyncInv, CacheIndexed
  <2> QED BY <2>1, <2>2, IdleWaits DEF NothingStranded
<1> QED BY <1>1, SyncInvariant, PTL

\* As long as no request failed, what a cached block or a pending vote waits for is
\* asked for.
THEOREM WaitingIsAsked == Spec => []MissingRequested
<1>1. SyncInv => MissingRequested
  <2>1. SyncInv /\ status = "idle" => queue = << >>
    BY DEF SyncInv, QueueReady
  <2> QED BY <2>1, IdleWaits DEF MissingRequested
<1> QED BY <1>1, SyncInvariant, PTL

\* A newly cached block has what its branch is missing asked for, also after
\* requests failed: receiveBlock repairs a lost answer.
THEOREM CachingAsks == Spec => NewBlockAsks
<1>1. SyncInv /\ [Next]_vars =>
        [\A b \in cache' \ cache : Descends(b, finalized) => (Missing(b) \subseteq Asked)']_vars
  BY NextKeeps
<1> QED BY <1>1, SyncInvariant, PTL DEF Spec, NewBlockAsks
=============================================================================

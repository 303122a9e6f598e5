--------------------------- MODULE ChainNodeProofs ---------------------------
(***************************************************************************)
(* Proofs about the block tree and about the node that holds it, for any   *)
(* blocks, any stakes, any votes and any number of restarts.               *)
(*                                                                         *)
(* The tree keeps its finality boundary, its fork choice is the heaviest   *)
(* known chain, and it implements FinalizedChain.  What insert and         *)
(* set_finalized do to a tree value is proved in ChainLemmas.              *)
(*                                                                         *)
(* Of the node, the epochs of the chain are frozen and the finalized       *)
(* height does not fall, whatever the stakes. That the records agree and   *)
(* that nothing finalized is replaced needs PositiveStakes: add_block      *)
(* appends a valid block to the cursor and ignores what insert says, and a *)
(* block whose proposer has no stake left does not become the tip of the   *)
(* tree. The head of the cursor and the tip of the tree then part, and a   *)
(* sibling of the head can become the tip without a reorg.                 *)
(*                                                                         *)
(* The invariant says more than the property: the cursor is the walk below *)
(* the tip, weights add up along it (RecordsGood), and the finalized block *)
(* descends from everything the node ever finalized (Running).             *)
(***************************************************************************)
EXTENDS BlockTree, ChainNode, ChainLemmas

(* The time the provers are given for a leaf. *)
USE SMTT(30), ZenonT(30)

(* The inductive invariant of the tree. *)
TreeIInv == TreeGood(tree)

(* It holds the properties of BlockTree. *)
LEMMA TreeIInvIsGood ==
    TreeIInv <=> /\ TreeTypeOK /\ Linked(Entries(tree)) /\ HeaviestTip /\ LineagesReachGenesis
             /\ FinalizedIsCanonical /\ NoConflictingBranch
BY DEF TreeIInv, TreeGood, TreeTyped, TreeTypeOK, HeaviestTip, LineagesReachGenesis,
       FinalizedIsCanonical, NoConflictingBranch

(* Every step keeps it. *)
LEMMA TreeStepIInv ==
    ASSUME TreeIInv, [TreeNext]_tree
    PROVE  TreeIInv'
<1>1. ASSUME NEW b \in Blocks, NEW s \in Stakes, Insert(b, s) PROVE TreeIInv'
  BY <1>1, StakesAssumption, InsertGood DEF TreeIInv, Insert
<1>2. ASSUME NEW b \in Blocks, SetFinalized(b) PROVE TreeIInv'
  BY <1>2, FinalizeGood DEF TreeIInv, SetFinalized
<1>3. CASE UNCHANGED tree
  BY <1>3 DEF TreeIInv
<1> QED
  BY <1>1, <1>2, <1>3 DEF TreeNext

(* What SetFinalized changes. *)
LEMMA SetFinalizedFacts ==
    ASSUME TreeIInv, NEW b \in Blocks, SetFinalized(b)
    PROVE  /\ Entries(tree') = Kept(Entries(tree), b)
           /\ tree'.canonical_tip = tree.canonical_tip
           /\ tree'.finalized_hash = b
<1>1. /\ TreeGood(tree) /\ is_on_canonical_chain(tree, b)
      /\ HeightOf[b] > tree.finalized_height
      /\ tree' = set_finalized(tree, b, HeightOf[b])
  BY DEF TreeIInv, SetFinalized
<1> QED
  BY <1>1, FinalizeFacts

-----------------------------------------------------------------------------
(* The invariant is inductive. *)
THEOREM TreeInvariant == TreeSpec => []TreeIInv
<1>1. TreeInit => TreeIInv
  BY GenesisGood DEF TreeInit, TreeIInv
<1>2. TreeIInv /\ [TreeNext]_tree => TreeIInv'
  BY TreeStepIInv
<1> QED
  BY <1>1, <1>2, PTL DEF TreeSpec

(* Every reachable tree is well formed (blocktree.rs insert, set_finalized *)
(* and prune_below_finalized never lose genesis, the tip or the finalized  *)
(* block).                                                                 *)
THEOREM TreeTyping == TreeSpec => []TreeTypeOK
BY TreeIInvIsGood, TreeInvariant, PTL

(* The fork choice of insert is the heaviest known chain, for any number   *)
(* of forks, in any order of arrival.                                      *)
THEOREM TreeHeaviestTip == TreeSpec => []HeaviestTip
BY TreeIInvIsGood, TreeInvariant, PTL

(* The canonical chain never leaves the finalized block. *)
THEOREM TreeFinalizedIsCanonical == TreeSpec => []FinalizedIsCanonical
BY TreeIInvIsGood, TreeInvariant, PTL

(* The tree never holds a fork of finalized history. *)
THEOREM TreeNoConflictingBranch == TreeSpec => []NoConflictingBranch
BY TreeIInvIsGood, TreeInvariant, PTL

(* The prune never cuts the lineage of a block that is kept. *)
THEOREM TreeLineagesReachGenesis == TreeSpec => []LineagesReachGenesis
BY TreeIInvIsGood, TreeInvariant, PTL

(* Finalized blocks cannot be reverted. *)
THEOREM TreeFinalityOnlyExtends == TreeSpec => FinalityOnlyExtends
<1> DEFINE Step == is_descendant_of(Entries(tree'), tree'.finalized_hash,
                                    tree.finalized_hash)
<1>1. TreeIInv /\ [TreeNext]_tree => [Step]_tree
  <2> SUFFICES ASSUME TreeIInv, TreeNext PROVE Step
    BY DEF TreeIInv
  <2>1. ASSUME NEW b \in Blocks, NEW s \in Stakes, Insert(b, s) PROVE Step
    <3>1. TreeIInv' /\ tree'.finalized_hash = tree.finalized_hash
      BY <2>1, TreeStepIInv DEF TreeNext, Insert, insert
    <3>2. tree'.finalized_hash \in Entries(tree') /\ Entries(tree') \in SUBSET Blocks
      BY <3>1 DEF TreeIInv, TreeGood, TreeTyped
    <3> QED
      BY <3>1, <3>2, WalkReflexive
  <2>2. ASSUME NEW b \in Blocks, SetFinalized(b) PROVE Step
    <3>1. is_descendant_of(Entries(tree), b, tree.finalized_hash)
      BY <2>2, NextFinalizedDescends DEF SetFinalized, TreeIInv
    <3>2. b \in Kept(Entries(tree), b) /\ b \in Entries(tree)
      BY <2>2 DEF Kept, SetFinalized
    <3>3. is_descendant_of(Kept(Entries(tree), b), b, tree.finalized_hash)
      BY <3>1, <3>2, WalkSurvivesPrune DEF TreeIInv, TreeGood, TreeTyped
    <3>4. /\ Entries(tree') = Kept(Entries(tree), b)
          /\ tree'.finalized_hash = b
      BY <2>2, SetFinalizedFacts
    <3> QED
      BY <3>3, <3>4
  <2> QED
    BY <2>1, <2>2 DEF TreeNext
<1> QED
  BY <1>1, TreeInvariant, PTL DEF TreeSpec, FinalityOnlyExtends

-----------------------------------------------------------------------------
(* What a walk over entries meets lies on the line of headers. *)
LEMMA WalkIsOnHeaderLine ==
    ASSUME NEW E \in SUBSET Blocks, NEW d, NEW a, is_descendant_of(E, d, a)
    PROVE  a \in HeaderLine[d]
<1>1. d \in Blocks /\ a \in Blocks
  BY WalkInEntries
<1>2. is_descendant_of(Blocks, d, a)
  BY WalkGrows
<1>3. Meets(Blocks, d, a)
  BY <1>2, WalkOnLine
<1> QED
  BY <1>1, <1>3 DEF Meets, HeaderLine

(* The block tree implements FinalizedChain: insert (blocktree.rs) adopts  *)
(* only heads above the finalized block, set_finalized only moves finality *)
(* up the headers of the tip, and the prune changes neither, for every set *)
(* of blocks and stakes.                                                   *)
THEOREM TreeImplementsFinality == TreeSpec => ImplementsFinality
<1>1. TreeInit => Finality!Init
  BY DEF TreeInit, from_genesis, Finality!Init
<1>2. TreeIInv /\ [TreeNext]_tree => [Finality!Next]_<<tree.finalized_hash, tree.canonical_tip>>
  <2> SUFFICES ASSUME TreeIInv, TreeNext
               PROVE  \/ Finality!Next
                      \/ UNCHANGED <<tree.finalized_hash, tree.canonical_tip>>
    OBVIOUS
  <2>1. ASSUME NEW b \in Blocks, NEW s \in Stakes, Insert(b, s),
               tree'.canonical_tip # tree.canonical_tip \/ tree'.finalized_hash # tree.finalized_hash
        PROVE  Finality!Adopt(b)
    <3>1. InsertResult(tree, b) = "inserted"
      BY <2>1 DEF Insert, insert
    <3>2. tree'.canonical_tip = b /\ tree'.finalized_hash = tree.finalized_hash
      BY <2>1, <3>1, StakesAssumption, InsertFacts DEF Insert, Inserted, TreeIInv
    <3>3. TreeIInv'
      BY <2>1, TreeStepIInv DEF TreeNext
    <3>4. /\ Entries(tree') \in SUBSET Blocks
          /\ is_descendant_of(Entries(tree'), b, tree.finalized_hash)
      BY <3>2, <3>3 DEF TreeIInv, TreeGood, TreeTyped, is_on_canonical_chain
    <3>5. tree.finalized_hash \in HeaderLine[b]
      BY <3>4, WalkIsOnHeaderLine
    <3> QED
      BY <3>2, <3>5 DEF Finality!Adopt
  <2>2. ASSUME NEW b \in Blocks, SetFinalized(b)
        PROVE  Finality!Finalize(b)
    <3>1. tree'.canonical_tip = tree.canonical_tip /\ tree'.finalized_hash = b
      BY <2>2, SetFinalizedFacts
    <3>0. Entries(tree) \in SUBSET Blocks
      BY DEF TreeIInv, TreeGood, TreeTyped
    <3>2. tree.finalized_hash \in HeaderLine[b]
      BY <2>2, <3>0, NextFinalizedDescends, WalkIsOnHeaderLine DEF SetFinalized, TreeIInv
    <3>3. b \in HeaderLine[tree.canonical_tip]
      BY <2>2, <3>0, WalkIsOnHeaderLine DEF SetFinalized, is_on_canonical_chain
    <3>4. b # tree.finalized_hash
      <4>1. HeightOf[b] \in Nat /\ HeightOf[b] > HeightOf[tree.finalized_hash]
        BY <2>2, BlocksAssumption DEF SetFinalized, TreeIInv, TreeGood, TreeTyped
      <4> QED
        BY <4>1
    <3> QED
      BY <3>1, <3>2, <3>3, <3>4 DEF Finality!Finalize
  <2> QED
    BY <2>1, <2>2 DEF TreeNext, Finality!Next
<1> QED
  BY <1>1, <1>2, TreeInvariant, PTL DEF TreeSpec, ImplementsFinality, Finality!Spec

-----------------------------------------------------------------------------
(* g holds the trees of the restart loop over the first k + 1 blocks. *)
IsReplay(c, s, k, g) ==
    g = [i \in 0..k |-> IF i = 0 THEN from_genesis
                        ELSE insert(g[i - 1], c[i + 1], StakeOf[s][c[i + 1]])]

(* The loop of the restart is a function of its counter. *)
LEMMA ReplayExists ==
    ASSUME NEW c, NEW s, NEW k \in Nat
    PROVE  \E g : IsReplay(c, s, k, g)
<1> DEFINE Bad == {j \in Nat : \A g : ~IsReplay(c, s, j, g)}
<1>1. ASSUME Bad # {} PROVE FALSE
  <2>0. Bad \in SUBSET Nat
    OBVIOUS
  <2>1. PICK j \in Bad : \A i \in Bad : j <= i
    <3> HIDE DEF Bad
    <3> QED
      BY <1>1, <2>0, LeastNat
  <2>2. j \in Nat /\ \A g : ~IsReplay(c, s, j, g)
    OBVIOUS
  <2>3. j # 0
    <3> DEFINE g == [i \in 0..0 |-> from_genesis]
    <3>1. \A i \in 0..0 : i = 0
      OBVIOUS
    <3>2. IsReplay(c, s, 0, g)
      BY <3>1 DEF IsReplay
    <3> HIDE DEF g
    <3> QED
      BY <2>2, <3>2
  <2>4. PICK h : IsReplay(c, s, j - 1, h)
    <3>1. j - 1 \in Nat /\ j - 1 \notin Bad
      <4> HIDE DEF Bad
      <4> QED
        BY <2>1, <2>2, <2>3
    <3> QED
      BY <3>1
  <2> DEFINE last == insert(h[j - 1], c[j + 1], StakeOf[s][c[j + 1]])
             g == [i \in 0..j |-> IF i = j THEN last ELSE h[i]]
  <2>5. ASSUME NEW i \in 0..j
        PROVE  g[i] = IF i = 0 THEN from_genesis
                      ELSE insert(g[i - 1], c[i + 1], StakeOf[s][c[i + 1]])
    <3>1. CASE i = j
      <4>1. j - 1 \in 0..j /\ j - 1 # j
        BY <2>2, <2>3
      <4>2. g[j - 1] = h[j - 1] /\ g[j] = last
        BY <2>2, <4>1
      <4> QED
        BY <2>3, <3>1, <4>2
    <3>2. CASE i # j
      <4>1. i \in 0..(j - 1)
        BY <2>2, <3>2
      <4>2. h[i] = IF i = 0 THEN from_genesis
                   ELSE insert(h[i - 1], c[i + 1], StakeOf[s][c[i + 1]])
        BY <2>4, <4>1 DEF IsReplay
      <4>3. i # 0 => i - 1 \in 0..j /\ i - 1 # j
        BY <2>2, <4>1
      <4> HIDE DEF last
      <4>4. g[i] = h[i] /\ (i # 0 => g[i - 1] = h[i - 1])
        BY <3>2, <4>3
      <4> QED
        BY <4>2, <4>4
    <3> QED
      BY <3>1, <3>2
  <2>6. IsReplay(c, s, j, g)
    <3>1. g = [i \in 0..j |-> g[i]]
      OBVIOUS
    <3> HIDE DEF g
    <3> QED
      BY <2>5, <3>1, ZenonT(30) DEF IsReplay
  <2> HIDE DEF g
  <2> QED
    BY <2>2, <2>6
<1> QED
  BY <1>1

(* The tree a restart rebuilds is good, with the boundary of genesis. *)
LEMMA StoredTreeGood ==
    ASSUME NEW c, Headers(c), NEW s \in Blocks
    PROVE  TreeGood(stored_tree(c, s)) /\ stored_tree(c, s).finalized_height = 0
<1> DEFINE k == Len(c) - 1
           g == CHOOSE f : IsReplay(c, s, k, f)
           Bad == {j \in 0..k : ~(TreeGood(g[j]) /\ g[j].finalized_height = 0)}
<1>1. k \in Nat /\ c \in Seq(Blocks)
  BY DEF Headers
<1>2. IsReplay(c, s, k, g)
  <2> HIDE DEF k
  <2> QED
    BY <1>1, ReplayExists, ZenonT(30)
<1>3. stored_tree(c, s) = g[k]
  BY Zenon DEF stored_tree, IsReplay
<1> HIDE DEF g
<1>4. \A i \in 0..k : g[i] = IF i = 0 THEN from_genesis
                             ELSE insert(g[i - 1], c[i + 1], StakeOf[s][c[i + 1]])
  BY <1>2 DEF IsReplay
<1>5. ASSUME Bad # {} PROVE FALSE
  <2>0. Bad \in SUBSET Nat
    BY <1>1
  <2>1. PICK j \in Bad : \A i \in Bad : j <= i
    <3> HIDE DEF Bad
    <3> QED
      BY <1>5, <2>0, LeastNat
  <2>2. j \in 0..k /\ ~(TreeGood(g[j]) /\ g[j].finalized_height = 0)
    OBVIOUS
  <2>3. j # 0
    BY <1>4, <2>2, GenesisGood DEF from_genesis
  <2>4. j - 1 \in 0..k /\ j - 1 \notin Bad
    <3> HIDE DEF Bad
    <3> QED
      BY <1>1, <2>1, <2>2, <2>3
  <2>5. TreeGood(g[j - 1]) /\ g[j - 1].finalized_height = 0
    BY <2>4
  <2>6. c[j + 1] \in Blocks /\ StakeOf[s][c[j + 1]] \in Nat
    <3>1. j + 1 \in 1..Len(c)
      BY <1>1, <2>2
    <3>2. c[j + 1] \in Blocks
      BY <1>1, <3>1
    <3> QED
      BY <3>2, ChainAssumption
  <2>7. g[j] = insert(g[j - 1], c[j + 1], StakeOf[s][c[j + 1]])
    BY <1>4, <2>2, <2>3
  <2>8. TreeGood(g[j])
    BY <2>5, <2>6, <2>7, InsertGood
  <2>9. g[j].finalized_height = 0
    BY <2>5, <2>7, InsertKeepsFinality DEF SameFinal
  <2> QED
    BY <2>2, <2>8, <2>9
<1>6. k \in 0..k
  BY <1>1
<1> QED
  BY <1>3, <1>5, <1>6

(* A restart keeps a node value good, with the finalized height it had. *)
LEMMA RestartGood ==
    ASSUME NEW n, NodeGood(n)
    PROVE  /\ NodeGood(restart(n))
           /\ restart(n).tracker.finalized_height = n.tracker.finalized_height
<1> DEFINE d == n.disk
           h == d.finalized_height
           hash == IF h < Len(d.chain) THEN d.chain[h + 1] ELSE NoBlock
<1>1. PICK k : k = [ n EXCEPT !.tree    = stored_tree(d.chain, d.accounts_at),
                              !.tracker = with_finalized(h, hash) ]
  OBVIOUS
<1>2. /\ NodeShape(k) /\ k.tree = stored_tree(d.chain, d.accounts_at)
      /\ k.tracker = with_finalized(h, hash) /\ k.disk = d
  BY <1>1 DEF NodeGood, NodeShape
<1>3. PICK m : m = rebuild_canonical_state(k, d.chain)
  OBVIOUS
<1>4. m = restart(n)
  BY <1>1, <1>3 DEF restart
<1>5. Headers(d.chain) /\ d.accounts_at \in Blocks /\ h \in Nat
  BY DEF NodeGood, FinalityOK
<1>6. /\ NodeShape(m) /\ m.tree = k.tree /\ m.tracker = k.tracker /\ m.chain = d.chain
      /\ m.disk = k.disk /\ EpochsFrozen(m)
  BY <1>2, <1>3, <1>5, RebuildFacts
<1>7. TreeGood(m.tree) /\ m.tree.finalized_height = 0
  BY <1>2, <1>5, <1>6, StoredTreeGood
<1>8. hash \in Blocks \cup {NoBlock} /\ (hash # NoBlock => HeightOf[hash] = h)
  <2>1. h < Len(d.chain) => h + 1 \in 1..Len(d.chain) /\ (h + 1) - 1 = h
    BY <1>5 DEF Headers
  <2> QED
    BY <1>5, <2>1 DEF Headers
<1> HIDE DEF hash, h
<1>9. m.tracker.finalized_height = h /\ m.tracker.finalized_hash = hash
  BY <1>2, <1>6 DEF with_finalized
<1>10. FinalityOK(m)
  BY <1>2, <1>5, <1>6, <1>7, <1>8, <1>9 DEF FinalityOK, h
<1> QED
  BY <1>2, <1>4, <1>5, <1>6, <1>7, <1>9, <1>10 DEF NodeGood, FinalityOK, h

(* What a reader of the records may rely on: whatever the finalized block  *)
(* descends from is on the cursor, at its height.                          *)
LEMMA FinalizedOnCursor ==
    ASSUME NEW n, NodeGood(n), RecordsGood(n), NEW a,
           is_descendant_of(Entries(n.tree), n.tree.finalized_hash, a)
    PROVE  HeightOf[a] + 1 \in 1..Len(n.chain) /\ n.chain[HeightOf[a] + 1] = a
<1> DEFINE E == Entries(n.tree)
           tip == n.tree.canonical_tip
<1>1. E \in SUBSET Blocks /\ is_descendant_of(E, tip, n.tree.finalized_hash)
  BY DEF NodeGood, TreeGood, TreeTyped, is_on_canonical_chain
<1>2. is_descendant_of(E, tip, a)
  BY <1>1, WalkTransitive
<1>3. HeightOf[a] \in Nat /\ HeightOf[tip] \in Nat /\ HeightOf[a] <= HeightOf[tip]
  BY <1>2, WalkNotHigher DEF NodeGood
<1>4. Headers(n.chain) /\ n.chain[Len(n.chain)] = tip
  BY DEF NodeGood, RecordsGood, latest_block
<1>5. Len(n.chain) \in Nat /\ HeightOf[tip] = Len(n.chain) - 1
  BY <1>4 DEF Headers
<1>6. HeightOf[a] + 1 \in 1..Len(n.chain)
  BY <1>3, <1>5
<1>7. /\ is_descendant_of(E, tip, n.chain[HeightOf[a] + 1])
      /\ HeightOf[n.chain[HeightOf[a] + 1]] = HeightOf[a]
  BY <1>3, <1>4, <1>6 DEF RecordsGood, CursorOnTree, Headers
<1>8. n.chain[HeightOf[a] + 1] = a
  BY <1>2, <1>7, LineUnique DEF NodeGood
<1> QED
  BY <1>6, <1>8

(* The finalized height of the tracker never falls: a vote raises it or    *)
(* leaves it, and blocks do not touch the tracker.                         *)
LEMMA VoteRaises ==
    ASSUME NEW n, NodeGood(n), NEW vote
    PROVE  n.tracker.finalized_height <= add_finality_vote(n, vote).tracker.finalized_height
<1>0. n.tracker.finalized_height \in Nat
  BY DEF NodeGood, FinalityOK
<1>1. PICK m : m = add_finality_vote(n, vote)
  OBVIOUS
<1>2. CASE m = n
  BY <1>0, <1>1, <1>2
<1>3. CASE VoteStep(n, vote, m)
  <2> DEFINE e == EpochOf(vote.block_height)
  <2>1. m.tracker = add_vote(n.tracker, vote, e) /\ HeightOf[vote.block_hash] = vote.block_height
        /\ vote.block_hash \in Blocks
    BY <1>3, ZenonT(30) DEF VoteStep, NodeGood, TreeGood, TreeTyped
  <2>2. HeightOf[vote.block_hash] \in Nat
    BY <2>1, BlocksAssumption
  <2> HIDE DEF e
  <2>3. \/ m.tracker.finalized_height = n.tracker.finalized_height
        \/ /\ vote.block_height > n.tracker.finalized_height
           /\ m.tracker.finalized_height = HeightOf[vote.block_hash]
    BY <2>1, AddVoteKeeps, AddVoteFinalizes
  <2> QED
    BY <1>0, <1>1, <2>1, <2>2, <2>3
<1> QED
  BY <1>1, <1>2, <1>3, VoteFacts DEF NodeGood

(* The same for a gossiped block. *)
LEMMA HandleBlockRaises ==
    ASSUME NEW n, NodeGood(n), NEW b \in Blocks, NEW v
    PROVE  n.tracker.finalized_height <= handle_new_block(n, b, v).tracker.finalized_height
<1>0. n.tracker.finalized_height \in Nat
  BY DEF NodeGood, FinalityOK
<1>1. PICK k : k = add_block(n, b)
  OBVIOUS
<1>2. AddedBlock(n, b, k)
  BY <1>1, AddBlockFacts DEF NodeGood
<1>3. NodeGood(k) /\ k.tracker = n.tracker
  BY <1>1, <1>2, AddBlockGood DEF AddedBlock
<1>4. PICK m : m = handle_new_block(n, b, v)
  OBVIOUS
<1>5. m \in {k, add_finality_vote(k, VoteFor(b, v)), add_block_with_fork_choice(k, b)}
  BY <1>1, <1>4 DEF handle_new_block
<1>6. CASE m = add_block_with_fork_choice(k, b)
  <2>1. m = k \/ m = add_block(k, b) \/ ForkStep(k, b, m)
    BY <1>3, <1>6, ForkChoiceFacts DEF NodeGood
  <2>2. AddedBlock(k, b, add_block(k, b))
    BY <1>3, AddBlockFacts DEF NodeGood
  <2>3. m.tracker = k.tracker
    BY <2>1, <2>2 DEF AddedBlock, ForkStep
  <2> QED
    BY <1>0, <1>3, <1>4, <2>3
<1>7. CASE m = add_finality_vote(k, VoteFor(b, v))
  BY <1>3, <1>4, <1>7, VoteRaises
<1> QED
  BY <1>0, <1>3, <1>4, <1>5, <1>6, <1>7

-----------------------------------------------------------------------------
(* Whatever the node finalized, it does not take back. *)
FinalsBelow ==
    \A b \in finals : b \in Blocks /\ HeightOf[b] <= node.tracker.finalized_height

IInv == /\ NodeGood(node)
        /\ restarts \in Nat
        /\ FinalsBelow

(* While the node runs, the finalized block descends from all of them. *)
Running ==
    restarts = 0 =>
        /\ RecordsGood(node)
        /\ \A b \in finals :
               is_descendant_of(Entries(node.tree), node.tree.finalized_hash, b)

(* The history of a step that does not lower the finalized height. *)
LEMMA RememberBelow ==
    ASSUME IInv, NodeGood(node'), Remember,
           node.tracker.finalized_height <= node'.tracker.finalized_height
    PROVE  FinalsBelow'
<1>1. /\ node.tracker.finalized_height \in Nat /\ node'.tracker.finalized_height \in Nat
      /\ node'.tracker.finalized_hash \in Blocks \cup {NoBlock}
      /\ node'.tracker.finalized_hash # NoBlock =>
             node'.tracker.finalized_height = HeightOf[node'.tracker.finalized_hash]
  BY DEF IInv, NodeGood, FinalityOK
<1> SUFFICES ASSUME NEW b \in finals'
             PROVE  b \in Blocks /\ HeightOf[b] <= node'.tracker.finalized_height
  BY DEF FinalsBelow
<1>2. CASE b \in finals
  <2>1. b \in Blocks /\ HeightOf[b] <= node.tracker.finalized_height
    BY <1>2 DEF IInv, FinalsBelow
  <2>2. HeightOf[b] \in Nat
    BY <2>1, BlocksAssumption
  <2> QED
    BY <1>1, <2>1, <2>2
<1>3. CASE b = node'.tracker.finalized_hash /\ b # NoBlock
  BY <1>1, <1>3
<1> QED
  BY <1>2, <1>3 DEF Remember

(* Every step keeps the node value good and the finalized height up. *)
LEMMA StepIInv == IInv /\ [Next]_vars => IInv'
<1> SUFFICES ASSUME IInv, [Next]_vars PROVE IInv'
  OBVIOUS
<1>0. NodeGood(node) /\ node.tracker.finalized_height \in Nat
  BY DEF IInv, NodeGood, FinalityOK
<1>1. ASSUME NEW b \in Blocks, HandleNewBlock(b) PROVE IInv'
  <2>1. NodeGood(node')
    BY <1>0, <1>1, HandleBlockGood DEF HandleNewBlock
  <2>2. node.tracker.finalized_height <= node'.tracker.finalized_height
    BY <1>0, <1>1, HandleBlockRaises DEF HandleNewBlock
  <2> QED
    BY <1>1, <2>1, <2>2, RememberBelow DEF HandleNewBlock, IInv
<1>2. ASSUME NEW b \in Blocks, SyncBlock(b) PROVE IInv'
  <2>1. node' = add_block(node, b) /\ Remember /\ restarts' = restarts
    BY <1>2 DEF SyncBlock
  <2>2. NodeGood(node')
    BY <1>0, <2>1, AddBlockGood
  <2>3. AddedBlock(node, b, node')
    BY <1>0, <2>1, AddBlockFacts DEF NodeGood
  <2>4. node.tracker.finalized_height <= node'.tracker.finalized_height
    BY <1>0, <2>3 DEF AddedBlock
  <2> QED
    BY <2>1, <2>2, <2>4, RememberBelow DEF IInv
<1>3. ASSUME NEW vote \in Votes, ReceiveVote(vote) PROVE IInv'
  <2>1. NodeGood(node')
    BY <1>0, <1>3, VoteGood DEF ReceiveVote
  <2>2. node.tracker.finalized_height <= node'.tracker.finalized_height
    BY <1>0, <1>3, VoteRaises DEF ReceiveVote
  <2> QED
    BY <1>3, <2>1, <2>2, RememberBelow DEF ReceiveVote, IInv
<1>4. CASE Restart
  <2>1. /\ NodeGood(node')
        /\ node'.tracker.finalized_height = node.tracker.finalized_height
    BY <1>0, <1>4, RestartGood DEF Restart
  <2> QED
    BY <1>4, <2>1 DEF Restart, IInv, FinalsBelow
<1>5. CASE UNCHANGED vars
  BY <1>5 DEF vars, IInv, FinalsBelow
<1> QED
  BY <1>1, <1>2, <1>3, <1>4, <1>5 DEF Next

(* The first node. *)
LEMMA InitIInv == Init => IInv
BY NewChainGood DEF Init, IInv, FinalsBelow

(* Tree, tracker, cursor and disk of a node stay well formed over gossip,  *)
(* sync, votes and restarts, and nothing it finalized rises above its      *)
(* finalized height.                                                       *)
THEOREM NodeInvariant == Spec => []IInv
<1>1. Init => IInv
  BY InitIInv
<1>2. IInv /\ [Next]_vars => IInv'
  BY StepIInv
<1> QED
  BY <1>1, <1>2, PTL DEF Spec

(* Every epoch the canonical chain has entered is frozen: add_block        *)
(* freezes the epoch of a boundary block, rebuild_canonical_state freezes  *)
(* all of them again after a reorg or a restart.                           *)
THEOREM NodeChainEpochsAreFrozen == Spec => []ChainEpochsAreFrozen
<1>1. IInv => ChainEpochsAreFrozen
  <2> SUFFICES ASSUME IInv PROVE ChainEpochsAreFrozen
    OBVIOUS
  <2>1. DOMAIN node.chain = 1..Len(node.chain)
    BY DEF IInv, NodeGood, Headers
  <2> QED
    BY <2>1 DEF IInv, NodeGood, EpochsFrozen, ChainEpochsAreFrozen
<1> QED
  BY <1>1, NodeInvariant, PTL

-----------------------------------------------------------------------------
(* The history of a step that keeps the records together. *)
LEMMA RememberRunning ==
    ASSUME Running, RecordsGood(node) => RecordsGood(node') /\ FinalityGrows(node, node'),
           NodeGood(node'), Remember, restarts' = restarts
    PROVE  Running'
<1> SUFFICES ASSUME restarts = 0
             PROVE  /\ RecordsGood(node')
                    /\ \A b \in finals' : is_descendant_of(Entries(node'.tree),
                                                           node'.tree.finalized_hash, b)
  BY DEF Running
<1>1. RecordsGood(node') /\ FinalityGrows(node, node')
  BY DEF Running
<1>2. ASSUME NEW b \in finals'
      PROVE  is_descendant_of(Entries(node'.tree), node'.tree.finalized_hash, b)
  <2>1. CASE b \in finals
    BY <1>1, <2>1 DEF Running, FinalityGrows
  <2>2. CASE b = node'.tracker.finalized_hash /\ b # NoBlock
    <3>1. b = node'.tree.finalized_hash
      BY <1>1, <2>2 DEF RecordsGood, SameFinality
    <3>2. Entries(node'.tree) \in SUBSET Blocks /\ b \in Entries(node'.tree)
      BY <3>1, ZenonT(30) DEF NodeGood, TreeGood, TreeTyped
    <3> QED
      BY <3>1, <3>2, WalkReflexive
  <2> QED
    BY <2>1, <2>2 DEF Remember
<1> QED
  BY <1>1, <1>2

(* No step of a running node parts its records. *)
LEMMA StepRunning ==
    ASSUME PositiveStakes, IInv, IInv', Running, [Next]_vars
    PROVE  Running'
<1>0. NodeGood(node) /\ NodeGood(node') /\ restarts \in Nat
  BY DEF IInv
<1>1. ASSUME NEW b \in Blocks, HandleNewBlock(b) PROVE Running'
  <2>1. node' = handle_new_block(node, b, Me) /\ Remember /\ restarts' = restarts
    BY <1>1 DEF HandleNewBlock
  <2>2. RecordsGood(node) => RecordsGood(node') /\ FinalityGrows(node, node')
    BY <1>0, <2>1, HandleBlockRecords
  <2> QED
    BY <1>0, <2>1, <2>2, RememberRunning
<1>2. ASSUME NEW b \in Blocks, SyncBlock(b) PROVE Running'
  <2>1. node' = add_block(node, b) /\ Remember /\ restarts' = restarts
    BY <1>2 DEF SyncBlock
  <2>2. RecordsGood(node) => RecordsGood(node') /\ FinalityGrows(node, node')
    BY <1>0, <2>1, AddBlockRecords
  <2> QED
    BY <1>0, <2>1, <2>2, RememberRunning
<1>3. ASSUME NEW vote \in Votes, ReceiveVote(vote) PROVE Running'
  <2>1. node' = add_finality_vote(node, vote) /\ Remember /\ restarts' = restarts
    BY <1>3 DEF ReceiveVote
  <2>2. RecordsGood(node) => RecordsGood(node') /\ FinalityGrows(node, node')
    BY <1>0, <2>1, VoteRecords
  <2> QED
    BY <1>0, <2>1, <2>2, RememberRunning
<1>4. CASE Restart
  <2>1. restarts' # 0
    BY <1>0, <1>4 DEF Restart
  <2> QED
    BY <2>1 DEF Running
<1>5. CASE UNCHANGED vars
  BY <1>5 DEF vars, Running
<1> QED
  BY <1>1, <1>2, <1>3, <1>4, <1>5 DEF Next

(* The inductive invariant of a running node.  It needs stakes: a valid    *)
(* block without weight would extend the cursor and leave the tip behind.  *)
THEOREM NodeRunning == ASSUME PositiveStakes PROVE Spec => [](IInv /\ Running)
<1>1. Init => Running
  BY NewChainRecords DEF Init, Running
<1>2. IInv /\ IInv' /\ Running /\ [Next]_vars => Running'
  BY StepRunning
<1> QED
  BY <1>1, <1>2, NodeInvariant, PTL DEF Spec

(* Fork choice, cursor and finality of a running node never drift apart:   *)
(* add_block on the head always moves the tip, and whenever insert moves   *)
(* the tip elsewhere the guards of reorg_to_canonical_tip let the cursor   *)
(* follow.                                                                 *)
THEOREM NodeRecordsAgree == ASSUME PositiveStakes PROVE Spec => []RecordsAgree
<1>1. IInv /\ Running => RecordsAgree
  <2> SUFFICES ASSUME IInv, Running, restarts = 0
               PROVE  LET t == node.tracker IN
                      /\ latest_block(node) = node.tree.canonical_tip
                      /\ t.finalized_height = node.tree.finalized_height
                      /\ t.finalized_hash # NoBlock =>
                             /\ node.tree.finalized_hash = t.finalized_hash
                             /\ OnChain(t.finalized_hash)
    BY DEF RecordsAgree
  <2>1. NodeGood(node) /\ RecordsGood(node)
    BY DEF IInv, Running
  <2>2. PICK f : f = node.tree.finalized_hash
    OBVIOUS
  <2>3. is_descendant_of(Entries(node.tree), f, f)
    BY <2>1, <2>2, WalkReflexive, ZenonT(30) DEF NodeGood, TreeGood, TreeTyped
  <2>4. HeightOf[f] + 1 \in 1..Len(node.chain) /\ node.chain[HeightOf[f] + 1] = f
    BY <2>1, <2>2, <2>3, FinalizedOnCursor
  <2>5. DOMAIN node.chain = 1..Len(node.chain)
    BY <2>1 DEF NodeGood, Headers
  <2>6. OnChain(f)
    BY <2>4, <2>5 DEF OnChain
  <2> QED
    BY <2>1, <2>2, <2>6 DEF RecordsGood, SameFinality
<1> QED
  BY <1>1, NodeRunning, PTL

(* Finalized blocks cannot be reverted: the cursor of a running node holds *)
(* every block it ever finalized at its height, and the finalized height   *)
(* survives a restart.                                                     *)
THEOREM NodeFinalizedNeverReplaced ==
    ASSUME PositiveStakes PROVE Spec => []FinalizedNeverReplaced
<1>1. IInv /\ Running => FinalizedNeverReplaced
  <2> SUFFICES ASSUME IInv, Running, NEW b \in finals
               PROVE  /\ HeightOf[b] <= node.tracker.finalized_height
                      /\ restarts = 0 => node.chain[HeightOf[b] + 1] = b
    BY DEF FinalizedNeverReplaced
  <2>1. HeightOf[b] <= node.tracker.finalized_height
    BY DEF IInv, FinalsBelow
  <2>2. CASE restarts = 0
    <3>1. /\ NodeGood(node) /\ RecordsGood(node)
          /\ is_descendant_of(Entries(node.tree), node.tree.finalized_hash, b)
      BY <2>2 DEF IInv, Running
    <3> QED
      BY <2>1, <3>1, FinalizedOnCursor
  <2> QED
    BY <2>1, <2>2
<1> QED
  BY <1>1, NodeRunning, PTL
=============================================================================

------------------------- MODULE ValidatorNetProofs -------------------------
(***************************************************************************)
(* Proofs about ValidatorNet, for any blocks, validators and snapshots.    *)
(*                                                                         *)
(* Whatever the stakes, a finalized block rests on signed votes of two     *)
(* thirds of the stake of its epoch (NetGood), so agreement at one height  *)
(* only needs that nobody signs twice at a height (NetQuorumsIntersect).   *)
(*                                                                         *)
(* That nobody does needs more: a node signs for what extends its head and *)
(* remembers nothing of its votes, so it is only its height that keeps it  *)
(* from signing again. Fork choice goes by weight. With proposers of       *)
(* unequal stake a shorter and heavier fork takes the node to a lower      *)
(* head, from which it signs a second time at the heights it has been at.  *)
(* With equal stakes a heavier chain is a higher one, and the height never *)
(* falls (HigherIsHeavier).                                                *)
(***************************************************************************)
EXTENDS ValidatorNet, ChainLemmas, FunctionSums

(* The time the provers are given for a leaf. *)
USE SMTT(30), ZenonT(30)

(* Every valid block weighs the same. *)
EqualStakes == \E c \in Nat \ {0} : \A b \in Valid : StakeOf[b][b] = c

(* Equal stakes are positive. *)
LEMMA EqualIsPositive == ASSUME EqualStakes PROVE PositiveStakes
BY DEF EqualStakes, PositiveStakes

(* With equal stakes the weight of an entry only depends on its height. *)
LEMMA HigherIsHeavier ==
    ASSUME EqualStakes, NEW t, TreeGood(t), WeightsAdd(t),
           NEW x \in Entries(t), NEW y \in Entries(t), HeightOf[x] <= HeightOf[y]
    PROVE  t.weight[x] <= t.weight[y]
<1> DEFINE E == Entries(t)
           Bad == {HeightOf[z] : z \in {z \in E : \E w \in E :
                      HeightOf[z] <= HeightOf[w] /\ ~(t.weight[z] <= t.weight[w])}}
<1>1. /\ E \in SUBSET Blocks /\ t.weight \in [E -> Nat] /\ Genesis \in E
      /\ \A z \in E : HeightOf[z] \in Nat /\ is_descendant_of(E, z, Genesis)
  BY BlocksAssumption DEF TreeGood, TreeTyped
<1>2. Bad \in SUBSET Nat
  BY <1>1
<1>3. ASSUME Bad # {} PROVE FALSE
  <2>1. PICK h \in Bad : \A k \in Bad : h <= k
    <3> HIDE DEF Bad
    <3> QED
      BY <1>2, <1>3, LeastNat
  <2>2. PICK z \in E : /\ h = HeightOf[z]
                       /\ \E w \in E : HeightOf[z] <= HeightOf[w]
                                       /\ ~(t.weight[z] <= t.weight[w])
    BY <2>1
  <2>3. PICK w \in E : HeightOf[z] <= HeightOf[w] /\ ~(t.weight[z] <= t.weight[w])
    BY <2>2
  <2>4. z # Genesis
    <3> SUFFICES ASSUME z = Genesis PROVE FALSE
      OBVIOUS
    <3>1. w # Genesis
      BY <1>1, <2>3
    <3>2. t.weight[Genesis] < t.weight[w]
      BY <1>1, <3>1, EqualIsPositive, WalkLighter
    <3> QED
      BY <1>1, <2>3, <3>2
  <2> DEFINE p == PrevHash[z]
             q == PrevHash[w]
  <2>5. /\ p \in E /\ HeightOf[z] = HeightOf[p] + 1 /\ t.weight[p] \in Nat
    BY <2>4, EntryFacts
  <2>6. w # Genesis
    BY <1>1, <2>3, <2>5, BlocksAssumption
  <2>7. /\ q \in E /\ HeightOf[w] = HeightOf[q] + 1 /\ t.weight[q] \in Nat
    BY <2>6, EntryFacts
  <2>8. HeightOf[p] <= HeightOf[q] /\ HeightOf[p] < h
    BY <1>1, <2>2, <2>3, <2>5, <2>7
  <2>9. t.weight[p] <= t.weight[q]
    <3> SUFFICES ASSUME ~(t.weight[p] <= t.weight[q]) PROVE FALSE
      OBVIOUS
    <3> HIDE DEF p, q
    <3>1. HeightOf[p] \in Bad
      BY <2>5, <2>7, <2>8
    <3>2. h <= HeightOf[p]
      BY <2>1, <3>1
    <3> QED
      BY <1>1, <2>2, <2>5, <2>8, <3>2
  <2>10. PICK c \in Nat : StakeOf[z][z] = c /\ StakeOf[w][w] = c
    BY <2>4, <2>6 DEF EqualStakes, WeightsAdd
  <2>11. t.weight[z] = t.weight[p] + c /\ t.weight[w] = t.weight[q] + c
    BY <2>4, <2>6, <2>10 DEF WeightsAdd
  <2> QED
    BY <2>3, <2>5, <2>7, <2>9, <2>10, <2>11
<1> QED
  BY <1>3

(* insert never moves the tip to a lower block. *)
LEMMA InsertHigher ==
    ASSUME EqualStakes, NEW t, TreeGood(t), WeightsAdd(t), NEW b \in Valid,
           NEW u, u = insert(t, b, StakeOf[b][b])
    PROVE  HeightOf[t.canonical_tip] <= HeightOf[u.canonical_tip]
<1> DEFINE tip == t.canonical_tip
<1>0. b \in Blocks /\ StakeOf[b][b] \in Nat
  BY ChainAssumption
<1>1. tip \in Blocks /\ HeightOf[tip] \in Nat /\ HeightOf[b] \in Nat /\ tip \in Entries(t)
  BY <1>0, BlocksAssumption DEF TreeGood, TreeTyped
<1>2. CASE u.canonical_tip = tip
  BY <1>1, <1>2
<1>3. CASE u.canonical_tip # tip
  <2>1. InsertResult(t, b) = "inserted"
    BY <1>3 DEF insert
  <2>2. /\ u.canonical_tip = b /\ Entries(u) = Entries(t) \cup {b}
        /\ u.weight = AddEntry(t, b, StakeOf[b][b]) /\ b \notin Entries(t)
        /\ t.weight[PrevHash[b]] + StakeOf[b][b] > t.weight[tip]
    BY <1>0, <1>3, <2>1, InsertFacts DEF Inserted
  <2>3. u.weight[b] = t.weight[PrevHash[b]] + StakeOf[b][b] /\ u.weight[tip] = t.weight[tip]
    BY <1>1, <2>2 DEF AddEntry
  <2>4. TreeGood(u) /\ WeightsAdd(u)
    BY <1>0, InsertGood, InsertWeights
  <2>5. ~(HeightOf[b] <= HeightOf[tip])
    <3>1. u.weight[b] \in Nat /\ u.weight[tip] \in Nat /\ b \in Entries(u) /\ tip \in Entries(u)
      BY <1>1, <2>2, <2>4 DEF TreeGood, TreeTyped
    <3>2. ~(u.weight[b] <= u.weight[tip])
      BY <2>2, <2>3, <3>1
    <3> QED
      BY <2>4, <3>1, <3>2, HigherIsHeavier
  <2> QED
    BY <1>1, <2>2, <2>5
<1> QED
  BY <1>2, <1>3

(* The height of a node is that of the tip of its tree. *)
LEMMA HeadHeight ==
    ASSUME NEW n, NodeGood(n), RecordsGood(n)
    PROVE  height(n) \in Nat /\ height(n) = HeightOf[n.tree.canonical_tip]
<1>1. Headers(n.chain) /\ n.chain[Len(n.chain)] = n.tree.canonical_tip
  BY DEF NodeGood, RecordsGood, latest_block
<1>2. Len(n.chain) \in Nat /\ Len(n.chain) >= 1
      /\ HeightOf[n.chain[Len(n.chain)]] = Len(n.chain) - 1
  BY <1>1 DEF Headers
<1> QED
  BY <1>1, <1>2 DEF height

(* A block that extends the head raises the height to its own. *)
LEMMA AddBlockHeight ==
    ASSUME NEW n, NodeGood(n), NEW b \in Blocks, NEW m, m = add_block(n, b)
    PROVE  /\ height(n) \in Nat /\ height(m) \in Nat /\ m.tracker = n.tracker
           /\ IF ValidationResult(b, latest_block(n)) = "Ok"
              THEN height(m) = HeightOf[b] /\ HeightOf[b] = height(n) + 1
              ELSE height(m) = height(n)
<1>1. AddedBlock(n, b, m)
  BY AddBlockFacts DEF NodeGood
<1>2. Headers(n.chain) /\ Len(n.chain) \in Nat /\ Len(n.chain) >= 1
  BY DEF NodeGood, Headers
<1>3. CASE ValidationResult(b, latest_block(n)) = "Ok"
  <2>1. HeightOf[b] = HeightOf[n.chain[Len(n.chain)]] + 1 /\ PrevHash[b] = n.chain[Len(n.chain)]
    BY <1>3, ValidFacts DEF latest_block
  <2>2. Len(Append(n.chain, b)) = Len(n.chain) + 1 /\ HeightOf[b] = Len(n.chain)
    BY <1>2, <2>1, AppendHeaders DEF Appended
  <2> QED
    BY <1>1, <1>2, <1>3, <2>2 DEF AddedBlock, height
<1>4. CASE ValidationResult(b, latest_block(n)) # "Ok"
  BY <1>1, <1>2, <1>4 DEF AddedBlock, height
<1> QED
  BY <1>3, <1>4

(* Fork choice never lowers the height. *)
LEMMA ForkChoiceHeight ==
    ASSUME EqualStakes, NEW n, NodeGood(n), RecordsGood(n), NEW b \in Blocks,
           NEW m, m = add_block_with_fork_choice(n, b)
    PROVE  height(n) <= height(m) /\ height(m) \in Nat
<1>0. PositiveStakes /\ TreeGood(n.tree) /\ WeightsAdd(n.tree)
  BY EqualIsPositive DEF NodeGood, RecordsGood
<1>1. NodeGood(m) /\ RecordsGood(m)
  BY <1>0, ForkChoiceGood, ForkChoiceRecords
<1>2. /\ height(n) \in Nat /\ height(n) = HeightOf[n.tree.canonical_tip]
      /\ height(m) \in Nat /\ height(m) = HeightOf[m.tree.canonical_tip]
  BY <1>1, HeadHeight
<1>3. CASE m = n
  BY <1>2, <1>3
<1>4. CASE m = add_block(n, b)
  BY <1>2, <1>4, AddBlockHeight
<1>5. CASE ForkStep(n, b, m)
  <2>1. /\ m.tree = insert(n.tree, b, StakeOf[b][b])
        /\ ValidationResult(b, PrevHash[b]) = "Ok"
    BY <1>5 DEF ForkStep
  <2>2. b \in Valid
    BY <2>1, ValidFacts
  <2>3. HeightOf[n.tree.canonical_tip] <= HeightOf[m.tree.canonical_tip]
    BY <1>0, <2>1, <2>2, InsertHigher
  <2> QED
    BY <1>2, <2>3
<1> QED
  BY <1>0, <1>3, <1>4, <1>5, ForkChoiceFacts DEF NodeGood

(* A vote leaves the chain. *)
LEMMA VoteHeight ==
    ASSUME NEW n, NodeGood(n), NEW vote
    PROVE  add_finality_vote(n, vote).chain = n.chain
BY VoteFacts DEF VoteStep, NodeGood

(* A gossiped block never lowers the height, and one the node votes for    *)
(* becomes its head, one higher than the last.                             *)
LEMMA HandleBlockHeight ==
    ASSUME EqualStakes, NEW n, NodeGood(n), RecordsGood(n), NEW b \in Blocks, NEW v,
           NEW m, m = handle_new_block(n, b, v)
    PROVE  /\ height(n) \in Nat /\ height(m) \in Nat /\ height(n) <= height(m)
           /\ ValidationResult(b, latest_block(n)) = "Ok" =>
                  height(m) = HeightOf[b] /\ HeightOf[b] = height(n) + 1
<1>1. PICK k : k = add_block(n, b)
  OBVIOUS
<1>2. NodeGood(k) /\ RecordsGood(k)
  BY <1>1, EqualIsPositive, AddBlockGood, AddBlockRecords
<1>3. /\ height(n) \in Nat /\ height(k) \in Nat
      /\ IF ValidationResult(b, latest_block(n)) = "Ok"
         THEN height(k) = HeightOf[b] /\ HeightOf[b] = height(n) + 1
         ELSE height(k) = height(n)
  BY <1>1, AddBlockHeight
<1>4. CASE ValidationResult(b, latest_block(n)) = "Ok"
  <2>1. m = add_finality_vote(k, VoteFor(b, v))
    BY <1>1, <1>4 DEF handle_new_block
  <2>2. height(m) = height(k)
    BY <1>2, <2>1, VoteHeight DEF height
  <2> QED
    BY <1>3, <1>4, <2>2
<1>5. CASE ValidationResult(b, latest_block(n)) # "Ok"
  <2>1. m = k \/ m = add_block_with_fork_choice(k, b)
    BY <1>1, <1>5 DEF handle_new_block
  <2>2. m = k \/ (height(k) <= height(m) /\ height(m) \in Nat)
    BY <1>2, <2>1, ForkChoiceHeight
  <2> QED
    BY <1>3, <1>5, <2>2
<1> QED
  BY <1>4, <1>5

-----------------------------------------------------------------------------
(* The votes counted for b were signed, by different validators of the     *)
(* snapshot.                                                               *)
CountedList(L, b, S) ==
    LET e == EpochOf(HeightOf[b]) IN
    /\ L \in Seq(DOMAIN EpochStake[e])
    /\ \A i, j \in DOMAIN L : L[i] = L[j] => i = j
    /\ \A i \in DOMAIN L : VoteFor(b, L[i]) \in S

(* The validators of the snapshot that signed for b. *)
Signers(b, S) == {v \in DOMAIN EpochStake[EpochOf(HeightOf[b])] : VoteFor(b, v) \in S}

(* They hold two thirds of the stake. *)
QuorumSigned(b, S) ==
    LET e == EpochOf(HeightOf[b]) IN
    /\ TotalStake(e) > 0
    /\ 3 * SumFunctionOnSet(EpochStake[e], Signers(b, S)) >= 2 * TotalStake(e)

(* What a tracker holds rests on the votes S. *)
Backed(tr, S) ==
    /\ DOMAIN tr.votes = Blocks
    /\ \A b \in Blocks : CountedList(tr.votes[b], b, S)
    /\ tr.finalized_hash \in Blocks \cup {NoBlock}
    /\ tr.finalized_hash # NoBlock => QuorumSigned(tr.finalized_hash, S)

(* The stake of the signers. *)
LEMMA SignersStake ==
    ASSUME NEW b \in Blocks, NEW e, e = EpochOf(HeightOf[b])
    PROVE  /\ e \in DOMAIN EpochStake /\ IsFiniteSet(DOMAIN EpochStake[e])
           /\ \A v \in DOMAIN EpochStake[e] : EpochStake[e][v] \in Nat
           /\ TotalStake(e) = SumFunctionOnSet(EpochStake[e], DOMAIN EpochStake[e])
           /\ TotalStake(e) \in Nat /\ MaxU64 \in Nat /\ 2 * TotalStake(e) <= MaxU64
           /\ \A A \in SUBSET DOMAIN EpochStake[e] :
                  IsFiniteSet(A) /\ SumFunctionOnSet(EpochStake[e], A) \in Nat
<1>1. /\ e \in DOMAIN EpochStake /\ IsFiniteSet(DOMAIN EpochStake[e])
      /\ \A v \in DOMAIN EpochStake[e] : EpochStake[e][v] \in Nat
      /\ MaxU64 \in Nat /\ 2 * TotalStake(e) <= MaxU64
  BY EpochAssumption
<1>2. TotalStake(e) = SumFunctionOnSet(EpochStake[e], DOMAIN EpochStake[e])
  BY DEF TotalStake, SumFunction
<1>3. ASSUME NEW A \in SUBSET DOMAIN EpochStake[e]
      PROVE  IsFiniteSet(A) /\ SumFunctionOnSet(EpochStake[e], A) \in Nat
  BY <1>1, FS_Subset, SumIsNat
<1> QED
  BY <1>1, <1>2, <1>3

(* A quorum stays one when more votes are signed. *)
LEMMA QuorumGrows ==
    ASSUME NEW b \in Blocks, NEW S, NEW T, S \subseteq T, QuorumSigned(b, S)
    PROVE  QuorumSigned(b, T)
<1>1. PICK e : e = EpochOf(HeightOf[b])
  OBVIOUS
<1> DEFINE w == EpochStake[e]
           A == Signers(b, S)
           B == Signers(b, T)
<1>2. A \in SUBSET B /\ B \in SUBSET DOMAIN w
  BY <1>1 DEF Signers
<1>3. /\ TotalStake(e) \in Nat /\ \A v \in DOMAIN w : w[v] \in Nat
      /\ \A C \in SUBSET DOMAIN w : IsFiniteSet(C) /\ SumFunctionOnSet(w, C) \in Nat
  BY <1>1, SignersStake
<1>4. TotalStake(e) > 0 /\ 3 * SumFunctionOnSet(w, A) >= 2 * TotalStake(e)
  BY <1>1 DEF QuorumSigned
<1> HIDE DEF w, A, B
<1>5. SumFunctionOnSet(w, A) <= SumFunctionOnSet(w, B)
  BY <1>2, <1>3, SumBound
<1>6. SumFunctionOnSet(w, A) \in Nat /\ SumFunctionOnSet(w, B) \in Nat
  BY <1>2, <1>3
<1> QED
  BY <1>1, <1>3, <1>4, <1>5, <1>6 DEF QuorumSigned, w, B

(* More votes take nothing from a tracker. *)
LEMMA BackedGrows ==
    ASSUME NEW tr, NEW S, NEW T, S \subseteq T, Backed(tr, S)
    PROVE  Backed(tr, T)
<1>1. \A b \in Blocks : CountedList(tr.votes[b], b, T)
  BY DEF Backed, CountedList
<1>2. tr.finalized_hash # NoBlock => QuorumSigned(tr.finalized_hash, T)
  BY QuorumGrows DEF Backed
<1> QED
  BY <1>1, <1>2 DEF Backed

(* A list that passes the 2/3 test of add_vote is a signed quorum: the     *)
(* products do not saturate, and no signer is summed twice.                *)
LEMMA ListIsQuorum ==
    ASSUME NEW b \in Blocks, NEW S, NEW L, CountedList(L, b, S),
           ReachesQuorum(L, EpochOf(HeightOf[b]))
    PROVE  QuorumSigned(b, S)
<1>1. PICK e : e = EpochOf(HeightOf[b])
  OBVIOUS
<1> DEFINE w == EpochStake[e]
           A == {L[i] : i \in DOMAIN L}
           B == Signers(b, S)
<1>2. /\ TotalStake(e) \in Nat /\ \A v \in DOMAIN w : w[v] \in Nat
      /\ MaxU64 \in Nat /\ 2 * TotalStake(e) <= MaxU64
      /\ \A C \in SUBSET DOMAIN w : IsFiniteSet(C) /\ SumFunctionOnSet(w, C) \in Nat
  BY <1>1, SignersStake
<1>3. /\ L \in Seq(DOMAIN w) /\ \A i, j \in DOMAIN L : L[i] = L[j] => i = j
      /\ \A i \in DOMAIN L : VoteFor(b, L[i]) \in S
  BY <1>1 DEF CountedList
<1>4. A \in SUBSET B /\ B \in SUBSET DOMAIN w
  <2>1. \A i \in DOMAIN L : L[i] \in DOMAIN w
    BY <1>3
  <2> QED
    BY <1>1, <1>3, <2>1 DEF Signers
<1>5. VotedStake(L, e) = ListSum(w, L)
  BY DEF VotedStake, ListSum
<1>6. ListSum(w, L) = SumFunctionOnSet(w, A) /\ ListSum(w, L) \in Nat
  <2> HIDE DEF w
  <2> QED
    BY <1>2, <1>3, ListSumIsSum, ZenonT(30)
<1>7. TotalStake(e) > 0 /\ 3 * VotedStake(L, e) >= 2 * TotalStake(e)
  BY <1>1, <1>2, <1>5, <1>6 DEF ReachesQuorum, saturating_mul
<1> HIDE DEF w, A, B
<1>8. SumFunctionOnSet(w, A) <= SumFunctionOnSet(w, B)
  BY <1>2, <1>4, SumBound
<1>9. SumFunctionOnSet(w, B) \in Nat
  BY <1>2, <1>4
<1> QED
  BY <1>1, <1>2, <1>5, <1>6, <1>7, <1>8, <1>9 DEF QuorumSigned, w, B

(* add_vote counts a signed vote. *)
LEMMA AddVoteBacked ==
    ASSUME NEW S, NEW tr, Backed(tr, S), NEW b \in Blocks, NEW v, NEW vote,
           vote = VoteFor(b, v), vote \in S, NEW e, e = EpochOf(HeightOf[b])
    PROVE  Backed(add_vote(tr, vote, e), S)
<1>1. /\ vote.block_hash = b /\ vote.voter = v /\ vote.epoch = e
      /\ vote.block_height = HeightOf[b]
  BY DEF VoteFor
<1>2. CASE ~Counts(tr, vote, e)
  BY <1>2 DEF add_vote
<1>3. CASE Counts(tr, vote, e)
  <2>1. PICK r : r = Record(tr, vote)
    OBVIOUS
  <2>2. v \in DOMAIN EpochStake[e]
    BY <1>1, <1>3 DEF Counts
  <2>3. DOMAIN tr.votes = Blocks /\ CountedList(tr.votes[b], b, S)
    BY DEF Backed
  <2>4. /\ DOMAIN r.votes = Blocks /\ r.finalized_hash = tr.finalized_hash
        /\ \A x \in Blocks \ {b} : r.votes[x] = tr.votes[x]
        /\ r.votes[b] = IF Listed(tr, vote) THEN tr.votes[b] ELSE Append(tr.votes[b], v)
    BY <1>1, <2>1, <2>3 DEF Record
  <2>5. CountedList(r.votes[b], b, S)
    <3>1. CASE Listed(tr, vote)
      BY <2>3, <2>4, <3>1
    <3>2. CASE ~Listed(tr, vote)
      <4>1. PICK L : L = tr.votes[b]
        OBVIOUS
      <4>2. PICK k : k = Len(L)
        BY ZenonT(30)
      <4>3. /\ L \in Seq(DOMAIN EpochStake[e]) /\ \A i, j \in DOMAIN L : L[i] = L[j] => i = j
            /\ \A i \in DOMAIN L : VoteFor(b, L[i]) \in S
        BY <2>3, <4>1 DEF CountedList
      <4>4. \A i \in DOMAIN L : L[i] # v
        BY <1>1, <3>2, <4>1 DEF Listed
      <4>5. PICK M : M = Append(L, v)
        BY ZenonT(30)
      <4>6. /\ M \in Seq(DOMAIN EpochStake[e]) /\ k \in Nat /\ DOMAIN L = 1..k
            /\ DOMAIN M = 1..(k + 1) /\ M[k + 1] = v
            /\ \A i \in 1..k : M[i] = L[i]
        BY <2>2, <4>2, <4>3, <4>5
      <4>7. ASSUME NEW i \in DOMAIN M, NEW j \in DOMAIN M, M[i] = M[j] PROVE i = j
        <5>1. (i \in DOMAIN L \/ i = k + 1) /\ (j \in DOMAIN L \/ j = k + 1)
          BY <4>6
        <5> QED
          BY <4>3, <4>4, <4>6, <4>7, <5>1
      <4>8. ASSUME NEW i \in DOMAIN M PROVE VoteFor(b, M[i]) \in S
        <5>1. i \in DOMAIN L \/ i = k + 1
          BY <4>6
        <5> QED
          BY <4>3, <4>6, <5>1
      <4>9. r.votes[b] = M
        BY <2>4, <3>2, <4>1, <4>5
      <4> QED
        BY <4>6, <4>7, <4>8, <4>9 DEF CountedList
    <3> QED
      BY <3>1, <3>2
  <2>6. \A x \in Blocks : CountedList(r.votes[x], x, S)
    BY <2>4, <2>5 DEF Backed
  <2>7. CASE ~Finalizes(tr, vote, e)
    BY <1>3, <2>1, <2>4, <2>6, <2>7, ZenonT(30) DEF add_vote, Backed
  <2>8. CASE Finalizes(tr, vote, e)
    <3>1. QuorumSigned(b, S)
      BY <1>1, <2>1, <2>5, <2>8, ListIsQuorum DEF Finalizes
    <3>2. PICK f : f = add_vote(tr, vote, e)
      OBVIOUS
    <3>3. f = Finalize(r, b)
      BY <1>1, <1>3, <2>1, <2>8, <3>2 DEF add_vote
    <3>4. /\ DOMAIN f.votes = Blocks /\ f.finalized_hash = b
          /\ \A x \in Blocks : f.votes[x] \in {r.votes[x], <<>>}
      BY <3>3 DEF Finalize
    <3>5. \A x \in Blocks : CountedList(<<>>, x, S)
      BY DEF CountedList
    <3>6. \A x \in Blocks : CountedList(f.votes[x], x, S)
      BY <2>6, <3>4, <3>5
    <3> QED
      BY <3>1, <3>2, <3>4, <3>6, ZenonT(30) DEF Backed
  <2> QED
    BY <2>7, <2>8
<1> QED
  BY <1>2, <1>3

(* The same for the node that applies the vote. *)
LEMMA VoteBacked ==
    ASSUME NEW n, NodeGood(n), NEW S, Backed(n.tracker, S), NEW b \in Blocks, NEW v,
           VoteFor(b, v) \in S
    PROVE  Backed(add_finality_vote(n, VoteFor(b, v)).tracker, S)
<1>1. PICK vote : vote = VoteFor(b, v)
  OBVIOUS
<1>2. PICK m : m = add_finality_vote(n, vote)
  OBVIOUS
<1>3. vote.block_height = HeightOf[b]
  BY <1>1 DEF VoteFor
<1>4. m = n \/ VoteStep(n, vote, m)
  BY <1>2, VoteFacts DEF NodeGood
<1>5. m.tracker = n.tracker \/ m.tracker = add_vote(n.tracker, vote, EpochOf(HeightOf[b]))
  BY <1>3, <1>4 DEF VoteStep
<1>6. Backed(add_vote(n.tracker, vote, EpochOf(HeightOf[b])), S)
  BY <1>1, AddVoteBacked
<1> QED
  BY <1>1, <1>2, <1>5, <1>6

(* Blocks do not touch the tracker. *)
LEMMA BlocksKeepTracker ==
    ASSUME NEW n, NodeGood(n), NEW b \in Blocks
    PROVE  /\ add_block(n, b).tracker = n.tracker
           /\ add_block_with_fork_choice(n, b).tracker = n.tracker
<1>1. add_block(n, b).tracker = n.tracker
  BY AddBlockFacts, ZenonT(30) DEF NodeGood, AddedBlock
<1>2. PICK m : m = add_block_with_fork_choice(n, b)
  OBVIOUS
<1>3. m = n \/ m = add_block(n, b) \/ ForkStep(n, b, m)
  BY <1>2, ForkChoiceFacts DEF NodeGood
<1> QED
  BY <1>1, <1>2, <1>3 DEF ForkStep

(* A gossiped block, with the vote the node signs for it. *)
LEMMA HandleBlockBacked ==
    ASSUME NEW n, NodeGood(n), NEW S, Backed(n.tracker, S), NEW b \in Blocks, NEW v,
           ValidationResult(b, latest_block(n)) = "Ok" => VoteFor(b, v) \in S
    PROVE  Backed(handle_new_block(n, b, v).tracker, S)
<1>1. PICK k : k = add_block(n, b)
  OBVIOUS
<1>2. NodeGood(k) /\ k.tracker = n.tracker
  BY <1>1, AddBlockGood, BlocksKeepTracker
<1>3. CASE ValidationResult(b, latest_block(n)) = "Ok"
  <2>1. handle_new_block(n, b, v) = add_finality_vote(k, VoteFor(b, v))
    BY <1>1, <1>3 DEF handle_new_block
  <2> QED
    BY <1>2, <1>3, <2>1, VoteBacked
<1>4. CASE ValidationResult(b, latest_block(n)) # "Ok"
  <2>1. handle_new_block(n, b, v) \in {k, add_block_with_fork_choice(k, b)}
    BY <1>1, <1>4 DEF handle_new_block
  <2> QED
    BY <1>2, <2>1, BlocksKeepTracker
<1> QED
  BY <1>3, <1>4

-----------------------------------------------------------------------------
(* Every node is good, and every finalized block rests on votes that were  *)
(* signed by validators for the block they name.                           *)
NetGood ==
    /\ DOMAIN nodes = Validators
    /\ sent_blocks \subseteq Blocks
    /\ \A v \in Validators : NodeGood(nodes[v]) /\ Backed(nodes[v].tracker, sent_votes)
    /\ \A x \in sent_votes : /\ x.voter \in Validators /\ x.block_hash \in Blocks
                             /\ x = VoteFor(x.block_hash, x.voter)

(* The first state. *)
LEMMA InitNet == Init => NetGood
<1> SUFFICES ASSUME Init PROVE NetGood
  OBVIOUS
<1>1. PICK n : n = new_chain
  OBVIOUS
<1>2. NodeGood(n) /\ n.tracker = with_finalized(0, NoBlock)
  BY <1>1, NewChainGood DEF new_chain
<1>3. \A x \in Blocks : CountedList(<<>>, x, {})
  BY DEF CountedList
<1>4. Backed(n.tracker, {})
  BY <1>2, <1>3 DEF with_finalized, Backed
<1> QED
  BY <1>1, <1>2, <1>4 DEF Init, NetGood

(* A step of v to the node value m that signs nothing, or for one block. *)
LEMMA NodeStep ==
    ASSUME NetGood, NEW v \in Validators, NEW m, nodes' = [nodes EXCEPT ![v] = m],
           NodeGood(m), Backed(m.tracker, sent_votes'), sent_blocks' \subseteq Blocks,
           \/ sent_votes' = sent_votes
           \/ \E b \in Blocks : sent_votes' = sent_votes \cup {VoteFor(b, v)}
    PROVE  NetGood'
<1>1. /\ DOMAIN nodes' = Validators /\ nodes'[v] = m
      /\ \A w \in Validators \ {v} : nodes'[w] = nodes[w]
      /\ sent_votes \subseteq sent_votes'
  BY DEF NetGood
<1>2. ASSUME NEW w \in Validators
      PROVE  NodeGood(nodes'[w]) /\ Backed(nodes'[w].tracker, sent_votes')
  <2>1. CASE w = v
    BY <1>1, <2>1
  <2>2. CASE w # v
    <3>1. NodeGood(nodes[w]) /\ Backed(nodes[w].tracker, sent_votes)
      BY DEF NetGood
    <3> QED
      BY <1>1, <2>2, <3>1, BackedGrows
  <2> QED
    BY <2>1, <2>2
<1>3. ASSUME NEW x \in sent_votes'
      PROVE  /\ x.voter \in Validators /\ x.block_hash \in Blocks
             /\ x = VoteFor(x.block_hash, x.voter)
  <2>1. CASE x \in sent_votes
    BY <2>1 DEF NetGood
  <2>2. ASSUME NEW b \in Blocks, x = VoteFor(b, v)
        PROVE  x.voter = v /\ x.block_hash = b
    BY <2>2 DEF VoteFor
  <2> QED
    BY <2>1, <2>2
<1> QED
  BY <1>1, <1>2, <1>3 DEF NetGood

(* The node of v, which the next lemmas take one step further. *)
LEMMA NodeOf ==
    ASSUME NetGood, NEW v \in Validators, sent_votes \subseteq sent_votes'
    PROVE  NodeGood(nodes[v]) /\ Backed(nodes[v].tracker, sent_votes')
BY BackedGrows DEF NetGood

(* Every step of a validator keeps the network good. *)
LEMMA StepGood ==
    ASSUME NetGood, [Next]_vars
    PROVE  NetGood'
<1>1. ASSUME NEW v \in Validators, NEW b \in Blocks, Produce(v, b) PROVE NetGood'
  <2>1. PICK n : n = nodes[v]
    OBVIOUS
  <2>2. PICK k : k = add_block(n, b)
    OBVIOUS
  <2>3. PICK m : m = add_finality_vote(k, VoteFor(b, v))
    OBVIOUS
  <2>4. /\ nodes' = [nodes EXCEPT ![v] = m]
        /\ sent_votes' = sent_votes \cup {VoteFor(b, v)} /\ sent_blocks' \subseteq Blocks
    BY <1>1, <2>1, <2>2, <2>3 DEF Produce, NetGood
  <2>5. NodeGood(n) /\ Backed(n.tracker, sent_votes')
    BY <2>1, <2>4, NodeOf, ZenonT(30)
  <2>6. NodeGood(k) /\ k.tracker = n.tracker
    BY <2>2, <2>5, AddBlockGood, BlocksKeepTracker
  <2>7. NodeGood(m) /\ Backed(m.tracker, sent_votes')
    BY <2>3, <2>4, <2>5, <2>6, VoteGood, VoteBacked
  <2> QED
    BY <2>4, <2>7, NodeStep, ZenonT(30)
<1>2. ASSUME NEW v \in Validators, NEW b \in Blocks, DeliverBlock(v, b) PROVE NetGood'
  <2>1. PICK n : n = nodes[v]
    OBVIOUS
  <2>2. PICK m : m = handle_new_block(n, b, v)
    OBVIOUS
  <2>3. /\ nodes' = [nodes EXCEPT ![v] = m] /\ sent_blocks' \subseteq Blocks
        /\ sent_votes' = IF ValidationResult(b, latest_block(n)) = "Ok"
                         THEN sent_votes \cup {VoteFor(b, v)} ELSE sent_votes
    BY <1>2, <2>1, <2>2 DEF DeliverBlock, NetGood
  <2>4. NodeGood(n) /\ Backed(n.tracker, sent_votes')
    BY <2>1, <2>3, NodeOf
  <2>5. NodeGood(m) /\ Backed(m.tracker, sent_votes')
    BY <2>2, <2>3, <2>4, HandleBlockGood, HandleBlockBacked
  <2> QED
    BY <2>3, <2>5, NodeStep, ZenonT(30)
<1>3. ASSUME NEW v \in Validators, NEW b \in Blocks, SyncBlock(v, b) PROVE NetGood'
  <2>1. PICK n : n = nodes[v]
    OBVIOUS
  <2>2. PICK m : m = add_block(n, b)
    OBVIOUS
  <2>3. /\ nodes' = [nodes EXCEPT ![v] = m] /\ sent_blocks' \subseteq Blocks
        /\ sent_votes' = sent_votes
    BY <1>3, <2>1, <2>2 DEF SyncBlock, NetGood
  <2>4. NodeGood(n) /\ Backed(n.tracker, sent_votes')
    BY <2>1, <2>3, NodeOf
  <2>5. NodeGood(m) /\ Backed(m.tracker, sent_votes')
    BY <2>2, <2>4, AddBlockGood, BlocksKeepTracker
  <2> QED
    BY <2>3, <2>5, NodeStep, ZenonT(30)
<1>4. ASSUME NEW v \in Validators, NEW vote \in sent_votes, DeliverVote(v, vote)
      PROVE  NetGood'
  <2>1. PICK n : n = nodes[v]
    OBVIOUS
  <2>2. PICK m : m = add_finality_vote(n, vote)
    OBVIOUS
  <2>3. /\ nodes' = [nodes EXCEPT ![v] = m] /\ sent_blocks' \subseteq Blocks
        /\ sent_votes' = sent_votes
    BY <1>4, <2>1, <2>2 DEF DeliverVote, NetGood
  <2>4. NodeGood(n) /\ Backed(n.tracker, sent_votes')
    BY <2>1, <2>3, NodeOf
  <2>5. PICK b \in Blocks : \E w : vote = VoteFor(b, w)
    BY DEF NetGood
  <2>6. NodeGood(m) /\ Backed(m.tracker, sent_votes')
    <3>1. PICK w : vote = VoteFor(b, w)
      BY <2>5
    <3> QED
      BY <2>2, <2>3, <2>4, <3>1, VoteGood, VoteBacked
  <2> QED
    BY <2>3, <2>6, NodeStep, ZenonT(30)
<1>5. CASE UNCHANGED vars
  BY <1>5 DEF vars, NetGood
<1> QED
  BY <1>1, <1>2, <1>3, <1>4, <1>5 DEF Next

(* The invariant that needs nothing of the stakes: what a node finalized   *)
(* rests on signed votes of two thirds of the stake of the epoch.          *)
THEOREM NetInvariant == Spec => []NetGood
<1>1. Init => NetGood
  BY InitNet
<1>2. NetGood /\ [Next]_vars => NetGood'
  BY StepGood
<1> QED
  BY <1>1, <1>2, PTL DEF Spec

(* Agreement at one height only needs that nobody signs twice at a height: *)
(* two thirds of the stake signed for each of two finalized blocks, so     *)
(* some validator signed for both.  This holds for any stakes.             *)
THEOREM NetQuorumsIntersect ==
    Spec => [](OneSignedVotePerHeight => SameHeightAgreement)
<1>1. NetGood => (OneSignedVotePerHeight => SameHeightAgreement)
  <2> SUFFICES ASSUME NetGood, OneSignedVotePerHeight, NEW v \in Validators, NEW u \in Validators,
                      Finalized(v) # NoBlock, Finalized(u) # NoBlock,
                      HeightOf[Finalized(v)] = HeightOf[Finalized(u)]
               PROVE  Finalized(v) = Finalized(u)
    BY DEF SameHeightAgreement
  <2>1. PICK b : b = Finalized(v)
    OBVIOUS
  <2>2. PICK c : c = Finalized(u)
    OBVIOUS
  <2>3. /\ b \in Blocks /\ QuorumSigned(b, sent_votes)
        /\ c \in Blocks /\ QuorumSigned(c, sent_votes)
    BY <2>1, <2>2, ZenonT(30) DEF NetGood, Backed, Finalized
  <2>4. PICK e : e = EpochOf(HeightOf[b])
    OBVIOUS
  <2>5. PICK A : A = Signers(b, sent_votes)
    OBVIOUS
  <2>6. PICK B : B = Signers(c, sent_votes)
    OBVIOUS
  <2> DEFINE w == EpochStake[e]
  <2>7. /\ TotalStake(e) > 0
        /\ 3 * SumFunctionOnSet(w, A) >= 2 * TotalStake(e)
        /\ 3 * SumFunctionOnSet(w, B) >= 2 * TotalStake(e)
    BY <2>1, <2>2, <2>3, <2>4, <2>5, <2>6 DEF QuorumSigned
  <2>8. /\ IsFiniteSet(DOMAIN w) /\ \A x \in DOMAIN w : w[x] \in Nat
        /\ TotalStake(e) = SumFunctionOnSet(w, DOMAIN w) /\ TotalStake(e) \in Nat
        /\ \A C \in SUBSET DOMAIN w : IsFiniteSet(C) /\ SumFunctionOnSet(w, C) \in Nat
    BY <2>3, <2>4, SignersStake, ZenonT(30)
  <2>9. A \in SUBSET DOMAIN w /\ B \in SUBSET DOMAIN w
    BY <2>1, <2>2, <2>4, <2>5, <2>6 DEF Signers
  <2>10. PICK x \in A : x \in B
    <3> SUFFICES ASSUME A \cap B = {} PROVE FALSE
      OBVIOUS
    <3> HIDE DEF w
    <3>1. SumFunctionOnSet(w, A \cup B) = SumFunctionOnSet(w, A) + SumFunctionOnSet(w, B)
      BY <2>8, <2>9, SumSplit
    <3>2. SumFunctionOnSet(w, A \cup B) <= SumFunctionOnSet(w, DOMAIN w)
      BY <2>8, <2>9, SumBound
    <3>3. SumFunctionOnSet(w, A) \in Nat /\ SumFunctionOnSet(w, B) \in Nat
      BY <2>8, <2>9
    <3> QED
      BY <2>7, <2>8, <3>1, <3>2, <3>3
  <2>11. VoteFor(b, x) \in sent_votes /\ VoteFor(c, x) \in sent_votes
    BY <2>5, <2>6, <2>10 DEF Signers
  <2>12. VoteFor(b, x) = VoteFor(c, x)
    <3>1. /\ VoteFor(b, x).voter = VoteFor(c, x).voter
          /\ VoteFor(b, x).block_height = VoteFor(c, x).block_height
      BY <2>1, <2>2 DEF VoteFor
    <3> QED
      BY <2>11, <3>1 DEF OneSignedVotePerHeight
  <2> QED
    BY <2>1, <2>2, <2>12 DEF VoteFor
<1> QED
  BY <1>1, NetInvariant, PTL

-----------------------------------------------------------------------------
(* Nobody has signed above its head, nor twice at one height. *)
NetSigned ==
    /\ \A v \in Validators : RecordsGood(nodes[v])
    /\ \A x \in sent_votes : x.block_height <= height(nodes[x.voter])
    /\ OneSignedVotePerHeight

(* A step of v that signs nothing, or for a block one above its head. *)
LEMMA SignStep ==
    ASSUME NetGood, NetSigned, NEW v \in Validators, NEW m,
           nodes' = [nodes EXCEPT ![v] = m], RecordsGood(m),
           height(nodes[v]) \in Nat, height(m) \in Nat, height(nodes[v]) <= height(m),
           \/ sent_votes' = sent_votes
           \/ \E b \in Blocks : /\ sent_votes' = sent_votes \cup {VoteFor(b, v)}
                                /\ HeightOf[b] = height(nodes[v]) + 1
                                /\ HeightOf[b] <= height(m)
    PROVE  NetSigned'
<1>1. /\ nodes'[v] = m /\ \A w \in Validators \ {v} : nodes'[w] = nodes[w]
  BY DEF NetGood
<1>2. \A w \in Validators : RecordsGood(nodes'[w])
  BY <1>1 DEF NetSigned
<1>3. ASSUME NEW x \in sent_votes
      PROVE  /\ x.voter \in Validators /\ x.block_height \in Nat
             /\ x.block_height <= height(nodes[x.voter])
             /\ x.block_height <= height(nodes'[x.voter])
  <2>1. /\ x.voter \in Validators /\ x.block_hash \in Blocks
        /\ x = VoteFor(x.block_hash, x.voter)
        /\ x.block_height <= height(nodes[x.voter])
    BY DEF NetGood, NetSigned
  <2>2. x.block_height = HeightOf[x.block_hash]
    BY <2>1 DEF VoteFor
  <2>3. x.block_height \in Nat
    BY <2>1, <2>2, BlocksAssumption
  <2>4. CASE x.voter = v
    BY <1>1, <2>1, <2>3, <2>4
  <2>5. CASE x.voter # v
    BY <1>1, <2>1, <2>3, <2>5
  <2> QED
    BY <2>4, <2>5
<1>4. CASE sent_votes' = sent_votes
  BY <1>2, <1>3, <1>4 DEF NetSigned, OneSignedVotePerHeight
<1>5. ASSUME NEW b \in Blocks, sent_votes' = sent_votes \cup {VoteFor(b, v)},
             HeightOf[b] = height(nodes[v]) + 1, HeightOf[b] <= height(m)
      PROVE  NetSigned'
  <2>1. PICK vote : vote = VoteFor(b, v)
    OBVIOUS
  <2>2. vote.voter = v /\ vote.block_height = HeightOf[b]
    BY <2>1 DEF VoteFor
  <2>3. \A x \in sent_votes' : x.block_height <= height(nodes'[x.voter])
    BY <1>1, <1>3, <1>5, <2>1, <2>2
  <2>4. ASSUME NEW x \in sent_votes, x.voter = v PROVE x.block_height # HeightOf[b]
    BY <1>3, <1>5, <2>4
  <2>5. OneSignedVotePerHeight'
    <3> SUFFICES ASSUME NEW x \in sent_votes', NEW y \in sent_votes',
                        x.voter = y.voter, x.block_height = y.block_height
                 PROVE  x = y
      BY DEF OneSignedVotePerHeight
    <3>1. (x \in sent_votes \/ x = vote) /\ (y \in sent_votes \/ y = vote)
      BY <1>5, <2>1
    <3>2. CASE x \in sent_votes /\ y \in sent_votes
      BY <3>2 DEF NetSigned, OneSignedVotePerHeight
    <3>3. CASE x = vote /\ y = vote
      BY <3>3
    <3> QED
      BY <2>2, <2>4, <3>1, <3>2, <3>3
  <2> QED
    BY <1>2, <2>3, <2>5 DEF NetSigned
<1> QED
  BY <1>4, <1>5

(* With equal stakes every step of a validator keeps its votes below its   *)
(* head.                                                                   *)
LEMMA StepSigned ==
    ASSUME EqualStakes, NetGood, NetSigned, [Next]_vars
    PROVE  NetSigned'
<1>0. \A v \in Validators : NodeGood(nodes[v]) /\ RecordsGood(nodes[v])
  BY DEF NetGood, NetSigned
<1>1. ASSUME NEW v \in Validators, NEW b \in Blocks, Produce(v, b) PROVE NetSigned'
  <2>1. PICK n : n = nodes[v]
    OBVIOUS
  <2>2. PICK k : k = add_block(n, b)
    OBVIOUS
  <2>3. PICK m : m = add_finality_vote(k, VoteFor(b, v))
    OBVIOUS
  <2>4. /\ ValidationResult(b, latest_block(n)) = "Ok"
        /\ nodes' = [nodes EXCEPT ![v] = m]
        /\ sent_votes' = sent_votes \cup {VoteFor(b, v)}
    BY <1>1, <2>1, <2>2, <2>3 DEF Produce
  <2>5. NodeGood(n) /\ RecordsGood(n)
    BY <1>0, <2>1
  <2>6. /\ height(n) \in Nat /\ height(k) = HeightOf[b] /\ height(k) \in Nat
        /\ HeightOf[b] = height(n) + 1
    BY <2>2, <2>4, <2>5, AddBlockHeight
  <2>7. NodeGood(k) /\ RecordsGood(k)
    BY <2>2, <2>5, EqualIsPositive, AddBlockGood, AddBlockRecords
  <2>8. RecordsGood(m) /\ height(m) = height(k)
    BY <2>3, <2>7, VoteRecords, VoteHeight DEF height
  <2>9. height(n) <= height(m) /\ height(m) \in Nat /\ HeightOf[b] <= height(m)
    BY <2>6, <2>8
  <2> QED
    BY <2>1, <2>4, <2>6, <2>8, <2>9, SignStep, ZenonT(30)
<1>2. ASSUME NEW v \in Validators, NEW b \in Blocks, DeliverBlock(v, b) PROVE NetSigned'
  <2>1. PICK n : n = nodes[v]
    OBVIOUS
  <2>2. PICK m : m = handle_new_block(n, b, v)
    OBVIOUS
  <2>3. /\ nodes' = [nodes EXCEPT ![v] = m]
        /\ sent_votes' = IF ValidationResult(b, latest_block(n)) = "Ok"
                         THEN sent_votes \cup {VoteFor(b, v)} ELSE sent_votes
    BY <1>2, <2>1, <2>2 DEF DeliverBlock
  <2>4. NodeGood(n) /\ RecordsGood(n)
    BY <1>0, <2>1
  <2>5. RecordsGood(m)
    BY <2>2, <2>4, EqualIsPositive, HandleBlockRecords
  <2>6. /\ height(n) \in Nat /\ height(m) \in Nat /\ height(n) <= height(m)
        /\ ValidationResult(b, latest_block(n)) = "Ok" =>
               height(m) = HeightOf[b] /\ HeightOf[b] = height(n) + 1
    BY <2>2, <2>4, HandleBlockHeight
  <2>7. \/ sent_votes' = sent_votes
        \/ /\ sent_votes' = sent_votes \cup {VoteFor(b, v)}
           /\ HeightOf[b] = height(n) + 1 /\ HeightOf[b] <= height(m)
    BY <2>3, <2>6
  <2> QED
    BY <2>1, <2>3, <2>5, <2>6, <2>7, SignStep, ZenonT(30)
<1>3. ASSUME NEW v \in Validators, NEW b \in Blocks, SyncBlock(v, b) PROVE NetSigned'
  <2>1. PICK n : n = nodes[v]
    OBVIOUS
  <2>2. PICK m : m = add_block(n, b)
    OBVIOUS
  <2>3. nodes' = [nodes EXCEPT ![v] = m] /\ sent_votes' = sent_votes
    BY <1>3, <2>1, <2>2 DEF SyncBlock
  <2>4. NodeGood(n) /\ RecordsGood(n)
    BY <1>0, <2>1
  <2>5. RecordsGood(m)
    BY <2>2, <2>4, EqualIsPositive, AddBlockRecords
  <2>6. height(n) \in Nat /\ height(m) \in Nat /\ height(n) <= height(m)
    BY <2>2, <2>4, AddBlockHeight
  <2> QED
    BY <2>1, <2>3, <2>5, <2>6, SignStep, ZenonT(30)
<1>4. ASSUME NEW v \in Validators, NEW vote \in sent_votes, DeliverVote(v, vote)
      PROVE  NetSigned'
  <2>1. PICK n : n = nodes[v]
    OBVIOUS
  <2>2. PICK m : m = add_finality_vote(n, vote)
    OBVIOUS
  <2>3. nodes' = [nodes EXCEPT ![v] = m] /\ sent_votes' = sent_votes
    BY <1>4, <2>1, <2>2 DEF DeliverVote
  <2>4. NodeGood(n) /\ RecordsGood(n)
    BY <1>0, <2>1
  <2>5. RecordsGood(m)
    BY <2>2, <2>4, VoteRecords
  <2>6. height(n) \in Nat /\ height(m) = height(n)
    BY <2>2, <2>4, VoteHeight, HeadHeight DEF height
  <2>7. height(n) <= height(m) /\ height(m) \in Nat
    BY <2>6
  <2> QED
    BY <2>1, <2>3, <2>5, <2>6, <2>7, SignStep, ZenonT(30)
<1>5. CASE UNCHANGED vars
  BY <1>5 DEF vars, NetSigned, OneSignedVotePerHeight
<1> QED
  BY <1>1, <1>2, <1>3, <1>4, <1>5 DEF Next

(* When all proposers hold equal stake, a validator signs at most one vote *)
(* per height, through any reorgs: fork choice never takes it to a lower   *)
(* head, and it only signs for what extends its head.                      *)
THEOREM NetOneSignedVotePerHeight ==
    ASSUME EqualStakes PROVE Spec => []OneSignedVotePerHeight
<1>1. Init => NetSigned
  BY NewChainRecords DEF Init, NetSigned, OneSignedVotePerHeight
<1>2. NetGood /\ NetSigned /\ [Next]_vars => NetSigned'
  BY StepSigned
<1>3. NetSigned => OneSignedVotePerHeight
  BY DEF NetSigned
<1> QED
  BY <1>1, <1>2, <1>3, NetInvariant, PTL DEF Spec

(* Then two nodes never finalize different blocks at one height. *)
THEOREM NetSameHeightAgreement ==
    ASSUME EqualStakes PROVE Spec => []SameHeightAgreement
BY NetOneSignedVotePerHeight, NetQuorumsIntersect, PTL
=============================================================================

---------------------------- MODULE FinalityOps ----------------------------
(***************************************************************************)
(* FinalityTracker of consensus/mod.rs as operators on a tracker value.    *)
(*                                                                         *)
(* A vote is a record [block_hash, block_height, epoch, voter, signed];    *)
(* `signed' is the outcome of FinalityVote::verify.  A tracker is a record *)
(*   votes             block -> sequence of the voters counted for it      *)
(*   seen_votes        the set of <<voter, height>> counted so far         *)
(*   finalized_height, finalized_hash                                      *)
(* A frozen EpochSnapshot is its epoch and the stake of each validator.    *)
(***************************************************************************)
EXTENDS Naturals, Sequences, FiniteSets, Functions, BlockTreeOps

CONSTANTS EpochLength,  \* blocks per epoch
          EpochStake,   \* epoch -> (validator of its snapshot -> stake)
          MaxU64,       \* the largest u64
          NoBlock       \* the empty hash of a tracker that finalized nothing

EpochOf(h) == h \div EpochLength

Voters == UNION {DOMAIN EpochStake[e] : e \in DOMAIN EpochStake}

(* EpochSnapshot::total_stake *)
TotalStake(e) == SumFunction(EpochStake[e])

(* Every block has a frozen snapshot for its epoch.  A snapshot lists      *)
(* finitely many validators, stakes are u64, and twice the stake of a      *)
(* snapshot fits in a u64.                                                 *)
ASSUME EpochAssumption ==
    /\ EpochLength \in Nat \ {0}
    /\ NoBlock \notin Blocks
    /\ \A b \in Blocks : EpochOf(HeightOf[b]) \in DOMAIN EpochStake
    /\ MaxU64 \in Nat
    /\ \A e \in DOMAIN EpochStake :
           /\ IsFiniteSet(DOMAIN EpochStake[e])
           /\ \A v \in DOMAIN EpochStake[e] : EpochStake[e][v] \in Nat
           /\ 2 * TotalStake(e) <= MaxU64

-----------------------------------------------------------------------------
(* FinalityTracker::with_finalized; new is with_finalized(0, "") *)
with_finalized(height, hash) ==
    [ votes            |-> [b \in Blocks |-> <<>>],
      seen_votes       |-> {},
      finalized_height |-> height,
      finalized_hash   |-> hash ]

(* u64::saturating_mul *)
saturating_mul(x, y) == IF x * y > MaxU64 THEN MaxU64 ELSE x * y

(* Mutants: the signature or the dedup key is not checked. *)
Counts_unsigned(tr, vote, e) ==
    /\ vote.epoch = e
    /\ vote.block_height > tr.finalized_height
    /\ vote.voter \in DOMAIN EpochStake[e]
    /\ <<vote.voter, vote.block_height>> \notin tr.seen_votes

Counts_repeated(tr, vote, e) ==
    /\ vote.signed
    /\ vote.epoch = e
    /\ vote.block_height > tr.finalized_height
    /\ vote.voter \in DOMAIN EpochStake[e]

(* The early returns of add_vote. *)
Counts(tr, vote, e) ==
    /\ vote.signed
    /\ vote.epoch = e
    /\ vote.block_height > tr.finalized_height
    /\ vote.voter \in DOMAIN EpochStake[e]
    /\ <<vote.voter, vote.block_height>> \notin tr.seen_votes

(* The stake of the votes listed for one block, as the code sums it: once  *)
(* per element of the list.                                                *)
VotedStake(voters, e) ==
    SumFunction([i \in DOMAIN voters |-> IF voters[i] \in DOMAIN EpochStake[e]
                                         THEN EpochStake[e][voters[i]] ELSE 0])

(* Mutant: a third of the stake is a quorum. *)
ReachesQuorum_third(voters, e) ==
    /\ TotalStake(e) # 0
    /\ saturating_mul(VotedStake(voters, e), 3) >= TotalStake(e)

(* The 2/3 test; an empty snapshot never finalizes. *)
ReachesQuorum(voters, e) ==
    /\ TotalStake(e) # 0
    /\ saturating_mul(VotedStake(voters, e), 3) >= saturating_mul(TotalStake(e), 2)

(* The voter is already in the block's list: the "defence in depth" check, *)
(* made after the dedup key is stored.                                     *)
Listed(tr, vote) ==
    \E i \in DOMAIN tr.votes[vote.block_hash] :
        tr.votes[vote.block_hash][i] = vote.voter

(* The dedup key is stored and the vote pushed. *)
Record(tr, vote) ==
    [ votes            |-> IF Listed(tr, vote) THEN tr.votes
                           ELSE [tr.votes EXCEPT ![vote.block_hash] =
                                                     Append(@, vote.voter)],
      seen_votes       |-> tr.seen_votes \cup {<<vote.voter, vote.block_height>>},
      finalized_height |-> tr.finalized_height,
      finalized_hash   |-> tr.finalized_hash ]

(* The block is finalized: votes and dedup keys at or below its height are *)
(* dropped.                                                                *)
Finalize(tr, b) ==
    [ votes            |-> [x \in Blocks |-> IF HeightOf[x] > HeightOf[b]
                                             THEN tr.votes[x] ELSE <<>>],
      seen_votes       |-> {k \in tr.seen_votes : k[2] > HeightOf[b]},
      finalized_height |-> HeightOf[b],
      finalized_hash   |-> b ]

(* Mutant: the stake is summed before the vote is pushed. *)
Finalizes_before_push(tr, vote, e) ==
    /\ Counts(tr, vote, e)
    /\ ~Listed(tr, vote)
    /\ ReachesQuorum(tr.votes[vote.block_hash], e)

(* add_vote returns Some(FinalizedBlock) *)
Finalizes(tr, vote, e) ==
    /\ Counts(tr, vote, e)
    /\ ~Listed(tr, vote)
    /\ ReachesQuorum(Record(tr, vote).votes[vote.block_hash], e)

(* FinalityTracker::add_vote, against the snapshot of epoch e *)
add_vote(tr, vote, e) ==
    IF ~Counts(tr, vote, e) THEN tr
    ELSE IF Finalizes(tr, vote, e) THEN Finalize(Record(tr, vote), vote.block_hash)
    ELSE Record(tr, vote)
=============================================================================

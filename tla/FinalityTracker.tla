--------------------------- MODULE FinalityTracker ---------------------------
(***************************************************************************)
(* The finality tracker as a state machine that is given votes in any      *)
(* order, any number of times.  Its caller, Blockchain::add_finality_vote, *)
(* hands over a vote only if its height is the height of the block it      *)
(* names and its epoch that of the height; the chain checks that relate a  *)
(* vote to the block tree are in ChainOps.                                 *)
(***************************************************************************)
EXTENDS FinalityOps

CONSTANT Votes        \* the votes that can arrive

ASSUME VotesAssumption ==
    \A vote \in Votes :
        /\ vote.block_hash \in Blocks
        /\ vote.block_height \in Nat
        /\ vote.signed \in BOOLEAN

VARIABLES tracker,
          heard       \* history: the votes handed to the tracker

vars == <<tracker, heard>>

Init == /\ tracker = with_finalized(0, NoBlock)
        /\ heard = {}

ReceiveVote(vote) ==
    /\ vote.block_height = HeightOf[vote.block_hash]
    /\ tracker' = add_vote(tracker, vote, EpochOf(vote.block_height))
    /\ heard' = heard \cup {vote}

Next == \E vote \in Votes : ReceiveVote(vote)

Spec == Init /\ [][Next]_vars

-----------------------------------------------------------------------------
(* The tracker holds lists of validators, dedup keys, and the block and    *)
(* height it finalized.                                                    *)
TypeOK ==
    /\ tracker.votes \in [Blocks -> Seq(Voters)]
    /\ tracker.seen_votes \subseteq Voters \X Nat
    /\ tracker.finalized_height \in Nat
    /\ tracker.finalized_hash \in Blocks \cup {NoBlock}
    /\ tracker.finalized_hash # NoBlock =>
           tracker.finalized_height = HeightOf[tracker.finalized_hash]

(* The validators of epoch e from whom a good vote for b was heard. *)
Supporters(b, e) ==
    {v \in DOMAIN EpochStake[e] :
        \E vote \in heard : /\ vote.block_hash = b /\ vote.voter = v
                            /\ vote.signed /\ vote.epoch = e}

(* A finalized block has the votes of distinct validators of its epoch's   *)
(* frozen snapshot with 2/3 of the stake behind it, however votes were     *)
(* repeated, forged, or spread over forks and epochs (add_vote).           *)
QuorumBehindFinality ==
    LET b == tracker.finalized_hash
        e == EpochOf(HeightOf[b])
    IN  b # NoBlock =>
            /\ TotalStake(e) > 0
            /\ 3 * SumFunctionOnSet(EpochStake[e], Supporters(b, e))
                   >= 2 * TotalStake(e)

(* "A validator may only count once per height across the chain" (doc of   *)
(* seen_votes): the dedup keys are exactly the counted votes, all of them  *)
(* above the finalized height, and no validator is counted at one height   *)
(* for two blocks, or twice for one.                                       *)
OneVotePerHeight ==
    /\ \A k \in tracker.seen_votes :
           /\ k[2] > tracker.finalized_height
           /\ \E b \in Blocks : /\ HeightOf[b] = k[2]
                                /\ \E i \in DOMAIN tracker.votes[b] :
                                       tracker.votes[b][i] = k[1]
    /\ \A b \in Blocks : \A i \in DOMAIN tracker.votes[b] :
           <<tracker.votes[b][i], HeightOf[b]>> \in tracker.seen_votes
    /\ \A b, c \in Blocks :
           \A i \in DOMAIN tracker.votes[b], j \in DOMAIN tracker.votes[c] :
               (HeightOf[b] = HeightOf[c] /\ tracker.votes[b][i] = tracker.votes[c][j])
                   => b = c /\ i = j

(* No block waits with a quorum of counted votes: the vote that completes  *)
(* a quorum finalizes its block at once, also when lower blocks are        *)
(* finalized in between.                                                   *)
NoQuorumLeftBehind ==
    \A b \in Blocks : ~ReachesQuorum(tracker.votes[b], EpochOf(HeightOf[b]))

(* The finalized height never falls, and never stays while the hash moves: *)
(* a late quorum for an older block or for a rival at the same height is   *)
(* ignored.                                                                *)
FinalityAdvances ==
    [][tracker'.finalized_hash # tracker.finalized_hash =>
           tracker'.finalized_height > tracker.finalized_height]_vars
=============================================================================

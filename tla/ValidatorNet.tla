---------------------------- MODULE ValidatorNet ----------------------------
(***************************************************************************)
(* A network of validators that all run the code: each holds a node value  *)
(* of ChainOps, produces blocks on its own head, gossips them and its      *)
(* finality votes, and handles what it receives.  Gossip may delay,        *)
(* reorder and lose messages; a node hands a gossiped block to its chain   *)
(* once (seen_hashes).  Which validator may propose which block, and when, *)
(* is a function of the block: slot leaders and backup ranks depend on the *)
(* parent and on timestamps in the headers.                                *)
(***************************************************************************)
EXTENDS ChainOps

CONSTANTS Validators,   \* the validators, all honest
          Proposer      \* the validator that proposes each block

ASSUME NetAssumption == Proposer \in [Blocks -> Validators]

VARIABLES nodes,        \* validator -> its node value
          sent_blocks,  \* blocks gossiped so far
          sent_votes,   \* votes gossiped so far
          seen_hashes   \* validator -> gossiped blocks it has handled

vars == <<nodes, sent_blocks, sent_votes, seen_hashes>>

Init == /\ nodes = [v \in Validators |-> new_chain]
        /\ sent_blocks = {}
        /\ sent_votes = {}
        /\ seen_hashes = [v \in Validators |-> {}]

(* The production tick: create_block on the head, add_block, broadcast,    *)
(* vote, apply the vote locally, broadcast it.                             *)
Produce(v, b) ==
    /\ Proposer[b] = v
    /\ b \notin sent_blocks
    /\ ValidationResult(b, latest_block(nodes[v])) = "Ok"
    /\ nodes' = [nodes EXCEPT ![v] = add_finality_vote(add_block(@, b), VoteFor(b, v))]
    /\ sent_blocks' = sent_blocks \cup {b}
    /\ sent_votes' = sent_votes \cup {VoteFor(b, v)}
    /\ seen_hashes' = [seen_hashes EXCEPT ![v] = @ \cup {b}]

(* Mutant: the node also votes for the blocks of other forks. *)
DeliverBlock_votes_forks(v, b) ==
    /\ b \in sent_blocks \ seen_hashes[v]
    /\ nodes' = [nodes EXCEPT ![v] = handle_new_block(@, b, v)]
    /\ sent_votes' = sent_votes \cup {VoteFor(b, v)}
    /\ seen_hashes' = [seen_hashes EXCEPT ![v] = @ \cup {b}]
    /\ UNCHANGED sent_blocks

(* handle_new_block: the node votes, and gossips its vote, only for a      *)
(* block that extends its head.                                            *)
DeliverBlock(v, b) ==
    /\ b \in sent_blocks \ seen_hashes[v]
    /\ nodes' = [nodes EXCEPT ![v] = handle_new_block(@, b, v)]
    /\ sent_votes' = IF ValidationResult(b, latest_block(nodes[v])) = "Ok"
                     THEN sent_votes \cup {VoteFor(b, v)} ELSE sent_votes
    /\ seen_hashes' = [seen_hashes EXCEPT ![v] = @ \cup {b}]
    /\ UNCHANGED sent_blocks

(* A block of a sync response, from any peer that has it. *)
SyncBlock(v, b) ==
    /\ b \in sent_blocks
    /\ HeightOf[b] = height(nodes[v]) + 1
    /\ nodes' = [nodes EXCEPT ![v] = add_block(@, b)]
    /\ UNCHANGED <<sent_blocks, sent_votes, seen_hashes>>

DeliverVote(v, vote) ==
    /\ vote \in sent_votes
    /\ nodes' = [nodes EXCEPT ![v] = add_finality_vote(@, vote)]
    /\ UNCHANGED <<sent_blocks, sent_votes, seen_hashes>>

Next == \E v \in Validators :
            \/ \E b \in Blocks : \/ Produce(v, b)
                                 \/ DeliverBlock(v, b)
                                 \/ SyncBlock(v, b)
            \/ \E vote \in sent_votes : DeliverVote(v, vote)

Spec == Init /\ [][Next]_vars

-----------------------------------------------------------------------------
Finalized(v) == nodes[v].tracker.finalized_hash

(* "Validators sign one FinalityVote per height per epoch"                 *)
(* (docs/SPEC_CONSENSUS.md, section 8): a validator that runs the code     *)
(* never signs two votes at one height, whatever reorgs it goes through.   *)
(* It is stated for proposers of equal stake: otherwise a shorter, heavier *)
(* fork takes the validator to a lower head, where it signs again.         *)
OneSignedVotePerHeight ==
    \A x, y \in sent_votes :
        (x.voter = y.voter /\ x.block_height = y.block_height) => x = y

(* Two nodes never finalize different blocks at the same height, as long   *)
(* as nobody signs twice at one.                                           *)
SameHeightAgreement ==
    \A v, w \in Validators :
        (/\ Finalized(v) # NoBlock /\ Finalized(w) # NoBlock
         /\ HeightOf[Finalized(v)] = HeightOf[Finalized(w)])
            => Finalized(v) = Finalized(w)

(* "Block irreversible when votes representing >= 2/3 total stake are      *)
(* collected" (README.md, consensus flow): what two nodes finalize lies on *)
(* one chain.                                                              *)
FinalityAgreement ==
    \A v, w \in Validators :
        (Finalized(v) # NoBlock /\ Finalized(w) # NoBlock) =>
            \/ is_descendant_of(Blocks, Finalized(v), Finalized(w))
            \/ is_descendant_of(Blocks, Finalized(w), Finalized(v))
=============================================================================

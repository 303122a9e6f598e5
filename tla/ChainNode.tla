------------------------------ MODULE ChainNode ------------------------------
(***************************************************************************)
(* One validating node: blocks of any fork reach it by gossip or by sync,  *)
(* in any order and any number of times, votes of the other validators     *)
(* arrive, and it may be restarted from what it stored.                    *)
(***************************************************************************)
EXTENDS ChainOps

CONSTANTS Me,           \* the validator key of the node
          Votes,        \* the votes that can arrive
          MaxRestarts   \* bound on restarts

VARIABLES node,
          finals,       \* history: every block this node ever finalized
          restarts      \* number of restarts so far

vars == <<node, finals, restarts>>

Init == /\ node = new_chain
        /\ finals = {}
        /\ restarts = 0

(* The history follows the tracker. *)
Remember == finals' = finals \cup ({node'.tracker.finalized_hash} \ {NoBlock})

(* A gossiped block. *)
HandleNewBlock(b) ==
    /\ node' = handle_new_block(node, b, Me)
    /\ Remember
    /\ UNCHANGED restarts

(* A block of a sync response: handle_block_response skips heights the     *)
(* node has, stops at a gap, makes no fork choice and casts no vote.       *)
SyncBlock(b) ==
    /\ HeightOf[b] = height(node) + 1
    /\ node' = add_block(node, b)
    /\ Remember
    /\ UNCHANGED restarts

ReceiveVote(vote) ==
    /\ node' = add_finality_vote(node, vote)
    /\ Remember
    /\ UNCHANGED restarts

Restart ==
    /\ restarts < MaxRestarts
    /\ node' = restart(node)
    /\ UNCHANGED finals
    /\ restarts' = restarts + 1

Next == \/ \E b \in Blocks : HandleNewBlock(b)
        \/ \E b \in Blocks : SyncBlock(b)
        \/ \E vote \in Votes : ReceiveVote(vote)
        \/ Restart

Spec == Init /\ [][Next]_vars

-----------------------------------------------------------------------------
OnChain(b) == \E i \in DOMAIN node.chain : node.chain[i] = b

(* "if the heavier-chain rule now picks a different tip, walk that side    *)
(* and replace canonical state" (doc of core/chain/reorg.rs): while a node *)
(* runs, its three records of the chain never drift apart.  The head of    *)
(* the cursor is the tip fork choice selected; tree and tracker agree on   *)
(* what is final, and it is on the cursor.                                 *)
RecordsAgree ==
    LET t == node.tracker IN
    restarts = 0 =>
        /\ latest_block(node) = node.tree.canonical_tip
        /\ t.finalized_height = node.tree.finalized_height
        /\ t.finalized_hash # NoBlock => /\ node.tree.finalized_hash = t.finalized_hash
                                         /\ OnChain(t.finalized_hash)

(* "Finalized blocks cannot be reverted" (doc of BlockTree): the canonical *)
(* chain of a running node never holds another block at the height of one  *)
(* it finalized, and not even a restart takes the finalized height below   *)
(* it.                                                                     *)
FinalizedNeverReplaced ==
    \A b \in finals :
        /\ HeightOf[b] <= node.tracker.finalized_height
        /\ restarts = 0 /\ HeightOf[b] <= height(node) => node.chain[HeightOf[b] + 1] = b

(* Every epoch the canonical chain has entered is frozen, so that no vote  *)
(* for one of its blocks is dropped for want of a snapshot, also after a   *)
(* reorg or a restart rebuilt the snapshots.                               *)
ChainEpochsAreFrozen ==
    \A i \in DOMAIN node.chain : EpochOf(i - 1) \in node.epoch_snapshots
=============================================================================

--------------------------- MODULE FinalizedChain ---------------------------
(***************************************************************************)
(* What a block tree promises its node, without entries, weights or        *)
(* pruning: the node follows a head and holds a block final; it may switch *)
(* to any head whose headers lead back to the final block, and finality    *)
(* advances along the headers of the head it follows.                      *)
(***************************************************************************)
CONSTANTS Blocks,   \* the hashes that occur
          Genesis,  \* the hash of the genesis block
          Line      \* block -> the headers from it down to genesis, itself included

VARIABLES final,    \* the latest finalized block
          head      \* the block whose chain the node follows

Init == final = Genesis /\ head = Genesis

(* The node adopts a head, as an extension of its chain or as a reorg. *)
Adopt(b) ==
    /\ final \in Line[b]
    /\ head' = b
    /\ UNCHANGED final

(* A block of the chain below the head, above the final one, becomes final. *)
Finalize(b) ==
    /\ b \in Line[head] /\ final \in Line[b] /\ b # final
    /\ final' = b
    /\ UNCHANGED head

Next == \E b \in Blocks : Adopt(b) \/ Finalize(b)

Spec == Init /\ [][Next]_<<final, head>>
=============================================================================

------------------------- MODULE MCFinalityTracker -------------------------
(***************************************************************************)
(* Epochs of two blocks.  Epoch 0 has the empty snapshot of genesis; in    *)
(* epoch 1 three validators of stake 1 make 2 of 3 an exact quorum, and    *)
(* two forks compete at height 2; in epoch 2 v1 has left and v2 alone has  *)
(* the quorum.  MaxU64 is twice the largest total, so that the product of  *)
(* the voted stake saturates.                                              *)
(***************************************************************************)
EXTENDS FinalityTracker, TLC

CONSTANTS g, a1, a2, b2, a3, a4, v1, v2, v3

MCBlocks == {g, a1, a2, b2, a3, a4}
MCPrevHash == (g :> g) @@ (a1 :> g) @@ (a2 :> a1) @@ (b2 :> a1) @@ (a3 :> a2)
              @@ (a4 :> a3)
MCHeightOf == (g :> 0) @@ (a1 :> 1) @@ (a2 :> 2) @@ (b2 :> 2) @@ (a3 :> 3)
              @@ (a4 :> 4)
MCEpochStake == (0 :> <<>>)
                @@ (1 :> (v1 :> 1 @@ v2 :> 1 @@ v3 :> 1))
                @@ (2 :> (v2 :> 3 @@ v3 :> 1))

Vote(b, e, v, signed) ==
    [ block_hash |-> b, block_height |-> MCHeightOf[b], epoch |-> e,
      voter |-> v, signed |-> signed ]

(* Every good vote above height 0, votes of a departed validator, one of a *)
(* wrong epoch and one that was forged.                                    *)
MCVotes ==
    {Vote(b, MCHeightOf[b] \div 2, v, TRUE) : b \in MCBlocks \ {g}, v \in {v1, v2, v3}}
    \cup {Vote(a3, 2, v2, TRUE), Vote(a2, 1, v3, FALSE)}
=============================================================================

---------------------------- MODULE MCChainNode ----------------------------
(***************************************************************************)
(* Epochs of two blocks, three validators, and three chains:               *)
(*                                                                         *)
(*   g -- a1 -- a2 -- a3 -- a4    b3 forks inside epoch 1, c1 from genesis *)
(*    \           \-- b3 -- b4    c1 and b3 have the heavier proposers     *)
(*     c1 -- c2 -- c3             x2 fails validation                      *)
(*      \-- x2                                                             *)
(*                                                                         *)
(* 2 of 3 votes are a quorum in epoch 1; in epoch 2, v1 and another.       *)
(***************************************************************************)
EXTENDS ChainNode, TLC

CONSTANTS g, a1, a2, a3, a4, b3, b4, c1, c2, c3, x2, v1, v2, v3

MCBlocks == {g, a1, a2, a3, a4, b3, b4, c1, c2, c3, x2}
MCPrevHash == (g :> g) @@ (a1 :> g) @@ (a2 :> a1) @@ (a3 :> a2) @@ (a4 :> a3)
              @@ (b3 :> a2) @@ (b4 :> b3) @@ (c1 :> g) @@ (c2 :> c1) @@ (c3 :> c2)
              @@ (x2 :> c1)
MCHeightOf == (g :> 0) @@ (a1 :> 1) @@ (a2 :> 2) @@ (a3 :> 3) @@ (a4 :> 4)
              @@ (b3 :> 3) @@ (b4 :> 4) @@ (c1 :> 1) @@ (c2 :> 2) @@ (c3 :> 3)
              @@ (x2 :> 2)
MCValid == MCBlocks \ {g, x2}

MCEpochStake == (0 :> <<>>)
                @@ (1 :> (v1 :> 1 @@ v2 :> 1 @@ v3 :> 1))
                @@ (2 :> (v1 :> 2 @@ v2 :> 1 @@ v3 :> 1))

(* The stake of each proposer, the same in every state. *)
ProposerStake == [b \in MCBlocks |-> CASE b = g         -> 0
                                      [] b \in {c1, b3} -> 2
                                      [] OTHER          -> 1]
MCStakeOf == [s \in MCBlocks |-> ProposerStake]

(* Good votes of v2 from epoch 1 on, of v3 at height 3, and one that names *)
(* the wrong height.                                                       *)
MCVotes == {VoteFor(b, v2) : b \in {a2, a3, a4, b3, b4, c2, c3}}
           \cup {VoteFor(b, v3) : b \in {a3, b3, c3}}
           \cup {[VoteFor(a3, v2) EXCEPT !.block_height = 2]}
=============================================================================

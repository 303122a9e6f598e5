--------------------------- MODULE MCValidatorNet ---------------------------
(***************************************************************************)
(* Three validators of equal voting stake.  v3 can build a chain of its    *)
(* own beside that of v1 and v2.                                           *)
(*                                                                         *)
(*   g -- a1 (v1) -- a2 (v2)                                               *)
(*    \                                                                    *)
(*     b1 (v3) -- b2 (v3) -- b3 (v3)                                       *)
(***************************************************************************)
EXTENDS ValidatorNet, TLC

CONSTANTS g, a1, a2, b1, b2, b3, v1, v2, v3

MCBlocks == {g, a1, a2, b1, b2, b3}
MCPrevHash == (g :> g) @@ (a1 :> g) @@ (a2 :> a1)
              @@ (b1 :> g) @@ (b2 :> b1) @@ (b3 :> b2)
MCHeightOf == (g :> 0) @@ (a1 :> 1) @@ (a2 :> 2) @@ (b1 :> 1) @@ (b2 :> 2) @@ (b3 :> 3)
MCProposer == (g :> v1) @@ (a1 :> v1) @@ (a2 :> v2)
              @@ (b1 :> v3) @@ (b2 :> v3) @@ (b3 :> v3)
MCEpochStake == (0 :> <<>>) @@ [e \in 1..3 |-> (v1 :> 1 @@ v2 :> 1 @@ v3 :> 1)]

AllValid == MCBlocks \ {g}
ShortValid == {a1, a2, b1, b2}
EqualStakeOf == [s \in MCBlocks |-> [b \in MCBlocks |-> IF b = g THEN 0 ELSE 1]]
=============================================================================

----------------------------- MODULE MCBlockTree -----------------------------
(***************************************************************************)
(* A tree of two forks at height 1, with forks of their own, a block whose *)
(* header claims the wrong height and the stakes 0, 1 and 3.               *)
(*                                                                         *)
(*   g -- a1 -- a2 -- a3          x2 claims height 3 on top of b1          *)
(*    \     \-- c2                                                         *)
(*     b1 -- b2                                                            *)
(***************************************************************************)
EXTENDS BlockTree, TLC

CONSTANTS g, a1, a2, a3, b1, b2, c2, x2

MCBlocks == {g, a1, a2, a3, b1, b2, c2, x2}

MCPrevHash == (g :> g) @@ (a1 :> g) @@ (a2 :> a1) @@ (a3 :> a2) @@ (b1 :> g)
              @@ (b2 :> b1) @@ (c2 :> a1) @@ (x2 :> b1)

MCHeightOf == (g :> 0) @@ (a1 :> 1) @@ (a2 :> 2) @@ (a3 :> 3) @@ (b1 :> 1)
              @@ (b2 :> 2) @@ (c2 :> 2) @@ (x2 :> 3)

MCStakes == {0, 1, 3}

(* The loop of is_descendant_of as the code runs it: at each entry, stop   *)
(* with true at the ancestor and with false at height 0 or at a hash that  *)
(* has no entry.                                                           *)
RECURSIVE WalkLoop(_, _, _)
WalkLoop(E, current, ancestor) ==
    /\ current \in E
    /\ \/ current = ancestor
       \/ HeightOf[current] # 0 /\ WalkLoop(E, PrevHash[current], ancestor)

(* is_descendant_of of BlockTreeOps, a least fixed point, is the loop of   *)
(* the code whatever the entries are.                                      *)
ASSUME WalkIsTheLoop ==
    \A E \in SUBSET Blocks : \A d, a \in Blocks :
        is_descendant_of(E, d, a) <=> WalkLoop(E, d, a)
=============================================================================

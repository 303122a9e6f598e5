--------------------------- MODULE MCEpochLedger ---------------------------
(***************************************************************************)
(* Two validators and a third account that becomes one by staking; epochs  *)
(* of two blocks, so that epochs 1 and 2 are settled at heights 4 and 6.   *)
(***************************************************************************)
EXTENDS EpochLedger

CONSTANTS a1, a2, a3

MCBalance == (a1 :> 2) @@ (a2 :> 2) @@ (a3 :> 4)
MCStake == (a1 :> 5) @@ (a2 :> 4) @@ (a3 :> 0)

MCSorted == <<a1, a2, a3>>

Tx(kind, from, to, amount, nonce) ==
    [kind |-> kind, from |-> from, to |-> to, amount |-> amount, nonce |-> nonce]

(* Who leads the heights 1 to 6, as draws; the first one is for height 6.  *)
(* A draw of 0 is a1's, one of 6 a2's and one of 10 a3's once it is a      *)
(* validator; a3 runs no node.                                             *)
OneLeads == <<0>>
TakingTurns == <<6, 0, 6, 0, 6, 0>>
ThirdIsDown == <<0, 0, 0, 6, 6, 10>>

(* A third account stakes and a validator unstakes, with both nodes up.    *)
Staking(draws) ==
    [draws |-> draws, nodes |-> Nodes, peers |-> 1, late |-> FALSE, offenders |-> {},
     delivery |-> "linear",
     txs |-> {Tx("Stake", a3, a3, 2, 0), Tx("Unstake", a1, a1, 2, 0)}]

(* The other validator is down; it and the one that staked are slashed on  *)
(* evidence.                                                               *)
Evidence ==
    [draws |-> <<0, 0, 0, 6>>, nodes |-> {a1}, peers |-> 1, late |-> FALSE,
     offenders |-> {a2, a3}, delivery |-> "linear", txs |-> {Tx("Stake", a3, a3, 2, 0)}]

(* The other validator is down, and blocks come at any time. *)
Late == [Evidence EXCEPT !.late = TRUE, !.offenders = {}, !.txs = {}]

(* A validator that has lost its peers and does not lead every slot. *)
Alone == [Late EXCEPT !.peers = 0]

(* Leader and backup both produce, on the head each has; one of the        *)
(* transactions may be on one branch only.                                 *)
Forks == [Staking(TakingTurns) EXCEPT !.delivery = "forks", !.txs = {Tx("Stake", a3, a3, 2, 0)}]

(* Blocks without transactions. *)
Quiet == [Staking(TakingTurns) EXCEPT !.delivery = "any", !.txs = {}]

(* A validator unstakes while the two take turns. *)
Unstaking == [Staking(TakingTurns) EXCEPT !.txs = {Tx("Unstake", a1, a1, 2, 0)}]

MCScenarios == {Staking(OneLeads), Staking(ThirdIsDown), Unstaking, Evidence, Late, Alone, Forks}
QuietScenarios == {Quiet}
=============================================================================

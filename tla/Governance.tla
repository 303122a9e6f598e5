----------------------------- MODULE Governance -----------------------------
(***************************************************************************)
(* governance/mod.rs: proposals, votes weighed by the stakes at the        *)
(* creation of the proposal, and their outcome.  The state is the map of   *)
(* proposals by id; an id is what it is the hash of.                       *)
(***************************************************************************)
EXTENDS HashMaps, Functions

CONSTANTS VOTING_PERIOD_EPOCHS, QUORUM_PERCENT, APPROVAL_PERCENT,
          MIN_EXECUTION_DELAY_BLOCKS

Parameters == {"block_gas_limit", "minimum_stake", "block_reward", "epoch_length",
               "unstake_delay_blocks", "jail_duration_blocks"}

no_proposals == [id \in {} |-> 0]

GovernanceOk(g) == [ok |-> TRUE, governance |-> g]
GovernanceErr(g) == [ok |-> FALSE, governance |-> g]
Larger(a, b) == IF a < b THEN b ELSE a

valid_kind(k) == IF k.type = "ProtocolUpgrade" THEN k.version # 0
                 ELSE k.parameter \in Parameters

proposal_id(proposer, height, kind) == <<proposer, height, kind>>

(* submit_proposal: a second submission of the same kind by the same       *)
(* proposer at the same height takes the place of the first.               *)
submit_proposal(g, proposer, kind, height, epoch_length, stake_snapshot) ==
    IF ~valid_kind(kind) THEN GovernanceErr(g)
    ELSE GovernanceOk(insert(g, proposal_id(proposer, height, kind),
                [ status |-> "Active",
                  voting_deadline_height |-> height + VOTING_PERIOD_EPOCHS * epoch_length,
                  execution_height |-> 0, votes_for |-> 0, votes_against |-> 0,
                  voters |-> {}, stake_snapshot |-> stake_snapshot ]))

(* Mutant: a vote weighs what the voter has now. *)
vote_current_stake(g, voter, id, choice, current_stake, height) ==
    IF \/ id \notin DOMAIN g
       \/ g[id].status # "Active" \/ height > g[id].voting_deadline_height
       \/ voter \in g[id].voters \/ voter \notin DOMAIN g[id].stake_snapshot
    THEN GovernanceErr(g)
    ELSE GovernanceOk([g EXCEPT ![id].voters = @ \cup {voter},
                      ![id].votes_for = @ + (IF choice = "For" THEN current_stake ELSE 0),
                      ![id].votes_against = @ + (IF choice = "For" THEN 0 ELSE current_stake)])

(* vote *)
vote(g, voter, id, choice, current_stake, height) ==
    IF \/ id \notin DOMAIN g
       \/ g[id].status # "Active" \/ height > g[id].voting_deadline_height
       \/ voter \in g[id].voters \/ voter \notin DOMAIN g[id].stake_snapshot
    THEN GovernanceErr(g)
    ELSE LET weight == g[id].stake_snapshot[voter] IN
         GovernanceOk([g EXCEPT ![id].voters = @ \cup {voter},
                      ![id].votes_for = @ + (IF choice = "For" THEN weight ELSE 0),
                      ![id].votes_against = @ + (IF choice = "For" THEN 0 ELSE weight)])

(* process_block: what a proposal is after the block at this height; what  *)
(* is executed changes no parameter, the list process_block returns is     *)
(* dropped by its caller.                                                  *)
decided_proposal(p, height, total_stake, epoch_length) ==
    LET total == p.votes_for + p.votes_against
        quorum_met == total_stake > 0 /\ total * 100 >= total_stake * QUORUM_PERCENT
        approved == total > 0 /\ p.votes_for * 100 >= total * APPROVAL_PERCENT
    IN  IF quorum_met /\ approved
        THEN [p EXCEPT !.status = "Passed",
                       !.execution_height =
                          Larger(p.voting_deadline_height + MIN_EXECUTION_DELAY_BLOCKS,
                                 (p.voting_deadline_height \div epoch_length + 1) * epoch_length)]
        ELSE [p EXCEPT !.status = "Rejected"]

process_block(g, height, total_stake, epoch_length) ==
    [ id \in DOMAIN g |->
        IF g[id].status = "Active" /\ height > g[id].voting_deadline_height
        THEN decided_proposal(g[id], height, total_stake, epoch_length)
        ELSE IF g[id].status = "Passed" /\ height >= g[id].execution_height
        THEN [g[id] EXCEPT !.status = "Executed"]
        ELSE g[id] ]

(* The stake behind the voters of a proposal, at its creation. *)
Weight(p) == SumFunctionOnSet(p.stake_snapshot, p.voters)
=============================================================================

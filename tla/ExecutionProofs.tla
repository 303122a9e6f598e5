-------------------------- MODULE ExecutionProofs --------------------------
(***************************************************************************)
(* Proofs about the execution of blocks: no value is created or lost but   *)
(* for the burned fees and the amounts that leak (ValueConserved), the     *)
(* balances of a token are its supply (TokenSupplyHeld), the votes of a    *)
(* proposal are those of its snapshot (VotesBacked), and the storage of    *)
(* the example contracts is consistent (StorageConsistent), for every      *)
(* genesis, every menu of transactions, every price and limit.             *)
(*                                                                         *)
(* The modules below are followed from the inside out: the token registry, *)
(* the proposals, accounts and fees, the outcome of revm, execute_kind for *)
(* each kind of transaction, and apply_user_transaction, which may also    *)
(* fail half way; maps, sums and contracts that run are in ContractProofs. *)
(* What holds of a state is GoodState, and                                 *)
(* the invariant that every action of Execution keeps is GoodExecution:    *)
(* the copy a block works on is well formed too, and in a block under      *)
(* validation its wealth is the supply less the fees and leaks counted so  *)
(* far.                                                                    *)
(***************************************************************************)
EXTENDS Execution, ContractProofs

(* The time the provers are given for a leaf. *)
USE SMTT(30), ZenonT(30)

(* The registry: a holder's balance belongs to a token that exists, and    *)
(* the balances of a token are its supply.                                 *)
GoodRegistry(r) ==
    /\ r = [tokens |-> r.tokens, balances |-> r.balances, allowances |-> r.allowances]
    /\ NatMap(r.balances)
    /\ \A k \in DOMAIN r.balances : k[1] \in DOMAIN r.tokens
    /\ \A t \in DOMAIN r.tokens : /\ r.tokens[t].total_supply \in Nat
                                  /\ SumOf(r.balances, t) = r.tokens[t].total_supply

(* A registry without a token. *)
LEMMA EmptyRegistry ==
    ASSUME NEW r,
           r = [tokens |-> EmptyMap, balances |-> EmptyMap, allowances |-> EmptyMap]
    PROVE  GoodRegistry(r)
<1>1. DOMAIN EmptyMap = {}
  BY DEF EmptyMap
<1>2. NatMap(EmptyMap)
  BY <1>1, FS_EmptySet DEF NatMap
<1> QED
  BY <1>1, <1>2 DEF GoodRegistry

(* The gas of an EVM transaction is within its estimate: it is at most the *)
(* gas limit, or it is the base gas.                                       *)
LEMMA MostWithin ==
    ASSUME NEW a \in Nat, NEW b \in Nat, NEW l \in Nat, NEW i \in Nat, NEW e \in Nat,
           a <= l, e >= l, i >= b, e >= i
    PROVE  Most(a, b) \in Nat /\ Most(a, b) <= e
BY DEF Most

(* So is what is within the gas limit. *)
LEMMA LimitWithin ==
    ASSUME NEW a \in Nat, NEW l \in Nat, NEW e \in Nat, a <= l, e >= l
    PROVE  a <= e
OBVIOUS

(* The block that runs has counted gas, fees and burned amounts. *)
GoodBlock(k) == /\ DOMAIN k = DOMAIN new_block
                /\ k.gas_used \in Nat
                /\ {k.priority_fees, k.burned} \subseteq Nat /\ k.leaked \in Int

(* A block that runs starts with nothing counted. *)
LEMMA NewBlockGood ==
    /\ GoodBlock(new_block) /\ new_block.burned = 0 /\ new_block.priority_fees = 0
    /\ new_block.leaked = 0
BY DEF GoodBlock, new_block

(* Nothing counted is nothing lost. *)
LEMMA NothingCounted ==
    ASSUME NEW v \in Int PROVE v - 0 - 0 - 0 = v
OBVIOUS

(* What a transaction adds to the block that runs. *)
LEMMA CountedGood ==
    ASSUME NEW g \in Nat, NEW p \in Nat, NEW u \in Nat, NEW l \in Int, NEW k,
           k = [gas_used |-> g, priority_fees |-> p, burned |-> u, leaked |-> l]
    PROVE  GoodBlock(k) /\ k.burned = u /\ k.priority_fees = p /\ k.leaked = l
BY DEF GoodBlock, new_block

(* MoveBalance: what one holder loses the other gets, also when they are   *)
(* the same.                                                               *)
LEMMA MoveGood ==
    ASSUME NEW r, GoodRegistry(r), NEW t \in DOMAIN r.tokens, NEW from, NEW to,
           NEW amount \in Nat, get_or_zero(r.balances, <<t, from>>) >= amount
    PROVE  GoodRegistry(MoveBalance(r, t, from, to, amount))
<1> DEFINE kf == <<t, from>>
           kt == <<t, to>>
           d  == insert(r.balances, kf, get_or_zero(r.balances, kf) - amount)
           e  == insert(d, kt, get_or_zero(d, kt) + amount)
<1>1. MoveBalance(r, t, from, to, amount) = [r EXCEPT !.balances = e]
  BY DEF MoveBalance
<1>2. kf[1] = t /\ kt[1] = t
  OBVIOUS
<1>3. NatMap(r.balances)
  BY DEF GoodRegistry
<1>4. get_or_zero(r.balances, kf) \in Nat
  BY <1>3, InsertNat
<1>5. get_or_zero(r.balances, kf) - amount \in Nat
  BY <1>4
<1>6. NatMap(d)
  BY <1>3, <1>5, InsertNat
<1>7. get_or_zero(d, kt) \in Nat
  BY <1>6, InsertNat
<1>8. get_or_zero(d, kt) + amount \in Nat
  BY <1>7
<1>9. NatMap(e)
  BY <1>6, <1>8, InsertNat
<1>10. ASSUME NEW u \in DOMAIN r.tokens PROVE SumOf(e, u) = SumOf(r.balances, u)
  <2>1. CASE u = t
    <3>1. SumOf(d, u) + get_or_zero(r.balances, kf)
             = SumOf(r.balances, u) + (get_or_zero(r.balances, kf) - amount)
      BY <2>1, <1>2, <1>3, <1>5, InsertHeld
    <3>2. SumOf(e, u) + get_or_zero(d, kt) = SumOf(d, u) + (get_or_zero(d, kt) + amount)
      BY <2>1, <1>2, <1>6, <1>8, InsertHeld
    <3>3. SumOf(r.balances, u) \in Nat /\ SumOf(d, u) \in Nat /\ SumOf(e, u) \in Nat
      BY <1>3, <1>6, <1>9, <1>8, InsertHeld
    <3>4. \A a, b, c, g, h \in Nat :
              b + g = a + (g - amount) /\ c + h = b + (h + amount) => c = a
      OBVIOUS
    <3> HIDE DEF d, e, kf, kt
    <3> QED
      BY <3>1, <3>2, <3>3, <3>4, <1>4, <1>7
  <2>2. CASE u # t
    <3>1. SumOf(d, u) = SumOf(r.balances, u)
      BY <2>2, <1>2, <1>3, <1>5, InsertHeld
    <3>2. SumOf(e, u) = SumOf(d, u)
      BY <2>2, <1>2, <1>6, <1>8, InsertHeld
    <3> QED
      BY <3>1, <3>2
  <2> QED
    BY <2>1, <2>2
<1>11. ASSUME NEW k \in DOMAIN e PROVE k[1] \in DOMAIN r.tokens
  <2>1. k \in DOMAIN r.balances \/ k = kf \/ k = kt
    BY DEF insert
  <2> QED
    BY <2>1, <1>2 DEF GoodRegistry
<1> HIDE DEF e
<1>12. LET q == [r EXCEPT !.balances = e] IN
         /\ q = [tokens |-> r.tokens, balances |-> e, allowances |-> r.allowances]
         /\ q.tokens = r.tokens /\ q.balances = e /\ q.allowances = r.allowances
  BY DEF GoodRegistry
<1> QED
  BY <1>1, <1>9, <1>10, <1>11, <1>12 DEF GoodRegistry

(* The registry after a token transaction. *)
LEMMA TokenTxGood ==
    ASSUME NEW r, GoodRegistry(r), NEW tx, IsTransaction(tx), tx.data # NoData,
           tx.kind \in {"DeployToken", "TokenTransfer", "TokenApprove", "TokenTransferFrom"}
    PROVE  GoodRegistry(apply_token_tx(r, tx).registry)
<1> DEFINE p == tx.data
<1>1. CASE tx.kind = "DeployToken"
  <2> DEFINE n == monus(tx.nonce, 1)
             t == token_address(tx.from, n)
             v == p.total_supply
             q == [r EXCEPT !.tokens = insert(@, t, [total_supply |-> v, creator |-> tx.from]),
                            !.balances = insert(@, <<t, tx.from>>, v)]
  <2>1. apply_token_tx(r, tx) = deploy_token(r, tx.from, n, p)
    BY <1>1 DEF apply_token_tx
  <2>2. CASE ~p.valid \/ v = 0 \/ t \in DOMAIN r.tokens
    BY <2>1, <2>2 DEF deploy_token, TokenErr
  <2>3. CASE ~(~p.valid \/ v = 0 \/ t \in DOMAIN r.tokens)
    <3>1. apply_token_tx(r, tx).registry = q /\ t \notin DOMAIN r.tokens
      BY <2>1, <2>3 DEF deploy_token, TokenOk
    <3>2. v \in Nat
      BY <1>1 DEF IsTransaction
    <3> HIDE DEF t
    <3> DEFINE ts == insert(r.tokens, t, [total_supply |-> v, creator |-> tx.from])
               bs == insert(r.balances, <<t, tx.from>>, v)
    <3>3. /\ q = [tokens |-> ts, balances |-> bs, allowances |-> r.allowances]
          /\ q.tokens = ts /\ q.balances = bs /\ q.allowances = r.allowances
      <4>1. r = [tokens |-> r.tokens, balances |-> r.balances, allowances |-> r.allowances]
        BY DEF GoodRegistry
      <4>2. q = [r EXCEPT !.tokens = ts, !.balances = bs]
        OBVIOUS
      <4> HIDE DEF q, ts, bs
      <4> QED
        BY <4>1, <4>2, ZenonT(30)
    <3>4. NatMap(r.balances) /\ \A k \in DOMAIN r.balances : k[1] \in DOMAIN r.tokens
      BY DEF GoodRegistry
    <3>5. NatMap(bs)
      BY <3>2, <3>4, InsertNat
    <3>6. \A k \in DOMAIN bs : k[1] \in DOMAIN ts
      BY <3>4 DEF insert
    <3>7. SumOf(bs, t) = v
      <4>1. Keys(r.balances, t) = {} /\ get_or_zero(r.balances, <<t, tx.from>>) = 0
        BY <3>1, <3>4 DEF Keys, get_or_zero
      <4>2. SumOf(r.balances, t) = 0
        BY <4>1, SumEmpty DEF SumOf
      <4>3. SumOf(bs, t) + get_or_zero(r.balances, <<t, tx.from>>) = SumOf(r.balances, t) + v
        BY <3>2, <3>4, InsertHeld
      <4>4. SumOf(bs, t) \in Nat
        BY <3>2, <3>5, InsertHeld
      <4> QED
        BY <3>2, <4>1, <4>2, <4>3, <4>4
    <3>8. ASSUME NEW u \in DOMAIN r.tokens PROVE SumOf(bs, u) = SumOf(r.balances, u)
      BY <3>1, <3>2, <3>4, <3>8, InsertHeld
    <3>9. ASSUME NEW u \in DOMAIN ts
          PROVE  ts[u].total_supply \in Nat /\ SumOf(bs, u) = ts[u].total_supply
      <4>1. CASE u = t
        BY <3>2, <3>7, <4>1 DEF insert
      <4>2. CASE u # t
        <5>1. u \in DOMAIN r.tokens /\ ts[u] = r.tokens[u]
          BY <4>2 DEF insert
        <5> QED
          BY <5>1, <3>8 DEF GoodRegistry
      <4> QED
        BY <4>1, <4>2
    <3> HIDE DEF ts, bs
    <3>10. GoodRegistry(q)
      BY <3>3, <3>5, <3>6, <3>9 DEF GoodRegistry
    <3> QED
      BY <3>1, <3>10
  <2> QED
    BY <2>2, <2>3
<1>2. CASE tx.kind = "TokenTransfer"
  <2>1. apply_token_tx(r, tx) = transfer(r, p.token, tx.from, p.recipient, p.amount)
    BY <1>2 DEF apply_token_tx
  <2>2. p.amount \in Nat
    BY <1>2 DEF IsTransaction
  <2>3. get_or_zero(r.balances, <<p.token, tx.from>>) \in Nat
    BY InsertNat DEF GoodRegistry
  <2>4. \/ apply_token_tx(r, tx).registry = r
        \/ /\ apply_token_tx(r, tx).registry
                = MoveBalance(r, p.token, tx.from, p.recipient, p.amount)
           /\ p.token \in DOMAIN r.tokens
           /\ get_or_zero(r.balances, <<p.token, tx.from>>) >= p.amount
    BY <2>1, <2>2, <2>3 DEF transfer, TokenOk, TokenErr
  <2> QED
    BY <2>2, <2>4, MoveGood
<1>3. CASE tx.kind = "TokenApprove"
  <2>1. apply_token_tx(r, tx) = approve(r, p.token, tx.from, p.spender, p.amount)
    BY <1>3 DEF apply_token_tx
  <2>2. PICK al : \/ apply_token_tx(r, tx).registry = r
                  \/ apply_token_tx(r, tx).registry = [r EXCEPT !.allowances = al]
    BY <2>1 DEF approve, TokenOk, TokenErr
  <2>3. LET q == [r EXCEPT !.allowances = al] IN
          /\ q = [tokens |-> r.tokens, balances |-> r.balances, allowances |-> al]
          /\ q.tokens = r.tokens /\ q.balances = r.balances /\ q.allowances = al
    BY DEF GoodRegistry
  <2> QED
    BY <2>2, <2>3 DEF GoodRegistry
<1>4. CASE tx.kind = "TokenTransferFrom"
  <2>1. apply_token_tx(r, tx) = transfer_from(r, p.token, tx.from, p.from, p.recipient, p.amount)
    BY <1>4 DEF apply_token_tx
  <2>2. p.amount \in Nat
    BY <1>4 DEF IsTransaction
  <2>3. get_or_zero(r.balances, <<p.token, p.from>>) \in Nat
    BY InsertNat DEF GoodRegistry
  <2> DEFINE q == MoveBalance(r, p.token, p.from, p.recipient, p.amount)
             key == <<p.token, p.from, tx.from>>
             al == insert(q.allowances, key, get_or_zero(r.allowances, key) - p.amount)
  <2>4.           \/ apply_token_tx(r, tx).registry = r
                  \/ /\ apply_token_tx(r, tx).registry = [q EXCEPT !.allowances = al]
                     /\ p.token \in DOMAIN r.tokens
                     /\ get_or_zero(r.balances, <<p.token, p.from>>) >= p.amount
    BY <2>1, <2>2, <2>3 DEF transfer_from, TokenOk, TokenErr
  <2>5. CASE apply_token_tx(r, tx).registry = r
    BY <2>5
  <2>6. CASE apply_token_tx(r, tx).registry # r
    <3>1. GoodRegistry(q)
      BY <2>2, <2>4, <2>6, MoveGood
    <3> HIDE DEF q
    <3>2. LET z == [q EXCEPT !.allowances = al] IN
            /\ z = [tokens |-> q.tokens, balances |-> q.balances, allowances |-> al]
            /\ z.tokens = q.tokens /\ z.balances = q.balances /\ z.allowances = al
      BY <3>1 DEF GoodRegistry
    <3> QED
      BY <2>4, <2>6, <3>1, <3>2 DEF GoodRegistry
  <2> QED
    BY <2>5, <2>6
<1> QED
  BY <1>1, <1>2, <1>3, <1>4

-----------------------------------------------------------------------------
(* A proposal: votes are counted once and weighed by the snapshot, and it  *)
(* passes with the approval it needs.                                      *)
Approved(status, votes_for, weight) ==
    status \in {"Passed", "Executed"} =>
        votes_for * 100 >= weight * APPROVAL_PERCENT /\ votes_for > 0

ProposalFields == {"status", "voting_deadline_height", "execution_height", "votes_for",
                   "votes_against", "voters", "stake_snapshot"}

GoodProposal(p) ==
    /\ DOMAIN p = ProposalFields
    /\ NatMap(p.stake_snapshot) /\ p.voters \subseteq DOMAIN p.stake_snapshot
    /\ p.votes_for \in Nat /\ p.votes_against \in Nat
    /\ p.votes_for + p.votes_against = SumFunctionOnSet(p.stake_snapshot, p.voters)
    /\ Approved(p.status, p.votes_for, p.votes_for + p.votes_against)

GoodProposals(g) == \A id \in DOMAIN g : GoodProposal(g[id])

(* A vote that is counted. *)
LEMMA VoteCounts ==
    ASSUME NEW p, GoodProposal(p), p.status = "Active", NEW voter \in DOMAIN p.stake_snapshot,
           voter \notin p.voters, NEW x \in Nat, NEW y \in Nat,
           x + y = p.stake_snapshot[voter]
    PROVE  GoodProposal([p EXCEPT !.voters = @ \cup {voter}, !.votes_for = @ + x,
                                  !.votes_against = @ + y])
<1> DEFINE q == [p EXCEPT !.voters = @ \cup {voter}, !.votes_for = @ + x, !.votes_against = @ + y]
<1>1. /\ q.status = "Active" /\ q.voters = p.voters \cup {voter}
      /\ q.votes_for = p.votes_for + x /\ q.votes_against = p.votes_against + y
      /\ q.stake_snapshot = p.stake_snapshot /\ DOMAIN q = ProposalFields
  <2>1. DOMAIN p = ProposalFields
    BY DEF GoodProposal
  <2> QED
    BY <2>1 DEF ProposalFields
<1>2. SumFunctionOnSet(p.stake_snapshot, p.voters \cup {voter})
         = SumFunctionOnSet(p.stake_snapshot, p.voters) + p.stake_snapshot[voter]
  <2>1. IsFiniteSet(p.voters) /\ \A z \in p.voters \cup {voter} : p.stake_snapshot[z] \in Nat
    BY FS_Subset DEF GoodProposal, NatMap
  <2> QED
    BY <2>1, SumAdd
<1>3. /\ p.votes_for \in Nat /\ p.votes_against \in Nat
      /\ p.votes_for + p.votes_against = SumFunctionOnSet(p.stake_snapshot, p.voters)
      /\ NatMap(p.stake_snapshot) /\ p.voters \subseteq DOMAIN p.stake_snapshot
  BY DEF GoodProposal
<1>4. (p.votes_for + x) + (p.votes_against + y) = (p.votes_for + p.votes_against) + (x + y)
  BY <1>3
<1> HIDE DEF q
<1>5. q.votes_for + q.votes_against = SumFunctionOnSet(q.stake_snapshot, q.voters)
  BY <1>1, <1>2, <1>3, <1>4
<1>6. GoodProposal(q)
  BY <1>1, <1>3, <1>5 DEF GoodProposal, Approved
<1> QED
  BY <1>6 DEF q

(* Accounts with a stake each. *)
GoodStakes(accounts) ==
    IsFiniteSet(DOMAIN accounts) /\ \A a \in DOMAIN accounts : accounts[a].staked \in Nat

(* The snapshot that submit_proposal takes of the stakes is a map of       *)
(* naturals.                                                               *)
LEMMA SnapshotGood ==
    ASSUME NEW accounts, GoodStakes(accounts)
    PROVE  NatMap(stake_snapshot(accounts))
<1>1. DOMAIN stake_snapshot(accounts) \subseteq DOMAIN accounts
  BY DEF stake_snapshot
<1>2. IsFiniteSet(DOMAIN stake_snapshot(accounts))
  BY <1>1, FS_Subset DEF GoodStakes
<1> QED
  BY <1>2 DEF stake_snapshot, NatMap, GoodStakes

(* The proposals after a governance transaction. *)
LEMMA GovernanceTxGood ==
    ASSUME NEW g, GoodProposals(g), NEW accounts, GoodStakes(accounts), NEW tx, NEW h
    PROVE  GoodProposals(apply_governance_tx(g, accounts, tx, h).governance)
<1> DEFINE r == apply_governance_tx(g, accounts, tx, h)
           staked == account(accounts, tx.from).staked
<1>1. CASE staked < MinimumStake
  BY <1>1 DEF apply_governance_tx
<1>2. CASE ~(staked < MinimumStake) /\ tx.kind = "SubmitProposal"
  <2>1. r = submit_proposal(g, tx.from, tx.data, h, EpochLength, stake_snapshot(accounts))
    BY <1>2 DEF apply_governance_tx
  <2>2. CASE ~valid_kind(tx.data)
    BY <2>1, <2>2 DEF submit_proposal, GovernanceErr
  <2>3. CASE valid_kind(tx.data)
    <3> DEFINE q == [ status |-> "Active",
                      voting_deadline_height |-> h + VOTING_PERIOD_EPOCHS * EpochLength,
                      execution_height |-> 0, votes_for |-> 0, votes_against |-> 0,
                      voters |-> {}, stake_snapshot |-> stake_snapshot(accounts) ]
    <3>1. r.governance = insert(g, proposal_id(tx.from, h, tx.data), q)
      BY <2>1, <2>3 DEF submit_proposal, GovernanceOk
    <3>2. GoodProposal(q)
      BY SnapshotGood, SumEmpty DEF GoodProposal, Approved, ProposalFields
    <3> HIDE DEF q
    <3> QED
      BY <3>1, <3>2 DEF GoodProposals, insert
  <2> QED
    BY <2>2, <2>3
<1>3. CASE ~(staked < MinimumStake) /\ tx.kind # "SubmitProposal"
  <2>0. PICK id, voter, choice : /\ id = tx.data.proposal_id /\ voter = tx.from
                                 /\ choice = tx.data.vote
    OBVIOUS
  <2> DEFINE p == g[id]
             w == p.stake_snapshot[voter]
             x == IF choice = "For" THEN w ELSE 0
             y == IF choice = "For" THEN 0 ELSE w
             q == [p EXCEPT !.voters = @ \cup {voter}, !.votes_for = @ + x,
                            !.votes_against = @ + y]
  <2>1. r = vote(g, voter, id, choice, staked, h)
    BY <1>3, <2>0 DEF apply_governance_tx
  <2>2. CASE \/ id \notin DOMAIN g
             \/ g[id].status # "Active" \/ h > g[id].voting_deadline_height
             \/ voter \in g[id].voters \/ voter \notin DOMAIN g[id].stake_snapshot
    BY <2>1, <2>2 DEF vote, GovernanceErr
  <2>3. CASE ~(\/ id \notin DOMAIN g
               \/ g[id].status # "Active" \/ h > g[id].voting_deadline_height
               \/ voter \in g[id].voters \/ voter \notin DOMAIN g[id].stake_snapshot)
    <3>1. r.governance = [g EXCEPT ![id].voters = @ \cup {voter},
                                   ![id].votes_for = @ + x, ![id].votes_against = @ + y]
      BY <2>1, <2>3 DEF vote, GovernanceOk
    <3>2. GoodProposal(p) /\ p.status = "Active" /\ voter \in DOMAIN p.stake_snapshot
          /\ voter \notin p.voters
      BY <2>3 DEF GoodProposals
    <3>3. w \in Nat
      BY <3>2 DEF GoodProposal, NatMap
    <3>4. x \in Nat /\ y \in Nat /\ x + y = w
      BY <3>3
    <3>5. GoodProposal(q)
      <4> HIDE DEF x, y, p
      <4> QED
        BY <3>2, <3>4, VoteCounts, ZenonT(30)
    <3>6. r.governance = [g EXCEPT ![id] = q]
      BY <3>1, <2>3, ZenonT(30)
    <3> HIDE DEF q
    <3> QED
      BY <3>5, <3>6 DEF GoodProposals
  <2> QED
    BY <2>2, <2>3
<1> QED
  BY <1>1, <1>2, <1>3

(* process_block: a proposal passes only with the approval it needs. *)
LEMMA ProcessGood ==
    ASSUME NEW g, GoodProposals(g), NEW h, NEW total, NEW length
    PROVE  GoodProposals(process_block(g, h, total, length))
<1> SUFFICES ASSUME NEW id \in DOMAIN g
             PROVE  GoodProposal(process_block(g, h, total, length)[id])
  BY DEF GoodProposals, process_block
<1> DEFINE p == g[id]
           q == process_block(g, h, total, length)[id]
<1>1. GoodProposal(p)
  BY DEF GoodProposals
<1>2. PICK d, e, f, k : d = p.votes_for /\ e = p.votes_against /\ f = p.voters /\ k = p.stake_snapshot
  OBVIOUS
<1>3. /\ d \in Nat /\ e \in Nat /\ d + e = SumFunctionOnSet(k, f)
      /\ NatMap(k) /\ f \subseteq DOMAIN k /\ Approved(p.status, d, d + e)
      /\ DOMAIN p = ProposalFields
  BY <1>1, <1>2 DEF GoodProposal
<1>4. /\ DOMAIN q = ProposalFields /\ q.votes_for = d /\ q.votes_against = e /\ q.voters = f
      /\ q.stake_snapshot = k /\ Approved(q.status, d, d + e)
  <2>1. CASE p.status = "Active" /\ h > p.voting_deadline_height
    <3>1. q = decided_proposal(p, h, total, length)
      BY <2>1 DEF process_block
    <3>2. CASE /\ total > 0 /\ (p.votes_for + p.votes_against) * 100 >= total * QUORUM_PERCENT
               /\ p.votes_for + p.votes_against > 0
               /\ p.votes_for * 100 >= (p.votes_for + p.votes_against) * APPROVAL_PERCENT
      <4> DEFINE z == Larger(p.voting_deadline_height + MIN_EXECUTION_DELAY_BLOCKS,
                             (p.voting_deadline_height \div length + 1) * length)
      <4>1. q = [p EXCEPT !.status = "Passed", !.execution_height = z]
        BY <3>1, <3>2 DEF decided_proposal
      <4>2. Approved("Passed", d, d + e)
        <5>1. d + e > 0 /\ d * 100 >= (d + e) * APPROVAL_PERCENT
          BY <1>2, <3>2
        <5>2. (d + e) * APPROVAL_PERCENT > 0
          BY <1>3, <5>1, ExecutionAssumption
        <5>3. (d + e) * APPROVAL_PERCENT \in Nat
          BY <1>3, ExecutionAssumption
        <5> QED
          BY <1>3, <5>1, <5>2, <5>3 DEF Approved
      <4> HIDE DEF z
      <4> QED
        BY <4>1, <4>2, <1>2, <1>3 DEF ProposalFields
    <3>3. CASE ~(/\ total > 0 /\ (p.votes_for + p.votes_against) * 100 >= total * QUORUM_PERCENT
                 /\ p.votes_for + p.votes_against > 0
                 /\ p.votes_for * 100 >= (p.votes_for + p.votes_against) * APPROVAL_PERCENT)
      <4>1. q = [p EXCEPT !.status = "Rejected"]
        BY <3>1, <3>3 DEF decided_proposal
      <4>2. Approved("Rejected", d, d + e)
        BY DEF Approved
      <4> QED
        BY <4>1, <4>2, <1>2, <1>3 DEF ProposalFields
    <3> QED
      BY <3>2, <3>3, ZenonT(30)
  <2>2. CASE /\ ~(p.status = "Active" /\ h > p.voting_deadline_height)
             /\ p.status = "Passed" /\ h >= p.execution_height
    <3>1. q = [p EXCEPT !.status = "Executed"]
      BY <2>2 DEF process_block
    <3>2. Approved("Executed", d, d + e)
      BY <1>2, <1>3, <2>2 DEF Approved
    <3> QED
      BY <3>1, <3>2, <1>2, <1>3 DEF ProposalFields
  <2>3. CASE /\ ~(p.status = "Active" /\ h > p.voting_deadline_height)
             /\ ~(p.status = "Passed" /\ h >= p.execution_height)
    <3>1. q = p
      BY <2>3 DEF process_block
    <3> QED
      BY <3>1, <1>2, <1>3
  <2> QED
    BY <2>1, <2>2, <2>3, ZenonT(30)
<1> HIDE DEF q
<1>5. GoodProposal(q)
  BY <1>3, <1>4 DEF GoodProposal
<1> QED
  BY <1>5 DEF q

-----------------------------------------------------------------------------
(* Accounts: what is in them is a natural number. *)
AccountFields == {"balance", "nonce", "staked", "active_from", "pending_unstakes"}

GoodAccount(a) == /\ DOMAIN a = AccountFields
                  /\ a.balance \in Nat /\ a.staked \in Nat /\ NatMap(a.pending_unstakes)

GoodAccounts(m) == IsFiniteSet(DOMAIN m) /\ \A a \in DOMAIN m : GoodAccount(m[a])

(* The pending unstakes of an account, and its worth. *)
LEMMA WorthIsNat ==
    ASSUME NEW a, GoodAccount(a)
    PROVE  SumFunction(a.pending_unstakes) \in Nat /\ worth(a) \in Nat
<1>1. SumFunction(a.pending_unstakes) \in Nat
  BY SumIsNat DEF SumFunction, GoodAccount, NatMap
<1> QED
  BY <1>1 DEF worth, GoodAccount

(* The account of an address that has none. *)
LEMMA DefaultGood == GoodAccount(default_account) /\ worth(default_account) = 0
<1>1. DOMAIN EmptyMap = {}
  BY DEF EmptyMap
<1>2. SumFunction(EmptyMap) = 0
  BY <1>1, SumEmpty DEF SumFunction
<1>3. NatMap(EmptyMap)
  BY <1>1, FS_EmptySet DEF NatMap
<1> HIDE DEF EmptyMap
<1> QED
  BY <1>2, <1>3 DEF GoodAccount, AccountFields, default_account, worth

(* Every address has an account that is well formed, the default one when  *)
(* the map has none.                                                       *)
LEMMA AccountGood ==
    ASSUME NEW m, GoodAccounts(m), NEW a
    PROVE  GoodAccount(account(m, a))
BY DefaultGood DEF account, GoodAccounts

(* What each address has. *)
Worths(m) == [a \in DOMAIN m |-> worth(m[a])]

(* The wealth of a set of accounts is the sum of a map of naturals, and a  *)
(* natural.                                                                *)
LEMMA WealthIsNat ==
    ASSUME NEW m, GoodAccounts(m)
    PROVE  Wealth(m) \in Nat /\ NatMap(Worths(m))
<1>1. NatMap(Worths(m))
  BY WorthIsNat DEF Worths, NatMap, GoodAccounts
<1>2. Wealth(m) = SumFunctionOnSet(Worths(m), DOMAIN Worths(m))
  BY DEF Wealth, Worths, SumFunction
<1> QED
  BY <1>1, <1>2, SumIsNat DEF NatMap

(* An account that is written. *)
LEMMA WriteAccount ==
    ASSUME NEW m, GoodAccounts(m), NEW a, NEW v, GoodAccount(v)
    PROVE  /\ GoodAccounts(insert(m, a, v))
           /\ Wealth(insert(m, a, v)) + worth(account(m, a)) = Wealth(m) + worth(v)
<1>1. GoodAccounts(insert(m, a, v))
  <2>1. IsFiniteSet(DOMAIN m \cup {a})
    BY FS_AddElement DEF GoodAccounts
  <2> QED
    BY <2>1 DEF GoodAccounts, insert
<1>2. NatMap(Worths(m)) /\ worth(v) \in Nat /\ DOMAIN Worths(m) = DOMAIN m
  BY WealthIsNat, WorthIsNat DEF Worths
<1>3. Worths(insert(m, a, v)) = insert(Worths(m), a, worth(v))
  BY DEF Worths, insert
<1>4. DOMAIN insert(Worths(m), a, worth(v)) = DOMAIN m \cup {a}
  BY <1>2 DEF insert
<1>5. get_or_zero(Worths(m), a) = worth(account(m, a))
  BY DefaultGood DEF get_or_zero, Worths, account
<1>6. /\ Wealth(m) = SumFunctionOnSet(Worths(m), DOMAIN m)
      /\ Wealth(insert(m, a, v))
            = SumFunctionOnSet(insert(Worths(m), a, worth(v)), DOMAIN m \cup {a})
  <2>1. /\ Wealth(m) = SumFunction(Worths(m))
        /\ Wealth(insert(m, a, v)) = SumFunction(Worths(insert(m, a, v)))
    BY DEF Wealth, Worths
  <2> QED
    BY <2>1, <1>2, <1>3, <1>4 DEF SumFunction
<1>7. SumFunctionOnSet(insert(Worths(m), a, worth(v)), DOMAIN m \cup {a})
         + get_or_zero(Worths(m), a) = SumFunctionOnSet(Worths(m), DOMAIN m) + worth(v)
  BY <1>2, InsertSum
<1> QED
  BY <1>1, <1>5, <1>6, <1>7

(* A balance that changes. *)
LEMMA BalanceWorth ==
    ASSUME NEW a, GoodAccount(a), NEW b \in Nat
    PROVE  /\ GoodAccount([a EXCEPT !.balance = b])
           /\ worth([a EXCEPT !.balance = b]) = worth(a) + b - a.balance
<1>1. SumFunction(a.pending_unstakes) \in Nat
  BY WorthIsNat
<1> QED
  BY <1>1 DEF GoodAccount, worth, AccountFields

(* credit adds the amount to the wealth. *)
LEMMA CreditGood ==
    ASSUME NEW m, GoodAccounts(m), NEW a, NEW x \in Nat
    PROVE  GoodAccounts(credit(m, a, x)) /\ Wealth(credit(m, a, x)) = Wealth(m) + x
<1> DEFINE o == account(m, a)
           v == [o EXCEPT !.balance = @ + x]
<1>1. GoodAccount(o) /\ o.balance \in Nat /\ worth(o) \in Nat
  BY AccountGood, WorthIsNat DEF GoodAccount
<1>2. GoodAccount(v) /\ worth(v) = worth(o) + (o.balance + x) - o.balance
  <2>1. v = [o EXCEPT !.balance = o.balance + x] /\ o.balance + x \in Nat
    BY <1>1
  <2> HIDE DEF o, v
  <2> QED
    BY <1>1, <2>1, BalanceWorth
<1>3. credit(m, a, x) = insert(m, a, v)
  BY DEF credit
<1>4. Wealth(m) \in Nat /\ Wealth(insert(m, a, v)) \in Nat
  BY <1>2, WealthIsNat, WriteAccount
<1>5. Wealth(insert(m, a, v)) + worth(o) = Wealth(m) + worth(v)
  BY <1>2, WriteAccount
<1> HIDE DEF o, v
<1>6. worth(v) = worth(o) + x
  BY <1>1, <1>2
<1>7. Wealth(insert(m, a, v)) = Wealth(m) + x
  BY <1>1, <1>4, <1>5, <1>6
<1>8. GoodAccounts(insert(m, a, v))
  BY <1>2, WriteAccount
<1> QED
  BY <1>3, <1>7, <1>8

(* apply_unstake_unlocks moves what is due into the balance. *)
LEMMA UnlockGood ==
    ASSUME NEW m, GoodAccounts(m), NEW h
    PROVE  /\ GoodAccounts(apply_unstake_unlocks(m, h))
           /\ Wealth(apply_unstake_unlocks(m, h)) = Wealth(m)
<1> DEFINE n == apply_unstake_unlocks(m, h)
<1>1. ASSUME NEW a \in DOMAIN m
      PROVE  GoodAccount(n[a]) /\ worth(n[a]) = worth(m[a])
  <2> DEFINE p == m[a].pending_unstakes
             due == {x \in DOMAIN p : x <= h}
             rest == DOMAIN p \ due
             q == Restrict(p, rest)
  <2>1. n[a] = [m[a] EXCEPT !.balance = @ + SumFunctionOnSet(p, due), !.pending_unstakes = q]
    BY DEF apply_unstake_unlocks
  <2>2. GoodAccount(m[a]) /\ NatMap(p)
    BY DEF GoodAccounts, GoodAccount
  <2>3. due \cup rest = DOMAIN p /\ due \cap rest = {} /\ DOMAIN q = rest
    BY DEF Restrict
  <2>4. IsFiniteSet(due) /\ IsFiniteSet(rest) /\ \A x \in DOMAIN p : p[x] \in Nat
    BY <2>2, <2>3, FS_Subset DEF NatMap
  <2>5. \A x \in rest : p[x] \in Nat /\ q[x] = p[x]
    BY <2>4 DEF Restrict
  <2> HIDE DEF due, rest, q
  <2>6. SumFunctionOnSet(p, DOMAIN p) = SumFunctionOnSet(p, due) + SumFunctionOnSet(p, rest)
    BY <2>3, <2>4, SumSplit
  <2>7. SumFunctionOnSet(q, rest) = SumFunctionOnSet(p, rest)
    BY <2>4, <2>5, SumSame
  <2>8. SumFunctionOnSet(p, due) \in Nat /\ SumFunctionOnSet(p, rest) \in Nat
    BY <2>3, <2>4, SumIsNat
  <2>9. NatMap(q)
    BY <2>3, <2>4, <2>5 DEF NatMap
  <2>10. /\ DOMAIN n[a] = AccountFields /\ n[a].balance = m[a].balance + SumFunctionOnSet(p, due)
         /\ n[a].staked = m[a].staked /\ n[a].pending_unstakes = q
    BY <2>1, <2>2 DEF GoodAccount, AccountFields
  <2>11. GoodAccount(n[a])
    BY <2>2, <2>8, <2>9, <2>10 DEF GoodAccount
  <2>12. worth(n[a]) = worth(m[a])
    <3>1. worth(n[a]) = (m[a].balance + SumFunctionOnSet(p, due)) + m[a].staked
                           + SumFunctionOnSet(p, rest)
      BY <2>3, <2>7, <2>10 DEF worth, SumFunction
    <3>2. worth(m[a]) = m[a].balance + m[a].staked
                           + (SumFunctionOnSet(p, due) + SumFunctionOnSet(p, rest))
      BY <2>6 DEF worth, SumFunction
    <3>3. m[a].balance \in Nat /\ m[a].staked \in Nat
      BY <2>2 DEF GoodAccount
    <3> QED
      BY <3>1, <3>2, <3>3, <2>8
  <2> QED
    BY <2>11, <2>12
<1>2. DOMAIN n = DOMAIN m
  BY DEF apply_unstake_unlocks
<1> HIDE DEF n
<1>3. Worths(n) = Worths(m)
  BY <1>1, <1>2 DEF Worths
<1>4. Wealth(n) = Wealth(m)
  BY <1>3 DEF Wealth, Worths
<1>5. GoodAccounts(n)
  BY <1>1, <1>2 DEF GoodAccounts
<1> QED
  BY <1>4, <1>5 DEF n

-----------------------------------------------------------------------------
(* The fees of a transaction are naturals, and it offers the gas of its    *)
(* kind.                                                                   *)
LEMMA FeesAreNat ==
    ASSUME NEW tx, IsTransaction(tx)
    PROVE  /\ max_fee_per_gas(tx) \in Nat /\ max_priority_fee_per_gas(tx) \in Nat
           /\ intrinsic_gas(tx) \in Nat /\ estimated_gas_for_admission(tx) \in Nat
           /\ total_fee_cap(tx) \in Nat
           /\ intrinsic_gas(tx) >= GAS_BASE_TX
           /\ estimated_gas_for_admission(tx) >= intrinsic_gas(tx)
           /\ tx.kind \in ContractKinds => estimated_gas_for_admission(tx) >= tx.gas_limit
<1>1. {tx.amount, tx.fee, tx.max_fee, tx.max_priority, tx.gas_limit, tx.size} \subseteq Nat
  BY DEF IsTransaction
<1>2. {GAS_BASE_TX, GAS_DEPLOY, GAS_CALL, GAS_PER_BYTE} \subseteq Nat
  BY ExecutionAssumption
<1>3. max_fee_per_gas(tx) \in Nat
  BY <1>1 DEF max_fee_per_gas, Most
<1>4. max_priority_fee_per_gas(tx) \in Nat
  BY <1>1, <1>3 DEF max_priority_fee_per_gas, Least
<1>5. tx.size * GAS_PER_BYTE \in Nat
  BY <1>1, <1>2, Products
<1>6. intrinsic_gas(tx) \in Nat /\ intrinsic_gas(tx) >= GAS_BASE_TX
  BY <1>2, <1>5 DEF intrinsic_gas
<1>7. /\ estimated_gas_for_admission(tx) \in Nat
      /\ estimated_gas_for_admission(tx) >= intrinsic_gas(tx)
      /\ tx.kind \in ContractKinds => estimated_gas_for_admission(tx) >= tx.gas_limit
  BY <1>1, <1>6 DEF estimated_gas_for_admission, Most
<1>8. total_fee_cap(tx) \in Nat
  BY <1>3, <1>7, Products DEF total_fee_cap
<1> QED
  BY <1>3, <1>4, <1>6, <1>7, <1>8

(* What a transaction pays for its gas: it is covered by the cap that was  *)
(* debited, the rest of the cap is refunded, and it is burned but for the  *)
(* priority fee.                                                           *)
LEMMA FeeIsSplit ==
    ASSUME NEW tx, IsTransaction(tx), NEW b \in Nat, NEW g \in Nat,
           ensure_transaction_fee_covers_base(tx, g, b),
           g <= estimated_gas_for_admission(tx)
    PROVE  /\ g * effective_gas_price(tx, b) \in Nat
           /\ gas_refunded(tx, g, b) \in Nat
           /\ gas_refunded(tx, g, b) + g * effective_gas_price(tx, b) = total_fee_cap(tx)
           /\ g * b + priority_fee_for_transaction(tx, g, b) = g * effective_gas_price(tx, b)
           /\ g * b \in Nat /\ priority_fee_for_transaction(tx, g, b) \in Nat
<1>1. PICK f, p, e, n : /\ f = max_fee_per_gas(tx) /\ p = max_priority_fee_per_gas(tx)
                        /\ e = effective_gas_price(tx, b)
                        /\ n = estimated_gas_for_admission(tx)
  OBVIOUS
<1>2. f \in Nat /\ p \in Nat /\ n \in Nat /\ total_fee_cap(tx) = n * f /\ total_fee_cap(tx) \in Nat
  BY <1>1, FeesAreNat DEF total_fee_cap
<1>3. f >= b /\ g <= n
  BY <1>1 DEF ensure_transaction_fee_covers_base
<1>4. PICK q \in Nat : e = b + q /\ q <= f - b
  BY <1>1, <1>2, <1>3 DEF effective_gas_price, Least
<1>5. e \in Nat /\ e <= f
  BY <1>2, <1>3, <1>4
<1>6. g * e <= n * f /\ g * e \in Nat
  <2>1. g * e <= n * e /\ n * e <= n * f /\ g * e \in Nat /\ n * e \in Nat /\ n * f \in Nat
    BY <1>2, <1>3, <1>5, Products
  <2> QED
    BY <2>1
<1>7. gas_refunded(tx, g, b) = total_fee_cap(tx) - g * e
  BY <1>1, <1>2, <1>6 DEF gas_refunded, monus
<1>8. priority_fee_for_transaction(tx, g, b) = q * g
  <2>1. priority_fee_per_gas(tx, b) = q
    BY <1>1, <1>2, <1>3, <1>4 DEF priority_fee_per_gas, monus
  <2> QED
    BY <2>1 DEF priority_fee_for_transaction
<1>9. g * e = g * b + g * q /\ g * b \in Nat /\ g * q \in Nat /\ q * g = g * q
  BY <1>4, Products
<1> QED
  BY <1>1, <1>2, <1>6, <1>7, <1>8, <1>9

-----------------------------------------------------------------------------
(* A contract runs one of the programs that the menu m deploys, or EVM     *)
(* code, which Vm::call does not run.                                      *)
Codes(m) == Deployed(m) \cup {<<"evm">>}
GoodContract(c, m) == /\ DOMAIN c = {"code", "owner", "storage"} /\ c.code \in Codes(m)
                      /\ GoodStorage(c.code, c.storage)
GoodContracts(cs, m) == \A a \in DOMAIN cs : GoodContract(cs[a], m)

GoodState(s, m) ==
    /\ DOMAIN s = {"accounts", "contracts", "tokens", "governance"}
    /\ GoodAccounts(s.accounts) /\ GoodContracts(s.contracts, m)
    /\ GoodRegistry(s.tokens) /\ GoodProposals(s.governance)

(* A transaction of the menu m. *)
GoodTx(tx, m) ==
    /\ IsTransaction(tx)
    /\ tx.kind = "DeployContract" => tx.to \in Deployed(m)
    /\ tx.kind = "CallContract" => \A code \in Deployed(m) : IsCallOf(code, tx.data)

(* Vm::call keeps the contract one, its storage included, and uses no more *)
(* gas than the limit.                                                     *)
LEMMA CallGood ==
    ASSUME NEW m, NEW c, GoodContract(c, m), NEW tx, GoodTx(tx, m), tx.kind = "CallContract"
    PROVE  LET r == Vm_call(c, tx.data, tx.size, tx.gas_limit) IN
           /\ GoodContract(r.contract, m)
           /\ r.ok => r.gas_used \in Nat /\ r.gas_used <= tx.gas_limit
<1> DEFINE r == Vm_call(c, tx.data, tx.size, tx.gas_limit)
           need == call_gas(tx.size)
           ctx == context_after(c, tx.data, tx.size, tx.gas_limit)
           ok == tx.gas_limit >= need /\ ~ctx.trapped
<1>1. r = [ ok |-> ok, gas_used |-> tx.gas_limit - ctx.gas,
            contract |-> IF ok THEN [c EXCEPT !.storage = ctx.storage] ELSE c ]
  BY DEF Vm_call
<1>7. r.ok => ok
  BY ZenonT(30) DEF Vm_call
<1>2. need \in Nat /\ tx.gas_limit \in Nat
  <2>1. {tx.size, tx.gas_limit, GAS_BASE_TX, GAS_CALL, GAS_PER_BYTE} \subseteq Nat
    BY ExecutionAssumption DEF GoodTx, IsTransaction
  <2>2. tx.size * GAS_PER_BYTE \in Nat
    BY <2>1, Products
  <2> QED
    BY <2>1, <2>2 DEF call_gas
<1> HIDE DEF need
<1>3. ASSUME tx.gas_limit >= need
      PROVE  /\ ctx.gas \in 0..(tx.gas_limit - need)
             /\ ~ctx.trapped => GoodStorage(c.code, ctx.storage)
  <2> DEFINE G == tx.gas_limit - need
             first == [storage |-> c.storage, logs |-> <<>>, gas |-> G, trapped |-> FALSE]
  <2>1. G \in Nat
    BY <1>2, <1>3
  <2>2. Metered(first, G)
    BY <2>1 DEF Metered
  <2>3. ctx = run(c.code, first, tx.data)
    BY DEF context_after, need
  <2>4. IsCallOf(c.code, tx.data)
    <3>1. CASE c.code \in Deployed(m)
      BY <3>1 DEF GoodTx
    <3>2. CASE c.code = <<"evm">>
      BY <3>2 DEF IsCallOf
    <3> QED
      BY <3>1, <3>2 DEF GoodContract, Codes
  <2>5. c.code = <<"wasm", "multisig">> /\ tx.data.sel = 1 => Len(tx.data.owners) \in Nat
    BY <2>4 DEF IsCallOf
  <2>6. first.storage = c.storage /\ GoodStorage(c.code, c.storage)
    BY DEF GoodContract
  <2> HIDE DEF G, first, ctx
  <2>7. Metered(ctx, G)
    BY <2>1, <2>2, <2>3, <2>5, RunMetered, ZenonT(30)
  <2>8. ~ctx.trapped => GoodStorage(c.code, ctx.storage)
    BY <2>1, <2>2, <2>3, <2>4, <2>6, RunKeeps, ZenonT(30)
  <2> QED
    BY <2>7, <2>8 DEF Metered, G
<1> HIDE DEF ctx
<1>4. ok => GoodContract([c EXCEPT !.storage = ctx.storage], m)
  BY <1>3 DEF GoodContract
<1> HIDE DEF ok
<1>5. GoodContract(r.contract, m)
  BY <1>1, <1>4
<1>6. ASSUME r.ok PROVE r.gas_used \in Nat /\ r.gas_used <= tx.gas_limit
  <2>1. ok /\ r.gas_used = tx.gas_limit - ctx.gas
    BY <1>1, <1>6, <1>7
  <2> QED
    BY <2>1, <1>2, <1>3 DEF ok
<1> QED
  BY <1>5, <1>6

-----------------------------------------------------------------------------
(* What revm reports: balances that are naturals, for the caller and the   *)
(* recipient.                                                              *)
GoodView(accounts) == \A a \in DOMAIN accounts :
                         DOMAIN accounts[a] = {"balance", "nonce"} /\ accounts[a].balance \in Nat

(* Under the keys of the example contracts, the storage that revm reports  *)
(* is the one that the contracts cs had.                                   *)
Additive(ups, cs) ==
    \A a \in DOMAIN ups :
        /\ IsFiniteSet(DOMAIN ups[a])
        /\ \A k \in DOMAIN ups[a] : k[1] \in KeyPrefixes =>
              a \in DOMAIN cs /\ k \in DOMAIN cs[a].storage /\ ups[a][k] = cs[a].storage[k]

(* The slot that revm writes is added to the storage it saw. *)
LEMMA RevmStores ==
    ASSUME NEW m, NEW view, GoodContracts(view.contracts, m),
           NEW caller, NEW to, NEW value, NEW program, program.slot[1] \notin KeyPrefixes,
           NEW limit, NEW b, NEW creates
    PROVE  Additive(finish_execution(revm_transact(view, caller, to, value, program, limit, b),
                                     view, to, creates).storage_updates, view.contracts)
<1> DEFINE x == revm_transact(view, caller, to, value, program, limit, b)
           o == finish_execution(x, view, to, creates)
           had == IF to \in DOMAIN view.contracts THEN view.contracts[to].storage ELSE EmptyMap
           ups == insert(EmptyMap, to, extend(had, x.slots))
<1>1. x.slots \in {EmptyMap, insert(EmptyMap, program.slot, program.value)}
  BY DEF revm_transact
<1>2. o.storage_updates \in {EmptyMap, ups}
  BY ZenonT(30) DEF finish_execution
<1> HIDE DEF x, o
<1>3. /\ DOMAIN x.slots \subseteq {program.slot} /\ DOMAIN EmptyMap = {}
      /\ IsFiniteSet(DOMAIN x.slots)
  <2>1. DOMAIN EmptyMap = {} /\ DOMAIN insert(EmptyMap, program.slot, program.value) = {program.slot}
    BY DEF EmptyMap, insert
  <2>2. IsFiniteSet({}) /\ IsFiniteSet({program.slot})
    BY FS_EmptySet, FS_Singleton, ZenonT(30)
  <2> QED
    BY <1>1, <2>1, <2>2
<1>4. IsFiniteSet(DOMAIN had)
  <2>1. IsFiniteSet(DOMAIN EmptyMap)
    BY <1>3, FS_EmptySet
  <2> QED
    BY <2>1, ZenonT(30) DEF GoodContracts, GoodContract, GoodStorage
<1>5. DOMAIN ups = {to} /\ ups[to] = extend(had, x.slots)
  BY <1>3, ZenonT(30) DEF insert
<1>6. DOMAIN extend(had, x.slots) = DOMAIN had \cup DOMAIN x.slots
  BY DEF extend
<1>7. IsFiniteSet(DOMAIN extend(had, x.slots))
  <2>1. IsFiniteSet(DOMAIN had \cup DOMAIN x.slots)
    <3> HIDE DEF had
    <3> QED
      BY <1>3, <1>4, FS_Union, ZenonT(30)
  <2> QED
    BY <1>6, <2>1, ZenonT(30)
<1>8. ASSUME NEW k \in DOMAIN extend(had, x.slots), k[1] \in KeyPrefixes
      PROVE  /\ to \in DOMAIN view.contracts /\ k \in DOMAIN view.contracts[to].storage
             /\ extend(had, x.slots)[k] = view.contracts[to].storage[k]
  <2>1. k \notin DOMAIN x.slots
    BY <1>3, <1>8
  <2>2. k \in DOMAIN had /\ extend(had, x.slots)[k] = had[k]
    BY <1>6, <2>1, ZenonT(30) DEF extend
  <2> QED
    BY <1>3, <2>2, ZenonT(30)
<1> HIDE DEF ups, had
<1>9. Additive(ups, view.contracts)
  BY <1>5, <1>7, <1>8, ZenonT(30) DEF Additive
<1>10. Additive(EmptyMap, view.contracts)
  BY <1>3 DEF Additive
<1> QED
  BY <1>2, <1>9, <1>10, ZenonT(30) DEF o, x

(* Whatever the program does, the balances revm reports are naturals, and  *)
(* an outcome that is not a halt used no more than the gas limit.          *)
LEMMA RevmGood ==
    ASSUME NEW view, GoodView(view.accounts), DOMAIN view = {"accounts", "contracts"},
           NEW caller, NEW to, NEW value \in Nat, NEW program, program.gas \in Nat,
           NEW limit \in Nat, NEW b \in Nat, NEW creates
    PROVE  LET o == finish_execution(revm_transact(view, caller, to, value, program, limit, b),
                                     view, to, creates)
           IN  /\ GoodView(o.account_updates) /\ IsFiniteSet(DOMAIN o.account_updates)
               /\ o.ok => o.gas_used \in Nat /\ o.gas_used <= limit
<1> DEFINE x == revm_transact(view, caller, to, value, program, limit, b)
           success == program.result = "Success"
           moved == IF success THEN value ELSE 0
           paid == monus(basic(view, caller).balance, program.gas * b)
           after == insert(EmptyMap, caller, [balance |-> Most(paid, value) - moved,
                                              nonce |-> basic(view, caller).nonce + 1])
           old == basic([view EXCEPT !.accounts = extend(@, after)], to)
           received == [old EXCEPT !.balance = @ + moved]
<1>1. /\ x.accounts = IF success THEN insert(after, to, received) ELSE after
      /\ x.gas_used = program.gas
      /\ x.result = IF program.gas > limit THEN "Halt" ELSE program.result
  BY DEF revm_transact
<1>2. basic(view, caller).balance \in Nat
  BY DEF basic, GoodView
<1>3. program.gas * b \in Nat
  BY Products
<1>4. paid \in Nat
  <2> HIDE DEF x
  <2> QED
    BY <1>2, <1>3 DEF monus
<1> HIDE DEF paid
<1>5. Most(paid, value) - moved \in Nat
  BY <1>4 DEF Most
<1>6. GoodView(after) /\ IsFiniteSet(DOMAIN after) /\ DOMAIN after = {caller}
  <2>1. DOMAIN after = {caller}
    BY DEF insert, EmptyMap
  <2>2. DOMAIN after[caller] = {"balance", "nonce"} /\ after[caller].balance \in Nat
    BY <1>5 DEF insert
  <2>3. IsFiniteSet({caller})
    BY FS_Singleton, ZenonT(30)
  <2> HIDE DEF after
  <2>4. GoodView(after)
    BY <2>1, <2>2 DEF GoodView
  <2> QED
    BY <2>1, <2>3, <2>4
<1> HIDE DEF after, success
<1>7. DOMAIN old = {"balance", "nonce"} /\ old.balance \in Nat
  <2>1. GoodView(extend(view.accounts, after))
    BY <1>6, ZenonT(30) DEF GoodView, extend
  <2>2. [view EXCEPT !.accounts = extend(@, after)].accounts = extend(view.accounts, after)
    OBVIOUS
  <2> QED
    BY <2>1, <2>2 DEF basic, GoodView
<1> HIDE DEF old
<1>8. DOMAIN received = {"balance", "nonce"} /\ received.balance \in Nat
  BY <1>7
<1> HIDE DEF received
<1>9. GoodView(insert(after, to, received)) /\ IsFiniteSet(DOMAIN insert(after, to, received))
  <2>1. DOMAIN insert(after, to, received) = DOMAIN after \cup {to}
    BY DEF insert
  <2>2. IsFiniteSet(DOMAIN after \cup {to})
    BY <1>6, FS_AddElement
  <2> QED
    BY <1>6, <1>8, <2>1, <2>2, ZenonT(30) DEF GoodView, insert
<1> HIDE DEF x
<1>10. GoodView(x.accounts) /\ IsFiniteSet(DOMAIN x.accounts)
  BY <1>1, <1>6, <1>9, ZenonT(30)
<1>11. x.result # "Halt" => x.gas_used \in Nat /\ x.gas_used <= limit
  BY <1>1
<1> QED
  BY <1>10, <1>11, ZenonT(30) DEF finish_execution, x

(* The outcome of revm merged into the state. *)
LEMMA MergeGood ==
    ASSUME NEW m, NEW s, GoodState(s, m), NEW o, NEW creator,
           GoodView(o.account_updates), IsFiniteSet(DOMAIN o.account_updates),
           Additive(o.storage_updates, s.contracts)
    PROVE  GoodState(merge_evm_outcome(s, o, creator), m)
<1> DEFINE q == merge_evm_outcome(s, o, creator)
           ups == [a \in DOMAIN o.account_updates |->
                      [account(s.accounts, a) EXCEPT !.balance = o.account_updates[a].balance,
                                                     !.nonce = o.account_updates[a].nonce]]
           updated == [a \in DOMAIN s.contracts |->
                          IF a \in DOMAIN o.storage_updates
                          THEN [s.contracts[a] EXCEPT !.storage = extend(@, o.storage_updates[a])]
                          ELSE s.contracts[a]]
           made == [a \in o.contracts_created |->
                       [code |-> <<"evm">>, owner |-> creator,
                        storage |-> IF a \in DOMAIN o.storage_updates
                                    THEN o.storage_updates[a] ELSE EmptyMap]]
<1>0. GoodAccounts(s.accounts) /\ GoodContracts(s.contracts, m)
  BY DEF GoodState
<1>1. /\ DOMAIN q = {"accounts", "contracts", "tokens", "governance"}
      /\ q.accounts = extend(s.accounts, ups) /\ q.contracts = extend(updated, made)
      /\ q.tokens = s.tokens /\ q.governance = s.governance
  BY DEF GoodState, merge_evm_outcome
<1>2. ASSUME NEW a \in DOMAIN ups PROVE GoodAccount(ups[a])
  <2>1. GoodAccount(account(s.accounts, a))
    BY <1>0, AccountGood
  <2>2. o.account_updates[a].balance \in Nat
    BY DEF GoodView
  <2> QED
    BY <2>1, <2>2, ZenonT(30) DEF GoodAccount, AccountFields
<1>3. DOMAIN ups = DOMAIN o.account_updates
  OBVIOUS
<1> HIDE DEF ups
<1>4. GoodAccounts(extend(s.accounts, ups))
  <2>1. IsFiniteSet(DOMAIN s.accounts \cup DOMAIN ups)
    BY <1>0, <1>3, FS_Union, ZenonT(30) DEF GoodAccounts
  <2> QED
    BY <1>0, <1>2, <2>1, ZenonT(30) DEF GoodAccounts, extend
<1>5. ASSUME NEW a \in DOMAIN updated PROVE GoodContract(updated[a], m)
  <2> DEFINE c == s.contracts[a]
             n == extend(c.storage, o.storage_updates[a])
  <2>1. GoodContract(c, m)
    BY <1>0 DEF GoodContracts
  <2>2. CASE a \notin DOMAIN o.storage_updates
    BY <2>1, <2>2
  <2>3. CASE a \in DOMAIN o.storage_updates
    <3>1. PICK u : u = o.storage_updates[a]
      OBVIOUS
    <3>2. PICK st : st = c.storage
      OBVIOUS
    <3>3. /\ IsFiniteSet(DOMAIN u)
          /\ \A k \in DOMAIN u : k[1] \in KeyPrefixes => k \in DOMAIN st /\ u[k] = st[k]
      BY <2>3, <3>1, <3>2 DEF Additive
    <3>4. IsFiniteSet(DOMAIN st) /\ GoodStorage(c.code, st)
      BY <2>1, <3>2 DEF GoodContract, GoodStorage
    <3>5. IsFiniteSet(DOMAIN extend(st, u))
      <4>1. DOMAIN extend(st, u) = DOMAIN st \cup DOMAIN u
        BY DEF extend
      <4> QED
        BY <3>3, <3>4, <4>1, FS_Union, ZenonT(30)
    <3>6. Agree(KeyPrefixes, st, extend(st, u))
      BY <3>3 DEF Agree, Keys, extend
    <3>7. GoodStorage(c.code, extend(st, u))
      BY <3>4, <3>5, <3>6, StorageAgrees
    <3>8. updated[a] = [c EXCEPT !.storage = extend(st, u)]
      BY <2>3, <3>1, <3>2
    <3> HIDE DEF c, updated
    <3> QED
      BY <2>1, <3>7, <3>8 DEF GoodContract
  <2> QED
    BY <2>2, <2>3
<1>6. ASSUME NEW a \in DOMAIN made PROVE GoodContract(made[a], m)
  <2>1. IsFiniteSet(DOMAIN made[a].storage)
    <3>1. a \in DOMAIN o.storage_updates => IsFiniteSet(DOMAIN o.storage_updates[a])
      BY ZenonT(30) DEF Additive
    <3>2. IsFiniteSet(DOMAIN EmptyMap)
      BY FS_EmptySet, ZenonT(30) DEF EmptyMap
    <3> QED
      BY <3>1, <3>2, ZenonT(30)
  <2>2. DOMAIN made[a] = {"code", "owner", "storage"} /\ made[a].code = <<"evm">>
    BY ZenonT(30)
  <2> HIDE DEF made
  <2>3. GoodStorage(<<"evm">>, made[a].storage)
    BY <2>1, ZenonT(30) DEF GoodStorage
  <2> QED
    BY <2>2, <2>3, ZenonT(30) DEF GoodContract, Codes
<1> HIDE DEF updated, made
<1>7. GoodContracts(extend(updated, made), m)
  BY <1>5, <1>6, ZenonT(30) DEF GoodContracts, extend
<1> HIDE DEF q
<1>8. GoodState(q, m)
  BY <1>1, <1>4, <1>7, ZenonT(30) DEF GoodState
<1> QED
  BY <1>8 DEF q

-----------------------------------------------------------------------------
(* The amount that the execution of a transaction puts into an account. *)
Credited(tx) == IF tx.kind \in {"Transfer", "CallContract"} THEN tx.amount ELSE 0

(* What execute_kind makes of a state s: a good one, with the gas covered  *)
(* by the estimate and the amount credited where it has a recipient.       *)
Executes(r, s, tx, m) ==
    /\ DOMAIN r = {"ok", "gas_used", "s"}
    /\ GoodState(r.s, m)
    /\ r.ok => r.gas_used \in Nat /\ r.gas_used <= estimated_gas_for_admission(tx)
    /\ r.ok /\ tx.kind \notin EvmKinds =>
          Wealth(r.s.accounts) = Wealth(s.accounts) + Credited(tx)

(* A transaction that is refused. *)
LEMMA FailedExecutes ==
    ASSUME NEW m, NEW tx, NEW s, GoodState(s, m)
    PROVE  Executes([ok |-> FALSE, gas_used |-> 0, s |-> s], s, tx, m)
BY ZenonT(30) DEF Executes

(* A transaction that ran, with or without success. *)
LEMMA DoneExecutes ==
    ASSUME NEW m, NEW tx, NEW s, NEW t, GoodState(t, m), NEW ok, NEW g,
           ok => g \in Nat /\ g <= estimated_gas_for_admission(tx),
           ok /\ tx.kind \notin EvmKinds =>
               Wealth(t.accounts) = Wealth(s.accounts) + Credited(tx)
    PROVE  Executes([ok |-> ok, gas_used |-> g, s |-> t], s, tx, m)
BY ZenonT(30) DEF Executes

(* A transaction that uses the base gas and writes no account. *)
LEMMA BaseGas ==
    ASSUME NEW m, NEW tx, GoodTx(tx, m), NEW s, NEW t, GoodState(s, m), GoodState(t, m), NEW ok,
           Wealth(t.accounts) = Wealth(s.accounts) + Credited(tx)
    PROVE  Executes([ok |-> ok, gas_used |-> GAS_BASE_TX, s |-> t], s, tx, m)
<1>1. GAS_BASE_TX \in Nat /\ GAS_BASE_TX <= estimated_gas_for_admission(tx)
  <2>1. IsTransaction(tx) /\ GAS_BASE_TX \in Nat
    BY ExecutionAssumption DEF GoodTx
  <2> QED
    BY <2>1, FeesAreNat
<1> QED
  BY <1>1, ZenonT(30) DEF Executes

(* execute_kind of a transfer, a stake and an unstake. *)
LEMMA ExecuteValue ==
    ASSUME NEW m, NEW s, GoodState(s, m), NEW tx, GoodTx(tx, m), NEW h, NEW b \in Nat,
           tx.kind \in {"Transfer", "Stake", "Unstake"}
    PROVE  Executes(execute_kind(s, tx, h, b), s, tx, m)
<1>1. GoodAccounts(s.accounts) /\ tx.amount \in Nat /\ Wealth(s.accounts) \in Nat
  BY WealthIsNat, ZenonT(30) DEF GoodState, GoodTx, IsTransaction
<1>2. CASE tx.kind = "Transfer"
  <2> DEFINE t == [s EXCEPT !.accounts = credit(@, tx.to, tx.amount)]
  <2>1. execute_kind(s, tx, h, b) = [ok |-> TRUE, gas_used |-> GAS_BASE_TX, s |-> t]
    BY <1>2 DEF execute_kind, ParameterKinds
  <2>2. /\ GoodAccounts(credit(s.accounts, tx.to, tx.amount))
        /\ Wealth(credit(s.accounts, tx.to, tx.amount)) = Wealth(s.accounts) + tx.amount
    BY <1>1, CreditGood
  <2>3. GoodState(t, m) /\ t.accounts = credit(s.accounts, tx.to, tx.amount)
    BY <2>2 DEF GoodState
  <2> HIDE DEF t
  <2>4. Wealth(t.accounts) = Wealth(s.accounts) + Credited(tx)
    BY <1>2, <2>2, <2>3 DEF Credited
  <2> QED
    BY <2>1, <2>3, <2>4, BaseGas, ZenonT(30)
<1>3. CASE tx.kind \in {"Stake", "Unstake"}
  <2>1. execute_kind(s, tx, h, b) = [ok |-> TRUE, gas_used |-> GAS_BASE_TX, s |-> s]
    BY <1>3 DEF execute_kind, ParameterKinds
  <2>2. Wealth(s.accounts) = Wealth(s.accounts) + Credited(tx)
    BY <1>1, <1>3 DEF Credited
  <2> QED
    BY <2>1, <2>2, BaseGas, ZenonT(30)
<1> QED
  BY <1>2, <1>3

(* execute_kind of a token or governance transaction. *)
LEMMA ExecuteParameters ==
    ASSUME NEW m, NEW s, GoodState(s, m), NEW tx, GoodTx(tx, m), NEW h, NEW b \in Nat,
           tx.kind \in ParameterKinds, tx.data # NoData
    PROVE  Executes(execute_kind(s, tx, h, b), s, tx, m)
<1>1. execute_kind(s, tx, h, b) = apply_token_or_governance_tx(s, tx, h)
  BY DEF execute_kind, ParameterKinds
<1>2. Wealth(s.accounts) = Wealth(s.accounts) + Credited(tx)
  BY WealthIsNat DEF GoodState, Credited, ParameterKinds
<1>3. CASE tx.kind \in {"SubmitProposal", "GovernanceVote"}
  <2> DEFINE g == apply_governance_tx(s.governance, s.accounts, tx, h)
             t == [s EXCEPT !.governance = g.governance]
  <2>1. GoodStakes(s.accounts) /\ GoodProposals(s.governance)
    BY ZenonT(30) DEF GoodState, GoodStakes, GoodAccounts, GoodAccount
  <2>2. GoodProposals(g.governance)
    BY <2>1, GovernanceTxGood, ZenonT(30)
  <2>3. execute_kind(s, tx, h, b) = [ok |-> g.ok, gas_used |-> GAS_BASE_TX, s |-> t]
    BY <1>1, <1>3 DEF apply_token_or_governance_tx
  <2> HIDE DEF g
  <2>4. GoodState(t, m) /\ t.accounts = s.accounts
    BY <2>2 DEF GoodState
  <2> HIDE DEF t
  <2> QED
    BY <1>2, <2>3, <2>4, BaseGas, ZenonT(30)
<1>4. CASE tx.kind \notin {"SubmitProposal", "GovernanceVote"}
  <2> DEFINE g == apply_token_tx(s.tokens, tx)
             t == [s EXCEPT !.tokens = g.registry]
  <2>1. /\ GoodRegistry(s.tokens) /\ IsTransaction(tx)
        /\ tx.kind \in {"DeployToken", "TokenTransfer", "TokenApprove", "TokenTransferFrom"}
    BY <1>4 DEF GoodState, GoodTx, ParameterKinds
  <2>2. GoodRegistry(g.registry)
    BY <2>1, TokenTxGood, ZenonT(30)
  <2>3. execute_kind(s, tx, h, b) = [ok |-> g.ok, gas_used |-> GAS_BASE_TX, s |-> t]
    BY <1>1, <1>4 DEF apply_token_or_governance_tx
  <2> HIDE DEF g
  <2>4. GoodState(t, m) /\ t.accounts = s.accounts
    BY <2>2 DEF GoodState
  <2> HIDE DEF t
  <2> QED
    BY <1>2, <2>3, <2>4, BaseGas, ZenonT(30)
<1> QED
  BY <1>3, <1>4

(* execute_kind of a deployment. *)
LEMMA ExecuteDeploy ==
    ASSUME NEW m, NEW s, GoodState(s, m), NEW tx, GoodTx(tx, m), NEW h, NEW b \in Nat,
           tx.kind = "DeployContract"
    PROVE  Executes(execute_kind(s, tx, h, b), s, tx, m)
<1> DEFINE d == Vm_deploy(tx.to, tx.size, tx.from, monus(tx.nonce, 1), tx.gas_limit, h)
           cs == insert(s.contracts, d.address, d.contract)
           t == IF d.ok THEN [s EXCEPT !.contracts = cs] ELSE s
           needed == GAS_BASE_TX + GAS_DEPLOY + tx.size * GAS_PER_BYTE
<1>1. execute_kind(s, tx, h, b) = [ok |-> d.ok, gas_used |-> d.gas_used, s |-> t]
  BY DEF execute_kind, ParameterKinds
<1>2. /\ DOMAIN d.contract = {"code", "owner", "storage"} /\ d.contract.code = tx.to
      /\ d.contract.storage = EmptyMap /\ d.gas_used = needed
  BY ZenonT(30) DEF Vm_deploy
<1>3. needed = intrinsic_gas(tx)
  BY DEF intrinsic_gas
<1>4. d.gas_used \in Nat /\ d.gas_used <= estimated_gas_for_admission(tx)
  <2>1. IsTransaction(tx)
    BY DEF GoodTx
  <2> HIDE DEF needed, d
  <2> QED
    BY <1>2, <1>3, <2>1, FeesAreNat, ZenonT(30)
<1>5. GoodContract(d.contract, m)
  <2>1. GoodStorage(tx.to, EmptyMap)
    BY EmptyStorage
  <2> HIDE DEF d
  <2> QED
    BY <1>2, <2>1, ZenonT(30) DEF GoodContract, GoodTx, Codes
<1> HIDE DEF d
<1>6. GoodContracts(cs, m)
  BY <1>5, ZenonT(30) DEF GoodContracts, insert, GoodState
<1>7. GoodState(t, m) /\ t.accounts = s.accounts
  BY <1>6 DEF GoodState
<1>8. Wealth(s.accounts) = Wealth(s.accounts) + Credited(tx)
  BY WealthIsNat DEF GoodState, Credited
<1> HIDE DEF t
<1>9. Executes([ok |-> d.ok, gas_used |-> d.gas_used, s |-> t], s, tx, m)
  BY <1>4, <1>7, <1>8, DoneExecutes, ZenonT(30)
<1> QED
  BY <1>1, <1>9, ZenonT(30)

(* execute_kind of a contract call: the amount reaches the contract only   *)
(* when the call succeeds.                                                 *)
LEMMA ExecuteCall ==
    ASSUME NEW m, NEW s, GoodState(s, m), NEW tx, GoodTx(tx, m), NEW h, NEW b \in Nat,
           tx.kind = "CallContract"
    PROVE  Executes(execute_kind(s, tx, h, b), s, tx, m)
<1>1. CASE tx.to \notin DOMAIN s.contracts
  <2>1. execute_kind(s, tx, h, b) = [ok |-> FALSE, gas_used |-> 0, s |-> s]
    BY <1>1 DEF execute_kind, ParameterKinds
  <2>2. Executes([ok |-> FALSE, gas_used |-> 0, s |-> s], s, tx, m)
    BY FailedExecutes, ZenonT(30)
  <2> QED
    BY <2>1, <2>2, ZenonT(30)
<1>2. CASE tx.to \in DOMAIN s.contracts
  <2> DEFINE c == Vm_call(s.contracts[tx.to], tx.data, tx.size, tx.gas_limit)
             as == IF c.ok /\ tx.amount > 0 THEN credit(s.accounts, tx.to, tx.amount)
                   ELSE s.accounts
             cs == [s.contracts EXCEPT ![tx.to] = c.contract]
             t == [s EXCEPT !.contracts[tx.to] = c.contract,
                            !.accounts = IF c.ok /\ tx.amount > 0
                                         THEN credit(@, tx.to, tx.amount) ELSE @]
  <2>1. execute_kind(s, tx, h, b) = [ok |-> c.ok, gas_used |-> c.gas_used, s |-> t]
    BY <1>2 DEF execute_kind, ParameterKinds
  <2>2. /\ GoodContract(c.contract, m)
        /\ c.ok => c.gas_used \in Nat /\ c.gas_used <= tx.gas_limit
    <3>1. GoodContract(s.contracts[tx.to], m)
      BY <1>2 DEF GoodState, GoodContracts
    <3> QED
      BY <3>1, CallGood, ZenonT(30)
  <2> HIDE DEF c
  <2>3. c.ok => c.gas_used \in Nat /\ c.gas_used <= estimated_gas_for_admission(tx)
    <3>1. IsTransaction(tx) /\ tx.kind \in ContractKinds /\ tx.gas_limit \in Nat
      BY ZenonT(30) DEF GoodTx, ContractKinds, IsTransaction
    <3>2. /\ estimated_gas_for_admission(tx) \in Nat
          /\ estimated_gas_for_admission(tx) >= tx.gas_limit
      BY <3>1, FeesAreNat
    <3> QED
      BY <2>2, <3>1, <3>2, LimitWithin, ZenonT(30)
  <2>4. GoodContracts(cs, m)
    BY <2>2, ZenonT(30) DEF GoodContracts, GoodState
  <2>5. GoodAccounts(s.accounts) /\ tx.amount \in Nat /\ Wealth(s.accounts) \in Nat
    BY WealthIsNat, ZenonT(30) DEF GoodState, GoodTx, IsTransaction
  <2>6. GoodAccounts(as) /\ (c.ok => Wealth(as) = Wealth(s.accounts) + Credited(tx))
    <3>1. /\ GoodAccounts(credit(s.accounts, tx.to, tx.amount))
          /\ Wealth(credit(s.accounts, tx.to, tx.amount)) = Wealth(s.accounts) + tx.amount
      BY <2>5, CreditGood
    <3>2. Credited(tx) = tx.amount
      BY DEF Credited
    <3>3. ASSUME c.ok, tx.amount = 0 PROVE Wealth(as) = Wealth(s.accounts) + Credited(tx)
      BY <2>5, <3>2, <3>3
    <3> QED
      BY <2>5, <3>1, <3>2, <3>3
  <2>7. /\ DOMAIN t = DOMAIN s /\ t.accounts = as /\ t.contracts = cs
        /\ t.tokens = s.tokens /\ t.governance = s.governance
    BY DEF GoodState
  <2> HIDE DEF t, as, cs
  <2>8. GoodState(t, m)
    BY <2>4, <2>6, <2>7, ZenonT(30) DEF GoodState
  <2>9. Executes([ok |-> c.ok, gas_used |-> c.gas_used, s |-> t], s, tx, m)
    <3>1. c.ok => Wealth(t.accounts) = Wealth(s.accounts) + Credited(tx)
      BY <2>6, <2>7, ZenonT(30)
    <3> QED
      BY <2>3, <2>8, <3>1, DoneExecutes, ZenonT(30)
  <2> QED
    BY <2>1, <2>9, ZenonT(30)
<1> QED
  BY <1>1, <1>2, ZenonT(30)

(* execute_kind of an EVM deployment or call: revm's outcome is merged. *)
LEMMA ExecuteEvm ==
    ASSUME NEW m, NEW s, GoodState(s, m), NEW tx, GoodTx(tx, m), NEW h, NEW b \in Nat,
           tx.kind \in EvmKinds
    PROVE  Executes(execute_kind(s, tx, h, b), s, tx, m)
<1> DEFINE view == evm_state_view(s.accounts, s.contracts)
<1>1. /\ IsTransaction(tx) /\ tx.kind \in ContractKinds
      /\ tx.amount \in Nat /\ tx.gas_limit \in Nat /\ tx.data.gas \in Nat
      /\ tx.data.slot[1] \notin KeyPrefixes
  BY ZenonT(30) DEF GoodTx, IsTransaction, EvmKinds, ContractKinds
<1>2. GoodView(view.accounts) /\ DOMAIN view = {"accounts", "contracts"}
  BY ZenonT(30) DEF evm_state_view, GoodView, GoodState, GoodAccounts, GoodAccount
<1>6. view.contracts = s.contracts /\ GoodContracts(s.contracts, m)
  BY DEF evm_state_view, GoodState
<1>3. ASSUME NEW o, GoodView(o.account_updates), IsFiniteSet(DOMAIN o.account_updates),
             Additive(o.storage_updates, s.contracts),
             o.ok => o.gas_used \in Nat /\ o.gas_used <= tx.gas_limit
      PROVE  Executes(merged(s, o, tx), s, tx, m)
  <2>1. GoodState(merge_evm_outcome(s, o, tx.from), m)
    BY <1>3, MergeGood
  <2>2. CASE ~o.ok
    <3>1. merged(s, o, tx) = [ok |-> FALSE, gas_used |-> 0, s |-> s]
      BY <2>2, ZenonT(30) DEF merged
    <3>2. Executes([ok |-> FALSE, gas_used |-> 0, s |-> s], s, tx, m)
      BY FailedExecutes, ZenonT(30)
    <3> QED
      BY <3>1, <3>2, ZenonT(30)
  <2>3. CASE o.ok
    <3> DEFINE t == merge_evm_outcome(s, o, tx.from)
               g == Most(o.gas_used, GAS_BASE_TX)
    <3>1. merged(s, o, tx) = [ok |-> TRUE, gas_used |-> g, s |-> t]
      BY <2>3, ZenonT(30) DEF merged
    <3>2. /\ GAS_BASE_TX \in Nat /\ estimated_gas_for_admission(tx) \in Nat
          /\ intrinsic_gas(tx) \in Nat
          /\ estimated_gas_for_admission(tx) >= tx.gas_limit
          /\ estimated_gas_for_admission(tx) >= intrinsic_gas(tx)
          /\ intrinsic_gas(tx) >= GAS_BASE_TX
      BY <1>1, FeesAreNat, ExecutionAssumption, ZenonT(30)
    <3>3. g \in Nat /\ g <= estimated_gas_for_admission(tx)
      BY <1>1, <1>3, <2>3, <3>2, MostWithin, ZenonT(30)
    <3>4. GoodState(t, m)
      BY <2>1
    <3> HIDE DEF t, g
    <3>5. Executes([ok |-> TRUE, gas_used |-> g, s |-> t], s, tx, m)
      BY <3>3, <3>4, DoneExecutes, ZenonT(30)
    <3> QED
      BY <3>1, <3>5, ZenonT(30)
  <2> QED
    BY <2>2, <2>3
<1>4. CASE tx.kind = "DeployEvmContract"
  <2> DEFINE v == [view EXCEPT !.accounts[tx.from].nonce = tx.nonce]
             to == evm_address(tx.from, basic(v, tx.from).nonce)
             o == finish_execution(revm_transact(v, tx.from, to, tx.amount, tx.data,
                                                 tx.gas_limit, b), v, to, TRUE)
  <2>1. GoodView(v.accounts) /\ DOMAIN v = {"accounts", "contracts"}
    <3> HIDE DEF view
    <3>1. v.accounts = [view.accounts EXCEPT ![tx.from].nonce = tx.nonce]
      BY <1>2
    <3>2. GoodView([view.accounts EXCEPT ![tx.from].nonce = tx.nonce])
      BY <1>2 DEF GoodView
    <3> QED
      BY <1>2, <3>1, <3>2
  <2>2. execute_kind(s, tx, h, b) = merged(s, o, tx)
    BY <1>4 DEF execute_kind, ParameterKinds, apply_evm_deploy, evm_deploy
  <2>5. v.contracts = s.contracts
    <3> HIDE DEF view
    <3> QED
      BY <1>2, <1>6
  <2> HIDE DEF v, to
  <2>3. /\ GoodView(o.account_updates) /\ IsFiniteSet(DOMAIN o.account_updates)
        /\ o.ok => o.gas_used \in Nat /\ o.gas_used <= tx.gas_limit
    BY <1>1, <2>1, RevmGood, ZenonT(30)
  <2>6. Additive(o.storage_updates, s.contracts)
    <3>1. Additive(o.storage_updates, v.contracts)
      BY <1>1, <1>6, <2>5, RevmStores, ZenonT(30)
    <3> QED
      BY <2>5, <3>1, ZenonT(30)
  <2> HIDE DEF o
  <2>4. Executes(merged(s, o, tx), s, tx, m)
    BY <1>3, <2>3, <2>6
  <2> QED
    BY <2>2, <2>4
<1>5. CASE tx.kind = "CallEvmContract"
  <2> DEFINE o == finish_execution(revm_transact(view, tx.from, tx.to, tx.amount, tx.data,
                                                 tx.gas_limit, b), view, tx.to, FALSE)
  <2>2. execute_kind(s, tx, h, b) = merged(s, o, tx)
    BY <1>5 DEF execute_kind, ParameterKinds, apply_evm_call, evm_call
  <2> HIDE DEF view
  <2>3. /\ GoodView(o.account_updates) /\ IsFiniteSet(DOMAIN o.account_updates)
        /\ o.ok => o.gas_used \in Nat /\ o.gas_used <= tx.gas_limit
    BY <1>1, <1>2, RevmGood, ZenonT(30)
  <2>5. Additive(o.storage_updates, s.contracts)
    <3>1. Additive(o.storage_updates, view.contracts)
      BY <1>1, <1>6, RevmStores, ZenonT(30)
    <3> QED
      BY <1>6, <3>1, ZenonT(30)
  <2> HIDE DEF o
  <2>4. Executes(merged(s, o, tx), s, tx, m)
    BY <1>3, <2>3, <2>5
  <2> QED
    BY <2>2, <2>4
<1> QED
  BY <1>4, <1>5 DEF EvmKinds

(* execute_kind of every kind that a user sends. *)
LEMMA ExecuteGood ==
    ASSUME NEW m, NEW s, GoodState(s, m), NEW tx, GoodTx(tx, m), NEW h, NEW b \in Nat,
           ~is_coinbase(tx), validate_transaction_shape(tx)
    PROVE  Executes(execute_kind(s, tx, h, b), s, tx, m)
<1>1. \/ tx.kind \in {"Transfer", "Stake", "Unstake"} \/ tx.kind = "DeployContract"
      \/ tx.kind = "CallContract" \/ tx.kind \in EvmKinds \/ tx.kind \in ParameterKinds
  BY ZenonT(30) DEF GoodTx, IsTransaction, Kinds, SystemKinds, ContractKinds, EvmKinds, ParameterKinds,
         is_coinbase
<1>2. ASSUME tx.kind \in ParameterKinds PROVE tx.data # NoData
  BY <1>2 DEF validate_transaction_shape, parameter_shape, ParameterKinds, EvmKinds
<1> QED
  BY <1>1, <1>2, ExecuteValue, ExecuteDeploy, ExecuteCall, ExecuteEvm, ExecuteParameters

-----------------------------------------------------------------------------
(* The debit: the amount and the whole fee cap leave the balance; a stake  *)
(* keeps the amount in the account, and an unstake moves as much again     *)
(* from the stake to the pending unstakes.                                 *)
LEMMA DebitGood ==
    ASSUME NEW a, GoodAccount(a), NEW tx, IsTransaction(tx), NEW h,
           a.balance >= tx.amount + total_fee_cap(tx)
    PROVE  LET d == debit_sender(a, tx, h) IN
           /\ GoodAccount(d)
           /\ worth(d) = worth(a) - total_fee_cap(tx)
                         - (IF tx.kind = "Stake" THEN 0 ELSE tx.amount)
<1> DEFINE d == debit_sender(a, tx, h)
<1>1. PICK c, x, u, p : /\ c = total_fee_cap(tx) /\ x = tx.amount /\ u = a.pending_unstakes
                        /\ p = a.balance - (x + c)
  OBVIOUS
<1>2. /\ c \in Nat /\ x \in Nat /\ a.balance \in Nat /\ a.staked \in Nat /\ p \in Nat
      /\ NatMap(u) /\ DOMAIN a = AccountFields
  <2>1. c \in Nat
    BY <1>1, FeesAreNat
  <2>2. x \in Nat
    BY <1>1 DEF IsTransaction
  <2> QED
    BY <1>1, <2>1, <2>2 DEF GoodAccount
<1>3. SumFunction(u) \in Nat /\ worth(a) = a.balance + a.staked + SumFunction(u)
  BY <1>1, WorthIsNat DEF worth
<1>4. CASE tx.kind = "Stake"
  <2>1. /\ DOMAIN d = AccountFields /\ d.balance = p /\ d.staked = a.staked + x
        /\ d.pending_unstakes = u
    BY <1>1, <1>2, <1>4, ZenonT(30) DEF debit_sender, AccountFields
  <2> HIDE DEF d
  <2>2. GoodAccount(d)
    BY <1>2, <2>1 DEF GoodAccount
  <2>3. worth(d) = p + (a.staked + x) + SumFunction(u)
    BY <2>1 DEF worth
  <2>4. worth(d) = worth(a) - c - 0
    BY <1>1, <1>2, <1>3, <2>3
  <2> QED
    BY <1>1, <1>4, <2>2, <2>4 DEF d
<1>5. CASE tx.kind = "Unstake" /\ a.staked >= tx.amount
  <2> DEFINE k == h + UnstakeDelay
             w == insert(u, k, get_or_zero(u, k) + x)
  <2>1. /\ DOMAIN d = AccountFields /\ d.balance = p /\ d.staked = a.staked - x
        /\ d.pending_unstakes = w
    BY <1>1, <1>2, <1>5, ZenonT(30) DEF debit_sender, AccountFields
  <2> HIDE DEF d, k
  <2>2. get_or_zero(u, k) \in Nat
    BY <1>2 DEF get_or_zero, NatMap
  <2>3. NatMap(w)
    BY <1>2, <2>2, InsertNat
  <2>4. SumFunctionOnSet(w, DOMAIN u \cup {k}) + get_or_zero(u, k)
            = SumFunctionOnSet(u, DOMAIN u) + (get_or_zero(u, k) + x)
    <3>1. get_or_zero(u, k) + x \in Nat /\ DOMAIN u \in SUBSET DOMAIN u
      BY <1>2, <2>2
    <3> QED
      BY <1>2, <3>1, InsertSum
  <2>5. SumFunction(w) = SumFunctionOnSet(w, DOMAIN u \cup {k})
        /\ SumFunction(u) = SumFunctionOnSet(u, DOMAIN u)
    BY DEF SumFunction, insert
  <2>6. SumFunction(w) \in Nat
    BY <2>3, SumIsNat DEF SumFunction, NatMap
  <2> HIDE DEF w
  <2>7. SumFunction(w) = SumFunction(u) + x
    <3>1. SumFunction(w) + get_or_zero(u, k) = SumFunction(u) + (get_or_zero(u, k) + x)
      BY <2>4, <2>5, ZenonT(30)
    <3>2. \A f, g, i, j \in Nat : f + g = i + (g + j) => f = i + j
      OBVIOUS
    <3> QED
      BY <1>2, <1>3, <2>2, <2>6, <3>1, <3>2
  <2>8. GoodAccount(d)
    BY <1>1, <1>2, <1>5, <2>1, <2>3 DEF GoodAccount
  <2>9. worth(d) = p + (a.staked - x) + SumFunction(w)
    BY <2>1 DEF worth
  <2>10. worth(d) = worth(a) - c - x
    BY <1>1, <1>2, <1>3, <2>7, <2>9
  <2> QED
    BY <1>1, <1>5, <2>8, <2>10 DEF d
<1>6. CASE ~(tx.kind = "Stake") /\ ~(tx.kind = "Unstake" /\ a.staked >= tx.amount)
  <2>1. /\ DOMAIN d = AccountFields /\ d.balance = p /\ d.staked = a.staked
        /\ d.pending_unstakes = u
    BY <1>1, <1>2, <1>6 DEF debit_sender, AccountFields
  <2> HIDE DEF d
  <2>2. GoodAccount(d)
    BY <1>2, <2>1 DEF GoodAccount
  <2>3. worth(d) = p + a.staked + SumFunction(u)
    BY <2>1 DEF worth
  <2>4. worth(d) = worth(a) - c - x
    BY <1>1, <1>2, <1>3, <2>3
  <2> QED
    BY <1>1, <1>6, <2>2, <2>4 DEF d
<1> QED
  BY <1>4, <1>5, <1>6

-----------------------------------------------------------------------------
(* The amount of a transaction that nobody is credited with. *)
Lost(tx) == IF tx.kind \in {"Unstake", "DeployContract"} \cup ParameterKinds THEN tx.amount ELSE 0

(* What apply_user_transaction makes of a state: a good one, also when it  *)
(* fails half way; when it succeeds, the gas it used was covered by its    *)
(* fee, and the state is poorer by the fee and by what leaks.              *)
Applies(r, s, tx, b, m) ==
    /\ GoodState(r.s, m)
    /\ r.ok =>
          /\ r.gas_used \in Nat /\ r.gas_used <= estimated_gas_for_admission(tx)
          /\ ensure_transaction_fee_covers_base(tx, r.gas_used, b)
          /\ tx.kind \notin EvmKinds =>
                Wealth(r.s.accounts) + r.gas_used * effective_gas_price(tx, b) + Lost(tx)
                    = Wealth(s.accounts)

(* A transaction that fails leaves a well formed state. *)
LEMMA FailedApplies ==
    ASSUME NEW m, NEW s, NEW tx, NEW b, NEW d, GoodState(d, m)
    PROVE  Applies([ok |-> FALSE, gas_used |-> 0, s |-> d], s, tx, b, m)
BY ZenonT(30) DEF Applies

(* apply_user_transaction does so for every transaction of the menu, in    *)
(* every well formed state.                                                *)
LEMMA ApplyGood ==
    ASSUME NEW m, NEW s, GoodState(s, m), NEW tx, GoodTx(tx, m), NEW h, NEW b \in Nat
    PROVE  Applies(apply_user_transaction(s, tx, h, b), s, tx, b, m)
<1> DEFINE sender == account(s.accounts, tx.from)
           v == debit_sender(sender, tx, h)
           as == insert(s.accounts, tx.from, v)
           d == [s EXCEPT !.accounts = as]
           refused == \/ ~validate_transaction_shape(tx) \/ ~verify_signature(tx) \/ is_coinbase(tx)
                      \/ sender.balance < tx.amount + total_fee_cap(tx)
                      \/ tx.nonce # sender.nonce
           short == tx.kind = "Unstake" /\ sender.staked < tx.amount
           r == execute_kind(d, tx, h, b)
           covered == ensure_transaction_fee_covers_base(tx, r.gas_used, b)
           out == apply_user_transaction(s, tx, h, b)
<1>1. IsTransaction(tx) /\ GoodAccounts(s.accounts) /\ tx.amount \in Nat
  BY ZenonT(30) DEF GoodTx, GoodState, IsTransaction
<1>2. total_fee_cap(tx) \in Nat /\ GoodAccount(sender)
  BY <1>1, FeesAreNat, AccountGood
<1>3. CASE refused
  <2>1. out = [ok |-> FALSE, gas_used |-> 0, s |-> s]
    BY <1>3 DEF apply_user_transaction
  <2>2. Applies([ok |-> FALSE, gas_used |-> 0, s |-> s], s, tx, b, m)
    BY FailedApplies, ZenonT(30)
  <2> QED
    BY <2>1, <2>2, ZenonT(30)
<1>4. ASSUME ~refused
      PROVE  /\ GoodState(d, m) /\ d.accounts = as
             /\ Wealth(as) + total_fee_cap(tx) + (IF tx.kind = "Stake" THEN 0 ELSE tx.amount)
                    = Wealth(s.accounts)
             /\ Wealth(as) \in Nat
  <2> DEFINE lost == IF tx.kind = "Stake" THEN 0 ELSE tx.amount
  <2>1. sender.balance >= tx.amount + total_fee_cap(tx)
    <3>1. ~(sender.balance < tx.amount + total_fee_cap(tx))
      BY <1>4, ZenonT(30)
    <3>2. sender.balance \in Nat
      BY <1>2, ZenonT(30) DEF GoodAccount
    <3> HIDE DEF sender
    <3>3. tx.amount \in Nat /\ total_fee_cap(tx) \in Nat
      BY <1>1, <1>2, ZenonT(30)
    <3> QED
      BY <3>1, <3>2, <3>3
  <2>2. GoodAccount(v) /\ worth(v) = worth(sender) - total_fee_cap(tx) - lost
    <3> HIDE DEF sender
    <3> QED
      BY <1>1, <1>2, <2>1, DebitGood
  <2> HIDE DEF v
  <2>3. /\ GoodAccounts(as)
        /\ Wealth(as) + worth(sender) = Wealth(s.accounts) + worth(v)
    BY <1>1, <2>2, WriteAccount
  <2>4. Wealth(as) \in Nat /\ Wealth(s.accounts) \in Nat /\ worth(sender) \in Nat
    BY <1>1, <1>2, <2>3, WealthIsNat, WorthIsNat
  <2>5. lost \in Nat
    BY <1>1
  <2> HIDE DEF as, sender, lost
  <2>6. Wealth(as) + total_fee_cap(tx) + lost = Wealth(s.accounts)
    <3>1. PICK n, w, z, c, l : /\ n = Wealth(as) /\ w = worth(sender) /\ z = Wealth(s.accounts)
                               /\ c = total_fee_cap(tx) /\ l = lost
      BY ZenonT(30)
    <3>2. n \in Nat /\ w \in Nat /\ z \in Nat /\ c \in Nat /\ l \in Nat
      BY <1>2, <2>4, <2>5, <3>1, ZenonT(30)
    <3>3. n + w = z + (w - c - l)
      BY <2>2, <2>3, <3>1, ZenonT(30)
    <3>4. n + c + l = z
      BY <3>2, <3>3
    <3> QED
      BY <3>1, <3>4, ZenonT(30)
  <2>7. GoodState(d, m) /\ d.accounts = as
    BY <2>3 DEF GoodState
  <2> QED
    BY <2>4, <2>6, <2>7, ZenonT(30) DEF lost
<1>5. CASE ~refused /\ short
  <2>1. out = [ok |-> FALSE, gas_used |-> 0, s |-> d]
    BY <1>5 DEF apply_user_transaction
  <2>2. GoodState(d, m)
    BY <1>4, <1>5, ZenonT(30)
  <2> HIDE DEF d
  <2>3. Applies([ok |-> FALSE, gas_used |-> 0, s |-> d], s, tx, b, m)
    BY <2>2, FailedApplies, ZenonT(30)
  <2> QED
    BY <2>1, <2>3, ZenonT(30)
<1>6. ASSUME ~refused, ~short
      PROVE  Applies(out, s, tx, b, m)
  <2>1. out = IF ~r.ok \/ ~covered THEN [ok |-> FALSE, gas_used |-> 0, s |-> r.s]
              ELSE [r EXCEPT !.s.accounts = credit(@, tx.from, gas_refunded(tx, r.gas_used, b))]
    BY <1>6 DEF apply_user_transaction
  <2>2. Executes(r, d, tx, m)
    <3> HIDE DEF d
    <3> QED
      BY <1>4, <1>6, ExecuteGood, ZenonT(30)
  <2> HIDE DEF r, out
  <2>3. CASE ~r.ok \/ ~covered
    BY <2>1, <2>2, <2>3 DEF Applies, Executes
  <2>4. CASE r.ok /\ covered
    <3> DEFINE g == r.gas_used
               refund == gas_refunded(tx, g, b)
               fee == g * effective_gas_price(tx, b)
               end == credit(r.s.accounts, tx.from, refund)
               lost == IF tx.kind = "Stake" THEN 0 ELSE tx.amount
    <3>1. g \in Nat /\ g <= estimated_gas_for_admission(tx) /\ GoodState(r.s, m)
      BY <2>2, <2>4 DEF Executes
    <3>2. fee \in Nat /\ refund \in Nat /\ refund + fee = total_fee_cap(tx)
      BY <1>1, <2>4, <3>1, FeeIsSplit, ZenonT(30)
    <3>3. /\ out = [r EXCEPT !.s.accounts = end]
          /\ out.ok = r.ok /\ out.gas_used = g
          /\ out.s = [r.s EXCEPT !.accounts = end]
      BY <2>1, <2>2, <2>4, ZenonT(30) DEF Executes
    <3> HIDE DEF refund, fee
    <3>4. GoodAccounts(end) /\ Wealth(end) = Wealth(r.s.accounts) + refund
      BY <3>1, <3>2, CreditGood, ZenonT(30) DEF GoodState
    <3>5. Wealth(r.s.accounts) \in Nat
      BY <3>1, WealthIsNat, ZenonT(30) DEF GoodState
    <3> HIDE DEF end
    <3>6. GoodState(out.s, m) /\ out.s.accounts = end
      BY <3>1, <3>3, <3>4 DEF GoodState
    <3>7. ASSUME tx.kind \notin EvmKinds
          PROVE  Wealth(end) + fee + Lost(tx) = Wealth(s.accounts)
      <4>1. Wealth(r.s.accounts) = Wealth(as) + Credited(tx)
        BY <1>4, <1>6, <2>2, <2>4, <3>7 DEF Executes
      <4>2. lost = Lost(tx) + Credited(tx) /\ Lost(tx) \in Nat /\ Credited(tx) \in Nat
        <5>1. tx.kind \in Kinds /\ tx.kind # "Coinbase"
          BY <1>1, <1>6, ZenonT(30) DEF IsTransaction, is_coinbase
        <5>2. CASE tx.kind \in {"Transfer", "CallContract"}
          BY <1>1, <5>2 DEF Lost, Credited, ParameterKinds
        <5>3. CASE tx.kind = "Stake"
          BY <1>1, <5>3 DEF Lost, Credited, ParameterKinds
        <5>4. CASE tx.kind \in {"Unstake", "DeployContract"} \cup ParameterKinds
          BY <1>1, <5>4 DEF Lost, Credited, ParameterKinds
        <5> QED
          BY ZenonT(30), <3>7, <5>1, <5>2, <5>3, <5>4 DEF Kinds, SystemKinds, ContractKinds, EvmKinds,
             ParameterKinds
      <4>3. Wealth(as) \in Nat /\ Wealth(as) + total_fee_cap(tx) + lost = Wealth(s.accounts)
        BY <1>4, <1>6
      <4> HIDE DEF as, lost
      <4>4. PICK n, c, l, x, y : /\ n = Wealth(as) /\ c = Credited(tx) /\ l = Lost(tx)
                                 /\ x = refund /\ y = fee
        BY ZenonT(30)
      <4>5. n \in Nat /\ c \in Nat /\ l \in Nat /\ x \in Nat /\ y \in Nat
        BY <3>2, <4>2, <4>3, <4>4, ZenonT(30)
      <4>6. Wealth(end) = (n + c) + x
        BY <3>4, <4>1, <4>4
      <4>7. Wealth(s.accounts) = n + (x + y) + (l + c)
        BY <3>2, <4>2, <4>3, <4>4, ZenonT(30)
      <4>8. ((n + c) + x) + y + l = n + (x + y) + (l + c)
        BY <4>5
      <4> QED
        BY <4>4, <4>6, <4>7, <4>8, ZenonT(30)
    <3> QED
      BY <2>4, <3>1, <3>3, <3>6, <3>7 DEF Applies, fee
  <2> QED
    BY <2>3, <2>4
<1> QED
  BY <1>3, <1>5, <1>6, ZenonT(30)

(* next_base_fee_per_gas is a natural number. *)
LEMMA BaseFeeIsNat ==
    ASSUME NEW hd, hd.base_fee \in Nat, hd.gas_used \in Nat
    PROVE  next_base_fee_per_gas(hd) \in Nat
<1> DEFINE base == IF hd.height = 0 THEN Most(hd.base_fee, InitialBaseFee) ELSE hd.base_fee
           target == target_block_gas_usage
           delta == IF hd.gas_used > target THEN hd.gas_used - target ELSE target - hd.gas_used
           den == target * Most(BaseFeeChangeDenominator, 1)
           change == Most((base * delta) \div den, 1)
<1>1. BlockGasLimit \in Nat /\ InitialBaseFee \in Nat /\ BaseFeeChangeDenominator \in Nat
  BY ExecutionAssumption
<1>2. base \in Nat
  BY <1>1 DEF Most
<1>3. target \in Nat /\ target >= 1
  BY <1>1 DEF target_block_gas_usage, Most
<1> HIDE DEF base, target
<1>4. delta \in Nat
  BY <1>3
<1>5. den \in Nat /\ den >= 1
  <2>1. Most(BaseFeeChangeDenominator, 1) \in Nat /\ Most(BaseFeeChangeDenominator, 1) >= 1
    BY <1>1 DEF Most
  <2> DEFINE k == Most(BaseFeeChangeDenominator, 1)
  <2> HIDE DEF k
  <2>2. target * k \in Nat /\ 1 * k <= target * k
    BY <1>3, <2>1, Products DEF k
  <2> QED
    BY <2>1, <2>2 DEF k
<1> HIDE DEF delta, den
<1>6. base * delta \in Nat
  BY <1>2, <1>4, Products
<1>7. \A x, y \in Nat : y >= 1 => x \div y \in Nat
  OBVIOUS
<1>8. change \in Nat
  BY <1>5, <1>6, <1>7 DEF Most
<1> HIDE DEF change
<1>9. next_base_fee_per_gas(hd) \in {1, base, base + change, Most(monus(base, change), 1)}
  BY <1>2 DEF next_base_fee_per_gas, base, target, delta, den, change
<1> QED
  BY <1>2, <1>8, <1>9 DEF Most, monus

-----------------------------------------------------------------------------
(* The inductive invariant.  Outside a block the copy is the committed     *)
(* state; the copy of a block under validation has what the supply has,    *)
(* less the fees of the block and what leaked in it.                       *)
GoodExecution ==
    /\ menu \in DOMAIN Menus /\ phase \in {"idle", "validate", "create"}
    /\ header.base_fee \in Nat /\ header.gas_used \in Nat
    /\ GoodState(committed, menu) /\ GoodState(work, menu)
    /\ GoodBlock(block) /\ supply \in Int
    /\ Wealth(committed.accounts) = supply
    /\ phase = "idle" => work = committed /\ block = new_block
    /\ ValueIsConserved

(* The genesis state. *)
LEMMA InitGood == Init => GoodExecution
<1> SUFFICES ASSUME Init PROVE GoodExecution
  OBVIOUS
<1> DEFINE g == genesis_state
<1>1. \A a \in DOMAIN g.accounts : GoodAccount(g.accounts[a])
  <2> SUFFICES ASSUME NEW a \in DOMAIN g.accounts PROVE GoodAccount(g.accounts[a])
    OBVIOUS
  <2>1. /\ DOMAIN g.accounts = DOMAIN GenesisBalance
        /\ {GenesisBalance[a], GenesisStake[a]} \subseteq Nat
    BY ExecutionAssumption DEF genesis_state
  <2>2. GoodAccount(default_account)
    BY DefaultGood
  <2> QED
    BY <2>1, <2>2, ZenonT(30) DEF genesis_state, GoodAccount, AccountFields
<1>2. GoodAccounts(g.accounts)
  BY <1>1, ExecutionAssumption, ZenonT(30) DEF GoodAccounts, genesis_state
<1>3. GoodContracts(g.contracts, menu) /\ GoodProposals(g.governance)
  BY DEF GoodContracts, GoodProposals, genesis_state, no_proposals, EmptyMap
<1>4. GoodRegistry(g.tokens)
  <2>1. g.tokens = [tokens |-> EmptyMap, balances |-> EmptyMap, allowances |-> EmptyMap]
    BY DEF genesis_state, new_registry
  <2> QED
    BY <2>1, EmptyRegistry, ZenonT(30)
<1>5. GoodState(g, menu)
  BY <1>2, <1>3, <1>4, ZenonT(30) DEF GoodState, genesis_state
<1>6. Wealth(g.accounts) \in Nat
  BY <1>2, WealthIsNat
<1>7. GoodBlock(new_block)
  BY NewBlockGood, ZenonT(30)
<1> HIDE DEF g
<1>8. /\ committed = g /\ work = g /\ block = new_block /\ supply = Wealth(g.accounts)
      /\ phase = "idle" /\ menu \in DOMAIN Menus
      /\ header.base_fee = InitialBaseFee /\ header.gas_used = 0
  BY DEF Init, g
<1>9. ValueIsConserved
  BY <1>6, <1>8 DEF ValueIsConserved, new_block
<1>10. InitialBaseFee \in Nat
  BY ExecutionAssumption
<1> QED
  BY <1>5, <1>6, <1>7, <1>8, <1>9, <1>10 DEF GoodExecution

(* A signed transaction of the menu is one. *)
LEMMA SignedGood ==
    ASSUME menu \in DOMAIN Menus, NEW i \in DOMAIN Menus[menu].txs
    PROVE  GoodTx(Signed(Menus[menu].txs[i]), menu)
<1> DEFINE o == Menus[menu].txs[i]
           tx == Signed(o)
<1>1. /\ IsTransaction(o)
      /\ o.kind = "CallContract" => \A code \in Deployed(menu) : IsCallOf(code, o.data)
  BY MenusAssumption, ZenonT(30)
<1>2. o.kind = "DeployContract" => o.to \in Deployed(menu)
  BY ZenonT(30) DEF Deployed
<1>3. /\ DOMAIN tx = DOMAIN o
      /\ tx.kind = o.kind /\ tx.amount = o.amount /\ tx.fee = o.fee /\ tx.max_fee = o.max_fee
      /\ tx.max_priority = o.max_priority /\ tx.gas_limit = o.gas_limit /\ tx.size = o.size
      /\ tx.data = o.data /\ tx.to = o.to
  BY <1>1, ZenonT(30) DEF Signed, IsTransaction
<1> HIDE DEF o, tx
<1>4. IsTransaction(tx)
  BY <1>1, <1>3, ZenonT(30) DEF IsTransaction
<1>5. GoodTx(tx, menu)
  BY <1>1, <1>2, <1>3, <1>4 DEF GoodTx
<1> QED
  BY <1>5 DEF tx, o

(* A block begins. *)
LEMMA BeginGood ==
    ASSUME GoodExecution, NEW p \in {"validate", "create"}, BeginBlock(p)
    PROVE  GoodExecution'
<1> DEFINE as == apply_unstake_unlocks(committed.accounts, height + 1)
<1>1. /\ GoodState(committed, menu) /\ GoodAccounts(committed.accounts)
      /\ menu \in DOMAIN Menus /\ header.base_fee \in Nat /\ header.gas_used \in Nat
      /\ supply \in Int /\ Wealth(committed.accounts) = supply
  BY DEF GoodExecution, GoodState
<1>2. GoodAccounts(as) /\ Wealth(as) = Wealth(committed.accounts)
  BY <1>1, UnlockGood
<1>3. /\ work' = [committed EXCEPT !.accounts = as] /\ block' = new_block /\ phase' = p
      /\ menu' = menu /\ header' = header /\ committed' = committed /\ supply' = supply
  BY DEF BeginBlock
<1> HIDE DEF as
<1>4. GoodState(work', menu) /\ work'.accounts = as
  BY <1>1, <1>2, <1>3 DEF GoodState
<1>5. GoodBlock(new_block) /\ new_block.burned = 0 /\ new_block.priority_fees = 0
      /\ new_block.leaked = 0
  BY NewBlockGood, ZenonT(30)
<1>6. ValueIsConserved'
  BY <1>1, <1>2, <1>3, <1>4, <1>5 DEF ValueIsConserved
<1> QED
  BY <1>1, <1>3, <1>4, <1>5, <1>6, ZenonT(30) DEF GoodExecution

(* A transaction that succeeds: the block counts its gas and its fee, and  *)
(* the copy has lost the fee and what leaked.                              *)
LEMMA RanGood ==
    ASSUME GoodExecution, NEW tx, GoodTx(tx, menu), NEW r,
           Applies(r, work, tx, base_fee, menu), r.ok
    PROVE  /\ GoodBlock(ran(r, tx))
           /\ LET k == ran(r, tx) IN
              Wealth(r.s.accounts) + k.burned + k.priority_fees + k.leaked
                  = Wealth(work.accounts) + block.burned + block.priority_fees + block.leaked
<1>1. PICK b, fee, burn, tip, lk, old, now :
          /\ b = base_fee
          /\ fee = r.gas_used * effective_gas_price(tx, base_fee)
          /\ burn = r.gas_used * base_fee
          /\ tip = priority_fee_for_transaction(tx, r.gas_used, base_fee)
          /\ lk = leak(tx, work.accounts, r.s.accounts, fee)
          /\ old = Wealth(work.accounts) /\ now = Wealth(r.s.accounts)
  BY ZenonT(30)
<1>2. b \in Nat
  BY <1>1, BaseFeeIsNat, ZenonT(30) DEF GoodExecution, base_fee
<1>3. old \in Nat /\ now \in Nat
  BY <1>1, WealthIsNat, ZenonT(30) DEF GoodExecution, Applies, GoodState
<1>4. fee \in Nat /\ burn \in Nat /\ tip \in Nat /\ burn + tip = fee
  <2>1. /\ IsTransaction(tx) /\ r.gas_used \in Nat
        /\ r.gas_used <= estimated_gas_for_admission(tx)
        /\ ensure_transaction_fee_covers_base(tx, r.gas_used, b)
    BY <1>1, ZenonT(30) DEF GoodTx, Applies
  <2> QED
    BY <1>1, <1>2, <2>1, FeeIsSplit, ZenonT(30)
<1>5. lk \in Int /\ now + fee + lk = old
  <2>1. CASE tx.kind \in EvmKinds
    <3>1. lk = old - now - fee
      BY <1>1, <2>1 DEF leak, EvmKinds, ParameterKinds
    <3> QED
      BY <1>3, <1>4, <3>1
  <2>2. CASE tx.kind \notin EvmKinds
    <3>1. lk = Lost(tx)
      BY <1>1, <2>2 DEF leak, Lost
    <3>2. tx.amount \in Nat
      BY ZenonT(30) DEF GoodTx, IsTransaction
    <3>3. lk \in Nat
      BY <3>1, <3>2 DEF Lost
    <3>4. now + fee + lk = old
      BY <1>1, <2>2, <3>1, ZenonT(30) DEF Applies
    <3> QED
      BY <3>3, <3>4
  <2> QED
    BY <2>1, <2>2
<1>6. /\ block.gas_used \in Nat /\ block.priority_fees \in Nat /\ block.burned \in Nat
      /\ block.leaked \in Int /\ r.gas_used \in Nat
  BY ZenonT(30) DEF GoodExecution, GoodBlock, Applies
<1>7. ran(r, tx) = [ gas_used |-> block.gas_used + r.gas_used,
                     priority_fees |-> block.priority_fees + tip,
                     burned |-> block.burned + burn, leaked |-> block.leaked + lk ]
  BY <1>1, ZenonT(30) DEF ran
<1>8. PICK i, j, l : i = block.burned /\ j = block.priority_fees /\ l = block.leaked
  OBVIOUS
<1>9. now + (i + burn) + (j + tip) + (l + lk) = old + i + j + l
  BY <1>3, <1>4, <1>5, <1>6, <1>8
<1>10. /\ block.gas_used + r.gas_used \in Nat /\ j + tip \in Nat /\ i + burn \in Nat
       /\ l + lk \in Int
  BY <1>4, <1>5, <1>6, <1>8
<1>11. PICK k : k = ran(r, tx)
  OBVIOUS
<1>12. k = [ gas_used |-> block.gas_used + r.gas_used, priority_fees |-> j + tip,
             burned |-> i + burn, leaked |-> l + lk ]
  BY <1>7, <1>8, <1>11, ZenonT(30)
<1>13. GoodBlock(k) /\ k.burned = i + burn /\ k.priority_fees = j + tip /\ k.leaked = l + lk
  BY <1>10, <1>12, CountedGood
<1>14. now + k.burned + k.priority_fees + k.leaked = old + i + j + l
  BY <1>9, <1>13, ZenonT(30)
<1> QED
  BY <1>1, <1>8, <1>11, <1>13, <1>14, ZenonT(30)

(* A transaction of the block under validation. *)
LEMMA ValidateGood ==
    ASSUME GoodExecution, NEW tx, GoodTx(tx, menu), Validate(tx)
    PROVE  GoodExecution'
<1>1. PICK r : /\ r = apply_user_transaction(work, tx, height + 1, base_fee)
               /\ IF r.ok /\ block.gas_used + r.gas_used <= BlockGasLimit
                  THEN work' = r.s /\ block' = ran(r, tx) /\ phase' = phase
                  ELSE work' = committed /\ block' = new_block /\ phase' = "idle"
  BY DEF Validate
<1>2. /\ menu' = menu /\ header' = header /\ committed' = committed /\ supply' = supply
      /\ phase = "validate"
  BY DEF Validate
<1>3. Applies(r, work, tx, base_fee, menu)
  <2>1. base_fee \in Nat
    BY BaseFeeIsNat DEF GoodExecution, base_fee
  <2>2. GoodState(work, menu)
    BY DEF GoodExecution
  <2> QED
    BY <1>1, <2>1, <2>2, ApplyGood
<1>4. CASE r.ok /\ block.gas_used + r.gas_used <= BlockGasLimit
  <2>1. work' = r.s /\ block' = ran(r, tx) /\ phase' = "validate"
    BY <1>1, <1>2, <1>4
  <2>2. /\ GoodBlock(block')
        /\ Wealth(work'.accounts) + block'.burned + block'.priority_fees + block'.leaked
               = Wealth(work.accounts) + block.burned + block.priority_fees + block.leaked
    BY <1>3, <1>4, <2>1, RanGood, ZenonT(30)
  <2>3. GoodState(work', menu) /\ Wealth(work'.accounts) \in Nat
    BY <1>3, <2>1, WealthIsNat, ZenonT(30) DEF Applies, GoodState
  <2>4. PICK w, i, j, l, v, e, f, g :
            /\ w = Wealth(work.accounts) /\ i = block.burned /\ j = block.priority_fees
            /\ l = block.leaked /\ v = Wealth(work'.accounts) /\ e = block'.burned
            /\ f = block'.priority_fees /\ g = block'.leaked
    OBVIOUS
  <2>5. /\ i \in Int /\ j \in Int /\ l \in Int /\ v \in Int /\ e \in Int /\ f \in Int /\ g \in Int
        /\ supply \in Int /\ w = supply - i - j - l
    <3>1. supply \in Int /\ GoodBlock(block) /\ ValueIsConserved
      BY ZenonT(30) DEF GoodExecution
    <3>2. w = supply - i - j - l
      BY <1>2, <2>4, <3>1, ZenonT(30) DEF ValueIsConserved
    <3>3. i \in Nat /\ j \in Nat /\ l \in Int
      BY <2>4, <3>1, ZenonT(30) DEF GoodBlock
    <3>4. v \in Nat /\ e \in Nat /\ f \in Nat /\ g \in Int
      BY <2>2, <2>3, <2>4, ZenonT(30) DEF GoodBlock
    <3> QED
      BY <3>1, <3>2, <3>3, <3>4
  <2>6. v + e + f + g = w + i + j + l
    BY <2>2, <2>4, ZenonT(30)
  <2>7. v = supply - e - f - g
    BY <2>5, <2>6
  <2>8. ValueIsConserved'
    BY <1>2, <2>4, <2>7, ZenonT(30) DEF ValueIsConserved
  <2> QED
    BY <1>2, <2>1, <2>2, <2>3, <2>8, ZenonT(30) DEF GoodExecution
<1>5. CASE ~(r.ok /\ block.gas_used + r.gas_used <= BlockGasLimit)
  <2>1. work' = committed /\ block' = new_block /\ phase' = "idle"
    BY <1>1, <1>5
  <2>2. GoodBlock(new_block) /\ new_block.burned = 0 /\ new_block.priority_fees = 0
        /\ new_block.leaked = 0
    BY NewBlockGood, ZenonT(30)
  <2>3. ValueIsConserved'
    BY <1>2, <2>1, <2>2 DEF ValueIsConserved, GoodExecution
  <2> QED
    BY <1>2, <2>1, <2>2, <2>3 DEF GoodExecution
<1> QED
  BY <1>4, <1>5

(* A transaction of the pool under production: whatever it left behind. *)
LEMMA IncludeGood ==
    ASSUME GoodExecution, NEW tx, GoodTx(tx, menu), Include(tx)
    PROVE  GoodExecution'
<1>1. PICK r : /\ r = apply_user_transaction(work, tx, height + 1, base_fee)
               /\ work' = r.s
               /\ block' = IF r.ok /\ block.gas_used + r.gas_used <= BlockGasLimit
                           THEN ran(r, tx) ELSE block
  BY DEF Include
<1>2. /\ menu' = menu /\ header' = header /\ committed' = committed /\ supply' = supply
      /\ phase = "create" /\ phase' = phase
  BY DEF Include
<1>3. Applies(r, work, tx, base_fee, menu)
  <2>1. base_fee \in Nat
    BY BaseFeeIsNat DEF GoodExecution, base_fee
  <2>2. GoodState(work, menu)
    BY DEF GoodExecution
  <2> QED
    BY <1>1, <2>1, <2>2, ApplyGood
<1>4. GoodBlock(block')
  <2>1. ASSUME r.ok PROVE GoodBlock(ran(r, tx))
    BY <1>3, <2>1, RanGood, ZenonT(30)
  <2> QED
    BY <1>1, <2>1 DEF GoodExecution
<1>5. GoodState(work', menu)
  BY <1>1, <1>3, ZenonT(30) DEF Applies
<1>6. ValueIsConserved'
  BY <1>2 DEF ValueIsConserved
<1> QED
  BY <1>2, <1>4, <1>5, <1>6 DEF GoodExecution

(* The end of a block: the coinbase pays the reward and the priority fees, *)
(* and the proposals are processed.                                        *)
LEMMA EndGood ==
    ASSUME GoodExecution, EndBlock
    PROVE  GoodExecution'
<1> DEFINE amount == coinbase_amount(block.priority_fees)
           as == credit(work.accounts, Proposer, amount)
           gs == process_block(work.governance, height + 1,
                     active_validator_total_stake(work.accounts, height + 1), EpochLength)
           done == [work EXCEPT !.accounts = as, !.governance = gs]
<1>1. /\ phase = "validate" /\ committed' = done /\ work' = done
      /\ supply' = supply + BlockReward - block.burned - block.leaked
      /\ phase' = "idle" /\ block' = new_block /\ menu' = menu
      /\ header'.base_fee = base_fee /\ header'.gas_used = block.gas_used
  BY DEF EndBlock
<1>2. /\ block.gas_used \in Nat /\ block.priority_fees \in Nat /\ block.burned \in Nat
      /\ block.leaked \in Int /\ BlockReward \in Nat /\ supply \in Int
  BY ExecutionAssumption, ZenonT(30) DEF GoodExecution, GoodBlock
<1>3. amount \in Nat /\ amount = BlockReward + block.priority_fees
  BY <1>2 DEF coinbase_amount
<1>4. GoodAccounts(work.accounts) /\ GoodProposals(work.governance) /\ GoodState(work, menu)
  BY DEF GoodExecution, GoodState
<1> HIDE DEF amount
<1>5. GoodAccounts(as) /\ Wealth(as) = Wealth(work.accounts) + amount
  BY <1>3, <1>4, CreditGood
<1>6. GoodProposals(gs)
  BY <1>4, ProcessGood
<1> HIDE DEF as, gs
<1>7. GoodState(done, menu) /\ done.accounts = as
  BY <1>4, <1>5, <1>6 DEF GoodState
<1> HIDE DEF done
<1>8. Wealth(as) = supply'
  <2>1. PICK w, i, j, l : /\ w = Wealth(work.accounts) /\ i = block.burned
                          /\ j = block.priority_fees /\ l = block.leaked
    OBVIOUS
  <2>2. w = supply - i - j - l
    BY <1>1, <2>1, ZenonT(30) DEF GoodExecution, ValueIsConserved
  <2>3. Wealth(as) = w + (BlockReward + j) /\ supply' = supply + BlockReward - i - l
    BY <1>1, <1>3, <1>5, <2>1, ZenonT(30)
  <2> QED
    BY <1>2, <2>1, <2>2, <2>3
<1>9. base_fee \in Nat
  BY BaseFeeIsNat DEF GoodExecution, base_fee
<1>10. GoodBlock(new_block) /\ new_block.burned = 0 /\ new_block.priority_fees = 0
       /\ new_block.leaked = 0
  BY NewBlockGood, ZenonT(30)
<1>11. supply' \in Int
  BY <1>1, <1>2
<1>12. ValueIsConserved'
  <2>1. /\ Wealth(work'.accounts) = supply' /\ block'.burned = 0 /\ block'.priority_fees = 0
        /\ block'.leaked = 0
    BY <1>1, <1>7, <1>8, <1>10, ZenonT(30)
  <2>2. supply' - 0 - 0 - 0 = supply'
    BY <1>11, NothingCounted, ZenonT(30)
  <2> QED
    BY <2>1, <2>2, ZenonT(30) DEF ValueIsConserved
<1> QED
  BY <1>1, <1>2, <1>7, <1>8, <1>9, <1>10, <1>11, <1>12, ZenonT(30) DEF GoodExecution

(* The producer drops its copy. *)
LEMMA DropGood ==
    ASSUME GoodExecution, DropCopy
    PROVE  GoodExecution'
<1>1. /\ menu' = menu /\ header' = header /\ committed' = committed /\ supply' = supply
      /\ phase' = "idle" /\ work' = committed /\ block' = new_block
  BY DEF DropCopy
<1>2. GoodBlock(new_block) /\ new_block.burned = 0 /\ new_block.priority_fees = 0
      /\ new_block.leaked = 0
  BY NewBlockGood, ZenonT(30)
<1>3. ValueIsConserved'
  BY <1>1, <1>2 DEF ValueIsConserved, GoodExecution
<1> QED
  BY <1>1, <1>2, <1>3 DEF GoodExecution

(* Every step keeps the inductive invariant. *)
LEMMA StepGood == GoodExecution /\ [Next]_vars => GoodExecution'
<1> SUFFICES ASSUME GoodExecution, [Next]_vars PROVE GoodExecution'
  OBVIOUS
<1>1. CASE \E p \in {"validate", "create"} : BeginBlock(p)
  BY <1>1, BeginGood
<1>2. ASSUME NEW i \in DOMAIN Menus[menu].txs,
             \/ Validate(Signed(Menus[menu].txs[i])) \/ Include(Signed(Menus[menu].txs[i]))
      PROVE  GoodExecution'
  <2>1. GoodTx(Signed(Menus[menu].txs[i]), menu)
    BY SignedGood DEF GoodExecution
  <2> QED
    BY <1>2, <2>1, ValidateGood, IncludeGood
<1>3. CASE EndBlock
  BY <1>3, EndGood
<1>4. CASE DropCopy
  BY <1>4, DropGood
<1>5. CASE UNCHANGED vars
  BY <1>5, ZenonT(30) DEF vars, GoodExecution, ValueIsConserved
<1> QED
  BY <1>1, <1>2, <1>3, <1>4, <1>5, ZenonT(30) DEF Next

(* What the inductive invariant says of the contracts' storage. *)
LEMMA StorageImplies == GoodExecution => ContractStorageIsConsistent
<1> DEFINE Consistent(c) ==
               /\ c.code = <<"wasm", "erc20">> => SumOf(c.storage, "b") = stored(c, <<"supply">>)
               /\ c.code = <<"wasm", "multisig">> =>
                    /\ \A k \in Keys(c.storage, "c") :
                          c.storage[k] = Cardinality(Votes(c.storage, k[2]))
                    /\ \A k \in Keys(c.storage, "c") :
                          present(c, <<"e", k[2]>>) <=> c.storage[k] >= stored(c, <<"t">>)
               /\ c.code = <<"wasm", "vesting">> =>
                    stored(c, <<"released">>) <= stored(c, <<"total">>)
               /\ c.code = <<"wasm", "nft">> =>
                    \A k \in Keys(c.storage, "m") :
                        c.storage[k] # Empty => present(c, <<"o", k[2]>>)
<1>1. ContractStorageIsConsistent <=> \A a \in DOMAIN work.contracts : Consistent(work.contracts[a])
  BY ZenonT(30) DEF ContractStorageIsConsistent, SumOf, Votes, Keys
<1>2. ASSUME GoodExecution, NEW a \in DOMAIN work.contracts
      PROVE  Consistent(work.contracts[a])
  <2>1. PICK c : c = work.contracts[a]
    OBVIOUS
  <2>2. GoodStorage(c.code, c.storage)
    BY <1>2, <2>1, ZenonT(30) DEF GoodExecution, GoodState, GoodContracts, GoodContract
  <2>3. \A k : stored(c, k) = get_or_zero(c.storage, k)
    BY ZenonT(30) DEF stored, get_or_zero
  <2>4. \A k : present(c, k) <=> IsSet(c.storage, k)
    BY DEF present, IsSet
  <2>5. ASSUME c.code = <<"wasm", "erc20">>
        PROVE  SumOf(c.storage, "b") = stored(c, <<"supply">>)
    BY <2>2, <2>3, <2>5, ZenonT(30) DEF GoodStorage, Erc20Good
  <2>6. ASSUME c.code = <<"wasm", "multisig">>, NEW k \in Keys(c.storage, "c")
        PROVE  /\ c.storage[k] = Cardinality(Votes(c.storage, k[2]))
               /\ present(c, <<"e", k[2]>>) <=> c.storage[k] >= stored(c, <<"t">>)
    <3>1. /\ c.storage[k] = Cardinality(Votes(c.storage, k[2]))
          /\ IsSet(c.storage, <<"e", k[2]>>) <=> c.storage[k] >= get_or_zero(c.storage, <<"t">>)
      BY <2>2, <2>6, ZenonT(30) DEF GoodStorage, MultisigGood
    <3> QED
      BY <2>3, <2>4, <3>1, ZenonT(30)
  <2>7. ASSUME c.code = <<"wasm", "vesting">>
        PROVE  stored(c, <<"released">>) <= stored(c, <<"total">>)
    <3>1. get_or_zero(c.storage, <<"released">>) <= get_or_zero(c.storage, <<"total">>)
      BY <2>2, <2>7, ZenonT(30) DEF GoodStorage, VestingGood
    <3>2. /\ stored(c, <<"released">>) = get_or_zero(c.storage, <<"released">>)
          /\ stored(c, <<"total">>) = get_or_zero(c.storage, <<"total">>)
      BY <2>3, ZenonT(30)
    <3> QED
      BY <3>1, <3>2, ZenonT(30)
  <2>8. ASSUME c.code = <<"wasm", "nft">>, NEW k \in Keys(c.storage, "m"), c.storage[k] # Empty
        PROVE  present(c, <<"o", k[2]>>)
    <3>1. IsSet(c.storage, <<"o", k[2]>>)
      BY <2>2, <2>8, ZenonT(30) DEF GoodStorage, NftGood
    <3> QED
      BY <2>4, <3>1
  <2>9. Consistent(c)
    BY <2>5, <2>6, <2>7, <2>8, ZenonT(30)
  <2> HIDE DEF Consistent
  <2> QED
    BY <2>1, <2>9
<1> HIDE DEF Consistent
<1> QED
  BY <1>1, <1>2

(* What the inductive invariant says of tokens and of proposals. *)
LEMMA GoodImplies == GoodExecution => TokenSupplyIsHeld /\ VotesAreBacked /\ ValueIsConserved
<1> SUFFICES ASSUME GoodExecution PROVE TokenSupplyIsHeld /\ VotesAreBacked /\ ValueIsConserved
  OBVIOUS
<1>1. TokenSupplyIsHeld
  BY ZenonT(30) DEF GoodExecution, GoodState, GoodRegistry, TokenSupplyIsHeld, Held, SumOf, Keys
<1>2. VotesAreBacked
  <2> SUFFICES ASSUME NEW id \in DOMAIN work.governance
               PROVE  LET p == work.governance[id] IN
                      /\ p.voters \subseteq DOMAIN p.stake_snapshot
                      /\ p.votes_for + p.votes_against = Weight(p)
                      /\ p.status \in {"Passed", "Executed"} =>
                            p.votes_for * 100 >= Weight(p) * APPROVAL_PERCENT /\ p.votes_for > 0
    BY ZenonT(30) DEF VotesAreBacked
  <2>1. PICK p : p = work.governance[id]
    OBVIOUS
  <2>2. GoodProposal(p)
    BY <2>1 DEF GoodExecution, GoodState, GoodProposals
  <2>3. Weight(p) = p.votes_for + p.votes_against
    BY <2>2, ZenonT(30) DEF GoodProposal, Weight
  <2> QED
    BY <2>1, <2>2, <2>3, ZenonT(30) DEF GoodProposal, Approved
<1>3. ValueIsConserved
  BY DEF GoodExecution
<1> QED
  BY <1>1, <1>2, <1>3

-----------------------------------------------------------------------------
(* The value in the accounts of the chain is the genesis allocations and   *)
(* the rewards, less the fees that were burned and the amounts that leak,  *)
(* through transactions of every kind, blocks that are refused half way    *)
(* and blocks that are produced: apply_user_transaction, with its debit of *)
(* the whole fee cap and its refund, creates and destroys nothing else.    *)
THEOREM ValueConserved == Spec => []ValueIsConserved
<1>1. Init => GoodExecution
  BY InitGood
<1>2. GoodExecution /\ [Next]_vars => GoodExecution'
  BY StepGood
<1>3. GoodExecution => ValueIsConserved
  BY GoodImplies
<1> QED
  BY <1>1, <1>2, <1>3, PTL DEF Spec

(* The holders of a token have its supply together: deploy_token,          *)
(* transfer, approve and transfer_from of the token registry, in every     *)
(* order and with every amount, to oneself included.                       *)
THEOREM TokenSupplyHeld == Spec => []TokenSupplyIsHeld
<1>1. Init => GoodExecution
  BY InitGood
<1>2. GoodExecution /\ [Next]_vars => GoodExecution'
  BY StepGood
<1>3. GoodExecution => TokenSupplyIsHeld
  BY GoodImplies
<1> QED
  BY <1>1, <1>2, <1>3, PTL DEF Spec

(* A proposal counts every voter once, by the stakes of its snapshot, and  *)
(* passes and is executed only with the approval it needs: submit_proposal,*)
(* vote and process_block of the governance module, while stakes change.   *)
THEOREM VotesBacked == Spec => []VotesAreBacked
<1>1. Init => GoodExecution
  BY InitGood
<1>2. GoodExecution /\ [Next]_vars => GoodExecution'
  BY StepGood
<1>3. GoodExecution => VotesAreBacked
  BY GoodImplies
<1> QED
  BY <1>1, <1>2, <1>3, PTL DEF Spec

(* What the example contracts keep in their storage is consistent: the     *)
(* balances of an erc20 are its supply, the votes of a multisig are        *)
(* counted and its actions executed at the threshold, a vesting contract   *)
(* releases no more than its total, an nft has no metadata without an      *)
(* owner.  Vm::call runs them with every gas limit and input, and revm     *)
(* writes slots into the same storage.                                     *)
THEOREM StorageConsistent == Spec => []ContractStorageIsConsistent
<1>1. Init => GoodExecution
  BY InitGood
<1>2. GoodExecution /\ [Next]_vars => GoodExecution'
  BY StepGood
<1>3. GoodExecution => ContractStorageIsConsistent
  BY StorageImplies
<1> QED
  BY <1>1, <1>2, <1>3, PTL DEF Spec
=============================================================================

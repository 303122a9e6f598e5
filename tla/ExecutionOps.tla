---------------------------- MODULE ExecutionOps ----------------------------
(***************************************************************************)
(* Execution of one transaction: vm/mod.rs, vm/evm.rs and the transaction  *)
(* half of core/chain/apply.rs, on a working state                         *)
(*   accounts    address -> account (an absent one is default_account)     *)
(*   contracts   address -> code, owner, storage                           *)
(*   tokens      the CUR-20 registry                                       *)
(*   governance  the proposals                                             *)
(* An operator returns whether it succeeds and the state it leaves behind, *)
(* also when it fails half way: block production goes on from there.       *)
(***************************************************************************)
EXTENDS Transactions, TokenRegistry, Governance, ContractPrograms

CONSTANTS MinimumStake, EpochLength, UnstakeDelay, BlockGasLimit,
          InitialBaseFee, BaseFeeChangeDenominator,
          Rejected        \* programs that compile_module refuses

default_account ==
    [ balance |-> 0, nonce |-> 0, staked |-> 0, active_from |-> 0, pending_unstakes |-> EmptyMap ]
account(accounts, a) == IF a \in DOMAIN accounts THEN accounts[a] ELSE default_account
credit(accounts, a, x) ==
    insert(accounts, a, [account(accounts, a) EXCEPT !.balance = @ + x])

-----------------------------------------------------------------------------
(* Vm::deploy: the address is a hash of the deployer, a nonce and the      *)
(* height of the block.                                                    *)
contract_address(deployer, nonce, height) == <<"contract", deployer, nonce, height>>

Vm_deploy(code, size, deployer, nonce, gas_limit, height) ==
    LET needed == GAS_BASE_TX + GAS_DEPLOY + size * GAS_PER_BYTE IN
    [ ok |-> code \notin Rejected /\ gas_limit >= needed,
      gas_used |-> needed,
      address |-> contract_address(deployer, nonce, height),
      contract |-> [code |-> code, owner |-> deployer, storage |-> EmptyMap] ]

call_gas(size) == GAS_BASE_TX + GAS_CALL + size * GAS_PER_BYTE
context_after(contract, input, size, gas_limit) ==
    run(contract.code, [storage |-> contract.storage, logs |-> <<>>,
                        gas |-> gas_limit - call_gas(size), trapped |-> FALSE], input)

(* Mutant: the contract runs on its storage in place. *)
Vm_call_in_place(contract, input, size, gas_limit) ==
    LET result(ctx) ==
            [ ok |-> gas_limit >= call_gas(size) /\ ~ctx.trapped,
              gas_used |-> gas_limit - ctx.gas,
              contract |-> IF gas_limit < call_gas(size) THEN contract
                           ELSE [contract EXCEPT !.storage = ctx.storage] ]
    IN  result(context_after(contract, input, size, gas_limit))

(* Vm::call: the contract runs on a copy of its storage, kept only when it *)
(* does not trap.                                                          *)
Vm_call(contract, input, size, gas_limit) ==
    LET result(ctx) ==
            LET ok == gas_limit >= call_gas(size) /\ ~ctx.trapped IN
            [ ok |-> ok,
              gas_used |-> gas_limit - ctx.gas,
              contract |-> IF ok THEN [contract EXCEPT !.storage = ctx.storage] ELSE contract ]
    IN  result(context_after(contract, input, size, gas_limit))

-----------------------------------------------------------------------------
(* evm_state_view: what revm sees of the chain. *)
evm_state_view(accounts, contracts) ==
    [ accounts |-> [a \in DOMAIN accounts |-> [balance |-> accounts[a].balance,
                                               nonce |-> accounts[a].nonce]],
      contracts |-> contracts ]

basic(view, a) ==
    IF a \in DOMAIN view.accounts THEN view.accounts[a] ELSE [balance |-> 0, nonce |-> 0]

(* External: revm runs a program, here the record of what it does: it      *)
(* succeeds, reverts or halts, uses gas and writes one slot.  The nonce of *)
(* the caller goes up by one; balance checks are disabled, so a caller     *)
(* that is short gets the value it sends.                                  *)
revm_transact(view, caller, to, value, program, gas_limit, base_fee) ==
    LET success == program.result = "Success"
        moved == IF success THEN value ELSE 0
        paid == monus(basic(view, caller).balance, program.gas * base_fee)
        after == insert(EmptyMap, caller, [balance |-> Most(paid, value) - moved,
                                           nonce |-> basic(view, caller).nonce + 1])
        received == [basic([view EXCEPT !.accounts = extend(@, after)], to)
                     EXCEPT !.balance = @ + moved]
    IN  [ result |-> IF program.gas > gas_limit THEN "Halt" ELSE program.result,
          gas_used |-> program.gas,
          accounts |-> IF success THEN insert(after, to, received) ELSE after,
          slots |-> IF success THEN insert(EmptyMap, program.slot, program.value)
                   ELSE EmptyMap ]

evm_address(caller, nonce) == <<"evm", caller, nonce>>

(* finish_execution: a revert is an outcome, a halt an error.  The slots   *)
(* of an account are completed by the ones the view already had.           *)
finish_execution(r, view, to, creates) ==
    [ ok |-> r.result # "Halt",
      gas_used |-> r.gas_used,
      account_updates |-> r.accounts,
      storage_updates |->
          IF DOMAIN r.slots = {} THEN EmptyMap
          ELSE insert(EmptyMap, to, extend(IF to \in DOMAIN view.contracts
                                           THEN view.contracts[to].storage ELSE EmptyMap,
                                           r.slots)),
      contracts_created |-> IF creates /\ r.result = "Success" THEN {to} ELSE {} ]

evm_deploy(view, caller, program, value, gas_limit, base_fee) ==
    LET to == evm_address(caller, basic(view, caller).nonce) IN
    finish_execution(revm_transact(view, caller, to, value, program, gas_limit, base_fee),
                     view, to, TRUE)

evm_call(view, caller, to, program, value, gas_limit, base_fee) ==
    finish_execution(revm_transact(view, caller, to, value, program, gas_limit, base_fee),
                     view, to, FALSE)

merge_evm_outcome(s, outcome, creator) ==
    LET accounts == [a \in DOMAIN outcome.account_updates |->
                        [account(s.accounts, a) EXCEPT
                            !.balance = outcome.account_updates[a].balance,
                            !.nonce = outcome.account_updates[a].nonce]]
        updated == [a \in DOMAIN s.contracts |->
                       IF a \in DOMAIN outcome.storage_updates
                       THEN [s.contracts[a] EXCEPT !.storage = extend(@, outcome.storage_updates[a])]
                       ELSE s.contracts[a]]
        made == [a \in outcome.contracts_created |->
                    [code |-> <<"evm">>, owner |-> creator,
                     storage |-> IF a \in DOMAIN outcome.storage_updates
                                 THEN outcome.storage_updates[a] ELSE EmptyMap]]
    IN  [s EXCEPT !.accounts = extend(s.accounts, accounts), !.contracts = extend(updated, made)]

(* apply_evm_deploy, apply_evm_call: a deployment hands revm the nonce     *)
(* before the transaction, a call the nonce after it.                      *)
merged(s, outcome, tx) ==
    IF ~outcome.ok THEN [ok |-> FALSE, gas_used |-> 0, s |-> s]
    ELSE [ ok |-> TRUE, gas_used |-> Most(outcome.gas_used, GAS_BASE_TX),
           s |-> merge_evm_outcome(s, outcome, tx.from) ]

apply_evm_deploy(s, tx, base_fee) ==
    LET view == evm_state_view(s.accounts, s.contracts) IN
    merged(s, evm_deploy([view EXCEPT !.accounts[tx.from].nonce = tx.nonce], tx.from, tx.data,
                         tx.amount, tx.gas_limit, base_fee), tx)

apply_evm_call(s, tx, base_fee) ==
    merged(s, evm_call(evm_state_view(s.accounts, s.contracts), tx.from, tx.to, tx.data,
                       tx.amount, tx.gas_limit, base_fee), tx)

-----------------------------------------------------------------------------
(* The stakes of everyone who has the minimum, at the submission of a      *)
(* proposal.                                                               *)
stake_snapshot(accounts) ==
    [ a \in {x \in DOMAIN accounts : accounts[x].staked >= MinimumStake} |-> accounts[a].staked ]

apply_token_tx(r, tx) ==
    LET p == tx.data IN
    CASE tx.kind = "DeployToken" -> deploy_token(r, tx.from, monus(tx.nonce, 1), p)
      [] tx.kind = "TokenTransfer" -> transfer(r, p.token, tx.from, p.recipient, p.amount)
      [] tx.kind = "TokenApprove" -> approve(r, p.token, tx.from, p.spender, p.amount)
      [] tx.kind = "TokenTransferFrom" ->
            transfer_from(r, p.token, tx.from, p.from, p.recipient, p.amount)

apply_governance_tx(g, accounts, tx, height) ==
    LET staked == account(accounts, tx.from).staked IN
    IF staked < MinimumStake THEN [ok |-> FALSE, governance |-> g]
    ELSE IF tx.kind = "SubmitProposal"
    THEN submit_proposal(g, tx.from, tx.data, height, EpochLength, stake_snapshot(accounts))
    ELSE vote(g, tx.from, tx.data.proposal_id, tx.data.vote, staked, height)

(* apply_token_or_governance_tx *)
apply_token_or_governance_tx(s, tx, height) ==
    IF tx.kind \in {"SubmitProposal", "GovernanceVote"}
    THEN LET g == apply_governance_tx(s.governance, s.accounts, tx, height) IN
         [ok |-> g.ok, gas_used |-> GAS_BASE_TX, s |-> [s EXCEPT !.governance = g.governance]]
    ELSE LET t == apply_token_tx(s.tokens, tx) IN
         [ok |-> t.ok, gas_used |-> GAS_BASE_TX, s |-> [s EXCEPT !.tokens = t.registry]]

-----------------------------------------------------------------------------
target_block_gas_usage == Most(BlockGasLimit \div 2, 1)

(* The base fee of the block after the one with this header: at least 1. *)
next_base_fee_per_gas(header) ==
    LET base == IF header.height = 0 THEN Most(header.base_fee, InitialBaseFee)
                ELSE header.base_fee
        target == target_block_gas_usage
        delta == IF header.gas_used > target THEN header.gas_used - target
                 ELSE target - header.gas_used
        change == Most((base * delta) \div (target * Most(BaseFeeChangeDenominator, 1)), 1)
    IN  CASE base = 0 -> 1
          [] base > 0 /\ header.gas_used = target -> base
          [] base > 0 /\ header.gas_used > target -> base + change
          [] OTHER -> Most(monus(base, change), 1)

ensure_transaction_fee_covers_base(tx, gas_used, base_fee) ==
    /\ max_fee_per_gas(tx) >= base_fee
    /\ total_fee_cap(tx) >= gas_used * base_fee

priority_fee_for_transaction(tx, gas_used, base_fee) == priority_fee_per_gas(tx, base_fee) * gas_used

(* The debit of the sender, which comes first, with what a stake or an     *)
(* unstake does to the account: a transaction of either kind pays amount   *)
(* from its balance.                                                       *)
debit_sender(a, tx, height) ==
    LET paid == [a EXCEPT !.balance = @ - (tx.amount + total_fee_cap(tx)), !.nonce = @ + 1] IN
    CASE tx.kind = "Stake" ->
           [paid EXCEPT !.staked = @ + tx.amount,
                        !.active_from =
                            IF a.staked < MinimumStake /\ a.staked + tx.amount >= MinimumStake
                            THEN (height \div EpochLength + 1) * EpochLength ELSE @]
      [] tx.kind = "Unstake" /\ a.staked >= tx.amount ->
           [paid EXCEPT !.staked = @ - tx.amount,
                        !.pending_unstakes = insert(@, height + UnstakeDelay,
                            get_or_zero(@, height + UnstakeDelay) + tx.amount)]
      [] OTHER -> paid

(* The part of apply_user_transaction that depends on the kind. *)
execute_kind(s, tx, height, base_fee) ==
    CASE tx.kind = "Transfer" ->
           [ok |-> TRUE, gas_used |-> GAS_BASE_TX,
            s |-> [s EXCEPT !.accounts = credit(@, tx.to, tx.amount)]]
      [] tx.kind \in {"Stake", "Unstake"} -> [ok |-> TRUE, gas_used |-> GAS_BASE_TX, s |-> s]
      [] tx.kind = "DeployContract" ->
           LET d == Vm_deploy(tx.to, tx.size, tx.from, monus(tx.nonce, 1), tx.gas_limit, height) IN
           [ok |-> d.ok, gas_used |-> d.gas_used,
            s |-> IF d.ok THEN [s EXCEPT !.contracts = insert(@, d.address, d.contract)] ELSE s]
      [] tx.kind = "CallContract" /\ tx.to \notin DOMAIN s.contracts ->
           [ok |-> FALSE, gas_used |-> 0, s |-> s]
      [] tx.kind = "CallContract" /\ tx.to \in DOMAIN s.contracts ->
           LET called(c) ==
                   [ ok |-> c.ok, gas_used |-> c.gas_used,
                     s |-> [s EXCEPT !.contracts[tx.to] = c.contract,
                                     !.accounts = IF c.ok /\ tx.amount > 0
                                                  THEN credit(@, tx.to, tx.amount) ELSE @] ]
           IN  called(Vm_call(s.contracts[tx.to], tx.data, tx.size, tx.gas_limit))
      [] tx.kind = "DeployEvmContract" -> apply_evm_deploy(s, tx, base_fee)
      [] tx.kind = "CallEvmContract" -> apply_evm_call(s, tx, base_fee)
      [] tx.kind \in ParameterKinds -> apply_token_or_governance_tx(s, tx, height)

gas_refunded(tx, gas_used, base_fee) ==
    monus(total_fee_cap(tx), gas_used * effective_gas_price(tx, base_fee))

apply_user_transaction(s, tx, height, base_fee) ==
    LET sender == account(s.accounts, tx.from)
        fail(t) == [ok |-> FALSE, gas_used |-> 0, s |-> t]
        debited == [s EXCEPT !.accounts = insert(@, tx.from, debit_sender(sender, tx, height))]
        charged(r) ==
            IF ~r.ok \/ ~ensure_transaction_fee_covers_base(tx, r.gas_used, base_fee) THEN fail(r.s)
            ELSE [r EXCEPT !.s.accounts = credit(@, tx.from, gas_refunded(tx, r.gas_used, base_fee))]
    IN  IF \/ ~validate_transaction_shape(tx) \/ ~verify_signature(tx) \/ is_coinbase(tx)
           \/ sender.balance < tx.amount + total_fee_cap(tx)
           \/ tx.nonce # sender.nonce
        THEN fail(s)
        ELSE IF tx.kind = "Unstake" /\ sender.staked < tx.amount THEN fail(debited)
        ELSE charged(execute_kind(debited, tx, height, base_fee))

(* apply_unstake_unlocks *)
apply_unstake_unlocks(accounts, height) ==
    [ a \in DOMAIN accounts |->
        LET pending == accounts[a].pending_unstakes
            due == {h \in DOMAIN pending : h <= height}
        IN  [accounts[a] EXCEPT
                !.balance = @ + SumFunctionOnSet(pending, due),
                !.pending_unstakes = Restrict(@, DOMAIN @ \ due)] ]

(* active_validator_total_stake, where nobody is jailed or slashed *)
active_validator_total_stake(accounts, height) ==
    LET active == {a \in DOMAIN accounts : /\ accounts[a].staked >= MinimumStake
                                           /\ accounts[a].active_from <= height}
    IN  SumFunctionOnSet([a \in active |-> accounts[a].staked], active)
=============================================================================

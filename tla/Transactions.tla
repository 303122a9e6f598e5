---------------------------- MODULE Transactions ----------------------------
(***************************************************************************)
(* core/transaction.rs: the kinds of transaction, their constructors, the  *)
(* gas they may use and the fees they offer, with the shape check of       *)
(* core/chain/apply.rs.                                                    *)
(*                                                                         *)
(* A public key is its address.  Bytes are abstracted to what they encode: *)
(* data is the decoded parameter, or NoData, and size is its length in     *)
(* bytes; the code of a contract is the name of a program.  A transaction  *)
(* is its own hash.  A signature names its signer.                         *)
(***************************************************************************)
EXTENDS Integers

CONSTANTS GAS_BASE_TX, GAS_DEPLOY, GAS_CALL, GAS_PER_BYTE,
          Addresses,      \* the 20-byte addresses that occur
          ChainId, NoData, Nobody

Least(a, b) == IF a < b THEN a ELSE b
Most(a, b) == IF a < b THEN b ELSE a
monus(a, b) == IF a > b THEN a - b ELSE 0

SystemKinds == {"Stake", "Unstake", "SubmitProposal", "GovernanceVote", "Coinbase"}
EvmKinds == {"DeployEvmContract", "CallEvmContract"}
ContractKinds == {"DeployContract", "CallContract"} \cup EvmKinds
ParameterKinds == {"DeployToken", "TokenTransfer", "TokenApprove", "TokenTransferFrom",
                   "SubmitProposal", "GovernanceVote"}
Kinds == {"Transfer"} \cup SystemKinds \cup ContractKinds \cup ParameterKinds

mempool_class(tx) == IF tx.kind \in SystemKinds THEN "System" ELSE "User"
is_evm(tx) == tx.kind \in EvmKinds
is_coinbase(tx) == tx.kind = "Coinbase"

-----------------------------------------------------------------------------
LOCAL Base(kind, from, to, amount, fee, nonce) ==
    [ kind |-> kind, chain_id |-> ChainId, from |-> from, signer |-> from, to |-> to,
      amount |-> amount, fee |-> fee, max_fee |-> fee, max_priority |-> fee,
      nonce |-> nonce, gas_limit |-> 0, data |-> NoData, size |-> 0, raw |-> Nobody,
      timestamp |-> 0 ]

new(from, to, amount, fee, nonce) == Base("Transfer", from, to, amount, fee, nonce)
stake(from, amount, fee, nonce) == Base("Stake", from, NoData, amount, fee, nonce)
unstake(from, amount, fee, nonce) == Base("Unstake", from, NoData, amount, fee, nonce)
coinbase_with_timestamp(to, amount) ==
    [Base("Coinbase", Nobody, to, amount, 0, 0) EXCEPT !.signer = Nobody]

deploy_contract(from, code, gas_limit, fee, nonce) ==
    [Base("DeployContract", from, code, 0, fee, nonce) EXCEPT !.gas_limit = gas_limit]

call_contract(from, contract, input, value, gas_limit, fee, nonce) ==
    [Base("CallContract", from, contract, value, fee, nonce) EXCEPT
        !.gas_limit = gas_limit, !.data = input]

(* A token or governance transaction, as main.rs builds it. *)
with_parameters(kind, from, params, fee, nonce) ==
    [Base(kind, from, NoData, 0, fee, nonce) EXCEPT !.data = params]

(* from_evm_raw of a decoded raw transaction, whose signer was recovered *)
from_evm_raw(kind, from, to, value, nonce, gas_limit, max_fee, max_priority, data) ==
    [Base(kind, from, to, value, max_fee, nonce) EXCEPT
        !.signer = Nobody, !.gas_limit = gas_limit, !.max_priority = max_priority,
        !.data = data, !.raw = from]

with_fee_caps(tx, max_fee, max_priority) ==
    [tx EXCEPT !.fee = max_fee, !.max_fee = max_fee,
               !.max_priority = Least(max_priority, max_fee)]

-----------------------------------------------------------------------------
max_fee_per_gas(tx) == Most(tx.max_fee, tx.fee)

max_priority_fee_per_gas(tx) ==
    Least(IF tx.max_priority = 0 THEN tx.fee ELSE tx.max_priority, max_fee_per_gas(tx))

intrinsic_gas(tx) ==
    (CASE tx.kind \in {"DeployContract", "DeployEvmContract"} -> GAS_BASE_TX + GAS_DEPLOY
       [] tx.kind \in {"CallContract", "CallEvmContract"} -> GAS_BASE_TX + GAS_CALL
       [] OTHER -> GAS_BASE_TX)
    + (IF tx.kind \in {"Stake", "Unstake", "Coinbase"} THEN 0 ELSE tx.size * GAS_PER_BYTE)

estimated_gas_for_admission(tx) ==
    IF tx.kind \in ContractKinds THEN Most(tx.gas_limit, intrinsic_gas(tx))
    ELSE intrinsic_gas(tx)

total_fee_cap(tx) == estimated_gas_for_admission(tx) * max_fee_per_gas(tx)

(* effective_gas_price, where max_fee_per_gas covers the base fee *)
effective_gas_price(tx, base_fee) ==
    base_fee + Least(max_priority_fee_per_gas(tx), max_fee_per_gas(tx) - base_fee)

(* priority_fee_per_gas(base_fee).unwrap_or_default() *)
priority_fee_per_gas(tx, base_fee) ==
    IF max_fee_per_gas(tx) < base_fee THEN 0
    ELSE monus(effective_gas_price(tx, base_fee), base_fee)

verify_signature(tx) ==
    \/ is_coinbase(tx)
    \/ is_evm(tx) /\ tx.raw = tx.from /\ tx.raw # Nobody
    \/ ~is_evm(tx) /\ tx.signer = tx.from

(* The arms of validate_transaction_shape: value, contract, parameter and EVM kinds. *)
coinbase_shape(tx) ==
    /\ tx.from = Nobody /\ tx.signer = Nobody /\ tx.to \in Addresses
    /\ tx.fee = 0 /\ max_fee_per_gas(tx) = 0 /\ tx.nonce = 0

value_shape(tx) ==
    /\ tx.amount > 0
    /\ IF tx.kind = "Transfer" THEN tx.to \in Addresses ELSE tx.to = NoData

contract_shape(tx) ==
    /\ IF tx.kind = "DeployContract" THEN tx.to # NoData ELSE tx.to \in Addresses
    /\ tx.gas_limit > 0

parameter_shape(tx) == tx.data # NoData

evm_shape(tx) ==
    /\ IF tx.kind = "DeployEvmContract" THEN tx.data # NoData ELSE tx.to \in Addresses
    /\ tx.gas_limit > 0
    /\ tx.raw # Nobody

validate_transaction_shape(tx) ==
    /\ tx.chain_id # NoData
    /\ is_coinbase(tx) \/ max_priority_fee_per_gas(tx) <= max_fee_per_gas(tx)
    /\ IF is_coinbase(tx) THEN coinbase_shape(tx) ELSE tx.from \in Addresses
    /\ CASE tx.kind \in {"Transfer", "Stake", "Unstake"} -> value_shape(tx)
         [] tx.kind \in {"DeployContract", "CallContract"} -> contract_shape(tx)
         [] tx.kind \in ParameterKinds -> parameter_shape(tx)
         [] tx.kind \in EvmKinds -> evm_shape(tx)
         [] OTHER -> TRUE
=============================================================================

----------------------------- MODULE MCExecution -----------------------------
(***************************************************************************)
(* Small menus of transactions, one group of features each.                *)
(***************************************************************************)
EXTENDS Execution, TLC

alice == <<"alice">>
bob   == <<"bob">>
carol == <<"carol">>

MCBalance == (alice :> 70) @@ (bob :> 70) @@ (carol :> 40)
MCStake == (alice :> 4) @@ (bob :> 5) @@ (carol :> 0)

c1 == contract_address(alice, 0, 1)
t1 == token_address(alice, 0)
e1 == evm_address(alice, 0)
MCNobody == <<>>
MCZero == <<"zero">>
MCAddresses == {alice, bob, carol, ZeroAddress, c1, e1}

MCRejected == {<<"wasm", "spin">>}    \* a loop without a fuel hook

Call(from, input, gas) == call_contract(from, c1, input, 0, gas, 2, 0)
Deploy(name) == deploy_contract(alice, <<"wasm", name>>, 4, 2, 0)
Token(kind, from, params) == with_parameters(kind, from, params, 2, 0)
Evm(kind, to, value, program) == from_evm_raw(kind, alice, to, value, 0, 6, 3, 1, program)
Program(result, gas, value) ==
    [result |-> result, gas |-> gas, slot |-> <<"slot">>, value |-> value]

value_menu ==
    << new(alice, bob, 5, 2, 0), with_fee_caps(new(bob, bob, 3, 2, 0), 3, 1),
       stake(carol, 3, 1, 0), unstake(alice, 4, 2, 0), unstake(bob, 6, 2, 0),
       [Deploy("counter") EXCEPT !.amount = 2], Call(bob, [sel |-> 1], 8),
       [Call(bob, [sel |-> 1], 8) EXCEPT !.amount = 2], Deploy("spin") >>

token_menu ==
    << Token("DeployToken", alice, [valid |-> TRUE, total_supply |-> 3]),
       Token("DeployToken", bob, [valid |-> FALSE, total_supply |-> 3]),
       Token("TokenTransfer", alice, [token |-> t1, recipient |-> bob, amount |-> 2]),
       [Token("TokenApprove", alice, [token |-> t1, spender |-> bob, amount |-> 2])
            EXCEPT !.amount = 1],
       Token("TokenTransferFrom", bob,
             [token |-> t1, from |-> alice, recipient |-> carol, amount |-> 1]),
       Token("TokenTransferFrom", bob,
             [token |-> t1, from |-> alice, recipient |-> alice, amount |-> 2]),
       Token("TokenTransfer", bob, [token |-> t1, recipient |-> carol, amount |-> 1]) >>

governance_menu ==
    LET kind == [type |-> "ParameterChange", parameter |-> "minimum_stake"]
        ballot(choice) == [proposal_id |-> proposal_id(alice, 1, kind), vote |-> choice]
    IN  << Token("SubmitProposal", alice, kind),
           Token("SubmitProposal", bob, [type |-> "ProtocolUpgrade", version |-> 0]),
           Token("GovernanceVote", alice, ballot("For")),
           Token("GovernanceVote", bob, ballot("For")),
           Token("GovernanceVote", bob, ballot("Against")),
           Token("GovernanceVote", carol, ballot("For")),
           stake(carol, 3, 1, 0), stake(bob, 2, 1, 0), unstake(alice, 1, 2, 0) >>

erc20_menu ==
    << Deploy("erc20"),
       Call(alice, [sel |-> 1, to |-> ZeroAddress, amount |-> 3], 12),
       Call(bob, [sel |-> 2, to |-> bob, amount |-> 2], 12),
       Call(bob, [sel |-> 2, to |-> ZeroAddress, amount |-> 1], 12),
       Call(bob, [sel |-> 2, to |-> bob, amount |-> 2], 7),
       Call(bob, [sel |-> 3, to |-> ZeroAddress, amount |-> 1], 12),
       Call(bob, [sel |-> 4, from |-> ZeroAddress, to |-> bob, amount |-> 1], 15) >>

multisig_menu ==
    << Deploy("multisig"),
       Call(alice, [sel |-> 1, owners |-> <<alice, bob>>, threshold |-> 2], 20),
       Call(alice, [sel |-> 2, owner |-> alice, aid |-> "pay", payload |-> Empty], 20),
       Call(bob, [sel |-> 3, owner |-> bob, aid |-> "pay"], 20),
       Call(bob, [sel |-> 3, owner |-> alice, aid |-> "pay"], 20),
       Call(bob, [sel |-> 3, owner |-> bob, aid |-> "pay"], 9),
       Call(bob, [sel |-> 3, owner |-> carol, aid |-> "pay"], 20) >>

vesting_menu ==
    << Deploy("vesting"),
       Call(alice, [sel |-> 1, beneficiary |-> bob, total |-> 5, start |-> 1, duration |-> 3], 20),
       Call(bob, [sel |-> 2, now |-> 2], 20), Call(bob, [sel |-> 2, now |-> 4], 20),
       Call(bob, [sel |-> 2, now |-> 3], 9), Call(bob, [sel |-> 3], 9) >>

nft_menu ==
    << Deploy("nft"),
       Call(alice, [sel |-> 1, to |-> alice, token |-> "n", metadata |-> 7], 12),
       Call(bob, [sel |-> 2, from |-> alice, to |-> bob, token |-> "n"], 12),
       Call(bob, [sel |-> 3, from |-> bob, token |-> "n"], 12),
       Call(bob, [sel |-> 3, from |-> bob, token |-> "n"], 7),
       Call(bob, [sel |-> 1, to |-> bob, token |-> "n", metadata |-> 8], 7) >>

evm_menu ==
    << Evm("DeployEvmContract", NoData, 0, Program("Success", 3, 1)),
       Evm("DeployEvmContract", NoData, 1, Program("Revert", 2, 1)),
       Evm("CallEvmContract", e1, 2, Program("Success", 1, 2)),
       Evm("CallEvmContract", e1, 2, Program("Revert", 2, 3)),
       Evm("CallEvmContract", e1, 0, Program("Success", 7, 3)),
       Evm("CallEvmContract", bob, 1, Program("Success", 1, 2)),
       call_contract(bob, e1, [sel |-> 1], 0, 8, 2, 0) >>

Menu(txs, max_height, max_txs) == [txs |-> txs, max_height |-> max_height, max_txs |-> max_txs]

MCMenus == [ value |-> Menu(value_menu, 2, 4), token |-> Menu(token_menu, 2, 5),
             governance |-> Menu(governance_menu, 4, 4), erc20 |-> Menu(erc20_menu, 2, 5),
             multisig |-> Menu(multisig_menu, 2, 5), vesting |-> Menu(vesting_menu, 2, 5),
             nft |-> Menu(nft_menu, 2, 5), evm |-> Menu(evm_menu, 2, 4) ]
=============================================================================

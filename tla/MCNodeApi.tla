------------------------------ MODULE MCNodeApi ------------------------------
(***************************************************************************)
(* Pools of up to four transactions, a gas budget of twelve, faucet        *)
(* requests of two addresses from two IPs.                                 *)
(***************************************************************************)
EXTENDS NodeApi, TLC

alice  == <<"alice">>
bob    == <<"bob">>
carol  == <<"carol">>
tap    == <<"faucet">>

MCBalance == (alice :> 90) @@ (bob :> 90) @@ (carol :> 99) @@ (tap :> 25)
MCNobody == <<>>
MCZero == <<"zero">>
MCAddresses == {alice, bob, carol, tap}
MCRejected == {}

Pay(from, nonce, max_fee, priority) ==
    with_fee_caps(new(from, carol, 1, 0, nonce), max_fee, priority)
Stake(from, nonce, max_fee, priority) ==
    with_fee_caps(stake(from, 1, 0, nonce), max_fee, priority)
Deploy(from, gas_limit, nonce, max_fee, priority) ==
    with_fee_caps(deploy_contract(from, <<"wasm", "counter">>, gas_limit, 0, nonce),
                  max_fee, priority)

pressure ==
    [ sent |-> << Pay(alice, 0, 4, 2), Stake(alice, 1, 6, 5), Deploy(bob, 4, 0, 5, 4),
                  Deploy(carol, 6, 0, 14, 13), Pay(alice, 0, 7, 5) >>,
      mined |-> <<>>, asked |-> <<>>, max_height |-> 2,
      max_clock |-> 3, max_restarts |-> 1 ]

replaced ==
    [ sent |-> << Pay(alice, 0, 3, 1), Pay(alice, 1, 9, 8), Pay(bob, 0, 4, 3),
                  [Stake(alice, 0, 5, 4) EXCEPT !.timestamp = 1] >>,
      mined |-> << Pay(alice, 0, 6, 2) >>, asked |-> <<>>, max_height |-> 2,
      max_clock |-> 3, max_restarts |-> 1 ]

faucet_only ==
    [ sent |-> <<>>, mined |-> <<>>,
      asked |-> << [addr |-> alice, ip |-> "ip1"], [addr |-> alice, ip |-> "ip2"],
                   [addr |-> bob, ip |-> "ip1"] >>,
      max_height |-> 1, max_clock |-> 3, max_restarts |-> 1 ]

MCScenarios == [pressure |-> pressure, replaced |-> replaced, faucet |-> faucet_only]
==============================================================================

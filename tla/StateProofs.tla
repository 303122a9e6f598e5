---------------------------- MODULE StateProofs ----------------------------
(***************************************************************************)
(* The commitments a light client checks: Merkle roots and proofs          *)
(* (crypto/hash.rs), the two state roots (core/state_root.rs, with the     *)
(* sparse Merkle trie of trie/mod.rs for protocol 6), account and storage  *)
(* proofs (core/state_proof.rs) and their verification (light/mod.rs).     *)
(*                                                                         *)
(* A hash is the tuple of what is hashed, headed by its domain, so that    *)
(* two hashes are equal exactly when their inputs are.  Addresses and      *)
(* storage keys are naturals, in the order their bytes sort.               *)
(***************************************************************************)
EXTENDS Integers, Sequences, SequencesExt, FiniteSets

CONSTANT TrieDepth      \* TRIE_DEPTH, the bits of a key of the sparse trie

NoProof == [address |-> -1]

----------------------------------------------------------------------------
(* crypto/hash.rs *)

merkle_hash_leaf(leaf) == <<"leaf", leaf>>
merkle_hash_node(left, right) == <<"node", left, right>>

(* One round of the loop: an odd last node is paired with itself. *)
next_level(level) ==
    [i \in 1..((Len(level) + 1) \div 2) |->
       merkle_hash_node(level[2 * i - 1],
                        IF 2 * i <= Len(level) THEN level[2 * i] ELSE level[2 * i - 1])]

RECURSIVE root_of_level(_)
root_of_level(level) ==
    IF Len(level) = 1 THEN level[1] ELSE root_of_level(next_level(level))

merkle_root(hashes) ==
    IF hashes = <<>> THEN <<"empty">>
    ELSE root_of_level([i \in DOMAIN hashes |-> merkle_hash_leaf(hashes[i])])

(* Indexes are the code's: they start at 0. *)
RECURSIVE siblings_from(_, _)
siblings_from(level, index) ==
    LET sibling == IF index % 2 = 1 THEN index - 1
                   ELSE IF index + 1 <= Len(level) - 1 THEN index + 1 ELSE Len(level) - 1
    IN  IF Len(level) <= 1 THEN <<>>
        ELSE <<level[sibling + 1]>> \o siblings_from(next_level(level), index \div 2)

merkle_proof(hashes, index) ==
    IF index >= Len(hashes) THEN <<>>
    ELSE siblings_from([i \in DOMAIN hashes |-> merkle_hash_leaf(hashes[i])], index)

RECURSIVE climb(_, _, _)
climb(node, proof, index) ==
    IF proof = <<>> THEN node
    ELSE climb(IF index % 2 = 0 THEN merkle_hash_node(node, proof[1])
               ELSE merkle_hash_node(proof[1], node),
               Tail(proof), index \div 2)

(* Mutant: siblings are combined without regard to the side of the index. *)
verify_merkle_proof_unindexed(leaf_hash, proof, index, root) ==
    climb(merkle_hash_leaf(leaf_hash), proof, 0) = root

verify_merkle_proof(leaf_hash, proof, index, root) ==
    climb(merkle_hash_leaf(leaf_hash), proof, index) = root

----------------------------------------------------------------------------
(* trie/mod.rs: keys are sequences of TrieDepth bits, leaves a function on keys. *)

empty_hash == <<"smt-empty">>
hash_children(left, right) == <<"smt-node", left, right>>
hash_leaf(key, value) == <<"smt-leaf", key, value>>

insert(leaves, key, value) ==
    [k \in DOMAIN leaves \cup {key} |-> IF k = key THEN value ELSE leaves[k]]

(* The hash of the subtree below a prefix: the code folds the levels bottom-up and *)
(* keeps only the nodes that have a leaf; an absent child counts as empty_hash.    *)
RECURSIVE node_hash(_, _)
node_hash(leaves, prefix) ==
    LET below(p) == \E k \in DOMAIN leaves : SubSeq(k, 1, Len(p)) = p
        child(bit) == LET p == Append(prefix, bit)
                      IN  IF below(p) THEN node_hash(leaves, p) ELSE empty_hash
    IN  IF Len(prefix) = TrieDepth THEN hash_leaf(prefix, leaves[prefix])
        ELSE hash_children(child(0), child(1))

compute_root(leaves) ==
    IF DOMAIN leaves = {} THEN empty_hash ELSE node_hash(leaves, <<>>)

----------------------------------------------------------------------------
(* core/state_root.rs: accounts map addresses to account states, contracts map *)
(* addresses to [code, owner, storage].                                         *)

account_leaf_hash(address, state) == <<"account", address, state>>

position(S, x) == Cardinality({y \in S : y < x})

sorted(S) == [i \in 1..Cardinality(S) |-> CHOOSE x \in S : position(S, x) = i - 1]

storage_leaves(storage) ==
    [i \in 1..Cardinality(DOMAIN storage) |->
       LET key == sorted(DOMAIN storage)[i] IN <<"slot", key, storage[key]>>]

contract_storage_root(contract) == merkle_root(storage_leaves(contract.storage))

contract_leaf_hash(address, contract) ==
    <<"contract", address, contract.code, contract.owner, contract_storage_root(contract)>>

(* The accounts in the order of their addresses, then the contracts in theirs. *)
state_leaf_hashes(accounts, contracts) ==
    [i \in 1..Cardinality(DOMAIN accounts) |->
       LET a == sorted(DOMAIN accounts)[i] IN account_leaf_hash(a, accounts[a])]
    \o [i \in 1..Cardinality(DOMAIN contracts) |->
          LET a == sorted(DOMAIN contracts)[i] IN contract_leaf_hash(a, contracts[a])]

compute_v5_merkle(accounts, contracts) ==
    IF DOMAIN accounts = {} /\ DOMAIN contracts = {} THEN <<"empty-state">>
    ELSE merkle_root(state_leaf_hashes(accounts, contracts))

(* The bits of SHA3(kind prefix, address): injective on what the instance uses. *)
trie_key(kind, address) ==
    [i \in 1..TrieDepth |-> ((2 * address + kind) \div (2 ^ (TrieDepth - i))) % 2]

(* Mutant: accounts and contracts share their keys in the trie. *)
compute_v6_smt_one_key(accounts, contracts) ==
    LET keys(kind, S) == {<<trie_key(0, a), kind, a>> : a \in S}
        all == keys(1, DOMAIN contracts)
               \cup {k \in keys(0, DOMAIN accounts) : k[3] \notin DOMAIN contracts}
    IN  compute_root([k \in {e[1] : e \in all} |->
          LET e == CHOOSE x \in all : x[1] = k
          IN  IF e[2] = 0 THEN account_leaf_hash(e[3], accounts[e[3]])
              ELSE contract_leaf_hash(e[3], contracts[e[3]])])

compute_v6_smt(accounts, contracts) ==
    LET with_accounts ==
          FoldSet(LAMBDA a, leaves : insert(leaves, trie_key(0, a), account_leaf_hash(a, accounts[a])),
                  << >>, DOMAIN accounts)
    IN  compute_root(
          FoldSet(LAMBDA a, leaves : insert(leaves, trie_key(1, a), contract_leaf_hash(a, contracts[a])),
                  with_accounts, DOMAIN contracts))

compute_at_protocol(accounts, contracts, protocol_version) ==
    IF protocol_version >= 6 THEN compute_v6_smt(accounts, contracts)
    ELSE compute_v5_merkle(accounts, contracts)

----------------------------------------------------------------------------
(* core/state_proof.rs *)

generate_account_proof(address, accounts, contracts) ==
    LET index == position(DOMAIN accounts, address)
    IN  IF address \notin DOMAIN accounts THEN NoProof
        ELSE [address |-> address, state |-> accounts[address], leaf_index |-> index,
              leaf_hash |-> account_leaf_hash(address, accounts[address]),
              proof |-> merkle_proof(state_leaf_hashes(accounts, contracts), index),
              state_root |-> compute_v5_merkle(accounts, contracts)]

verify_account_proof(proof) ==
    /\ account_leaf_hash(proof.address, proof.state) = proof.leaf_hash
    /\ verify_merkle_proof(proof.leaf_hash, proof.proof, proof.leaf_index, proof.state_root)

generate_storage_proof(address, key, accounts, contracts) ==
    LET contract == contracts[address]
        leaves == storage_leaves(contract.storage)
        slot == position(DOMAIN contract.storage, key)
        index == Cardinality(DOMAIN accounts) + position(DOMAIN contracts, address)
    IN  IF address \notin DOMAIN contracts \/ key \notin DOMAIN contracts[address].storage
        THEN NoProof
        ELSE [address |-> address, code |-> contract.code, owner |-> contract.owner,
              key |-> key, value |-> contract.storage[key],
              storage_leaf_index |-> slot, storage_leaf_hash |-> leaves[slot + 1],
              storage_proof |-> merkle_proof(leaves, slot), storage_root |-> merkle_root(leaves),
              contract_leaf_index |-> index,
              contract_leaf_hash |-> contract_leaf_hash(address, contract),
              contract_proof |-> merkle_proof(state_leaf_hashes(accounts, contracts), index),
              state_root |-> compute_v5_merkle(accounts, contracts)]

verify_storage_proof(proof) ==
    /\ <<"slot", proof.key, proof.value>> = proof.storage_leaf_hash
    /\ verify_merkle_proof(proof.storage_leaf_hash, proof.storage_proof,
                           proof.storage_leaf_index, proof.storage_root)
    /\ <<"contract", proof.address, proof.code, proof.owner, proof.storage_root>>
         = proof.contract_leaf_hash
    /\ verify_merkle_proof(proof.contract_leaf_hash, proof.contract_proof,
                           proof.contract_leaf_index, proof.state_root)
============================================================================

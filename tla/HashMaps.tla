------------------------------ MODULE HashMaps ------------------------------
(***************************************************************************)
(* std::collections::HashMap as a function from the keys it holds.         *)
(***************************************************************************)
EXTENDS Integers

EmptyMap == [x \in {} |-> 0]

(* get(k).unwrap_or(0) of a map of integers *)
get_or_zero(map, k) == IF k \in DOMAIN map THEN map[k] ELSE 0

(* insert(k, v) *)
insert(map, k, v) == [x \in DOMAIN map \cup {k} |-> IF x = k THEN v ELSE map[x]]

(* A loop that inserts the entries of more. *)
extend(map, more) ==
    [x \in DOMAIN map \cup DOMAIN more |-> IF x \in DOMAIN more THEN more[x] ELSE map[x]]
=============================================================================

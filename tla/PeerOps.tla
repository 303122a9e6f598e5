------------------------------ MODULE PeerOps -------------------------------
(***************************************************************************)
(* What a node remembers of its peers (network/mod.rs): the rate limiter,  *)
(* the scores, and the address book with its file.                         *)
(*                                                                         *)
(* A limiter maps peers to [message_timestamps, banned_until,              *)
(* total_violations], a ban of 0 being None; a scorer maps them to         *)
(* [score, last_updated]; a book maps them to [addrs, last_seen_unix].     *)
(***************************************************************************)
EXTENDS Integers, Sequences, FiniteSets

LOCAL INSTANCE SequencesExt
LOCAL INSTANCE FiniteSetsExt
LOCAL INSTANCE Functions

CONSTANTS PEER_RATE_LIMIT_WINDOW_SECS, PEER_MAX_MESSAGES_PER_WINDOW,
          PEER_BAN_DURATION_SECS, PEER_MAX_TRACKED,
          PEER_SCORE_INITIAL, PEER_SCORE_MAX, PEER_SCORE_MIN,
          PEER_SCORE_BAN_THRESHOLD, PEER_SCORE_DECAY_PER_TICK,
          SCORE_VALID_BLOCK, SCORE_VALID_TX, SCORE_INVALID_BLOCK,
          SCORE_INVALID_TX, SCORE_RATE_LIMITED,
          STALE_SCORE_SECS,      \* the 600 s of PeerScorer::cleanup
          PEERSTORE_MAX_PEERS

NoPeers == [p \in {} |-> <<>>]

set(map, k, v) == [x \in DOMAIN map \cup {k} |-> IF x = k THEN v ELSE map[x]]

-----------------------------------------------------------------------------
(* PeerRateLimiter                                                         *)
new_rate_state == [message_timestamps |-> <<>>, banned_until |-> 0, total_violations |-> 0]

RateState(limiter, p) == IF p \in DOMAIN limiter THEN limiter[p] ELSE new_rate_state

Banned(state, now) == now < state.banned_until

(* Mutant: only the messages of this very second count. *)
check_fresh_window(limiter, p, now) ==
    LET state  == RateState(limiter, p)
        recent == SelectSeq(state.message_timestamps, LAMBDA ts : now = ts)
    IN  IF Banned(state, now) THEN [ok |-> FALSE, limiter |-> set(limiter, p, state)]
        ELSE IF Len(recent) >= PEER_MAX_MESSAGES_PER_WINDOW
        THEN [ ok |-> FALSE,
               limiter |-> set(limiter, p,
                   [ message_timestamps |-> recent,
                     total_violations |-> state.total_violations + 1,
                     banned_until |-> now + PEER_BAN_DURATION_SECS * (state.total_violations + 1) ]) ]
        ELSE [ ok |-> TRUE,
               limiter |-> set(limiter, p,
                   [ state EXCEPT !.message_timestamps = Append(recent, now),
                                  !.banned_until = 0 ]) ]

(* A message from p: refused during a ban; one too many in the window      *)
(* starts a ban, longer with every violation.                              *)
check(limiter, p, now) ==
    LET state  == RateState(limiter, p)
        recent == SelectSeq(state.message_timestamps,
                            LAMBDA ts : now - ts <= PEER_RATE_LIMIT_WINDOW_SECS)
    IN  IF Banned(state, now) THEN [ok |-> FALSE, limiter |-> set(limiter, p, state)]
        ELSE IF Len(recent) >= PEER_MAX_MESSAGES_PER_WINDOW
        THEN [ ok |-> FALSE,
               limiter |-> set(limiter, p,
                   [ message_timestamps |-> recent,
                     total_violations |-> state.total_violations + 1,
                     banned_until |-> now + PEER_BAN_DURATION_SECS * (state.total_violations + 1) ]) ]
        ELSE [ ok |-> TRUE,
               limiter |-> set(limiter, p,
                   [ state EXCEPT !.message_timestamps = Append(recent, now),
                                  !.banned_until = 0 ]) ]

(* PeerRateLimiter::cleanup, as the set of its outcomes: which entries     *)
(* beyond the cap go is up to the order of the map, but none that carries  *)
(* a ban.                                                                  *)
limiter_cleanup(limiter, now) ==
    LET active == {p \in DOMAIN limiter :
                      \/ Banned(limiter[p], now)
                      \/ \E ts \in {Last(s) : s \in {limiter[p].message_timestamps} \ {<<>>}} :
                             now - ts < PEER_RATE_LIMIT_WINDOW_SECS * 6}
        excess == Max({0, Cardinality(active) - PEER_MAX_TRACKED})
        loose  == {p \in active : limiter[p].banned_until = 0}
        gone   == {S \in SUBSET loose : Cardinality(S) = Min({excess, Cardinality(loose)})}
    IN  {Restrict(limiter, active \ S) : S \in gone}

-----------------------------------------------------------------------------
(* PeerScorer                                                              *)
ScoreOf(scorer, p) == IF p \in DOMAIN scorer THEN scorer[p].score ELSE PEER_SCORE_INITIAL

record_good(scorer, p, points, now) ==
    set(scorer, p, [ score |-> Min({ScoreOf(scorer, p) + points, PEER_SCORE_MAX}),
                     last_updated |-> now ])

record_bad(scorer, p, points, now) ==
    set(scorer, p, [ score |-> Max({ScoreOf(scorer, p) + points, PEER_SCORE_MIN}),
                     last_updated |-> now ])

should_ban(scorer, p) == ScoreOf(scorer, p) <= PEER_SCORE_BAN_THRESHOLD

decay_scores(scorer) ==
    [p \in DOMAIN scorer |->
        [scorer[p] EXCEPT !.score =
            IF @ > PEER_SCORE_INITIAL THEN Max({@ - PEER_SCORE_DECAY_PER_TICK, PEER_SCORE_INITIAL})
            ELSE Min({@ + PEER_SCORE_DECAY_PER_TICK, PEER_SCORE_INITIAL})]]

scorer_cleanup(scorer, now) ==
    Restrict(scorer, {p \in DOMAIN scorer : \/ now - scorer[p].last_updated < STALE_SCORE_SECS
                                            \/ scorer[p].score <= PEER_SCORE_BAN_THRESHOLD})

(* The gate in front of every message with a known source. *)
admit_message(limiter, scorer, p, now) ==
    LET c == check(limiter, p, now)
    IN  [ ok |-> c.ok /\ ~should_ban(scorer, p), limiter |-> c.limiter,
          scorer |-> IF c.ok THEN scorer ELSE record_bad(scorer, p, SCORE_RATE_LIMITED, now) ]

-----------------------------------------------------------------------------
(* The peerstore                                                           *)

(* persist_peerstore, as the set of its outcomes: the most recently seen   *)
(* peers, up to the cap; peers last seen in the same second in any order.  *)
persist_peerstore(book) ==
    LET kept(S) == /\ Cardinality(S) = Min({Cardinality(DOMAIN book), PEERSTORE_MAX_PEERS})
                   /\ \A p \in S, q \in DOMAIN book \ S :
                          book[p].last_seen_unix >= book[q].last_seen_unix
    IN  {Restrict(book, S) : S \in {T \in SUBSET DOMAIN book : kept(T)}}

(* Mutant: the file is written before the record is stamped. *)
record_peer_addrs_stamp_last(book, file, p, addrs, now) ==
    LET old     == IF p \in DOMAIN book THEN book[p] ELSE [addrs |-> {}, last_seen_unix |-> 0]
        changed == ~(addrs \subseteq old.addrs) \/ p \notin DOMAIN book
        early   == set(book, p, [old EXCEPT !.addrs = @ \cup addrs])
        new     == set(book, p, [addrs |-> old.addrs \cup addrs, last_seen_unix |-> now])
    IN  {[book |-> new, file |-> f] : f \in IF changed THEN persist_peerstore(early) ELSE {file}}

(* record_peer_addrs_from_strings: a record that says something new is     *)
(* written at once.                                                        *)
record_peer_addrs(book, file, p, addrs, now) ==
    LET old     == IF p \in DOMAIN book THEN book[p] ELSE [addrs |-> {}, last_seen_unix |-> 0]
        changed == ~(addrs \subseteq old.addrs) \/ p \notin DOMAIN book
        new     == set(book, p, [addrs |-> old.addrs \cup addrs, last_seen_unix |-> now])
    IN  IF addrs = {} THEN {[book |-> book, file |-> file]}
        ELSE {[book |-> new, file |-> f] : f \in IF changed THEN persist_peerstore(new) ELSE {file}}
=============================================================================

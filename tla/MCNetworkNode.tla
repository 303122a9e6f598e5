--------------------------- MODULE MCNetworkNode ----------------------------
EXTENDS NetworkNode

(* A branch of n blocks with one mark. *)
Branch(mark, n) == [i \in 1..n |-> mark]

Peer(tip, final, goal, last_final) ==
    [tip |-> tip, final |-> final, goal |-> goal, last_final |-> last_final, signs |-> TRUE]

Nobody == [p \in {} |-> <<>>]

Quiet ==
    [ chain |-> <<>>, final |-> <<>>, validator |-> FALSE, peers |-> Nobody,
      flood |-> {}, validity |-> BOOLEAN, learned |-> Nobody,
      max_own |-> 0, max_early |-> 0, max_losses |-> 0, max_cuts |-> 0, max_clock |-> 0,
      max_messages |-> 8, max_restarts |-> 0 ]

(* A node with nothing joins a chain within reach of block requests. *)
ColdStart ==
    [Quiet EXCEPT !.peers = [p \in {"p1"} |-> Peer(Branch("a", 1), <<>>, Branch("a", 3), 0)],
                  !.validator = TRUE, !.max_losses = 1]

(* One that was away too long needs a snapshot, and its tail. *)
LongAway ==
    [Quiet EXCEPT !.peers = [p \in {"p1"} |->
                                Peer(Branch("a", 4), Branch("a", 3), Branch("a", 5), 3)],
                  !.max_losses = 1]

(* A validator on a branch of its own, which its peer finalizes past. *)
Forked ==
    [Quiet EXCEPT !.peers = [p \in {"p1"} |-> Peer(Branch("a", 2), <<>>, Branch("a", 3), 3)],
                  !.chain = Branch("b", 1), !.validator = TRUE]

(* Block requests, gossip and a snapshot race each other. *)
Race ==
    [Quiet EXCEPT !.peers = [p \in {"p1"} |->
                                Peer(Branch("a", 4), Branch("a", 3), Branch("a", 5), 5)],
                  !.chain = Branch("a", 1), !.max_early = 1]

(* Two peers on branches of equal length, with nothing final. *)
TwoSnapshots ==
    [Quiet EXCEPT !.peers = [p \in {"p1", "p2"} |->
                                IF p = "p1" THEN Peer(Branch("a", 3), <<>>, Branch("a", 3), 0)
                                ELSE [Peer(Branch("c", 3), <<>>, Branch("c", 3), 0)
                                         EXCEPT !.signs = FALSE]]]

(* A node that took the snapshot of a peer with nothing final yet, whose   *)
(* tip is final for it since, meets a peer that finalized another branch.  *)
Settled ==
    [Quiet EXCEPT !.peers = [p \in {"p1"} |->
                                Peer(Branch("a", 3), Branch("a", 2), Branch("a", 4), 4)],
                  !.chain = Branch("b", 1), !.final = Branch("b", 1), !.max_early = 1]

(* A validator that loses its connection. *)
CutOff ==
    [Quiet EXCEPT !.peers = [p \in {"p1"} |-> Peer(Branch("a", 1), <<>>, Branch("a", 2), 2)],
                  !.chain = Branch("a", 1), !.validator = TRUE, !.max_cuts = 1, !.max_own = 1]

(* The peers pass an upgrade. *)
Upgrade ==
    [Quiet EXCEPT !.peers = [p \in {"p1"} |->
                                Peer(Branch("a", 5), Branch("a", 4), Branch("a", 7), 0)],
                  !.chain = Branch("a", 4)]

(* Peers that send more than they may. *)
Flood == [Quiet EXCEPT !.flood = {"p1"}, !.max_clock = 5]

(* More peers than the rate limiter keeps track of. *)
Crowd == [Quiet EXCEPT !.flood = {"p1", "p2"}, !.validity = {TRUE},
                       !.max_clock = 2, !.max_messages = 3]

(* More peers than the peerstore holds. *)
Book == [Quiet EXCEPT !.learned = [p \in {"p1", "p2", "p3"} |-> IF p = "p1" THEN {"x", "y"} ELSE {"x"}],
                      !.max_clock = 3, !.max_restarts = 1]

MCScenarios ==
    [ cold |-> ColdStart, away |-> LongAway, forked |-> Forked, race |-> Race,
      two |-> TwoSnapshots, settled |-> Settled, cut |-> CutOff, upgrade |-> Upgrade,
      flood |-> Flood, crowd |-> Crowd, book |-> Book ]

MC_PEER_SCORE_MIN == -2
MC_PEER_SCORE_BAN_THRESHOLD == -1
MC_SCORE_INVALID_BLOCK == -2
MC_SCORE_INVALID_TX == -1
MC_SCORE_RATE_LIMITED == -1

MCCheckpoints == [h \in {} |-> <<>>]
=============================================================================

---------------------------- MODULE NetworkNode -----------------------------
(***************************************************************************)
(* The network loop of one node (run_with_chain) among honest peers: it    *)
(* hears blocks and heights, asks for what it misses, fetches snapshots,   *)
(* gives up waiting and asks again, produces a block when it believes to   *)
(* have caught up, and keeps book of its peers.  Messages are lost,        *)
(* delayed and reordered, never duplicated (gossipsub drops duplicates).   *)
(*                                                                         *)
(* Of a peer only what its answers depend on is kept: its tip, its         *)
(* finalized block and its topic.  The node counts the messages of a peer  *)
(* against the rate limit where a scenario floods it; elsewhere fewer are  *)
(* sent than the limit allows, so that check lets each one pass.           *)
(***************************************************************************)
EXTENDS SyncOps, PeerOps

LOCAL INSTANCE SequencesExt
LOCAL INSTANCE FiniteSetsExt
LOCAL INSTANCE Functions

CONSTANTS Scenarios,  \* name -> what may happen in a behaviour: chain and final,
                      \* what the node starts with; validator, it has a key; peers,
                      \* each with the tip and final it starts with, the goal its
                      \* chain grows to, the last height it finalizes and whether
                      \* it signs; flood, the peers that send transactions, and their
                      \* validity; learned, the addresses of the peers it hears
                      \* of; the bounds max_own, max_early, max_losses, max_cuts,
                      \* max_clock, max_messages and max_restarts
          OwnMark     \* the mark of the blocks of the node

VARIABLES scenario,
          node,
          peers,      \* peer -> [tip, final, topic]
          inbox,      \* messages on their way to the node
          outbox,     \* messages on their way to a peer
          limiter, scorer,
          book, file, \* the peers the node knows, and its peerstore
          clock,
          heard,      \* the times at which messages of a peer were let through
          bans,       \* the bans of a peer: the times they started and end
          used        \* how much of each bound of the scenario is used up

vars == <<scenario, node, peers, inbox, outbox, limiter, scorer, book, file,
          clock, heard, bans, used>>
gates == <<limiter, heard, bans, clock>>
notes == <<book, file>>

Script == Scenarios[scenario]

Init == /\ scenario \in DOMAIN Scenarios
        /\ node = new_node(Script.chain, Script.final, TRUE)
        /\ peers = [p \in DOMAIN Script.peers |->
                       [ tip |-> Script.peers[p].tip, final |-> Script.peers[p].final,
                         topic |-> protocol_version_at_height(Len(Script.peers[p].tip)) ]]
        /\ inbox = {} /\ outbox = {}
        /\ limiter = NoPeers /\ scorer = NoPeers
        /\ book = NoPeers /\ file = NoPeers
        /\ clock = 0
        /\ heard = [p \in Script.flood |-> <<>>] /\ bans = [p \in Script.flood |-> {}]
        /\ used = [own |-> 0, early |-> 0, losses |-> 0, cuts |-> 0, restarts |-> 0]

Bounded(what, limit) == used[what] < limit /\ used' = [used EXCEPT ![what] = @ + 1]

(* The node becomes r.n and sends r.out, to every peer on the topic.       *)
Becomes(r) ==
    /\ node' = r.n
    /\ outbox' = outbox \cup {[dst |-> s[1], body |-> s[2].body] :
                     s \in {t \in (DOMAIN peers) \X r.out : peers[t[1]].topic = t[2].topic}}

-----------------------------------------------------------------------------
(* The peers.                                                              *)
Publish(p, bodies) ==
    inbox' = IF node.linked /\ peers'[p].topic = node.topic
             THEN inbox \cup {[src |-> p, body |-> b] : b \in bodies} ELSE inbox

(* A peer adopts the next block of its chain, and gossips it. *)
PeerExtends(p) ==
    LET next == SubSeq(Script.peers[p].goal, 1, Len(peers[p].tip) + 1)
    IN  /\ peers[p].tip # Script.peers[p].goal
        /\ peers' = [peers EXCEPT ![p].tip = next]
        /\ Publish(p, {[type |-> "NewBlock", block |-> next]})
        /\ UNCHANGED <<scenario, node, outbox, scorer, gates, notes, used>>

PeerFinalizes(p) ==
    /\ Len(peers[p].final) < Len(peers[p].tip)
    /\ Len(peers[p].tip) <= Script.peers[p].last_final
    /\ peers' = [peers EXCEPT ![p].final = peers[p].tip]
    /\ UNCHANGED <<scenario, node, inbox, outbox, scorer, gates, notes, used>>

(* The announce timer of a peer, which is slower than the network. *)
PeerAnnounces(p) ==
    LET version == protocol_version_at_height(Len(peers[p].tip))
    IN  /\ \A m \in inbox : m.src = p => m.body.type # "HeightAnnounce"
        /\ peers' = [peers EXCEPT ![p].topic = version]
        /\ Publish(p, {[ type |-> "HeightAnnounce", tip |-> peers[p].tip,
                         verified |-> Script.peers[p].signs, version |-> version ]})
        /\ UNCHANGED <<scenario, node, outbox, scorer, gates, notes, used>>

(* A peer serves a request.  It keeps its own block at a height where the  *)
(* node produced one.                                                      *)
PeerAnswers(p) ==
    \E m \in outbox :
    /\ m.dst = p
    /\ outbox' = outbox \ {m}
    /\ UNCHANGED peers
    /\ Publish(p, IF m.body.type = "RequestBlocks"
                  THEN handle_block_request(peers[p].tip, peers[p].final, m.body)
                  ELSE IF m.body.type = "RequestSnapshot"
                  THEN handle_snapshot_request(peers[p].tip, peers[p].final, m.body)
                  ELSE {})
    /\ UNCHANGED <<scenario, node, scorer, gates, notes, used>>

-----------------------------------------------------------------------------
(* The messages the node receives.  Those of a peer with too low a score   *)
(* are dropped.                                                            *)
Receives(p, type) ==
    \E m \in inbox :
    /\ m.src = p /\ m.body.type = type
    /\ inbox' = inbox \ {m}
    /\ \E r \in { IF should_ban(scorer, p) THEN silent(node)
                  ELSE IF type = "HeightAnnounce"
                  THEN handle_announce(node, p, m.body.tip, m.body.verified, m.body.version)
                  ELSE IF type = "NewBlock" THEN silent(handle_new_block(node, m.body.block))
                  ELSE IF type = "BlockResponse"
                  THEN silent(handle_block_response(node, m.body.from_height, m.body.blocks))
                  ELSE IF type = "SnapshotManifest" THEN handle_manifest(node, m.body.manifest)
                  ELSE handle_chunk(node, m.body.height, m.body.index, m.body.data) } :
       Becomes(r)
    /\ scorer' = IF type # "NewBlock" \/ should_ban(scorer, p) THEN scorer
                 ELSE IF CanAdd(node, m.body.block)
                 THEN record_good(scorer, p, SCORE_VALID_BLOCK, clock)
                 ELSE record_bad(scorer, p, SCORE_INVALID_BLOCK, clock)
    /\ UNCHANGED <<scenario, peers, gates, notes, used>>

ReceiveAnnounce(p) == Receives(p, "HeightAnnounce")
ReceiveBlock(p) == Receives(p, "NewBlock")
ReceiveBlocks(p) == Receives(p, "BlockResponse")
ReceiveManifest(p) == Receives(p, "SnapshotManifest")
ReceiveChunk(p) == Receives(p, "SnapshotChunk")

(* Votes that made a block final at a peer make it final here. *)
NodeFinalizes ==
    \E p \in DOMAIN peers :
    LET f == peers[p].final
    IN  /\ Len(f) > Len(node.finalized) /\ f \in Range(node.chain)
        /\ node' = [node EXCEPT !.finalized = f]
        /\ UNCHANGED <<scenario, peers, inbox, outbox, scorer, gates, notes, used>>

-----------------------------------------------------------------------------
(* The timers of the node.                                                 *)
Gossip == {"NewBlock", "HeightAnnounce"}

(* The deadline passes while an answer may still come, a bounded number of *)
(* times, or once none is on its way.                                      *)
SyncTimeout ==
    /\ node.sync_deadline
    /\ \/ outbox = {} /\ (\A m \in inbox : m.body.type \in Gossip) /\ UNCHANGED used
       \/ Bounded("early", Script.max_early)
    /\ \E r \in {sync_timeout(node)} : Becomes(r)
    /\ UNCHANGED <<scenario, peers, inbox, scorer, gates, notes>>

(* The block timer up to production: tips that are too old are forgotten   *)
(* (which ones is a matter of time), and the gate decides.  A tick while   *)
(* the mesh settles only looks at the topic.                               *)
Gate(kept) == sync_gate([switch_topic(node) EXCEPT !.tips = Restrict(@, kept)])

GateHolds ==
    /\ Script.validator /\ ~node.sync_requested
    /\ \E kept \in SUBSET DOMAIN node.tips : \E g \in {Gate(kept)} :
           ~g.go /\ Becomes(g)
    /\ UNCHANGED <<scenario, peers, inbox, scorer, gates, notes, used>>

(* The node is a leader of the slot, of rank 0 unless a peer is connected  *)
(* (which the rank itself leaves open).                                    *)
Produce ==
    /\ Script.validator /\ ~node.sync_requested
    /\ Bounded("own", Script.max_own)
    /\ \E kept \in SUBSET DOMAIN node.tips : \E g \in {Gate(kept)} :
           /\ g.go
           /\ \E b \in {Append(latest_hash(g.n), OwnMark)} :
                  Becomes(broadcast_or_queue(add_block(g.n, b), [type |-> "NewBlock", block |-> b]))
    /\ UNCHANGED <<scenario, peers, inbox, scorer, gates, notes>>

(* A tick that finds another leader, an unsettled mesh or a sync going on. *)
BlockTimer ==
    /\ node' = switch_topic(node) /\ node' # node
    /\ UNCHANGED <<scenario, peers, inbox, outbox, scorer, gates, notes, used>>

RebroadcastTimer ==
    /\ node.pending # <<>> /\ node.linked
    /\ Becomes(flush_pending_broadcasts(node))
    /\ UNCHANGED <<scenario, peers, inbox, scorer, gates, notes, used>>

(* The cleanup timer. *)
CleanupTimer ==
    /\ DOMAIN limiter # {} \/ DOMAIN scorer # {}
    /\ limiter' \in limiter_cleanup(limiter, clock)
    /\ scorer' = scorer_cleanup(decay_scores(scorer), clock)
    /\ UNCHANGED <<scenario, node, peers, inbox, outbox, notes, clock, heard, bans, used>>

-----------------------------------------------------------------------------
(* Faults.                                                                 *)
Lose ==
    /\ Bounded("losses", Script.max_losses)
    /\ \/ \E m \in inbox : inbox' = inbox \ {m} /\ UNCHANGED outbox
       \/ \E m \in outbox : outbox' = outbox \ {m} /\ UNCHANGED inbox
    /\ UNCHANGED <<scenario, node, peers, scorer, gates, notes>>

(* ConnectionClosed, of the last connection; what was on its way is lost.  *)
Disconnect ==
    /\ node.linked /\ Bounded("cuts", Script.max_cuts)
    /\ node' = [node EXCEPT !.linked = FALSE, !.tips = Restrict(@, {})]
    /\ inbox' = {} /\ outbox' = {}
    /\ UNCHANGED <<scenario, peers, scorer, gates, notes>>

(* ConnectionEstablished flushes the queue, in vain when the peer has not  *)
(* yet said which topics it follows; then it waits for the timer.          *)
Connect ==
    /\ ~node.linked
    /\ \E known \in BOOLEAN :
           LET met == [node EXCEPT !.linked = TRUE]
           IN  Becomes(IF known THEN flush_pending_broadcasts(met) ELSE silent(met))
    /\ UNCHANGED <<scenario, peers, inbox, scorer, gates, notes, used>>

-----------------------------------------------------------------------------
(* A flood of transactions through the gate of the message handler.        *)
ReceiveTransaction(p, valid) ==
    \E r \in {admit_message(limiter, scorer, p, clock)} :
    /\ Len(heard[p]) < Script.max_messages
    /\ limiter' = r.limiter
    /\ scorer' = IF ~r.ok THEN r.scorer
                 ELSE IF valid THEN record_good(r.scorer, p, SCORE_VALID_TX, clock)
                 ELSE record_bad(r.scorer, p, SCORE_INVALID_TX, clock)
    /\ heard' = IF r.ok THEN [heard EXCEPT ![p] = Append(@, clock)] ELSE heard
    /\ bans' = IF r.limiter[p].banned_until > RateState(limiter, p).banned_until
               THEN [bans EXCEPT ![p] = @ \cup {[from |-> clock, to |-> r.limiter[p].banned_until]}]
               ELSE bans
    /\ UNCHANGED <<scenario, node, peers, inbox, outbox, notes, clock, used>>

(* A peer is learned from a bootnode list, mDNS or an announce. *)
LearnPeer(p, addrs) ==
    /\ \E r \in record_peer_addrs(book, file, p, addrs, clock) :
           book' = r.book /\ file' = r.file
    /\ UNCHANGED <<scenario, node, peers, inbox, outbox, scorer, gates, used>>

(* NetworkNode::new finds the peerstore, whenever the process died.  A     *)
(* file is replaced by a rename, whole or not at all.                      *)
Restart ==
    /\ Bounded("restarts", Script.max_restarts)
    /\ book' = file /\ limiter' = NoPeers /\ scorer' = NoPeers
    /\ heard' = [p \in Script.flood |-> <<>>] /\ bans' = [p \in Script.flood |-> {}]
    /\ UNCHANGED <<scenario, node, peers, inbox, outbox, file, clock>>

Tick ==
    /\ clock < Script.max_clock
    /\ clock' = clock + 1
    /\ UNCHANGED <<scenario, node, peers, inbox, outbox, limiter, scorer, notes,
                   heard, bans, used>>

Next ==
    \/ \E p \in DOMAIN Script.peers :
           \/ PeerExtends(p) \/ PeerFinalizes(p) \/ PeerAnnounces(p) \/ PeerAnswers(p)
           \/ ReceiveAnnounce(p) \/ ReceiveBlock(p) \/ ReceiveBlocks(p)
           \/ ReceiveManifest(p) \/ ReceiveChunk(p)
    \/ NodeFinalizes \/ SyncTimeout \/ GateHolds \/ Produce \/ BlockTimer
    \/ RebroadcastTimer \/ CleanupTimer
    \/ Lose \/ Disconnect \/ Connect \/ Restart \/ Tick
    \/ \E p \in Script.flood, valid \in Script.validity : ReceiveTransaction(p, valid)
    \/ \E p \in DOMAIN Script.learned : \E addrs \in SUBSET Script.learned[p] : LearnPeer(p, addrs)

(* Fairness, said of states: again and again the peers have grown,         *)
(* finalized and announced what they can, nothing is left of a kind of     *)
(* message, and no timer of the node is overdue.                           *)
InFlight(type) == \E m \in inbox : m.body.type = type

PeersAreDone ==
    \A p \in DOMAIN peers :
        /\ peers[p].tip = Script.peers[p].goal
        /\ Len(peers[p].tip) <= Script.peers[p].last_final => peers[p].final = peers[p].tip
        /\ peers[p].topic = protocol_version_at_height(Len(peers[p].tip))

Announced ==
    \/ ~node.linked \/ InFlight("HeightAnnounce")
    \/ \A p \in DOMAIN peers : peers[p].topic # node.topic

Fairness ==
    /\ []<>PeersAreDone
    /\ []<>Announced
    /\ []<>(outbox = {})
    /\ \A type \in {"HeightAnnounce", "BlockResponse", "SnapshotManifest", "SnapshotChunk"} :
           []<>~InFlight(type)
    /\ []<>~(node.sync_deadline /\ outbox = {} /\ \A m \in inbox : m.body.type \in Gossip)
    /\ []<>(node.topic = protocol_version_at_height(height(node)))
    /\ []<>(node.linked /\ node.pending = <<>>)
    /\ WF_vars(CleanupTimer)

Spec == Init /\ [][Next]_vars /\ Fairness

-----------------------------------------------------------------------------
(* The blocks of the node are a chain, each the child of the one before    *)
(* it, whatever the order in which blocks, manifests and chunks of several *)
(* snapshots arrive: apply_snapshot never puts chunks of two snapshots     *)
(* together.                                                               *)
SyncedChainIsLinked ==
    \A h \in DOMAIN node.chain :
        /\ Len(node.chain[h]) = h
        /\ h > 1 => Front(node.chain[h]) = node.chain[h - 1]

(* Whatever snapshot or branch replaces the chain of the node, the block   *)
(* it holds to be final afterwards is on one chain with the block it held  *)
(* to be final before, and is on the chain it has then.                    *)
FinalityIsNeverContradicted ==
    [][ /\ \/ IsPrefix(node.finalized, node'.finalized)
           \/ IsPrefix(node'.finalized, node.finalized)
        /\ node'.finalized # Genesis => node'.finalized \in Range(node'.chain) ]_node

(* The peers have nothing to get the node off its own branch with: their   *)
(* snapshots are no higher than its tip, two of them are of one height and *)
(* differ, they contradict what the node holds to be final, or their topic *)
(* is that of an upgrade the node has not reached.                         *)
Offer(p) == create_snapshot(peers[p].tip, peers[p].final).latest

NothingToOffer ==
    \/ \A p \in DOMAIN peers : peers[p].topic # node.topic
    \/ \A p \in DOMAIN peers : ~IsPrefix(node.finalized, peers[p].tip)
    \/ \A p \in DOMAIN peers : /\ ~IsPrefix(latest_hash(node), peers[p].tip)
                              /\ Len(Offer(p)) <= height(node)
    \/ \E p, q \in DOMAIN peers : Len(Offer(p)) = Len(Offer(q)) /\ Offer(p) # Offer(q)

(* A node ends up on the chain of a peer, whatever it missed, whatever     *)
(* branch it was on, whatever was lost, and however often it gave up on an *)
(* answer, as long as its peers have something to offer: the requests of   *)
(* the announce handler, the sync gate and the timeout, and the answers    *)
(* that end them, leave no node waiting for good.                          *)
CaughtUp == \E p \in DOMAIN peers : IsPrefix(Script.peers[p].goal, latest_hash(node))

NodeCatchesUp == <>[](CaughtUp \/ NothingToOffer)

(* No peer gets messages past the limiter during a ban, nor more than the  *)
(* limit in any window, also when the limiter is cleaned up in between     *)
(* (PeerRateLimiter::check and cleanup); the window of a peer without a    *)
(* ban is only forgotten when more peers are tracked than may be.          *)
PeersAreHeldToTheRate ==
    \A p \in DOMAIN heard :
        /\ \A b \in bans[p], i \in DOMAIN heard[p] : ~(heard[p][i] > b.from /\ heard[p][i] < b.to)
        /\ \/ Cardinality(Script.flood) > PEER_MAX_TRACKED
           \/ \A i \in DOMAIN heard[p] :
                  Cardinality({j \in i..Len(heard[p]) :
                      heard[p][j] - heard[p][i] <= PEER_RATE_LIMIT_WINDOW_SECS})
                  <= PEER_MAX_MESSAGES_PER_WINDOW

(* A restart finds the peers learned last: a peer that is new, or has a    *)
(* new address, is in the peerstore at once, unless that is full of peers  *)
(* seen in the same second (record_peer_addrs_from_strings,                *)
(* persist_peerstore).                                                     *)
PeerstoreKeepsTheNewest ==
    [][ \A p \in DOMAIN book' :
            (p \notin DOMAIN book \/ book'[p].addrs # book[p].addrs) =>
                \/ p \in DOMAIN file'
                \/ \A q \in DOMAIN file' : book'[q].last_seen_unix = clock ]_book
=============================================================================

----------------------- MODULE FinalityTrackerProofs -----------------------
(***************************************************************************)
(* Proofs about FinalityTracker, for any blocks, any snapshots and any     *)
(* votes: its type invariant, one counted vote per validator and height,   *)
(* that finality only advances, that a quorum of the stake of its epoch    *)
(* stands behind the finalized block, and that no block heard to have a    *)
(* quorum is left unfinalized above it.                                    *)
(*                                                                         *)
(* The quorum theorems need more than the tracker's records: the votes it  *)
(* counts were heard (CountedWereHeard), and the stake record_vote adds up *)
(* over the recorded voters is the stake of a set of supporters            *)
(* (VotedStakeIsSum), which grows with the votes.                          *)
(***************************************************************************)
EXTENDS FinalityTracker, FunctionSums, TLAPS

(* The time the provers are given for a leaf. *)
USE SMTT(30), ZenonT(30)

(* TypeOK and OneVotePerHeight of a tracker value, so that they can be     *)
(* stated of the value between the recording of a vote and the prune.      *)
Typed(tr) ==
    /\ tr.votes \in [Blocks -> Seq(Voters)]
    /\ tr.seen_votes \subseteq Voters \X Nat
    /\ tr.finalized_height \in Nat
    /\ tr.finalized_hash \in Blocks \cup {NoBlock}
    /\ tr.finalized_hash # NoBlock =>
           tr.finalized_height = HeightOf[tr.finalized_hash]

KeysAreVotes(tr) ==
    \A k \in tr.seen_votes :
        /\ k[2] > tr.finalized_height
        /\ \E b \in Blocks : /\ HeightOf[b] = k[2]
                             /\ \E i \in DOMAIN tr.votes[b] : tr.votes[b][i] = k[1]

VotesAreKeys(tr) ==
    \A b \in Blocks : \A i \in DOMAIN tr.votes[b] :
        <<tr.votes[b][i], HeightOf[b]>> \in tr.seen_votes

CountedOnce(tr) ==
    \A b, c \in Blocks : \A i \in DOMAIN tr.votes[b], j \in DOMAIN tr.votes[c] :
        (HeightOf[b] = HeightOf[c] /\ tr.votes[b][i] = tr.votes[c][j])
            => b = c /\ i = j

Good(tr) == Typed(tr) /\ KeysAreVotes(tr) /\ VotesAreKeys(tr) /\ CountedOnce(tr)

(* The invariant is the conjunction of the type invariant and the property. *)
LEMMA GoodIsIInv == Good(tracker) <=> TypeOK /\ OneVotePerHeight
BY DEF Good, Typed, KeysAreVotes, VotesAreKeys, CountedOnce, TypeOK, OneVotePerHeight

(* A new tracker satisfies it (FinalityTracker::new). *)
LEMMA InitGood == Init => Good(tracker)
<1> SUFFICES ASSUME Init PROVE Good(tracker)
  OBVIOUS
<1>1. /\ tracker.votes = [b \in Blocks |-> <<>>]
      /\ tracker.seen_votes = {}
      /\ tracker.finalized_height = 0
      /\ tracker.finalized_hash = NoBlock
  BY DEF Init, with_finalized
<1> QED
  BY <1>1 DEF Good, Typed, KeysAreVotes, VotesAreKeys, CountedOnce

(* A vote that counts is one of a validator of its epoch whose key was not *)
(* seen; it is not in its block's list yet, so it is appended.             *)
LEMMA RecordFacts ==
    ASSUME NEW tr, Good(tr), NEW vote \in Votes, NEW e,
           vote.block_height = HeightOf[vote.block_hash],
           e = EpochOf(vote.block_height),
           Counts(tr, vote, e)
    PROVE  /\ vote.voter \in Voters /\ vote.block_hash \in Blocks
           /\ ~Listed(tr, vote)
           /\ Record(tr, vote).votes =
                  [tr.votes EXCEPT ![vote.block_hash] = Append(@, vote.voter)]
           /\ Record(tr, vote).seen_votes =
                  tr.seen_votes \cup {<<vote.voter, vote.block_height>>}
           /\ Record(tr, vote).finalized_height = tr.finalized_height
           /\ Record(tr, vote).finalized_hash = tr.finalized_hash
<1>1. vote.block_hash \in Blocks
  BY VotesAssumption
<1>2. vote.voter \in Voters
  BY <1>1, EpochAssumption DEF Counts, Voters
<1>3. ~Listed(tr, vote)
  BY <1>1 DEF Listed, Counts, Good, VotesAreKeys
<1> QED
  BY <1>1, <1>2, <1>3 DEF Record

(* Recording a vote that counts keeps both parts of the invariant. *)
LEMMA RecordGood ==
    ASSUME NEW tr, Good(tr), NEW vote \in Votes, NEW e,
           vote.block_height = HeightOf[vote.block_hash],
           e = EpochOf(vote.block_height),
           Counts(tr, vote, e)
    PROVE  Good(Record(tr, vote))
<1> DEFINE c == vote.block_hash
           w == vote.voter
           h == vote.block_height
           new == Record(tr, vote)
<1>1. /\ w \in Voters /\ c \in Blocks
      /\ new.votes = [tr.votes EXCEPT ![c] = Append(@, w)]
      /\ new.seen_votes = tr.seen_votes \cup {<<w, h>>}
      /\ new.finalized_height = tr.finalized_height
      /\ new.finalized_hash = tr.finalized_hash
  BY RecordFacts
<1>2. /\ h = HeightOf[c] /\ h \in Nat
      /\ h > tr.finalized_height /\ <<w, h>> \notin tr.seen_votes
  BY VotesAssumption DEF Counts
<1>3. /\ tr.votes \in [Blocks -> Seq(Voters)]
      /\ tr.seen_votes \subseteq Voters \X Nat
  BY DEF Good, Typed
<1> HIDE DEF c, w, h, new
<1>4. Typed(new)
  <2>1. new.votes \in [Blocks -> Seq(Voters)]
    BY <1>1, <1>3
  <2>2. new.seen_votes \subseteq Voters \X Nat
    BY <1>1, <1>2, <1>3
  <2> QED
    BY <1>1, <2>1, <2>2 DEF Good, Typed
<1> DEFINE n == Len(tr.votes[c]) + 1
<1>5. /\ new.votes[c] = Append(tr.votes[c], w)
      /\ \A b \in Blocks : b # c => new.votes[b] = tr.votes[b]
  BY <1>1, <1>3
<1>6. /\ DOMAIN new.votes[c] = DOMAIN tr.votes[c] \cup {n}
      /\ new.votes[c][n] = w
      /\ n \notin DOMAIN tr.votes[c]
      /\ \A i \in DOMAIN tr.votes[c] : new.votes[c][i] = tr.votes[c][i]
  <2>1. tr.votes[c] \in Seq(Voters)
    BY <1>1, <1>3
  <2> QED
    BY <1>1, <1>5, <2>1
<1> HIDE DEF n
<1>7. \A b \in Blocks : \A i \in DOMAIN new.votes[b] :
          \/ i \in DOMAIN tr.votes[b] /\ new.votes[b][i] = tr.votes[b][i]
          \/ b = c /\ i = n /\ new.votes[b][i] = w
  BY <1>5, <1>6
<1>8. KeysAreVotes(new)
  <2> SUFFICES ASSUME NEW k \in new.seen_votes
               PROVE  /\ k[2] > new.finalized_height
                      /\ \E b \in Blocks : /\ HeightOf[b] = k[2]
                                           /\ \E i \in DOMAIN new.votes[b] :
                                                  new.votes[b][i] = k[1]
    BY DEF KeysAreVotes
  <2>1. CASE k \in tr.seen_votes
    <3>1. PICK b \in Blocks : /\ HeightOf[b] = k[2]
                              /\ \E i \in DOMAIN tr.votes[b] :
                                     tr.votes[b][i] = k[1]
      BY <2>1 DEF Good, KeysAreVotes
    <3>2. \E i \in DOMAIN new.votes[b] : new.votes[b][i] = k[1]
      BY <1>5, <1>6, <3>1, ZenonT(30)
    <3>3. k[2] > new.finalized_height
      BY <1>1, <2>1 DEF Good, KeysAreVotes
    <3> QED
      BY <3>1, <3>2, <3>3
  <2>2. CASE k = <<w, h>>
    BY <1>1, <1>2, <1>6, <2>2
  <2> QED
    BY <1>1, <2>1, <2>2
<1>9. VotesAreKeys(new)
  <2> SUFFICES ASSUME NEW b \in Blocks, NEW i \in DOMAIN new.votes[b]
               PROVE  <<new.votes[b][i], HeightOf[b]>> \in new.seen_votes
    BY DEF VotesAreKeys
  <2>1. CASE i \in DOMAIN tr.votes[b] /\ new.votes[b][i] = tr.votes[b][i]
    BY <1>1, <2>1 DEF Good, VotesAreKeys
  <2>2. CASE b = c /\ i = n /\ new.votes[b][i] = w
    BY <1>1, <1>2, <2>2
  <2> QED
    BY <1>7, <2>1, <2>2
<1>10. ASSUME NEW b \in Blocks, NEW d \in Blocks,
              NEW i \in DOMAIN new.votes[b], NEW j \in DOMAIN new.votes[d],
              HeightOf[b] = HeightOf[d],
              new.votes[b][i] = new.votes[d][j]
       PROVE  b = d /\ i = j
  <2>1. ASSUME NEW x \in Blocks, NEW m \in DOMAIN tr.votes[x],
               HeightOf[x] = h
        PROVE  tr.votes[x][m] # w
    BY <1>2, <2>1 DEF Good, VotesAreKeys
  <2>2. CASE /\ i \in DOMAIN tr.votes[b] /\ new.votes[b][i] = tr.votes[b][i]
             /\ j \in DOMAIN tr.votes[d] /\ new.votes[d][j] = tr.votes[d][j]
    <3>1. tr.votes[b][i] = tr.votes[d][j]
      BY <1>10, <2>2, ZenonT(30)
    <3>2. CountedOnce(tr)
      BY DEF Good
    <3> QED
      BY <1>10, <2>2, <3>1, <3>2 DEF CountedOnce
  <2>3. CASE /\ i \in DOMAIN tr.votes[b] /\ new.votes[b][i] = tr.votes[b][i]
             /\ d = c /\ j = n /\ new.votes[d][j] = w
    BY <1>2, <1>10, <2>1, <2>3, ZenonT(30)
  <2>4. CASE /\ j \in DOMAIN tr.votes[d] /\ new.votes[d][j] = tr.votes[d][j]
             /\ b = c /\ i = n /\ new.votes[b][i] = w
    BY <1>2, <1>10, <2>1, <2>4
  <2>5. CASE b = c /\ i = n /\ d = c /\ j = n
    BY <2>5
  <2> QED
    BY <1>7, <2>2, <2>3, <2>4, <2>5
<1>11. CountedOnce(new)
  BY <1>10 DEF CountedOnce
<1> QED
  BY <1>4, <1>8, <1>9, <1>11 DEF Good, new

(* Dropping what is at or below the height of the finalized block keeps    *)
(* keys and votes in step.                                                 *)
LEMMA FinalizeGood ==
    ASSUME NEW tr, Good(tr), NEW b \in Blocks
    PROVE  Good(Finalize(tr, b))
<1> DEFINE new == Finalize(tr, b)
<1>1. /\ new.votes = [x \in Blocks |-> IF HeightOf[x] > HeightOf[b]
                                       THEN tr.votes[x] ELSE <<>>]
      /\ new.seen_votes = {k \in tr.seen_votes : k[2] > HeightOf[b]}
      /\ new.finalized_height = HeightOf[b]
      /\ new.finalized_hash = b
  BY DEF Finalize
<1>2. \A x \in Blocks : HeightOf[x] \in Nat
  BY BlocksAssumption
<1> HIDE DEF new
<1>3. \A x \in Blocks : \A i \in DOMAIN new.votes[x] :
          /\ HeightOf[x] > HeightOf[b] /\ i \in DOMAIN tr.votes[x]
          /\ new.votes[x][i] = tr.votes[x][i]
  BY <1>1
<1>4. Typed(new)
  <2>1. new.votes \in [Blocks -> Seq(Voters)]
    BY <1>1 DEF Good, Typed
  <2> QED
    BY <1>1, <1>2, <2>1 DEF Good, Typed
<1>5. KeysAreVotes(new)
  <2> SUFFICES ASSUME NEW k \in new.seen_votes
               PROVE  /\ k[2] > new.finalized_height
                      /\ \E x \in Blocks : /\ HeightOf[x] = k[2]
                                           /\ \E i \in DOMAIN new.votes[x] :
                                                  new.votes[x][i] = k[1]
    BY DEF KeysAreVotes
  <2>1. k \in tr.seen_votes /\ k[2] > HeightOf[b]
    BY <1>1
  <2>2. PICK x \in Blocks : /\ HeightOf[x] = k[2]
                            /\ \E i \in DOMAIN tr.votes[x] : tr.votes[x][i] = k[1]
    BY <2>1 DEF Good, KeysAreVotes
  <2>3. new.votes[x] = tr.votes[x]
    BY <1>1, <2>1, <2>2
  <2> QED
    BY <1>1, <2>1, <2>2, <2>3
<1>6. VotesAreKeys(new)
  <2> SUFFICES ASSUME NEW x \in Blocks, NEW i \in DOMAIN new.votes[x]
               PROVE  <<new.votes[x][i], HeightOf[x]>> \in new.seen_votes
    BY DEF VotesAreKeys
  <2>1. /\ HeightOf[x] > HeightOf[b] /\ i \in DOMAIN tr.votes[x]
        /\ new.votes[x][i] = tr.votes[x][i]
    BY <1>3
  <2>2. <<tr.votes[x][i], HeightOf[x]>> \in tr.seen_votes
    BY <2>1 DEF Good, VotesAreKeys
  <2> QED
    BY <1>1, <2>1, <2>2
<1>7. CountedOnce(new)
  <2> SUFFICES ASSUME NEW x \in Blocks, NEW y \in Blocks,
                      NEW i \in DOMAIN new.votes[x], NEW j \in DOMAIN new.votes[y],
                      HeightOf[x] = HeightOf[y], new.votes[x][i] = new.votes[y][j]
               PROVE  x = y /\ i = j
    BY DEF CountedOnce
  <2>1. /\ i \in DOMAIN tr.votes[x] /\ new.votes[x][i] = tr.votes[x][i]
        /\ j \in DOMAIN tr.votes[y] /\ new.votes[y][j] = tr.votes[y][j]
    BY <1>3
  <2>2. tr.votes[x][i] = tr.votes[y][j]
    BY <2>1, ZenonT(30)
  <2>3. CountedOnce(tr)
    BY DEF Good
  <2> QED
    BY <2>1, <2>2, <2>3 DEF CountedOnce
<1> QED
  BY <1>4, <1>5, <1>6, <1>7 DEF Good, new

(* add_vote returns the tracker it was given, or the one with the vote     *)
(* recorded, or that one finalized.                                        *)
LEMMA ReceiveVoteGood ==
    ASSUME Good(tracker), NEW vote \in Votes, ReceiveVote(vote)
    PROVE  /\ Good(tracker')
           /\ tracker'.finalized_hash # tracker.finalized_hash =>
                  tracker'.finalized_height > tracker.finalized_height
<1> DEFINE e == EpochOf(vote.block_height)
<1>1. vote.block_height = HeightOf[vote.block_hash] /\ vote.block_hash \in Blocks
  BY VotesAssumption DEF ReceiveVote
<1>2. CASE ~Counts(tracker, vote, e)
  BY <1>2 DEF ReceiveVote, add_vote
<1>3. CASE Counts(tracker, vote, e)
  <2>1. Good(Record(tracker, vote))
    BY <1>1, <1>3, RecordGood
  <2>2. /\ Record(tracker, vote).finalized_hash = tracker.finalized_hash
        /\ Record(tracker, vote).finalized_height = tracker.finalized_height
    BY DEF Record
  <2>3. CASE tracker' = Record(tracker, vote)
    BY <2>1, <2>2, <2>3
  <2>4. CASE tracker' = Finalize(Record(tracker, vote), vote.block_hash)
    <3>1. Good(tracker')
      BY <1>1, <2>1, <2>4, FinalizeGood
    <3>2. tracker'.finalized_height = HeightOf[vote.block_hash]
      BY <2>4 DEF Finalize
    <3> QED
      BY <1>1, <1>3, <3>1, <3>2 DEF Counts
  <2> QED
    BY <1>3, <2>3, <2>4 DEF ReceiveVote, add_vote
<1> QED
  BY <1>2, <1>3

-----------------------------------------------------------------------------
(* The stake of a list of distinct validators of the snapshot, summed once *)
(* per element as add_vote does, is the stake of the set of its elements.  *)
LEMMA VotedStakeIsSum ==
    ASSUME NEW e \in DOMAIN EpochStake, NEW voters \in Seq(DOMAIN EpochStake[e]),
           \A i, j \in DOMAIN voters : voters[i] = voters[j] => i = j
    PROVE  /\ VotedStake(voters, e) =
                  SumFunctionOnSet(EpochStake[e], {voters[i] : i \in DOMAIN voters})
           /\ IsFiniteSet({voters[i] : i \in DOMAIN voters})
           /\ VotedStake(voters, e) \in Nat
<1>1. VotedStake(voters, e) = ListSum(EpochStake[e], voters)
  BY DEF VotedStake, ListSum
<1>2. \A v \in DOMAIN EpochStake[e] : EpochStake[e][v] \in Nat
  BY EpochAssumption
<1> QED
  BY <1>1, <1>2, ListSumIsSum, ZenonT(30)

(* The 2/3 test of add_vote, whose products saturate, is exact. *)
LEMMA QuorumTest ==
    ASSUME NEW e \in DOMAIN EpochStake, NEW voters, VotedStake(voters, e) \in Nat
    PROVE  /\ TotalStake(e) \in Nat
           /\ ReachesQuorum(voters, e) =>
                  TotalStake(e) > 0 /\ 3 * VotedStake(voters, e) >= 2 * TotalStake(e)
<1>1. TotalStake(e) \in Nat
  BY EpochAssumption, SumIsNat DEF TotalStake, SumFunction
<1>2. MaxU64 \in Nat /\ 2 * TotalStake(e) <= MaxU64
  BY EpochAssumption
<1> QED
  BY <1>1, <1>2 DEF ReachesQuorum, saturating_mul

(* The votes a block is counted with were heard, signed and of its epoch.  *)
CountedWereHeard ==
    \A b \in Blocks : \A i \in DOMAIN tracker.votes[b] :
        tracker.votes[b][i] \in Supporters(b, EpochOf(HeightOf[b]))

IInv == Good(tracker) /\ CountedWereHeard /\ QuorumBehindFinality

(* Once a supporter, always one; and the stake of the supporters is a      *)
(* natural that only grows.                                                *)
LEMMA SupportersGrow ==
    ASSUME NEW vote \in Votes, ReceiveVote(vote), NEW b, NEW e \in DOMAIN EpochStake
    PROVE  /\ Supporters(b, e) \subseteq Supporters(b, e)'
           /\ Supporters(b, e)' \subseteq DOMAIN EpochStake[e]
           /\ \A A \in SUBSET Supporters(b, e)' :
                  /\ SumFunctionOnSet(EpochStake[e], A) \in Nat
                  /\ SumFunctionOnSet(EpochStake[e], Supporters(b, e)') \in Nat
                  /\ SumFunctionOnSet(EpochStake[e], A)
                         <= SumFunctionOnSet(EpochStake[e], Supporters(b, e)')
<1> DEFINE w == EpochStake[e]
           new == Supporters(b, e)'
<1>1. Supporters(b, e) \subseteq new /\ new \subseteq DOMAIN w
  BY DEF Supporters, ReceiveVote
<1>2. IsFiniteSet(DOMAIN w) /\ \A v \in DOMAIN w : w[v] \in Nat
  BY EpochAssumption
<1> HIDE DEF w, new
<1>3. IsFiniteSet(new) /\ \A A \in SUBSET new : IsFiniteSet(A)
  BY <1>1, <1>2, FS_Subset
<1>4. ASSUME NEW A \in SUBSET new
      PROVE  /\ SumFunctionOnSet(w, A) \in Nat
             /\ SumFunctionOnSet(w, new) \in Nat
             /\ SumFunctionOnSet(w, A) <= SumFunctionOnSet(w, new)
  <2>1. \A v \in new : w[v] \in Nat
    BY <1>1, <1>2
  <2> QED
    BY <1>3, <2>1, SumIsNat, SumBound
<1> QED
  BY <1>1, <1>4 DEF w, new

(* A vote that counts becomes one of the heard votes for its block. *)
LEMMA RecordWasHeard ==
    ASSUME IInv, NEW vote \in Votes, ReceiveVote(vote),
           Counts(tracker, vote, EpochOf(vote.block_height)),
           NEW b \in Blocks, NEW i \in DOMAIN Record(tracker, vote).votes[b]
    PROVE  Record(tracker, vote).votes[b][i] \in Supporters(b, EpochOf(HeightOf[b]))'
<1> DEFINE e == EpochOf(vote.block_height)
           c == vote.block_hash
           new == Record(tracker, vote)
<1>1. vote.block_height = HeightOf[c] /\ c \in Blocks /\ heard' = heard \cup {vote}
  BY VotesAssumption DEF ReceiveVote
<1>2. /\ new.votes = [tracker.votes EXCEPT ![c] = Append(@, vote.voter)]
      /\ tracker.votes \in [Blocks -> Seq(Voters)]
  BY <1>1, RecordFacts, ZenonT(30) DEF IInv, Good, Typed
<1>3. e \in DOMAIN EpochStake /\ EpochOf(HeightOf[b]) \in DOMAIN EpochStake
  BY <1>1, EpochAssumption
<1>4. \/ i \in DOMAIN tracker.votes[b] /\ new.votes[b][i] = tracker.votes[b][i]
      \/ b = c /\ new.votes[b][i] = vote.voter
  <2> HIDE DEF new, c
  <2>1. tracker.votes[b] \in Seq(Voters) /\ i \in DOMAIN new.votes[b]
    BY <1>2 DEF new
  <2>2. CASE b = c
    <3>1. new.votes[b] = Append(tracker.votes[b], vote.voter)
      BY <1>2, <2>2
    <3> QED
      BY <2>1, <2>2, <3>1
  <2>3. CASE b # c
    BY <1>2, <2>1, <2>3
  <2> QED
    BY <2>2, <2>3
<1>5. CASE i \in DOMAIN tracker.votes[b] /\ new.votes[b][i] = tracker.votes[b][i]
  BY <1>3, <1>5, SupportersGrow DEF IInv, CountedWereHeard
<1>6. CASE b = c /\ new.votes[b][i] = vote.voter
  <2>1. vote.voter \in Supporters(c, e)'
    BY <1>1 DEF Counts, Supporters
  <2> QED
    BY <1>1, <1>6, <2>1
<1> QED
  BY <1>4, <1>5, <1>6

(* Finality that does not move keeps its quorum. *)
LEMMA QuorumStays ==
    ASSUME IInv, NEW vote \in Votes, ReceiveVote(vote),
           tracker'.finalized_hash = tracker.finalized_hash
    PROVE  QuorumBehindFinality'
<1> SUFFICES ASSUME NEW b, b = tracker.finalized_hash, b # NoBlock
             PROVE  LET e == EpochOf(HeightOf[b]) IN
                    /\ TotalStake(e) > 0
                    /\ 3 * SumFunctionOnSet(EpochStake[e], Supporters(b, e)') >= 2 * TotalStake(e)
  BY DEF QuorumBehindFinality
<1> DEFINE e == EpochOf(HeightOf[b])
<1>1. e \in DOMAIN EpochStake
  BY EpochAssumption DEF IInv, Good, Typed
<1>2. /\ TotalStake(e) > 0
      /\ 3 * SumFunctionOnSet(EpochStake[e], Supporters(b, e)) >= 2 * TotalStake(e)
  BY DEF IInv, QuorumBehindFinality
<1>3. TotalStake(e) \in Nat
  BY <1>1, EpochAssumption, SumIsNat DEF TotalStake, SumFunction
<1> HIDE DEF e
<1>4. Supporters(b, e) \in SUBSET Supporters(b, e)'
  BY <1>1, SupportersGrow
<1>5. /\ SumFunctionOnSet(EpochStake[e], Supporters(b, e)) \in Nat
      /\ SumFunctionOnSet(EpochStake[e], Supporters(b, e)') \in Nat
      /\ SumFunctionOnSet(EpochStake[e], Supporters(b, e))
             <= SumFunctionOnSet(EpochStake[e], Supporters(b, e)')
  BY <1>1, <1>4, SupportersGrow
<1> QED
  BY <1>2, <1>3, <1>5 DEF e

(* A block that add_vote finalizes has distinct counted votes with 2/3 of  *)
(* the stake, and all of them were heard.                                  *)
LEMMA QuorumArises ==
    ASSUME IInv, NEW vote \in Votes, ReceiveVote(vote),
           Finalizes(tracker, vote, EpochOf(vote.block_height))
    PROVE  QuorumBehindFinality'
<1> DEFINE b == vote.block_hash
           e == EpochOf(HeightOf[b])
           new == Record(tracker, vote)
           L == new.votes[b]
           w == EpochStake[e]
           A == {L[i] : i \in DOMAIN L}
<1>1. /\ vote.block_height = HeightOf[b] /\ b \in Blocks
      /\ Counts(tracker, vote, e) /\ ReachesQuorum(L, e)
  BY VotesAssumption DEF ReceiveVote, Finalizes
<1>2. tracker'.finalized_hash = b
  BY <1>1 DEF ReceiveVote, add_vote, Finalize
<1>3. e \in DOMAIN EpochStake
  BY <1>1, EpochAssumption
<1>4. \A i \in DOMAIN L : L[i] \in Supporters(b, e)'
  BY <1>1, RecordWasHeard
<1>5. L \in Seq(DOMAIN w) /\ \A i, j \in DOMAIN L : L[i] = L[j] => i = j
  <2>1. Good(new)
    BY <1>1, RecordGood DEF IInv
  <2>2. L \in Seq(Voters)
    BY <1>1, <2>1 DEF Good, Typed
  <2>3. \A i \in DOMAIN L : L[i] \in DOMAIN w
    BY <1>3, <1>4, SupportersGrow
  <2>4. \A i, j \in DOMAIN L : L[i] = L[j] => i = j
    BY <1>1, <2>1 DEF Good, CountedOnce
  <2> HIDE DEF L, w
  <2>5. L \in Seq(DOMAIN w)
    BY <2>2, <2>3
  <2> QED
    BY <2>4, <2>5
<1> HIDE DEF L, w, e, b
<1>6. VotedStake(L, e) = SumFunctionOnSet(w, A) /\ VotedStake(L, e) \in Nat
  BY <1>3, <1>5, VotedStakeIsSum, ZenonT(30) DEF w
<1>7. /\ TotalStake(e) \in Nat /\ TotalStake(e) > 0
      /\ 3 * VotedStake(L, e) >= 2 * TotalStake(e)
  BY <1>1, <1>3, <1>6, QuorumTest
<1>8. A \in SUBSET Supporters(b, e)'
  BY <1>4
<1> HIDE DEF A
<1>9. /\ SumFunctionOnSet(w, Supporters(b, e)') \in Nat
      /\ SumFunctionOnSet(w, A) <= SumFunctionOnSet(w, Supporters(b, e)')
  BY <1>3, <1>8, SupportersGrow DEF w
<1>10. 3 * SumFunctionOnSet(w, Supporters(b, e)') >= 2 * TotalStake(e)
  BY <1>6, <1>7, <1>9
<1> QED
  BY <1>2, <1>7, <1>10 DEF QuorumBehindFinality, w, e

(* add_vote keeps the invariant. *)
LEMMA ReceiveVoteIInv ==
    ASSUME IInv, NEW vote \in Votes, ReceiveVote(vote)
    PROVE  IInv'
<1> DEFINE e == EpochOf(vote.block_height)
           new == Record(tracker, vote)
<1>1. Good(tracker')
  BY ReceiveVoteGood DEF IInv
<1>2. CASE ~Counts(tracker, vote, e)
  <2>1. tracker' = tracker
    BY <1>2 DEF ReceiveVote, add_vote
  <2>2. CountedWereHeard'
    <3> SUFFICES ASSUME NEW b \in Blocks, NEW i \in DOMAIN tracker.votes[b]
                 PROVE  tracker.votes[b][i] \in Supporters(b, EpochOf(HeightOf[b]))'
      BY <2>1 DEF CountedWereHeard
    <3>1. EpochOf(HeightOf[b]) \in DOMAIN EpochStake
      BY EpochAssumption
    <3>2. tracker.votes[b][i] \in Supporters(b, EpochOf(HeightOf[b]))
      BY DEF IInv, CountedWereHeard
    <3> QED
      BY <3>1, <3>2, SupportersGrow
  <2>3. QuorumBehindFinality'
    BY <2>1, QuorumStays
  <2> QED
    BY <1>1, <2>2, <2>3 DEF IInv
<1>3. CASE Counts(tracker, vote, e) /\ ~Finalizes(tracker, vote, e)
  <2>1. tracker' = new
    BY <1>3 DEF ReceiveVote, add_vote
  <2>2. CountedWereHeard'
    BY <1>3, <2>1, RecordWasHeard DEF CountedWereHeard
  <2>3. QuorumBehindFinality'
    BY <2>1, QuorumStays DEF Record
  <2> QED
    BY <1>1, <2>2, <2>3 DEF IInv
<1>4. CASE Counts(tracker, vote, e) /\ Finalizes(tracker, vote, e)
  <2>1. tracker'.votes = [x \in Blocks |-> IF HeightOf[x] > HeightOf[vote.block_hash]
                                           THEN new.votes[x] ELSE <<>>]
    BY <1>4 DEF ReceiveVote, add_vote, Finalize
  <2>2. CountedWereHeard'
    <3> SUFFICES ASSUME NEW b \in Blocks, NEW i \in DOMAIN tracker'.votes[b]
                 PROVE  tracker'.votes[b][i] \in Supporters(b, EpochOf(HeightOf[b]))'
      BY DEF CountedWereHeard
    <3>1. tracker'.votes[b] = new.votes[b]
      BY <2>1
    <3> QED
      BY <1>4, <3>1, RecordWasHeard
  <2>3. QuorumBehindFinality'
    BY <1>4, QuorumArises
  <2> QED
    BY <1>1, <2>2, <2>3 DEF IInv
<1> QED
  BY <1>2, <1>3, <1>4

(* A new tracker has counted and finalized nothing. *)
LEMMA InitIInv == Init => IInv
<1> SUFFICES ASSUME Init PROVE IInv
  OBVIOUS
<1>1. /\ tracker.votes = [b \in Blocks |-> <<>>]
      /\ tracker.finalized_hash = NoBlock
  BY DEF Init, with_finalized
<1> QED
  BY <1>1, InitGood DEF IInv, CountedWereHeard, QuorumBehindFinality

-----------------------------------------------------------------------------
(* The inductive invariant: keys and votes stay in step, every counted     *)
(* vote was heard, and what is final has its quorum.                       *)
THEOREM TrackerInvariant == Spec => []IInv
<1>1. IInv /\ [Next]_vars => IInv'
  <2> SUFFICES ASSUME IInv, [Next]_vars PROVE IInv'
    OBVIOUS
  <2>1. ASSUME NEW vote \in Votes, ReceiveVote(vote) PROVE IInv'
    BY <2>1, ReceiveVoteIInv
  <2>2. CASE UNCHANGED vars
    <3>1. tracker' = tracker /\ heard' = heard
      BY <2>2 DEF vars
    <3>2. Good(tracker')
      BY <3>1, ZenonT(30) DEF IInv
    <3>3. CountedWereHeard' /\ QuorumBehindFinality'
      BY <3>1 DEF IInv, CountedWereHeard, QuorumBehindFinality, Supporters
    <3> QED
      BY <3>2, <3>3, ZenonT(30) DEF IInv
  <2> QED
    BY <2>1, <2>2 DEF Next
<1> QED
  BY <1>1, InitIInv, PTL DEF Spec

(* The tracker is well typed after any votes. *)
THEOREM TrackerTypeOK == Spec => []TypeOK
<1>1. IInv => TypeOK
  BY GoodIsIInv DEF IInv
<1> QED
  BY <1>1, TrackerInvariant, PTL

(* No validator is counted twice at one height, for any votes, any stakes  *)
(* and any order of arrival (add_vote's seen_votes).                       *)
THEOREM TrackerOneVotePerHeight == Spec => []OneVotePerHeight
<1>1. IInv => OneVotePerHeight
  BY GoodIsIInv DEF IInv
<1> QED
  BY <1>1, TrackerInvariant, PTL

(* A finalized block has 2/3 of the stake of its epoch's snapshot behind   *)
(* it, in signed votes of distinct validators that were really heard, for  *)
(* any snapshots and any votes (add_vote's sum and saturating 2/3 test).   *)
THEOREM TrackerQuorumBehindFinality == Spec => []QuorumBehindFinality
<1>1. IInv => QuorumBehindFinality
  BY DEF IInv
<1> QED
  BY <1>1, TrackerInvariant, PTL

(* The finalized block only moves upwards. *)
THEOREM TrackerFinalityAdvances == Spec => FinalityAdvances
<1> DEFINE Step == tracker'.finalized_hash # tracker.finalized_hash =>
                       tracker'.finalized_height > tracker.finalized_height
<1>1. IInv /\ [Next]_vars => [Step]_vars
  BY ReceiveVoteGood DEF IInv, Next
<1> QED
  BY <1>1, TrackerInvariant, PTL DEF Spec, FinalityAdvances

-----------------------------------------------------------------------------
(* An empty list of votes is no quorum. *)
LEMMA NoVotesNoQuorum ==
    ASSUME NEW e \in DOMAIN EpochStake
    PROVE  ~ReachesQuorum(<<>>, e)
<1> DEFINE none == [i \in DOMAIN <<>> |-> IF <<>>[i] \in DOMAIN EpochStake[e]
                                           THEN EpochStake[e][<<>>[i]] ELSE 0]
<1>1. DOMAIN none = {}
  OBVIOUS
<1>2. VotedStake(<<>>, e) = SumFunctionOnSet(none, DOMAIN none)
  BY DEF VotedStake, SumFunction
<1> HIDE DEF none
<1>3. VotedStake(<<>>, e) = 0
  BY <1>1, <1>2, SumEmpty
<1> QED
  BY <1>3, QuorumTest DEF ReachesQuorum

(* The vote that completes a quorum finalizes its block in the same call,  *)
(* so no block is ever left with a quorum of counted votes.                *)
LEMMA ReceiveVoteNoQuorum ==
    ASSUME Good(tracker), NoQuorumLeftBehind, NEW vote \in Votes, ReceiveVote(vote)
    PROVE  NoQuorumLeftBehind'
<1> DEFINE e == EpochOf(vote.block_height)
           c == vote.block_hash
           new == Record(tracker, vote)
<1> SUFFICES ASSUME NEW b \in Blocks
             PROVE  ~ReachesQuorum(tracker'.votes[b], EpochOf(HeightOf[b]))
  BY DEF NoQuorumLeftBehind
<1>1. /\ vote.block_height = HeightOf[c] /\ c \in Blocks
      /\ EpochOf(HeightOf[b]) \in DOMAIN EpochStake
      /\ ~ReachesQuorum(tracker.votes[b], EpochOf(HeightOf[b]))
  BY VotesAssumption, EpochAssumption DEF ReceiveVote, NoQuorumLeftBehind
<1>2. CASE ~Counts(tracker, vote, e)
  BY <1>1, <1>2 DEF ReceiveVote, add_vote
<1>3. ASSUME Counts(tracker, vote, e)
      PROVE  /\ ~Listed(tracker, vote)
             /\ b # c => new.votes[b] = tracker.votes[b]
  <2>1. /\ ~Listed(tracker, vote)
        /\ new.votes = [tracker.votes EXCEPT ![c] = Append(@, vote.voter)]
    BY <1>1, <1>3, RecordFacts
  <2>2. DOMAIN tracker.votes = Blocks
    BY DEF Good, Typed
  <2> QED
    BY <2>1, <2>2
<1>4. CASE Counts(tracker, vote, e) /\ ~Finalizes(tracker, vote, e)
  <2>1. tracker' = new /\ ~ReachesQuorum(new.votes[c], e)
    BY <1>3, <1>4 DEF ReceiveVote, add_vote, Finalizes
  <2> QED
    BY <1>1, <1>3, <1>4, <2>1
<1>5. CASE Counts(tracker, vote, e) /\ Finalizes(tracker, vote, e)
  <2>1. tracker'.votes[b] = IF HeightOf[b] > HeightOf[c] THEN new.votes[b] ELSE <<>>
    BY <1>5 DEF ReceiveVote, add_vote, Finalize
  <2>2. HeightOf[b] > HeightOf[c] => b # c
    BY <1>1, BlocksAssumption
  <2> QED
    BY <1>1, <1>3, <1>5, <2>1, <2>2, NoVotesNoQuorum, ZenonT(30)
<1> QED
  BY <1>2, <1>4, <1>5

(* No quorum of counted votes is ever overlooked, whatever is finalized in *)
(* between (add_vote, and the retain of votes and keys that ends it).      *)
THEOREM TrackerNoQuorumLeftBehind == Spec => []NoQuorumLeftBehind
<1>1. Init => NoQuorumLeftBehind
  <2> SUFFICES ASSUME Init, NEW b \in Blocks
               PROVE  ~ReachesQuorum(tracker.votes[b], EpochOf(HeightOf[b]))
    BY DEF NoQuorumLeftBehind
  <2>1. tracker.votes[b] = <<>>
    BY DEF Init, with_finalized
  <2> QED
    BY <2>1, EpochAssumption, NoVotesNoQuorum
<1>2. IInv /\ NoQuorumLeftBehind /\ [Next]_vars => NoQuorumLeftBehind'
  <2> SUFFICES ASSUME IInv, NoQuorumLeftBehind, [Next]_vars PROVE NoQuorumLeftBehind'
    OBVIOUS
  <2>1. ASSUME NEW vote \in Votes, ReceiveVote(vote) PROVE NoQuorumLeftBehind'
    BY <2>1, ReceiveVoteNoQuorum DEF IInv
  <2>2. CASE UNCHANGED vars
    BY <2>2 DEF vars, NoQuorumLeftBehind
  <2> QED
    BY <2>1, <2>2 DEF Next
<1> QED
  BY <1>1, <1>2, TrackerInvariant, PTL DEF Spec
=============================================================================

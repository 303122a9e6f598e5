-------------------------- MODULE PersistenceWorker --------------------------
(***************************************************************************)
(* Asynchronous persistence of a live node (PersistenceHandle): the chain, *)
(* under its lock, puts full states in a one-place slot and small jobs in  *)
(* a bounded channel; a worker thread writes both to storage; the process  *)
(* may crash between any two storage transactions, or shut down.           *)
(*                                                                         *)
(* Each persisted part is a version number, counting the changes the chain *)
(* made to it: blocks (and the accounts that go with them), the finalized  *)
(* height, the pending transactions.  Evidence is the set of the           *)
(* equivocations slashed.                                                  *)
(***************************************************************************)
EXTENDS Naturals, Sequences

CONSTANTS Capacity,     \* PERSISTENCE_QUEUE_CAPACITY
          NoState,      \* the empty slot
          MaxBlocks, MaxFinalized, MaxPending, MaxEvidence,  \* bounds on versions
          MaxFailures,  \* bound on failing storage transactions
          MaxCrashes    \* bound on crashes

ASSUME CapacityAssumption == Capacity \in Nat \ {0}

States == [ blocks : Nat, finalized : Nat, pending : Nat ]

ASSUME NoStateAssumption == NoState \notin States
ASSUME BoundsAssumption ==
    /\ MaxBlocks \in Nat /\ MaxFinalized \in Nat /\ MaxPending \in Nat
    /\ MaxEvidence \in Nat /\ MaxFailures \in Nat /\ MaxCrashes \in Nat

VARIABLES live,       \* the chain's state in memory
          slot,       \* full_state_slot
          channel,    \* the small-job channel
          producer,   \* where the chain's thread is in its calls
          worker,     \* pc, the job in hand, the full state being written
          disk,       \* storage
          dropped,    \* history: a small job met a full channel
          failures, crashes

vars == <<live, slot, channel, producer, worker, disk, dropped, failures, crashes>>

Signal == [kind |-> "FullStateSignal"]
Shutdown == [kind |-> "Shutdown"]
FinalizedHeight(n) == [kind |-> "FinalizedHeight", value |-> n]
PendingTransactions(n) == [kind |-> "PendingTransactions", value |-> n]
EquivocationEvidence(n) == [kind |-> "EquivocationEvidence", value |-> n]

(* The transactions of write_full_state_to_storage that a restart depends  *)
(* on, in order.                                                           *)
WriteOrder == <<"finalized", "blocks", "pending">>

Idle == [pc |-> "recv", job |-> Signal, state |-> NoState, step |-> 0]

Init ==
    /\ live = [blocks |-> 0, finalized |-> 0, pending |-> 0, slashed |-> {}]
    /\ slot = NoState
    /\ channel = <<>>
    /\ producer = "running"
    /\ worker = Idle
    /\ disk = [blocks |-> 0, finalized |-> 0, pending |-> 0, evidence |-> {}]
    /\ dropped = FALSE
    /\ failures = 0
    /\ crashes = 0

-----------------------------------------------------------------------------
(* The chain's thread.                                                     *)

HasRoom == Len(channel) < Capacity

(* Mutant: a queued job stands for a later one of its kind. *)
try_enqueue_first_wins(job) ==
    /\ channel' = IF ~HasRoom \/ \E i \in DOMAIN channel : channel[i].kind = job.kind
                  THEN channel ELSE Append(channel, job)
    /\ dropped' = (dropped \/ ~HasRoom)

(* try_enqueue: logs and drops on a full queue. *)
try_enqueue(job) ==
    /\ channel' = IF HasRoom THEN Append(channel, job) ELSE channel
    /\ dropped' = (dropped \/ ~HasRoom)

(* add_finality_vote: persist_finalized_height *)
PersistFinalizedHeight ==
    /\ producer = "running"
    /\ live.finalized < MaxFinalized
    /\ live' = [live EXCEPT !.finalized = @ + 1]
    /\ try_enqueue(FinalizedHeight(live.finalized + 1))
    /\ UNCHANGED <<slot, producer, worker, disk, failures, crashes>>

(* persist_pending_transactions *)
PersistPendingTransactions ==
    /\ producer = "running"
    /\ live.pending < MaxPending
    /\ live' = [live EXCEPT !.pending = @ + 1]
    /\ try_enqueue(PendingTransactions(live.pending + 1))
    /\ UNCHANGED <<slot, producer, worker, disk, failures, crashes>>

(* process_equivocation: persist_equivocation, once for each offender. *)
PersistEquivocation ==
    /\ producer = "running"
    /\ \E n \in (1..MaxEvidence) \ live.slashed :
           /\ 1..(n - 1) \subseteq live.slashed
           /\ live' = [live EXCEPT !.slashed = @ \cup {n}]
           /\ try_enqueue(EquivocationEvidence(n))
    /\ UNCHANGED <<slot, producer, worker, disk, failures, crashes>>

(* persist_full_state at an epoch boundary, a reorg or a snapshot:         *)
(* enqueue_full_state replaces the slot ...                                *)
EnqueueFullState ==
    /\ producer = "running"
    /\ live.blocks < MaxBlocks
    /\ live' = [live EXCEPT !.blocks = @ + 1]
    /\ slot' = [ blocks |-> live.blocks + 1, finalized |-> live.finalized,
                 pending |-> live.pending ]
    /\ producer' = "signalling"
    /\ UNCHANGED <<channel, worker, disk, dropped, failures, crashes>>

(* ... and then wakes the worker; a full channel is no concern. *)
SignalWorker ==
    /\ producer = "signalling"
    /\ channel' = IF HasRoom THEN Append(channel, Signal) ELSE channel
    /\ producer' = "running"
    /\ UNCHANGED <<live, slot, worker, disk, dropped, failures, crashes>>

(* Drop of the handle: retry until the Shutdown job fits, or time out on a *)
(* full channel.  Then, or when the join times out, the process may end at *)
(* any time (Crash).                                                       *)
DropHandle ==
    /\ producer = "running"
    /\ channel' = IF HasRoom THEN Append(channel, Shutdown) ELSE channel
    /\ producer' = "dropped"
    /\ UNCHANGED <<live, slot, worker, disk, dropped, failures, crashes>>

-----------------------------------------------------------------------------
(* The worker thread: run_worker.                                          *)

Recv ==
    /\ worker.pc = "recv"
    /\ channel # <<>>
    /\ worker' = [worker EXCEPT !.pc = "drain", !.job = Head(channel)]
    /\ channel' = Tail(channel)
    /\ UNCHANGED <<live, slot, producer, disk, dropped, failures, crashes>>

(* recv fails once the sender is gone and the channel is empty. *)
RecvDisconnected ==
    /\ worker.pc = "recv"
    /\ producer = "dropped"
    /\ channel = <<>>
    /\ worker' = [worker EXCEPT !.pc = "exited"]
    /\ UNCHANGED <<live, slot, channel, producer, disk, dropped, failures, crashes>>

(* Mutant: only the wake-up makes the worker look at the slot. *)
Drain_on_signal ==
    /\ worker.pc = "drain"
    /\ worker' = IF slot = NoState \/ worker.job # Signal THEN [worker EXCEPT !.pc = "job"]
                 ELSE [worker EXCEPT !.pc = "write", !.state = slot, !.step = 1]
    /\ slot' = IF worker.job # Signal THEN slot ELSE NoState
    /\ UNCHANGED <<live, channel, producer, disk, dropped, failures, crashes>>

(* The drain loop takes the slot; on an empty slot it goes on to the job.  *)
Drain ==
    /\ worker.pc = "drain"
    /\ worker' = IF slot = NoState THEN [worker EXCEPT !.pc = "job"]
                 ELSE [worker EXCEPT !.pc = "write", !.state = slot, !.step = 1]
    /\ slot' = NoState
    /\ UNCHANGED <<live, channel, producer, disk, dropped, failures, crashes>>

(* One storage transaction of write_full_state_to_storage. *)
WriteStep ==
    /\ worker.pc = "write"
    /\ disk' = [disk EXCEPT ![WriteOrder[worker.step]] =
                                worker.state[WriteOrder[worker.step]]]
    /\ worker' = IF worker.step < Len(WriteOrder)
                 THEN [worker EXCEPT !.step = @ + 1]
                 ELSE [worker EXCEPT !.pc = "drain", !.state = NoState, !.step = 0]
    /\ UNCHANGED <<live, slot, channel, producer, dropped, failures, crashes>>

(* execute logs an error or a panic; the rest of the state is not written. *)
WriteFails ==
    /\ worker.pc = "write"
    /\ failures < MaxFailures
    /\ worker' = [worker EXCEPT !.pc = "drain", !.state = NoState, !.step = 0]
    /\ failures' = failures + 1
    /\ UNCHANGED <<live, slot, channel, producer, disk, dropped, crashes>>

(* What a small job writes. *)
Written(job) ==
    CASE job.kind = "FinalizedHeight"     -> [disk EXCEPT !.finalized = job.value]
      [] job.kind = "PendingTransactions" -> [disk EXCEPT !.pending = job.value]
      [] job.kind = "EquivocationEvidence" -> [disk EXCEPT !.evidence = @ \cup {job.value}]
      [] OTHER -> disk

(* The job dequeued before the drain.  Shutdown looks at the slot once     *)
(* more before the thread returns.                                         *)
ExecuteJob ==
    /\ worker.pc = "job"
    /\ disk' = Written(worker.job)
    /\ worker' = IF worker.job # Shutdown THEN Idle
                 ELSE [worker EXCEPT !.pc = IF slot = NoState THEN "exited" ELSE "drain"]
    /\ UNCHANGED <<live, slot, channel, producer, dropped, failures, crashes>>

JobFails ==
    /\ worker.pc = "job"
    /\ worker.job \notin {Signal, Shutdown}
    /\ failures < MaxFailures
    /\ worker' = Idle
    /\ failures' = failures + 1
    /\ UNCHANGED <<live, slot, channel, producer, disk, dropped, crashes>>

-----------------------------------------------------------------------------
(* Mutant: the process starts again from genesis. *)
Crash_from_genesis ==
    /\ crashes < MaxCrashes
    /\ live' = [blocks |-> 0, finalized |-> 0, pending |-> 0, slashed |-> {}]
    /\ slot' = NoState /\ channel' = <<>> /\ producer' = "running" /\ worker' = Idle
    /\ dropped' = FALSE /\ crashes' = crashes + 1
    /\ UNCHANGED <<disk, failures>>

(* The process ends, here or between two transactions, and starts again    *)
(* from storage.                                                           *)
Crash ==
    /\ crashes < MaxCrashes
    /\ live' = [ blocks |-> disk.blocks, finalized |-> disk.finalized,
                 pending |-> disk.pending, slashed |-> disk.evidence ]
    /\ slot' = NoState
    /\ channel' = <<>>
    /\ producer' = "running"
    /\ worker' = Idle
    /\ dropped' = FALSE
    /\ crashes' = crashes + 1
    /\ UNCHANGED <<disk, failures>>

Worker == Recv \/ RecvDisconnected \/ Drain \/ WriteStep \/ ExecuteJob

Next == \/ PersistFinalizedHeight \/ PersistPendingTransactions \/ PersistEquivocation
        \/ EnqueueFullState \/ SignalWorker \/ DropHandle
        \/ Worker \/ WriteFails \/ JobFails \/ Crash

Spec == Init /\ [][Next]_vars

(* The worker thread keeps being scheduled, and the chain's thread         *)
(* finishes the call it is in.                                             *)
FairSpec == Spec /\ WF_vars(Worker) /\ WF_vars(SignalWorker)

-----------------------------------------------------------------------------
Jobs == [kind : {"FullStateSignal", "Shutdown"}]
        \cup [ kind : {"FinalizedHeight", "PendingTransactions", "EquivocationEvidence"},
               value : Nat ]

(* Types; the worker holds a full state exactly while it writes one, and   *)
(* the channel never exceeds its capacity.                                 *)
TypeOK ==
    /\ live \in [blocks : Nat, finalized : Nat, pending : Nat, slashed : SUBSET Nat]
    /\ disk \in [blocks : Nat, finalized : Nat, pending : Nat, evidence : SUBSET Nat]
    /\ slot \in States \cup {NoState}
    /\ channel \in Seq(Jobs) /\ Len(channel) <= Capacity
    /\ producer \in {"running", "signalling", "dropped"}
    /\ worker \in [ pc : {"recv", "drain", "write", "job", "exited"}, job : Jobs,
                     state : States \cup {NoState}, step : 0..Len(WriteOrder) ]
    /\ worker.pc = "write" <=> worker.state # NoState
    /\ worker.pc = "write" <=> worker.step # 0
    /\ dropped \in BOOLEAN
    /\ failures \in 0..MaxFailures /\ crashes \in 0..MaxCrashes

(* "the slot is set, and the worker will see it on its next dequeue"       *)
(* (enqueue_full_state): a full state never waits in the slot while the    *)
(* worker sleeps on an empty channel or has returned, although the wake-up *)
(* is a separate step and is dropped when the channel is full.             *)
NoSleepingSlot ==
    slot # NoState => \/ producer = "signalling"
                      \/ worker.pc # "exited" /\ channel # <<>>
                      \/ worker.pc \in {"drain", "write"}

(* Nothing is left to write. *)
Quiescent == /\ worker.pc = "recv" /\ channel = <<>>
             /\ slot = NoState /\ producer = "running"

(* Two paths write the finalized height and the pending transactions, the  *)
(* slot and the channel, and a full state may overtake jobs queued before  *)
(* it.  Still, if no job was dropped and no write failed, storage ends up  *)
(* with what the chain holds.                                              *)
NewestValueWins ==
    (Quiescent /\ ~dropped /\ failures = 0) =>
        /\ disk.blocks = live.blocks
        /\ disk.finalized = live.finalized
        /\ disk.pending = live.pending
        /\ disk.evidence = live.slashed

(* The stored chain never goes back to an older full state, whatever is    *)
(* dropped, fails or crashes.                                              *)
StoredChainNeverOlder == [][disk'.blocks >= disk.blocks]_vars

(* "never silently drops state" (enqueue_full_state): unless a write fails *)
(* or the process crashes, every full state handed over is eventually      *)
(* stored, or a newer one is, also when the channel stays full.            *)
FullStateReachesDisk ==
    \A n \in 1..MaxBlocks :
        (slot # NoState /\ slot.blocks = n)
            ~> (disk.blocks >= n \/ failures > 0 \/ crashes > 0)
=============================================================================

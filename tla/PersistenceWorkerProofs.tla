----------------------- MODULE PersistenceWorkerProofs -----------------------
(***************************************************************************)
(* The hand-over of full states, for every channel capacity.               *)
(*                                                                         *)
(* NoSleepingSlot: no wake-up is lost. It is not inductive by itself: the  *)
(* worker must not have returned when the chain sends its signal. It       *)
(* returns only on a Shutdown job or a closed channel, and both exist only *)
(* once the chain has dropped its handle (ShutdownAfterDrop).              *)
(*                                                                         *)
(* StoredChainNeverOlder: disk, the state being written, the slot and      *)
(* memory hold successively newer blocks (BlocksInOrder), so each write    *)
(* stores a newer chain.                                                   *)
(*                                                                         *)
(* NewestValueWins: as long as no job was dropped and no write failed,     *)
(* what memory holds is on disk or still on its way there (Coming). The    *)
(* finalized height and the pending transactions have two ways to the      *)
(* disk, a job and the full state; the invariant says which one carries    *)
(* the newest value at every point of the worker's loop.                   *)
(***************************************************************************)
EXTENDS PersistenceWorker, TLAPS

(* The time the provers are given for a leaf. *)
USE SMTT(30), ZenonT(30)

(* A Shutdown job, queued or in hand, and a returned worker imply that the *)
(* handle was dropped.                                                     *)
ShutdownAfterDrop ==
    /\ \A i \in 1..Len(channel) : channel[i] = Shutdown => producer = "dropped"
    /\ worker.job = Shutdown => producer = "dropped"
    /\ worker.pc = "exited" => producer = "dropped"

(* The part of TypeOK about the worker. *)
WorkerOK(w) ==
    /\ w \in [ pc : {"recv", "drain", "write", "job", "exited"}, job : Jobs,
               state : States \cup {NoState}, step : 0..3 ]
    /\ w.pc = "write" <=> w.state # NoState
    /\ w.pc = "write" <=> w.step # 0

IInv == TypeOK /\ ShutdownAfterDrop /\ NoSleepingSlot

(* Every job the chain or the worker handles is one. *)
LEMMA JobTypes ==
    /\ Signal \in Jobs /\ Shutdown \in Jobs /\ Signal # Shutdown
    /\ \A n \in Nat : /\ FinalizedHeight(n) \in Jobs /\ FinalizedHeight(n) # Shutdown
                      /\ PendingTransactions(n) \in Jobs /\ PendingTransactions(n) # Shutdown
                      /\ EquivocationEvidence(n) \in Jobs /\ EquivocationEvidence(n) # Shutdown
<1>1. Signal \in Jobs /\ Shutdown \in Jobs /\ Signal.kind # Shutdown.kind
  BY DEF Signal, Shutdown, Jobs
<1>2. ASSUME NEW n \in Nat
      PROVE  /\ FinalizedHeight(n) \in Jobs /\ FinalizedHeight(n).kind # Shutdown.kind
             /\ PendingTransactions(n) \in Jobs /\ PendingTransactions(n).kind # Shutdown.kind
             /\ EquivocationEvidence(n) \in Jobs /\ EquivocationEvidence(n).kind # Shutdown.kind
  BY DEF FinalizedHeight, PendingTransactions, EquivocationEvidence, Shutdown, Jobs
<1> QED
  BY <1>1, <1>2

(* The idle worker is a worker. *)
LEMMA IdleType ==
    /\ Idle \in [ pc : {"recv", "drain", "write", "job", "exited"}, job : Jobs,
                  state : States \cup {NoState}, step : 0..Len(WriteOrder) ]
    /\ Idle.pc = "recv" /\ Idle.job = Signal /\ Idle.state = NoState /\ Idle.step = 0
<1> QED
  BY JobTypes DEF Idle, WriteOrder

(* Sending a job, when there is room, keeps the channel a bounded sequence *)
(* of jobs, never empties it, and adds no other job.                       *)
LEMMA SendFacts ==
    ASSUME NEW c \in Seq(Jobs), NEW job \in Jobs, NEW d, Len(c) <= Capacity,
           d = IF Len(c) < Capacity THEN Append(c, job) ELSE c
    PROVE  /\ d \in Seq(Jobs) /\ Len(d) <= Capacity
           /\ d # <<>>
           /\ \A i \in 1..Len(d) : d[i] = job \/ \E j \in 1..Len(c) : d[i] = c[j]
<1>1. CASE Len(c) < Capacity
  <2>1. d = Append(c, job)
    BY <1>1
  <2>2. d \in Seq(Jobs) /\ Len(d) = Len(c) + 1
    BY <2>1
  <2>3. \A i \in 1..Len(d) : d[i] = IF i = Len(c) + 1 THEN job ELSE c[i]
    BY <2>1, <2>2
  <2> QED
    BY <1>1, <2>2, <2>3, CapacityAssumption
<1>2. CASE ~(Len(c) < Capacity)
  <2>1. d = c /\ Len(c) > 0
    BY <1>2, CapacityAssumption
  <2> QED
    BY <2>1
<1> QED
  BY <1>1, <1>2

(* A worker that starts to write a full state, or has written one. *)
LEMMA StartWrite ==
    ASSUME NEW w, WorkerOK(w), NEW s \in States,
           NEW x, x = [w EXCEPT !.pc = "write", !.state = s, !.step = 1]
    PROVE  WorkerOK(x) /\ x.pc = "write" /\ x.job = w.job
<1>1. x = [pc |-> "write", job |-> w.job, state |-> s, step |-> 1] /\ w.job \in Jobs
  BY ZenonT(30) DEF WorkerOK
<1> QED
  BY <1>1, NoStateAssumption DEF WorkerOK

(* A worker that ends a write, or gives it up, is well typed. *)
LEMMA EndWrite ==
    ASSUME NEW w, WorkerOK(w),
           NEW x, x = [w EXCEPT !.pc = "drain", !.state = NoState, !.step = 0]
    PROVE  WorkerOK(x) /\ x.pc = "drain" /\ x.job = w.job
<1>1. x = [pc |-> "drain", job |-> w.job, state |-> NoState, step |-> 0] /\ w.job \in Jobs
  BY ZenonT(30) DEF WorkerOK
<1> QED
  BY <1>1 DEF WorkerOK

(* TypeOK says of the worker what WorkerOK says. *)
LEMMA WorkerTypes == TypeOK => WorkerOK(worker)
<1> QED
  BY DEF TypeOK, WorkerOK, WriteOrder

(* A step that changes only the worker, the slot, the disk or the failures *)
(* keeps TypeOK if it keeps their types.                                   *)
LEMMA WorkerStepTypes ==
    ASSUME TypeOK, WorkerOK(worker'), slot' \in States \cup {NoState},
           failures' \in 0..MaxFailures,
           disk' \in [blocks : Nat, finalized : Nat, pending : Nat, evidence : SUBSET Nat],
           UNCHANGED <<live, channel, producer, dropped, crashes>>
    PROVE  TypeOK'
<1> QED
  BY DEF TypeOK, WorkerOK, WriteOrder

(* Initially nothing is queued and the worker waits. *)
LEMMA InitIInv == Init => IInv
<1> SUFFICES ASSUME Init PROVE IInv
  OBVIOUS
<1>1. TypeOK
  <2>1. /\ live \in [blocks : Nat, finalized : Nat, pending : Nat, slashed : SUBSET Nat]
        /\ disk \in [blocks : Nat, finalized : Nat, pending : Nat, evidence : SUBSET Nat]
        /\ slot \in States \cup {NoState}
    BY DEF Init, States
  <2>2. channel \in Seq(Jobs) /\ Len(channel) <= Capacity
    BY CapacityAssumption DEF Init
  <2>3. /\ worker \in [ pc : {"recv", "drain", "write", "job", "exited"}, job : Jobs,
                         state : States \cup {NoState}, step : 0..Len(WriteOrder) ]
        /\ worker.pc # "write" /\ worker.state = NoState /\ worker.step = 0
    BY IdleType DEF Init
  <2>4. failures \in 0..MaxFailures /\ crashes \in 0..MaxCrashes
    BY BoundsAssumption DEF Init
  <2>5. producer \in {"running", "signalling", "dropped"} /\ dropped \in BOOLEAN
    BY Zenon DEF Init
  <2> QED
    BY <2>1, <2>2, <2>3, <2>4, <2>5 DEF TypeOK
<1>2. ShutdownAfterDrop
  BY IdleType, JobTypes DEF Init, ShutdownAfterDrop
<1>3. NoSleepingSlot
  BY DEF Init, NoSleepingSlot
<1> QED
  BY <1>1, <1>2, <1>3 DEF IInv

(* What every send of a small job (try_enqueue) preserves. *)
LEMMA SmallJobIInv ==
    ASSUME IInv, NEW job \in Jobs, job # Shutdown,
           live' \in [blocks : Nat, finalized : Nat, pending : Nat, slashed : SUBSET Nat],
           try_enqueue(job),
           UNCHANGED <<slot, producer, worker, disk, failures, crashes>>
    PROVE  IInv'
<1>1. /\ channel' \in Seq(Jobs) /\ Len(channel') <= Capacity
      /\ channel' # <<>>
      /\ \A i \in 1..Len(channel') :
             channel'[i] = job \/ \E j \in 1..Len(channel) : channel'[i] = channel[j]
  <2>1. channel \in Seq(Jobs) /\ Len(channel) <= Capacity
    BY DEF IInv, TypeOK
  <2>2. channel' = IF Len(channel) < Capacity THEN Append(channel, job) ELSE channel
    BY DEF try_enqueue, HasRoom
  <2> QED
    BY <2>1, <2>2, SendFacts
<1>2. TypeOK'
  BY <1>1 DEF IInv, TypeOK, try_enqueue
<1>3. ShutdownAfterDrop'
  BY <1>1 DEF IInv, ShutdownAfterDrop
<1>4. NoSleepingSlot'
  BY <1>1 DEF IInv, NoSleepingSlot
<1> QED
  BY <1>2, <1>3, <1>4 DEF IInv

(* Every step keeps IInv. *)
LEMMA NextIInv == IInv /\ [Next]_vars => IInv'
<1> SUFFICES ASSUME IInv, [Next]_vars PROVE IInv'
  OBVIOUS
<1> USE DEF IInv
<1>1. CASE PersistFinalizedHeight
  <2>1. live.finalized + 1 \in Nat
    BY DEF TypeOK
  <2>2. live' \in [blocks : Nat, finalized : Nat, pending : Nat, slashed : SUBSET Nat]
    <3>1. live' = [live EXCEPT !.finalized = live.finalized + 1]
      BY <1>1 DEF PersistFinalizedHeight
    <3> QED
      BY <3>1, <2>1 DEF TypeOK
  <2> QED
    BY <1>1, <2>1, <2>2, JobTypes, SmallJobIInv DEF PersistFinalizedHeight
<1>2. CASE PersistPendingTransactions
  <2>1. live.pending + 1 \in Nat
    BY DEF TypeOK
  <2>2. live' \in [blocks : Nat, finalized : Nat, pending : Nat, slashed : SUBSET Nat]
    <3>1. live' = [live EXCEPT !.pending = live.pending + 1]
      BY <1>2 DEF PersistPendingTransactions
    <3> QED
      BY <3>1, <2>1 DEF TypeOK
  <2> QED
    BY <1>2, <2>1, <2>2, JobTypes, SmallJobIInv DEF PersistPendingTransactions
<1>3. CASE PersistEquivocation
  <2>1. PICK n \in 1..MaxEvidence : /\ live' = [live EXCEPT !.slashed = @ \cup {n}]
                                    /\ try_enqueue(EquivocationEvidence(n))
    BY <1>3, ZenonT(30) DEF PersistEquivocation
  <2>2. n \in Nat
    BY BoundsAssumption
  <2>3. live' \in [blocks : Nat, finalized : Nat, pending : Nat, slashed : SUBSET Nat]
    BY <2>1, <2>2 DEF TypeOK
  <2> QED
    BY <1>3, <2>1, <2>2, <2>3, JobTypes, SmallJobIInv DEF PersistEquivocation
<1>4. CASE EnqueueFullState
  <2>1. TypeOK'
    <3>1. live.blocks + 1 \in Nat /\ live.finalized \in Nat /\ live.pending \in Nat
      BY DEF TypeOK
    <3>2. live' = [live EXCEPT !.blocks = live.blocks + 1]
      BY <1>4 DEF EnqueueFullState
    <3>3. live' \in [blocks : Nat, finalized : Nat, pending : Nat, slashed : SUBSET Nat]
      BY <3>1, <3>2, ZenonT(30) DEF TypeOK
    <3>4. slot' \in States
      BY <1>4, <3>1 DEF EnqueueFullState, States
    <3> QED
      BY <1>4, <3>3, <3>4, ZenonT(30) DEF EnqueueFullState, TypeOK
  <2>2. ShutdownAfterDrop'
    BY <1>4 DEF EnqueueFullState, ShutdownAfterDrop
  <2>3. NoSleepingSlot'
    BY <1>4 DEF EnqueueFullState, NoSleepingSlot
  <2> QED
    BY <2>1, <2>2, <2>3
<1>5. CASE SignalWorker
  <2>1. /\ channel' \in Seq(Jobs) /\ Len(channel') <= Capacity
        /\ channel' # <<>>
        /\ \A i \in 1..Len(channel') :
               channel'[i] = Signal \/ \E j \in 1..Len(channel) : channel'[i] = channel[j]
    BY <1>5, SendFacts, JobTypes DEF SignalWorker, HasRoom, TypeOK
  <2>2. TypeOK'
    BY <1>5, <2>1 DEF SignalWorker, TypeOK
  <2>3. ShutdownAfterDrop'
    BY <1>5, <2>1, JobTypes DEF SignalWorker, ShutdownAfterDrop
  <2>4. NoSleepingSlot'
    BY <1>5, <2>1 DEF SignalWorker, NoSleepingSlot, ShutdownAfterDrop
  <2> QED
    BY <2>2, <2>3, <2>4
<1>6. CASE DropHandle
  <2>1. /\ channel' \in Seq(Jobs) /\ Len(channel') <= Capacity
        /\ channel' # <<>>
    BY <1>6, SendFacts, JobTypes DEF DropHandle, HasRoom, TypeOK
  <2>2. TypeOK'
    BY <1>6, <2>1 DEF DropHandle, TypeOK
  <2>3. ShutdownAfterDrop'
    BY <1>6 DEF DropHandle, ShutdownAfterDrop
  <2>4. NoSleepingSlot'
    BY <1>6, <2>1 DEF DropHandle, NoSleepingSlot, ShutdownAfterDrop
  <2> QED
    BY <2>2, <2>3, <2>4
<1>7. CASE Recv
  <2>1. /\ Head(channel) = channel[1] /\ Head(channel) \in Jobs
        /\ channel' \in Seq(Jobs) /\ Len(channel') = Len(channel) - 1
        /\ \A i \in 1..Len(channel') : i + 1 \in 1..Len(channel) /\ channel'[i] = channel[i + 1]
    BY <1>7 DEF Recv, TypeOK
  <2>2. Len(channel) > 0
    BY <1>7 DEF Recv, TypeOK
  <2>3. TypeOK'
    <3>1. WorkerOK(worker')
      BY <1>7, <2>1, WorkerTypes, ZenonT(30) DEF Recv, WorkerOK
    <3>2. Len(channel') <= Capacity
      BY <2>1, CapacityAssumption DEF TypeOK
    <3> QED
      BY <1>7, <2>1, <3>1, <3>2 DEF Recv, TypeOK, WorkerOK, WriteOrder
  <2>4. ShutdownAfterDrop'
    BY <1>7, <2>1, <2>2 DEF Recv, ShutdownAfterDrop, TypeOK
  <2>5. NoSleepingSlot'
    BY <1>7 DEF Recv, NoSleepingSlot, TypeOK
  <2> QED
    BY <2>3, <2>4, <2>5
<1>8. CASE RecvDisconnected
  <2>1. TypeOK'
    <3>1. WorkerOK(worker')
      BY <1>8, WorkerTypes DEF RecvDisconnected, WorkerOK
    <3>2. slot' \in States \cup {NoState} /\ failures' \in 0..MaxFailures
      BY <1>8 DEF RecvDisconnected, TypeOK
    <3> QED
      BY <1>8, <3>1, <3>2, WorkerStepTypes DEF RecvDisconnected, TypeOK
  <2>2. ShutdownAfterDrop'
    BY <1>8 DEF RecvDisconnected, ShutdownAfterDrop, TypeOK
  <2>3. NoSleepingSlot'
    BY <1>8 DEF RecvDisconnected, NoSleepingSlot, TypeOK
  <2> QED
    BY <2>1, <2>2, <2>3
<1>9. CASE Drain
  <2>1. TypeOK'
    <3>1. WorkerOK(worker')
      <4>1. CASE slot = NoState
        BY <1>9, <4>1, WorkerTypes DEF Drain, WorkerOK
      <4>2. CASE slot # NoState
        <5>1. slot \in States
          BY <4>2 DEF TypeOK
        <5>2. worker' = [worker EXCEPT !.pc = "write", !.state = slot, !.step = 1]
          BY <1>9, <4>2 DEF Drain
        <5> QED
          BY <5>1, <5>2, WorkerTypes, StartWrite, ZenonT(30)
      <4> QED
        BY <4>1, <4>2
    <3>2. slot' \in States \cup {NoState} /\ failures' \in 0..MaxFailures
      BY <1>9 DEF Drain, TypeOK
    <3> QED
      BY <1>9, <3>1, <3>2, WorkerStepTypes DEF Drain, TypeOK
  <2>2. ShutdownAfterDrop'
    BY <1>9 DEF Drain, ShutdownAfterDrop, TypeOK
  <2>3. NoSleepingSlot'
    BY <1>9 DEF Drain, NoSleepingSlot
  <2> QED
    BY <2>1, <2>2, <2>3
<1>10. CASE WriteStep
  <2>1. TypeOK'
    <3>1. WorkerOK(worker')
      <4>1. CASE worker.step < Len(WriteOrder)
        BY <1>10, <4>1, WorkerTypes DEF WriteStep, WorkerOK, WriteOrder
      <4>2. CASE ~(worker.step < Len(WriteOrder))
        <5>1. worker' = [worker EXCEPT !.pc = "drain", !.state = NoState, !.step = 0]
          BY <1>10, <4>2 DEF WriteStep
        <5> QED
          BY <5>1, WorkerTypes, EndWrite, ZenonT(30)
      <4> QED
        BY <4>1, <4>2
    <3>2. slot' \in States \cup {NoState} /\ failures' \in 0..MaxFailures
      BY <1>10 DEF WriteStep, TypeOK
    <3>3. worker.state \in States /\ worker.step \in 1..3
      BY <1>10, WorkerTypes DEF WriteStep, WorkerOK
    <3>4. disk' \in [blocks : Nat, finalized : Nat, pending : Nat, evidence : SUBSET Nat]
      <4> DEFINE f == WriteOrder[worker.step]
      <4>1. f \in {"finalized", "blocks", "pending"}
        BY <3>3 DEF WriteOrder
      <4>2. worker.state[f] \in Nat
        BY <3>3, <4>1 DEF States
      <4>3. disk' = [disk EXCEPT ![f] = worker.state[f]]
        BY <1>10 DEF WriteStep
      <4> HIDE DEF f
      <4> QED
        BY <4>1, <4>2, <4>3, ZenonT(30) DEF TypeOK
    <3> QED
      BY <1>10, <3>1, <3>2, <3>4, WorkerStepTypes DEF WriteStep
  <2>2. ShutdownAfterDrop'
    BY <1>10 DEF WriteStep, ShutdownAfterDrop, TypeOK
  <2>3. NoSleepingSlot'
    BY <1>10 DEF WriteStep, NoSleepingSlot, TypeOK
  <2> QED
    BY <2>1, <2>2, <2>3
<1>11. CASE WriteFails
  <2>1. TypeOK'
    <3>1. WorkerOK(worker')
      <4>1. worker' = [worker EXCEPT !.pc = "drain", !.state = NoState, !.step = 0]
        BY <1>11 DEF WriteFails
      <4> QED
        BY <4>1, WorkerTypes, EndWrite, ZenonT(30)
    <3>2. slot' \in States \cup {NoState} /\ failures' \in 0..MaxFailures
      <4>1. failures \in 0..MaxFailures /\ failures < MaxFailures /\ failures' = failures + 1
        BY <1>11 DEF WriteFails, TypeOK
      <4>2. slot' \in States \cup {NoState}
        BY <1>11 DEF WriteFails, TypeOK
      <4> QED
        BY <4>1, <4>2, BoundsAssumption
    <3> QED
      BY <1>11, <3>1, <3>2, WorkerStepTypes DEF WriteFails, TypeOK
  <2>2. ShutdownAfterDrop'
    BY <1>11 DEF WriteFails, ShutdownAfterDrop, TypeOK
  <2>3. NoSleepingSlot'
    BY <1>11 DEF WriteFails, NoSleepingSlot, TypeOK
  <2> QED
    BY <2>1, <2>2, <2>3
<1>12. CASE ExecuteJob
  <2>1. disk' \in [blocks : Nat, finalized : Nat, pending : Nat, evidence : SUBSET Nat]
    BY <1>12 DEF ExecuteJob, Written, TypeOK, Jobs
  <2>2. TypeOK'
    <3>1. WorkerOK(worker')
      BY <1>12, WorkerTypes, IdleType DEF ExecuteJob, WorkerOK, WriteOrder
    <3>2. slot' \in States \cup {NoState} /\ failures' \in 0..MaxFailures
      BY <1>12 DEF ExecuteJob, TypeOK
    <3> QED
      BY <1>12, <2>1, <3>1, <3>2, WorkerStepTypes DEF ExecuteJob, TypeOK
  <2>3. ShutdownAfterDrop'
    BY <1>12, IdleType, JobTypes DEF ExecuteJob, ShutdownAfterDrop, TypeOK
  <2>4. NoSleepingSlot'
    BY <1>12, IdleType DEF ExecuteJob, NoSleepingSlot, TypeOK
  <2> QED
    BY <2>2, <2>3, <2>4
<1>13. CASE JobFails
  <2>1. TypeOK'
    <3>1. WorkerOK(worker')
      BY <1>13, IdleType DEF JobFails, WorkerOK, WriteOrder
    <3>2. slot' \in States \cup {NoState} /\ failures' \in 0..MaxFailures
      BY <1>13, BoundsAssumption DEF JobFails, TypeOK
    <3> QED
      BY <1>13, <3>1, <3>2, WorkerStepTypes DEF JobFails, TypeOK
  <2>2. ShutdownAfterDrop'
    BY <1>13, IdleType, JobTypes DEF JobFails, ShutdownAfterDrop
  <2>3. NoSleepingSlot'
    BY <1>13, IdleType DEF JobFails, NoSleepingSlot
  <2> QED
    BY <2>1, <2>2, <2>3
<1>14. CASE Crash
  <2>1. TypeOK'
    <3>1. live' \in [blocks : Nat, finalized : Nat, pending : Nat, slashed : SUBSET Nat]
      BY <1>14 DEF Crash, TypeOK
    <3>2. channel' \in Seq(Jobs) /\ Len(channel') <= Capacity
      BY <1>14, CapacityAssumption DEF Crash
    <3>3. WorkerOK(worker')
      BY <1>14, IdleType DEF Crash, WorkerOK, WriteOrder
    <3>4. crashes' \in 0..MaxCrashes /\ producer' \in {"running", "signalling", "dropped"}
      BY <1>14, BoundsAssumption DEF Crash, TypeOK
    <3>5. dropped' \in BOOLEAN
      BY <1>14, Zenon DEF Crash
    <3> QED
      BY <1>14, <3>1, <3>2, <3>3, <3>4, <3>5 DEF Crash, TypeOK, WorkerOK, WriteOrder
  <2>2. ShutdownAfterDrop'
    BY <1>14, IdleType, JobTypes DEF Crash, ShutdownAfterDrop
  <2>3. NoSleepingSlot'
    BY <1>14 DEF Crash, NoSleepingSlot
  <2> QED
    BY <2>1, <2>2, <2>3
<1>15. CASE UNCHANGED vars
  BY <1>15 DEF vars, TypeOK, ShutdownAfterDrop, NoSleepingSlot
<1> QED
  BY <1>1, <1>2, <1>3, <1>4, <1>5, <1>6, <1>7, <1>8, <1>9, <1>10, <1>11, <1>12,
     <1>13, <1>14, <1>15 DEF Next, Worker

(* The inductive invariant holds in every reachable state. *)
THEOREM WorkerInvariant == Spec => []IInv
  BY InitIInv, NextIInv, PTL DEF Spec

(* Types of the hand-over between the chain and run_worker. *)
THEOREM WorkerTypeOK == Spec => []TypeOK
<1>1. IInv => TypeOK
  BY DEF IInv
<1> QED
  BY <1>1, WorkerInvariant, PTL

(* enqueue_full_state and run_worker lose no wake-up: for every capacity   *)
(* of the channel, a full state in the slot is seen by the worker without  *)
(* any further event.                                                      *)
THEOREM WorkerNoSleepingSlot == Spec => []NoSleepingSlot
<1>1. IInv => NoSleepingSlot
  BY DEF IInv
<1> QED
  BY <1>1, WorkerInvariant, PTL
-----------------------------------------------------------------------------
(* StoredChainNeverOlder needs that full states pass through the slot and  *)
(* the worker in the order in which the chain made them.                   *)
BlocksInOrder ==
    /\ disk.blocks <= live.blocks
    /\ slot # NoState => disk.blocks <= slot.blocks /\ slot.blocks <= live.blocks
    /\ worker.state # NoState => /\ disk.blocks <= worker.state.blocks
                                 /\ worker.state.blocks <= live.blocks
                                 /\ slot # NoState => worker.state.blocks <= slot.blocks

(* The full state being written, field by field. *)
LEMMA WriteStepFacts ==
    ASSUME TypeOK, WriteStep
    PROVE  /\ worker.state \in States /\ worker.state # NoState /\ worker.step \in 1..3
           /\ worker.step = 1 => disk' = [disk EXCEPT !.finalized = worker.state.finalized]
           /\ worker.step = 2 => disk' = [disk EXCEPT !.blocks = worker.state.blocks]
           /\ worker.step = 3 => disk' = [disk EXCEPT !.pending = worker.state.pending]
           /\ worker.step < 3 => worker' = [worker EXCEPT !.step = @ + 1]
           /\ worker.step = 3 =>
                  worker' = [worker EXCEPT !.pc = "drain", !.state = NoState, !.step = 0]
<1>1. worker.state \in States /\ worker.state # NoState /\ worker.step \in 1..3
  BY WorkerTypes DEF WriteStep, WorkerOK
<1>2. /\ WriteOrder[1] = "finalized" /\ WriteOrder[2] = "blocks" /\ WriteOrder[3] = "pending"
      /\ Len(WriteOrder) = 3
  BY DEF WriteOrder
<1>3. disk' = [disk EXCEPT ![WriteOrder[worker.step]] = worker.state[WriteOrder[worker.step]]]
  BY DEF WriteStep
<1>4. CASE worker.step = 1
  BY <1>1, <1>2, <1>3, <1>4, ZenonT(30) DEF WriteStep
<1>5. CASE worker.step = 2
  BY <1>1, <1>2, <1>3, <1>5, ZenonT(30) DEF WriteStep
<1>6. CASE worker.step = 3
  <2>1. disk' = [disk EXCEPT !.pending = worker.state.pending]
    BY <1>2, <1>3, <1>6, ZenonT(30)
  <2>2. worker' = [worker EXCEPT !.pc = "drain", !.state = NoState, !.step = 0]
    BY <1>2, <1>6 DEF WriteStep
  <2> QED
    BY <1>1, <1>6, <2>1, <2>2
<1> QED
  BY <1>1, <1>4, <1>5, <1>6

(* The fields of disk that a small job leaves alone. *)
LEMMA ExecuteJobFacts ==
    ASSUME TypeOK, ExecuteJob
    PROVE  /\ disk'.blocks = disk.blocks
           /\ disk'.finalized = IF worker.job.kind = "FinalizedHeight"
                                THEN worker.job.value ELSE disk.finalized
           /\ disk'.pending = IF worker.job.kind = "PendingTransactions"
                              THEN worker.job.value ELSE disk.pending
           /\ disk'.evidence = IF worker.job.kind = "EquivocationEvidence"
                               THEN disk.evidence \cup {worker.job.value} ELSE disk.evidence
           /\ worker'.state = NoState
           /\ worker' = Idle \/ (worker.job = Shutdown /\ worker'.job = Shutdown)
BY WorkerTypes, IdleType DEF ExecuteJob, Written, TypeOK, WorkerOK

(* Every step keeps the order, and never stores an older full state. *)
LEMMA NextInOrder ==
    ASSUME IInv, BlocksInOrder, [Next]_vars
    PROVE  BlocksInOrder' /\ disk'.blocks >= disk.blocks
<1> USE DEF IInv
<1>0. /\ live.blocks \in Nat /\ disk.blocks \in Nat
      /\ slot # NoState => slot \in States /\ slot.blocks \in Nat
      /\ worker.state # NoState => worker.state \in States /\ worker.state.blocks \in Nat
  BY DEF TypeOK, States
<1>1. CASE PersistFinalizedHeight \/ PersistPendingTransactions \/ PersistEquivocation
  <2>1. live'.blocks = live.blocks /\ UNCHANGED <<slot, worker, disk>>
    BY <1>1 DEF PersistFinalizedHeight, PersistPendingTransactions, PersistEquivocation, TypeOK
  <2> QED
    BY <1>0, <2>1 DEF BlocksInOrder
<1>2. CASE EnqueueFullState
  <2>1. /\ live'.blocks = live.blocks + 1 /\ slot'.blocks = live.blocks + 1
        /\ UNCHANGED <<worker, disk>>
    BY <1>2 DEF EnqueueFullState, TypeOK
  <2> QED
    BY <1>0, <2>1 DEF BlocksInOrder
<1>3. CASE SignalWorker \/ DropHandle \/ Recv \/ RecvDisconnected \/ JobFails
  <2>1. /\ UNCHANGED <<live, slot, disk>>
        /\ worker'.state = worker.state \/ worker'.state = NoState
    BY <1>3, IdleType, ZenonT(30)
       DEF SignalWorker, DropHandle, Recv, RecvDisconnected, JobFails, TypeOK
  <2> QED
    BY <1>0, <2>1 DEF BlocksInOrder
<1>4. CASE Drain
  <2>1. /\ UNCHANGED <<live, disk>> /\ slot' = NoState
        /\ slot # NoState => worker'.state = slot
        /\ slot = NoState => worker'.state = worker.state
    BY <1>4 DEF Drain, TypeOK
  <2> QED
    BY <1>0, <2>1 DEF BlocksInOrder
<1>5. CASE WriteStep
  <2>1. /\ disk'.blocks = disk.blocks \/ disk'.blocks = worker.state.blocks
        /\ worker'.state = worker.state \/ worker'.state = NoState
        /\ worker.state # NoState /\ UNCHANGED <<live, slot>>
    BY <1>5, WriteStepFacts DEF WriteStep, TypeOK
  <2> QED
    BY <1>0, <2>1 DEF BlocksInOrder
<1>6. CASE WriteFails
  <2>1. UNCHANGED <<live, slot, disk>> /\ worker'.state = NoState
    BY <1>6 DEF WriteFails, TypeOK
  <2> QED
    BY <1>0, <2>1 DEF BlocksInOrder
<1>7. CASE ExecuteJob
  <2>1. UNCHANGED <<live, slot>> /\ disk'.blocks = disk.blocks /\ worker'.state = NoState
    BY <1>7, ExecuteJobFacts DEF ExecuteJob
  <2> QED
    BY <1>0, <2>1 DEF BlocksInOrder
<1>8. CASE Crash
  <2>1. /\ live'.blocks = disk.blocks /\ disk' = disk /\ slot' = NoState
        /\ worker'.state = NoState
    BY <1>8, IdleType DEF Crash
  <2> QED
    BY <1>0, <2>1 DEF BlocksInOrder
<1>9. CASE UNCHANGED vars
  BY <1>0, <1>9 DEF vars, BlocksInOrder
<1> QED
  BY <1>1, <1>2, <1>3, <1>4, <1>5, <1>6, <1>7, <1>8, <1>9 DEF Next, Worker

(* write_full_state_to_storage never puts an older chain over a newer one, *)
(* whatever is dropped, fails or crashes, for every capacity.              *)
THEOREM WorkerStoredChainNeverOlder == Spec => StoredChainNeverOlder
<1>1. Init => BlocksInOrder
  BY IdleType DEF Init, BlocksInOrder
<1>2. IInv /\ BlocksInOrder /\ [Next]_vars => BlocksInOrder'
  BY NextInOrder
<1>3. IInv /\ BlocksInOrder /\ [Next]_vars => [disk'.blocks >= disk.blocks]_vars
  BY NextInOrder
<1> QED
  BY <1>1, <1>2, <1>3, WorkerInvariant, PTL DEF Spec, StoredChainNeverOlder

-----------------------------------------------------------------------------
(* NewestValueWins: what is not on disk yet is still coming.  The last     *)
(* queued job of a kind carries the value of the chain, and a full state   *)
(* that waits or is being written either carries it too or will be         *)
(* overwritten by such a job.                                              *)

HasKind(c, K) == \E i \in 1..Len(c) : c[i].kind = K

LastHas(c, K, v) ==
    \A i \in 1..Len(c) :
        (c[i].kind = K /\ \A j \in 1..Len(c) : j > i => c[j].kind # K) => c[i].value = v

(* Field f of the states, the kind of job that writes it, and its place in *)
(* the write order.                                                        *)
Path(f, K, n) == \/ f = "finalized" /\ K = "FinalizedHeight" /\ n = 1
                 \/ f = "pending" /\ K = "PendingTransactions" /\ n = 3

InHand(K) == worker.job.kind = K
Awaited(K) == HasKind(channel, K) \/ InHand(K)

StillComing(f, K, n) ==
    /\ LastHas(channel, K, live[f])
    /\ InHand(K) /\ ~HasKind(channel, K) => worker.job.value = live[f]
    /\ disk[f] = live[f] \/ Awaited(K)
    /\ slot # NoState =>
           slot[f] = live[f] \/ HasKind(channel, K) \/ (InHand(K) /\ worker.pc # "job")
    /\ worker.state # NoState /\ worker.step <= n => worker.state[f] = live[f] \/ Awaited(K)

BlocksComing ==
    /\ slot # NoState => slot.blocks = live.blocks
    /\ slot = NoState /\ worker.state # NoState =>
           /\ worker.state.blocks = live.blocks
           /\ worker.step = 3 => disk.blocks = live.blocks
    /\ slot = NoState /\ worker.state = NoState => disk.blocks = live.blocks

Evidence == "EquivocationEvidence"

EvidenceComing ==
    /\ disk.evidence \subseteq live.slashed
    /\ \A i \in 1..Len(channel) :
           channel[i].kind = Evidence => channel[i].value \in live.slashed
    /\ InHand(Evidence) => worker.job.value \in live.slashed
    /\ \A x \in live.slashed :
           \/ x \in disk.evidence
           \/ InHand(Evidence) /\ worker.job.value = x
           \/ \E i \in 1..Len(channel) : channel[i].kind = Evidence /\ channel[i].value = x

(* Between jobs the worker holds none. *)
NothingInHand == worker.pc \in {"recv", "exited"} => worker.job \in {Signal, Shutdown}

(* Every job was queued and no write failed. *)
Lossless == ~dropped /\ failures = 0

Coming == /\ NothingInHand
          /\ Lossless => /\ BlocksComing
                         /\ EvidenceComing
                         /\ \A f, K, n : Path(f, K, n) => StillComing(f, K, n)

(* A job queued last is the last of its kind, and changes no other kind. *)
LEMMA SendKinds ==
    ASSUME NEW c \in Seq(Jobs), NEW job \in Jobs, NEW K, NEW v, LastHas(c, K, v)
    PROVE  /\ job.kind = K => /\ HasKind(Append(c, job), K)
                              /\ LastHas(Append(c, job), K, job.value)
           /\ job.kind # K => /\ HasKind(Append(c, job), K) <=> HasKind(c, K)
                              /\ LastHas(Append(c, job), K, v)
<1> DEFINE d == Append(c, job)
           m == Len(c)
<1>1. /\ m \in Nat /\ Len(d) = m + 1 /\ d[m + 1] = job
      /\ \A i \in 1..m : d[i] = c[i]
  OBVIOUS
<1>2. 1..(m + 1) = 1..m \cup {m + 1}
  BY <1>1
<1> HIDE DEF d, m
<1>3. ASSUME job.kind = K
      PROVE  HasKind(d, K) /\ LastHas(d, K, job.value)
  <2>1. HasKind(d, K)
    BY <1>1, <1>2, <1>3 DEF HasKind
  <2>2. ASSUME NEW i \in 1..Len(d), \A j \in 1..Len(d) : j > i => d[j].kind # K
        PROVE  d[i].value = job.value
    <3>1. ~(m + 1 > i)
      BY <1>1, <1>2, <1>3, <2>2
    <3>2. i = m + 1
      BY <1>1, <3>1
    <3> QED
      BY <1>1, <3>2
  <2> QED
    BY <2>1, <2>2 DEF LastHas
<1>4. ASSUME job.kind # K
      PROVE  (HasKind(d, K) <=> HasKind(c, K)) /\ LastHas(d, K, v)
  <2>1. HasKind(d, K) <=> HasKind(c, K)
    BY <1>1, <1>2, <1>4 DEF HasKind, m
  <2>2. ASSUME NEW i \in 1..Len(d), d[i].kind = K,
               \A j \in 1..Len(d) : j > i => d[j].kind # K
        PROVE  d[i].value = v
    <3>1. i \in 1..m /\ d[i] = c[i]
      BY <1>1, <1>2, <1>4, <2>2
    <3>2. \A j \in 1..m : j > i => c[j].kind # K
      BY <1>1, <1>2, <2>2
    <3> QED
      BY <2>2, <3>1, <3>2 DEF LastHas, m
  <2> QED
    BY <2>1, <2>2 DEF LastHas
<1> QED
  BY <1>3, <1>4 DEF d

(* Taking the oldest job. *)
LEMMA RecvKinds ==
    ASSUME NEW c \in Seq(Jobs), c # <<>>, NEW K, NEW v, LastHas(c, K, v)
    PROVE  /\ HasKind(c, K) <=> (Head(c).kind = K \/ HasKind(Tail(c), K))
           /\ LastHas(Tail(c), K, v)
           /\ Head(c).kind = K /\ ~HasKind(Tail(c), K) => Head(c).value = v
<1> DEFINE d == Tail(c)
           m == Len(d)
<1>1. /\ m \in Nat /\ Len(c) = m + 1 /\ Head(c) = c[1]
      /\ \A i \in 1..m : d[i] = c[i + 1]
  OBVIOUS
<1>2. /\ \A i \in 1..m : i + 1 \in 1..(m + 1)
      /\ \A i \in 1..(m + 1) : i = 1 \/ (i - 1 \in 1..m /\ d[i - 1] = c[i])
  BY <1>1
<1> HIDE DEF d, m
<1>3. HasKind(c, K) <=> (Head(c).kind = K \/ HasKind(d, K))
  <2>1. ASSUME HasKind(c, K) PROVE Head(c).kind = K \/ HasKind(d, K)
    BY <1>1, <1>2, <2>1 DEF HasKind, m
  <2>2. ASSUME Head(c).kind = K PROVE HasKind(c, K)
    BY <1>1, <2>2 DEF HasKind
  <2>3. ASSUME HasKind(d, K) PROVE HasKind(c, K)
    BY <1>1, <1>2, <2>3 DEF HasKind, m
  <2> QED
    BY <2>1, <2>2, <2>3
<1>4. LastHas(d, K, v)
  <2> SUFFICES ASSUME NEW i \in 1..m, d[i].kind = K,
                      \A j \in 1..m : j > i => d[j].kind # K
               PROVE  d[i].value = v
    BY DEF LastHas, m
  <2>1. i + 1 \in 1..Len(c) /\ d[i] = c[i + 1]
    BY <1>1, <1>2
  <2>2. ASSUME NEW j \in 1..Len(c), j > i + 1 PROVE c[j].kind # K
    <3>1. j - 1 \in 1..m /\ d[j - 1] = c[j] /\ j - 1 > i
      BY <1>1, <1>2, <2>2
    <3> QED
      BY <3>1
  <2> QED
    BY <2>1, <2>2 DEF LastHas
<1>5. ASSUME Head(c).kind = K, ~HasKind(d, K) PROVE Head(c).value = v
  <2>1. ASSUME NEW j \in 1..Len(c), j > 1 PROVE c[j].kind # K
    <3>1. j - 1 \in 1..m /\ d[j - 1] = c[j]
      BY <1>1, <1>2, <2>1
    <3> QED
      BY <1>5, <3>1 DEF HasKind, m
  <2> QED
    BY <1>1, <1>5, <2>1 DEF LastHas
<1> QED
  BY <1>3, <1>4, <1>5 DEF d

(* What the chain's thread does: it queues a job that carries the change   *)
(* it made, or changes nothing and queues a job without a value.           *)
LEMMA SendComing ==
    ASSUME IInv, Coming, NEW job \in Jobs,
           UNCHANGED <<slot, worker, disk, failures>>,
           Lossless' => Lossless,
           Lossless' => \/ channel' = Append(channel, job)
                        \/ channel' = channel /\ live' = live,
           live'.blocks = live.blocks,
           live'.slashed = IF job.kind = Evidence THEN live.slashed \cup {job.value}
                           ELSE live.slashed,
           \A f, K, n : Path(f, K, n) =>
               live'[f] = IF job.kind = K THEN job.value ELSE live[f]
    PROVE  Coming'
<1>0. channel \in Seq(Jobs)
  BY DEF IInv, TypeOK
<1>1. NothingInHand'
  BY DEF Coming, NothingInHand
<1> SUFFICES ASSUME Lossless'
             PROVE  /\ BlocksComing' /\ EvidenceComing'
                    /\ \A f, K, n : Path(f, K, n) => StillComing(f, K, n)'
  BY <1>1 DEF Coming
<1>2. BlocksComing'
  BY DEF Coming, BlocksComing
<1>3. CASE channel' = channel /\ live' = live
  BY <1>2, <1>3, ZenonT(30) DEF Coming, EvidenceComing, StillComing, InHand, Awaited
<1>4. CASE channel' = Append(channel, job)
  <2>1. EvidenceComing'
    <3> DEFINE m == Len(channel)
    <3>1. /\ m \in Nat /\ Len(channel') = m + 1 /\ channel'[m + 1] = job
          /\ \A i \in 1..m : channel'[i] = channel[i]
      BY <1>0, <1>4
    <3>2. 1..(m + 1) = 1..m \cup {m + 1}
      BY <3>1
    <3>3. EvidenceComing
      BY DEF Coming
    <3> HIDE DEF m
    <3>4. ASSUME NEW i \in 1..Len(channel'), channel'[i].kind = Evidence
          PROVE  channel'[i].value \in live'.slashed
      BY <3>1, <3>2, <3>3, <3>4 DEF EvidenceComing, m
    <3>5. ASSUME NEW x \in live'.slashed
          PROVE  \/ x \in disk.evidence
                 \/ InHand(Evidence) /\ worker.job.value = x
                 \/ \E i \in 1..Len(channel') :
                        channel'[i].kind = Evidence /\ channel'[i].value = x
      <4>1. CASE x \in live.slashed
        BY <3>1, <3>2, <3>3, <4>1 DEF EvidenceComing, m
      <4>2. CASE x \notin live.slashed
        BY <3>1, <3>2, <4>2
      <4> QED
        BY <4>1, <4>2
    <3>6. /\ disk.evidence \subseteq live'.slashed
          /\ InHand(Evidence) => worker.job.value \in live'.slashed
      BY <3>3 DEF EvidenceComing
    <3> QED
      BY <3>4, <3>5, <3>6 DEF EvidenceComing, InHand
  <2>2. ASSUME NEW f, NEW K, NEW n, Path(f, K, n) PROVE StillComing(f, K, n)'
    <3>1. StillComing(f, K, n)
      BY <2>2 DEF Coming
    <3>2. live'[f] = IF job.kind = K THEN job.value ELSE live[f]
      BY <2>2
    <3>3. LastHas(channel, K, live[f])
      BY <3>1 DEF StillComing
    <3>4. CASE job.kind = K
      <4>1. HasKind(channel', K) /\ LastHas(channel', K, live'[f])
        BY <1>0, <1>4, <3>2, <3>3, <3>4, SendKinds
      <4> QED
        BY <4>1 DEF StillComing, Awaited
    <3>5. CASE job.kind # K
      <4>1. /\ HasKind(channel', K) <=> HasKind(channel, K)
            /\ LastHas(channel', K, live'[f]) /\ live'[f] = live[f]
        BY <1>0, <1>4, <3>2, <3>3, <3>5, SendKinds, ZenonT(30)
      <4> QED
        BY <3>1, <4>1 DEF StillComing, Awaited, InHand
    <3> QED
      BY <3>4, <3>5
  <2> QED
    BY <1>2, <2>1, <2>2, ZenonT(30)
<1> QED
  BY <1>3, <1>4

(* A full state put in the slot carries the values of the chain. *)
LEMMA EnqueueComing == ASSUME IInv, Coming, EnqueueFullState PROVE Coming'
<1>1. /\ live' = [live EXCEPT !.blocks = live.blocks + 1]
      /\ slot' = [ blocks |-> live.blocks + 1, finalized |-> live.finalized,
                   pending |-> live.pending ]
      /\ UNCHANGED <<channel, worker, disk, dropped, failures>>
  BY DEF EnqueueFullState
<1>2. /\ live'.blocks = live.blocks + 1 /\ live'.slashed = live.slashed
      /\ live'["finalized"] = live["finalized"] /\ live'["pending"] = live["pending"]
      /\ slot'["finalized"] = live["finalized"] /\ slot'["pending"] = live["pending"]
      /\ slot'.blocks = live.blocks + 1 /\ slot' \in States
  BY <1>1 DEF IInv, TypeOK, States
<1>3. NothingInHand'
  BY <1>1 DEF Coming, NothingInHand
<1> SUFFICES ASSUME Lossless'
             PROVE  /\ BlocksComing' /\ EvidenceComing'
                    /\ \A f, K, n : Path(f, K, n) => StillComing(f, K, n)'
  BY <1>3 DEF Coming
<1>4. Lossless
  BY <1>1 DEF Lossless
<1>5. BlocksComing'
  BY <1>2, NoStateAssumption DEF BlocksComing
<1>6. EvidenceComing'
  BY <1>1, <1>2, <1>4 DEF Coming, EvidenceComing, InHand
<1>7. ASSUME NEW f, NEW K, NEW n, Path(f, K, n) PROVE StillComing(f, K, n)'
  <2>1. StillComing(f, K, n) /\ live'[f] = live[f] /\ slot'[f] = live[f]
    BY <1>2, <1>4, <1>7 DEF Coming, Path
  <2> QED
    BY <1>1, <2>1 DEF StillComing, Awaited, InHand
<1> QED
  BY <1>5, <1>6, <1>7

(* The worker takes a job; nothing that was coming is lost. *)
LEMMA RecvComing == ASSUME IInv, Coming, Recv PROVE Coming'
<1>1. /\ channel \in Seq(Jobs) /\ channel # <<>> /\ channel' = Tail(channel)
      /\ worker'.job = Head(channel) /\ worker'.pc = "drain"
      /\ worker'.state = worker.state /\ worker'.step = worker.step
      /\ worker.state = NoState
      /\ UNCHANGED <<live, slot, disk, dropped, failures>>
  BY DEF IInv, TypeOK, Recv
<1>2. worker.job \in {Signal, Shutdown}
  BY DEF Coming, NothingInHand, Recv
<1>3. NothingInHand'
  BY <1>1 DEF NothingInHand
<1> SUFFICES ASSUME Lossless'
             PROVE  /\ BlocksComing' /\ EvidenceComing'
                    /\ \A f, K, n : Path(f, K, n) => StillComing(f, K, n)'
  BY <1>3 DEF Coming
<1>4. Lossless
  BY <1>1 DEF Lossless
<1>5. BlocksComing'
  BY <1>1, <1>4 DEF Coming, BlocksComing
<1>6. EvidenceComing'
  <2>1. EvidenceComing /\ ~InHand(Evidence)
    BY <1>2, <1>4 DEF Coming, InHand, Signal, Shutdown, Evidence
  <2> DEFINE m == Len(channel')
  <2>2. /\ m \in Nat /\ Len(channel) = m + 1 /\ Head(channel) = channel[1]
        /\ \A i \in 1..m : channel'[i] = channel[i + 1]
    BY <1>1
  <2>3. /\ \A i \in 1..m : i + 1 \in 1..Len(channel)
        /\ 1 \in 1..Len(channel)
        /\ \A i \in 1..Len(channel) : i = 1 \/ (i - 1 \in 1..m /\ channel'[i - 1] = channel[i])
    BY <2>2
  <2> HIDE DEF m
  <2>4. ASSUME NEW i \in 1..m, channel'[i].kind = Evidence
        PROVE  channel'[i].value \in live.slashed
    BY <2>1, <2>2, <2>3, <2>4 DEF EvidenceComing
  <2>5. Head(channel).kind = Evidence => Head(channel).value \in live.slashed
    BY <2>1, <2>2, <2>3 DEF EvidenceComing
  <2>6. ASSUME NEW x \in live.slashed
        PROVE  \/ x \in disk.evidence
               \/ Head(channel).kind = Evidence /\ Head(channel).value = x
               \/ \E i \in 1..m : channel'[i].kind = Evidence /\ channel'[i].value = x
    <3>1. CASE x \in disk.evidence
      BY <3>1
    <3>2. CASE x \notin disk.evidence
      <4>1. PICK i \in 1..Len(channel) : channel[i].kind = Evidence /\ channel[i].value = x
        BY <2>1, <3>2 DEF EvidenceComing
      <4> QED
        BY <2>2, <2>3, <4>1
    <3> QED
      BY <3>1, <3>2
  <2> QED
    BY <1>1, <2>1, <2>4, <2>5, <2>6 DEF EvidenceComing, InHand, m
<1>7. ASSUME NEW f, NEW K, NEW n, Path(f, K, n) PROVE StillComing(f, K, n)'
  <2>1. StillComing(f, K, n) /\ ~InHand(K)
    BY <1>2, <1>4, <1>7 DEF Coming, InHand, Path, Signal, Shutdown
  <2>2. /\ HasKind(channel, K) <=> (Head(channel).kind = K \/ HasKind(channel', K))
        /\ LastHas(channel', K, live[f])
        /\ Head(channel).kind = K /\ ~HasKind(channel', K) => Head(channel).value = live[f]
    BY <1>1, <2>1, RecvKinds, ZenonT(30) DEF StillComing
  <2> QED
    BY <1>1, <2>1, <2>2 DEF StillComing, Awaited, InHand
<1> QED
  BY <1>5, <1>6, <1>7

(* The worker moves the slot into its hands, or goes on to its job. *)
LEMMA DrainComing == ASSUME IInv, Coming, Drain PROVE Coming'
<1>1. /\ worker.pc = "drain" /\ slot' = NoState /\ worker'.job = worker.job
      /\ worker.state = NoState
      /\ slot = NoState => /\ worker'.pc = "job" /\ worker'.state = NoState
      /\ slot # NoState => /\ worker'.pc = "write" /\ worker'.state = slot /\ worker'.step = 1
      /\ UNCHANGED <<live, channel, disk, dropped, failures>>
  BY DEF IInv, TypeOK, Drain
<1>2. NothingInHand'
  BY <1>1 DEF NothingInHand
<1> SUFFICES ASSUME Lossless'
             PROVE  /\ BlocksComing' /\ EvidenceComing'
                    /\ \A f, K, n : Path(f, K, n) => StillComing(f, K, n)'
  BY <1>2 DEF Coming
<1>3. Lossless
  BY <1>1 DEF Lossless
<1>4. BlocksComing'
  BY <1>1, <1>3 DEF Coming, BlocksComing
<1>5. EvidenceComing'
  BY <1>1, <1>3 DEF Coming, EvidenceComing, InHand
<1>6. ASSUME NEW f, NEW K, NEW n, Path(f, K, n) PROVE StillComing(f, K, n)'
  <2>1. StillComing(f, K, n)
    BY <1>3, <1>6 DEF Coming
  <2> QED
    BY <1>1, <2>1 DEF StillComing, Awaited, InHand
<1> QED
  BY <1>4, <1>5, <1>6

(* One transaction of a full state. *)
LEMMA WriteComing == ASSUME IInv, Coming, WriteStep PROVE Coming'
<1>1. /\ worker.state \in States /\ worker.state # NoState /\ worker.step \in 1..3
      /\ worker'.job = worker.job /\ worker'.pc \in {"write", "drain"}
      /\ worker.pc = "write"
      /\ worker.step < 3 => worker'.state = worker.state /\ worker'.step = worker.step + 1
      /\ worker.step = 3 => worker'.state = NoState
      /\ UNCHANGED <<live, slot, channel, dropped, failures>>
  BY WriteStepFacts, ZenonT(30) DEF IInv, TypeOK, WriteStep
<1>2. /\ disk'.evidence = disk.evidence
      /\ disk'.blocks = IF worker.step = 2 THEN worker.state.blocks ELSE disk.blocks
      /\ disk'["finalized"] = IF worker.step = 1 THEN worker.state["finalized"]
                              ELSE disk["finalized"]
      /\ disk'["pending"] = IF worker.step = 3 THEN worker.state["pending"]
                            ELSE disk["pending"]
  <2>1. CASE worker.step = 1
    <3>1. disk' = [disk EXCEPT !.finalized = worker.state.finalized]
      BY <2>1, WriteStepFacts DEF IInv
    <3> QED
      BY <2>1, <3>1 DEF IInv, TypeOK
  <2>2. CASE worker.step = 2
    <3>1. disk' = [disk EXCEPT !.blocks = worker.state.blocks]
      BY <2>2, WriteStepFacts DEF IInv
    <3> QED
      BY <2>2, <3>1 DEF IInv, TypeOK
  <2>3. CASE worker.step = 3
    <3>1. disk' = [disk EXCEPT !.pending = worker.state.pending]
      BY <2>3, WriteStepFacts DEF IInv
    <3> QED
      BY <2>3, <3>1 DEF IInv, TypeOK
  <2> QED
    BY <1>1, <2>1, <2>2, <2>3
<1>3. NothingInHand'
  BY <1>1 DEF NothingInHand
<1> SUFFICES ASSUME Lossless'
             PROVE  /\ BlocksComing' /\ EvidenceComing'
                    /\ \A f, K, n : Path(f, K, n) => StillComing(f, K, n)'
  BY <1>3 DEF Coming
<1>4. Lossless
  BY <1>1 DEF Lossless
<1>5. BlocksComing'
  <2>1. BlocksComing
    BY <1>4, ZenonT(30) DEF Coming
  <2> QED
    BY <1>1, <1>2, <2>1 DEF BlocksComing
<1>6. EvidenceComing'
  BY <1>1, <1>2, <1>4 DEF Coming, EvidenceComing, InHand
<1>7. ASSUME NEW f, NEW K, NEW n, Path(f, K, n) PROVE StillComing(f, K, n)'
  <2>1. StillComing(f, K, n)
    BY <1>4, <1>7 DEF Coming
  <2>2. n \in Nat /\ disk'[f] = IF worker.step = n THEN worker.state[f] ELSE disk[f]
    BY <1>2, <1>7 DEF Path
  <2> QED
    BY <1>1, <2>1, <2>2 DEF StillComing, Awaited, InHand
<1> QED
  BY <1>5, <1>6, <1>7

(* The job in hand is written: it was the last of its kind, or a newer one *)
(* is queued.                                                              *)
LEMMA ExecuteComing == ASSUME IInv, Coming, ExecuteJob PROVE Coming'
<1>1. /\ worker.pc = "job" /\ worker.state = NoState /\ worker'.state = NoState
      /\ worker'.job \in {Signal, Shutdown}
      /\ UNCHANGED <<live, slot, channel, dropped, failures>>
  BY ExecuteJobFacts, IdleType DEF IInv, TypeOK, ExecuteJob
<1>2. /\ disk'.blocks = disk.blocks
      /\ disk'["finalized"] = IF InHand("FinalizedHeight") THEN worker.job.value
                              ELSE disk["finalized"]
      /\ disk'["pending"] = IF InHand("PendingTransactions") THEN worker.job.value
                            ELSE disk["pending"]
      /\ disk'.evidence = IF InHand(Evidence) THEN disk.evidence \cup {worker.job.value}
                          ELSE disk.evidence
  BY ExecuteJobFacts DEF IInv, InHand, Evidence
<1>3. NothingInHand'
  BY <1>1 DEF NothingInHand
<1> SUFFICES ASSUME Lossless'
             PROVE  /\ BlocksComing' /\ EvidenceComing'
                    /\ \A f, K, n : Path(f, K, n) => StillComing(f, K, n)'
  BY <1>3 DEF Coming
<1>4. Lossless
  BY <1>1 DEF Lossless
<1>5. BlocksComing'
  <2>1. BlocksComing
    BY <1>4, ZenonT(30) DEF Coming
  <2> QED
    BY <1>1, <1>2, <2>1 DEF BlocksComing
<1>6. EvidenceComing'
  <2>1. EvidenceComing /\ ~InHand(Evidence)'
    BY <1>1, <1>4 DEF Coming, InHand, Signal, Shutdown, Evidence
  <2> QED
    BY <1>1, <1>2, <2>1 DEF EvidenceComing
<1>7. ASSUME NEW f, NEW K, NEW n, Path(f, K, n) PROVE StillComing(f, K, n)'
  <2>1. StillComing(f, K, n) /\ ~InHand(K)'
    BY <1>1, <1>4, <1>7 DEF Coming, InHand, Path, Signal, Shutdown
  <2>2. disk'[f] = IF InHand(K) THEN worker.job.value ELSE disk[f]
    BY <1>2, <1>7 DEF Path
  <2> QED
    BY <1>1, <2>1, <2>2 DEF StillComing, Awaited
<1> QED
  BY <1>5, <1>6, <1>7

(* After a crash memory is what storage holds, and nothing is under way. *)
LEMMA CrashComing == ASSUME IInv, Coming, Crash PROVE Coming'
<1>1. /\ slot' = NoState /\ channel' = <<>> /\ worker'.job = Signal
      /\ worker'.state = NoState /\ disk' = disk
      /\ live'.blocks = disk.blocks /\ live'.slashed = disk.evidence
      /\ live'["finalized"] = disk["finalized"] /\ live'["pending"] = disk["pending"]
  BY IdleType DEF Crash
<1>2. NothingInHand' /\ BlocksComing'
  BY <1>1 DEF NothingInHand, BlocksComing
<1>3. Len(channel') = 0
  BY <1>1
<1>4. EvidenceComing'
  BY <1>1, <1>3 DEF EvidenceComing, InHand, Signal, Evidence
<1>5. ASSUME NEW f, NEW K, NEW n, Path(f, K, n) PROVE StillComing(f, K, n)'
  <2>1. ~InHand(K)' /\ live'[f] = disk'[f]
    BY <1>1, <1>5 DEF InHand, Path, Signal
  <2> QED
    BY <1>1, <1>3, <2>1 DEF StillComing, LastHas
<1> QED
  BY <1>2, <1>4, <1>5 DEF Coming

(* Every step keeps what is still coming. *)
LEMMA NextComing == ASSUME IInv, Coming, [Next]_vars PROVE Coming'
<1>1. CASE PersistFinalizedHeight
  <2> DEFINE job == FinalizedHeight(live.finalized + 1)
  <2>1. live.finalized + 1 \in Nat
    BY DEF IInv, TypeOK
  <2>2. /\ job \in Jobs /\ job.kind = "FinalizedHeight" /\ job.value = live.finalized + 1
    BY <2>1, JobTypes DEF FinalizedHeight
  <2>3. /\ live'["finalized"] = live.finalized + 1 /\ live'["pending"] = live["pending"]
        /\ live'.blocks = live.blocks /\ live'.slashed = live.slashed
    BY <1>1 DEF PersistFinalizedHeight, IInv, TypeOK
  <2>4. /\ UNCHANGED <<slot, worker, disk, failures>>
        /\ Lossless' => Lossless /\ channel' = Append(channel, job)
    BY <1>1, ZenonT(30) DEF PersistFinalizedHeight, try_enqueue, Lossless
  <2>5. \A f, K, n : Path(f, K, n) =>
            live'[f] = IF job.kind = K THEN job.value ELSE live[f]
    BY <2>2, <2>3 DEF Path
  <2> HIDE DEF job
  <2> QED
    BY <2>2, <2>3, <2>4, <2>5, SendComing, ZenonT(30) DEF Evidence
<1>2. CASE PersistPendingTransactions
  <2> DEFINE job == PendingTransactions(live.pending + 1)
  <2>1. live.pending + 1 \in Nat
    BY DEF IInv, TypeOK
  <2>2. /\ job \in Jobs /\ job.kind = "PendingTransactions" /\ job.value = live.pending + 1
    BY <2>1, JobTypes DEF PendingTransactions
  <2>3. /\ live'["pending"] = live.pending + 1 /\ live'["finalized"] = live["finalized"]
        /\ live'.blocks = live.blocks /\ live'.slashed = live.slashed
    BY <1>2 DEF PersistPendingTransactions, IInv, TypeOK
  <2>4. /\ UNCHANGED <<slot, worker, disk, failures>>
        /\ Lossless' => Lossless /\ channel' = Append(channel, job)
    BY <1>2, ZenonT(30) DEF PersistPendingTransactions, try_enqueue, Lossless
  <2>5. \A f, K, n : Path(f, K, n) =>
            live'[f] = IF job.kind = K THEN job.value ELSE live[f]
    BY <2>2, <2>3 DEF Path
  <2> HIDE DEF job
  <2> QED
    BY <2>2, <2>3, <2>4, <2>5, SendComing, ZenonT(30) DEF Evidence
<1>3. CASE PersistEquivocation
  <2>1. PICK x \in 1..MaxEvidence : /\ live' = [live EXCEPT !.slashed = @ \cup {x}]
                                    /\ try_enqueue(EquivocationEvidence(x))
    BY <1>3, ZenonT(30) DEF PersistEquivocation
  <2> DEFINE job == EquivocationEvidence(x)
  <2>2. /\ job \in Jobs /\ job.kind = Evidence /\ job.value = x
    BY BoundsAssumption, JobTypes DEF EquivocationEvidence, Evidence
  <2>3. /\ live'["pending"] = live["pending"] /\ live'["finalized"] = live["finalized"]
        /\ live'.blocks = live.blocks /\ live'.slashed = live.slashed \cup {x}
    BY <2>1 DEF IInv, TypeOK
  <2>4. /\ UNCHANGED <<slot, worker, disk, failures>>
        /\ Lossless' => Lossless /\ channel' = Append(channel, job)
    BY <1>3, <2>1, ZenonT(30) DEF PersistEquivocation, try_enqueue, Lossless
  <2>5. \A f, K, n : Path(f, K, n) =>
            live'[f] = IF job.kind = K THEN job.value ELSE live[f]
    BY <2>2, <2>3 DEF Path, Evidence
  <2> HIDE DEF job
  <2> QED
    BY <2>2, <2>3, <2>4, <2>5, SendComing
<1>4. CASE SignalWorker \/ DropHandle
  <2>1. PICK job \in {Signal, Shutdown} :
            channel' = IF HasRoom THEN Append(channel, job) ELSE channel
    BY <1>4 DEF SignalWorker, DropHandle
  <2>2. /\ job \in Jobs /\ job.kind # Evidence
        /\ \A f, K, n : Path(f, K, n) => job.kind # K
    BY <2>1, JobTypes DEF Signal, Shutdown, Evidence, Path
  <2>3. UNCHANGED <<live, slot, worker, disk, failures, dropped>>
    BY <1>4 DEF SignalWorker, DropHandle
  <2>4. (Lossless' => Lossless) /\ (channel' = Append(channel, job) \/ channel' = channel)
    BY <2>1, <2>3 DEF Lossless
  <2> QED
    BY <2>2, <2>3, <2>4, SendComing, ZenonT(30)
<1>5. CASE RecvDisconnected
  <2>1. /\ worker'.job = worker.job /\ worker'.state = worker.state
        /\ worker'.step = worker.step /\ worker.pc = "recv" /\ worker'.pc = "exited"
        /\ UNCHANGED <<live, slot, channel, disk, dropped, failures>>
    BY <1>5 DEF RecvDisconnected, IInv, TypeOK
  <2>2. NothingInHand' /\ (Lossless' => Lossless)
    BY <2>1, ZenonT(30) DEF Coming, NothingInHand, Lossless
  <2>3. ASSUME Lossless'
        PROVE  BlocksComing' /\ EvidenceComing' /\ \A f, K, n : Path(f, K, n) => StillComing(f, K, n)'
    <3>1. BlocksComing /\ EvidenceComing /\ \A f, K, n : Path(f, K, n) => StillComing(f, K, n)
      BY <2>2, <2>3, ZenonT(30) DEF Coming
    <3>2. BlocksComing'
      BY <2>1, <3>1 DEF BlocksComing
    <3>3. EvidenceComing'
      BY <2>1, <3>1 DEF EvidenceComing, InHand
    <3>4. ASSUME NEW f, NEW K, NEW n, Path(f, K, n) PROVE StillComing(f, K, n)'
      <4>1. StillComing(f, K, n)
        BY <3>1, <3>4, ZenonT(30)
      <4> QED
        BY <2>1, <4>1 DEF StillComing, Awaited, InHand
    <3> QED
      BY <3>2, <3>3, <3>4, ZenonT(30)
  <2> QED
    BY <2>2, <2>3, ZenonT(30) DEF Coming
<1>6. CASE WriteFails \/ JobFails
  <2>1. ~Lossless'
    BY <1>6 DEF WriteFails, JobFails, Lossless, IInv, TypeOK
  <2>2. NothingInHand'
    BY <1>6, IdleType, ZenonT(30) DEF WriteFails, JobFails, NothingInHand, IInv, TypeOK
  <2> QED
    BY <2>1, <2>2 DEF Coming
<1>7. CASE UNCHANGED vars
  BY ZenonT(30), <1>7 DEF vars, Coming, NothingInHand, Lossless, BlocksComing, EvidenceComing,
              StillComing, Awaited, InHand
<1> QED
  BY <1>1, <1>2, <1>3, <1>4, <1>5, <1>6, <1>7, EnqueueComing, RecvComing, DrainComing,
     WriteComing, ExecuteComing, CrashComing DEF Next, Worker

(* With every job queued and no write failed, an idle worker has stored    *)
(* what the chain holds, although full states overtake queued jobs and two *)
(* paths write the same field (run_worker, execute).                       *)
THEOREM WorkerNewestValueWins == Spec => []NewestValueWins
<1>1. Init => Coming
  <2> SUFFICES ASSUME Init PROVE Coming
    OBVIOUS
  <2>1. /\ slot = NoState /\ Len(channel) = 0 /\ worker.job = Signal
        /\ worker.state = NoState /\ live.blocks = disk.blocks
        /\ live.slashed = disk.evidence /\ live["finalized"] = disk["finalized"]
        /\ live["pending"] = disk["pending"]
    BY IdleType, ZenonT(30) DEF Init
  <2>2. NothingInHand /\ BlocksComing
    BY <2>1 DEF NothingInHand, BlocksComing
  <2>3. EvidenceComing
    BY <2>1 DEF EvidenceComing, InHand, Signal, Evidence
  <2>4. ASSUME NEW f, NEW K, NEW n, Path(f, K, n) PROVE StillComing(f, K, n)
    <3>1. ~InHand(K) /\ live[f] = disk[f]
      BY <2>1, <2>4 DEF InHand, Path, Signal
    <3> QED
      BY <2>1, <3>1 DEF StillComing, LastHas
  <2> QED
    BY <2>2, <2>3, <2>4 DEF Coming
<1>2. IInv /\ Coming /\ [Next]_vars => Coming'
  BY NextComing
<1>3. IInv /\ Coming => NewestValueWins
  <2> SUFFICES ASSUME IInv, Coming, Quiescent, ~dropped, failures = 0
               PROVE  /\ disk.blocks = live.blocks /\ disk.finalized = live.finalized
                      /\ disk.pending = live.pending /\ disk.evidence = live.slashed
    BY DEF NewestValueWins
  <2>1. /\ Len(channel) = 0 /\ slot = NoState /\ worker.state = NoState
        /\ worker.job \in {Signal, Shutdown} /\ Lossless
    BY DEF Quiescent, IInv, TypeOK, Coming, NothingInHand, Lossless
  <2>2. /\ ~HasKind(channel, "FinalizedHeight") /\ ~InHand("FinalizedHeight")
        /\ ~HasKind(channel, "PendingTransactions") /\ ~InHand("PendingTransactions")
        /\ ~InHand(Evidence)
    BY <2>1 DEF HasKind, InHand, Signal, Shutdown, Evidence
  <2>3. /\ StillComing("finalized", "FinalizedHeight", 1)
        /\ StillComing("pending", "PendingTransactions", 3)
        /\ BlocksComing /\ EvidenceComing
    BY <2>1 DEF Coming, Path
  <2>4. disk["finalized"] = live["finalized"] /\ disk["pending"] = live["pending"]
    BY <2>2, <2>3, ZenonT(30) DEF StillComing, Awaited
  <2>5. disk.blocks = live.blocks
    BY <2>1, <2>3 DEF BlocksComing
  <2>6. ASSUME NEW x \in live.slashed PROVE x \in disk.evidence
    BY <2>1, <2>2, <2>3 DEF EvidenceComing
  <2>7. disk.evidence = live.slashed
    BY <2>3, <2>6, ZenonT(30) DEF EvidenceComing
  <2> QED
    BY <2>4, <2>5, <2>7
<1> QED
  BY <1>1, <1>2, <1>3, WorkerInvariant, PTL DEF Spec

=============================================================================

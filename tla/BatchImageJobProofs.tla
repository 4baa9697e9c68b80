------------------------ MODULE BatchImageJobProofs ------------------------
(***************************************************************************)
(* The life of a batch image job for any number of workers, later requests *)
(* and faults.  Nearly every step changes only one of the job row, the     *)
(* billing tables, the capacity reservation and the provider's batch;      *)
(* Moves says how, and the invariant is then carried over component by     *)
(* component.                                                              *)
(***************************************************************************)
EXTENDS BatchImageJob, TLAPS

JobType ==
  [status : Statuses, named : BOOLEAN, fresh : BOOLEAN, hidden : BOOLEAN,
   retries : 0 .. MaxRetries, cost : Costs \cup {0}]
MoneyType == [balance : Int, frozen : Int, claims : SUBSET {"hold", "capture", "release"}]
TaskType == {"none", "reserved", "bound", "uncertain", "released"}
QueueType == [ready : Nat, delayed : BOOLEAN, active : BOOLEAN, inflight : BOOLEAN,
              lock : Workers \cup {"none"}]
UpstreamType == Running \cup {"none", "succeeded", "failed", "cancelled"}
SubType == [pc : SubmitPcs, started : BOOLEAN, quiet : BOOLEAN]
ClientPcs == {"idle", "cancel", "free", "refund", "provider", "enqueue"}
ClientType == [pc : ClientPcs, seen : Statuses]
WorkerType == [pc : WorkerPcs, seen : Statuses, named : BOOLEAN]

\* Type correctness, component by component.
LEMMA Types ==
  TypeOK <=>
    /\ job \in JobType /\ money \in MoneyType /\ task \in TaskType /\ queue \in QueueType
    /\ upstream \in UpstreamType /\ sub \in SubType /\ client \in ClientType
    /\ rec \in {"idle", "listed", "refund", "retry"}
    /\ work \in [Workers -> WorkerType]
    /\ calls \in 0 .. MaxCalls /\ faults \in 0 .. MaxFaults /\ stalled \in BOOLEAN
BY DEF TypeOK, JobType, MoneyType, TaskType, QueueType, UpstreamType, SubType, ClientPcs,
       ClientType, WorkerType

\* The constants.
LEMMA Constants ==
  /\ Balance \in Nat /\ OtherFrozen \in Nat /\ HoldAmount \in Nat /\ HoldAmount > 0
  /\ Costs \subseteq Nat /\ Costs # {} /\ MaxRetries \in Nat /\ MaxRetries > 0
  /\ MaxCalls \in Nat /\ MaxFaults \in Nat /\ "none" \notin Workers
BY BatchAssumption

-----------------------------------------------------------------------------
(* What the writes do to the record they write.                            *)

\* The row of the job has these values.
Row(status, named, retries) ==
  /\ job' \in JobType
  /\ job'.status = status /\ job'.named = named /\ job'.retries = retries
RowKept == Row(job.status, job.named, job.retries)

\* A write of the status leaves the rest of the row alone.
LEMMA StatusWrite ==
  ASSUME job \in JobType, NEW to \in Statuses,
         job' = [job EXCEPT !.status = to, !.fresh = TRUE]
  PROVE  Row(to, job.named, job.retries)
BY DEF Row, JobType

LEMMA TransitionEffect ==
  ASSUME job \in JobType, NEW to \in Statuses, Transition(to)
  PROVE  CanTransition(job.status, to) /\ Row(to, job.named, job.retries)
BY StatusWrite DEF Transition

\* Writes that leave status, name and count alone.
LEMMA RowKeptEffect ==
  ASSUME job \in JobType
  PROVE  /\ UNCHANGED job => RowKept
         /\ \A b \in BOOLEAN : job' = [job EXCEPT !.fresh = b] => RowKept
         /\ job' = [job EXCEPT !.hidden = TRUE] => RowKept
         /\ \A c \in Costs : job' = [job EXCEPT !.cost = c, !.fresh = TRUE] => RowKept
BY DEF RowKept, Row, JobType

LEMMA AdoptEffect ==
  ASSUME job \in JobType,
         job' = [job EXCEPT !.status = "submitted", !.named = TRUE, !.fresh = TRUE]
  PROVE  Row("submitted", TRUE, job.retries)
BY DEF Row, JobType, Statuses

\* A failed settlement is counted up to the limit.
LEMMA SettlementFailureEffect ==
  ASSUME job \in JobType, RecordSettlementFailure
  PROVE  /\ Row(job.status, job.named, job'.retries)
         /\ job'.retries \in 0 .. MaxRetries /\ job'.retries >= job.retries
<1>1. job.retries \in 0 .. MaxRetries /\ MaxRetries \in Nat
  BY Constants DEF JobType
<1>2. (IF job.retries < MaxRetries THEN job.retries + 1 ELSE job.retries) \in 0 .. MaxRetries
  BY <1>1
<1>3. /\ job'.retries = (IF job.retries < MaxRetries THEN job.retries + 1 ELSE job.retries)
      /\ job'.status = job.status /\ job'.named = job.named
  BY DEF RecordSettlementFailure, JobType
<1>4. job' \in JobType
  BY <1>2 DEF RecordSettlementFailure, JobType
<1> QED BY <1>1, <1>2, <1>3, <1>4 DEF Row

\* The request that submits goes to another step.
LEMMA SubToEffect ==
  ASSUME sub \in SubType, NEW pc \in SubmitPcs, SubTo(pc)
  PROVE  sub' \in SubType /\ sub'.pc = pc /\ sub'.started = sub.started /\ sub'.quiet = sub.quiet
BY DEF SubTo, SubType

LEMMA ClientToEffect ==
  ASSUME client \in ClientType, NEW pc \in ClientPcs, ClientTo(pc)
  PROVE  client' \in ClientType /\ client'.pc = pc /\ (pc # "idle" => client'.seen = client.seen)
BY DEF ClientTo, ClientType, ClientPcs, IdleClient, Statuses

\* A worker goes to another step; the others stay where they are.
Others(w) == \A q \in Workers \ {w} : work'[q] = work[q]
At(w, pc, seen, named) ==
  /\ work' \in [Workers -> WorkerType] /\ Others(w)
  /\ work'[w].pc = pc /\ work'[w].seen = seen /\ work'[w].named = named

LEMMA WorkToEffect ==
  ASSUME work \in [Workers -> WorkerType], NEW w \in Workers, NEW pc \in WorkerPcs, WorkTo(w, pc)
  PROVE  IF pc = "idle" THEN At(w, "idle", "none", FALSE)
                        ELSE At(w, pc, work[w].seen, work[w].named)
<1>1. IdleWorker \in WorkerType /\ IdleWorker.pc = "idle" /\ IdleWorker.seen = "none"
      /\ IdleWorker.named = FALSE
  BY DEF IdleWorker, WorkerType, WorkerPcs, Statuses
<1>2. CASE pc = "idle"
  BY <1>1, <1>2 DEF WorkTo, At, Others
<1>3. CASE pc # "idle"
  <2>1. work' = [work EXCEPT ![w] = [work[w] EXCEPT !.pc = pc]]
    BY <1>3 DEF WorkTo
  <2>2. [work[w] EXCEPT !.pc = pc] \in WorkerType
    BY DEF WorkerType
  <2> QED BY <1>3, <2>1, <2>2 DEF At, Others, WorkerType
<1> QED BY <1>2, <1>3

LEMMA SawEffect ==
  ASSUME work \in [Workers -> WorkerType], job \in JobType, NEW w \in Workers,
         NEW pc \in WorkerPcs, Saw(w, pc)
  PROVE  At(w, pc, job.status, job.named)
<1>1. [pc |-> pc, seen |-> job.status, named |-> job.named] \in WorkerType
  BY DEF WorkerType, JobType
<1> QED BY <1>1 DEF Saw, At, Others

LEMMA EndedEffect ==
  ASSUME work \in [Workers -> WorkerType], NEW w \in Workers, NEW s \in Statuses, Ended(w, s)
  PROVE  At(w, "free", s, work[w].named)
<1>1. work' = [work EXCEPT ![w] = [[work[w] EXCEPT !.pc = "free"] EXCEPT !.seen = s]]
  BY DEF Ended
<1>2. [[work[w] EXCEPT !.pc = "free"] EXCEPT !.seen = s] \in WorkerType
  BY DEF WorkerType, WorkerPcs
<1> QED BY <1>1, <1>2 DEF At, Others, WorkerType

\* A fault is one of the faults still to come.
LEMMA FaultEffect ==
  ASSUME faults \in 0 .. MaxFaults, Fault \/ NoFault
  PROVE  faults' \in 0 .. MaxFaults
BY Constants DEF Fault, NoFault

\* Reserving, capturing and releasing the hold: what becomes of the frozen balance
\* and of the claimed request ids.
LEMMA ReservedEffect ==
  ASSUME money \in MoneyType
  PROVE  /\ HoldReserved(money) \in MoneyType
         /\ HoldReserved(money).frozen = money.frozen + HoldAmount
         /\ HoldReserved(money).claims = money.claims \cup {"hold"}
<1>1. money.frozen + HoldAmount \in Int /\ money.balance - HoldAmount \in Int
  BY Constants DEF MoneyType
<1> QED BY <1>1 DEF HoldReserved, MoneyType

LEMMA CapturedEffect ==
  ASSUME money \in MoneyType, job \in JobType
  PROVE  /\ HoldCaptured(money) \in MoneyType
         /\ "capture" \in money.claims => HoldCaptured(money) = money
         /\ "capture" \notin money.claims =>
              /\ HoldCaptured(money).frozen = money.frozen - HoldAmount
              /\ HoldCaptured(money).claims = money.claims \cup {"capture"}
<1>1. job.cost \in Int
  <2>1. job.cost \in Costs \cup {0}
    BY DEF JobType
  <2>2. \A c \in Costs : c \in Int
    BY BatchAssumption
  <2> QED BY <2>1, <2>2
<1>2. money.frozen - HoldAmount \in Int /\ money.balance + (HoldAmount - job.cost) \in Int
  BY <1>1, Constants DEF MoneyType
<1> QED BY <1>2 DEF HoldCaptured, MoneyType

LEMMA ReleasedEffect ==
  ASSUME money \in MoneyType
  PROVE  /\ HoldReleased(money) \in MoneyType
         /\ "release" \in money.claims => HoldReleased(money) = money
         /\ "release" \notin money.claims =>
              /\ HoldReleased(money).claims = money.claims \cup {"release"}
              /\ HoldReleased(money).frozen =
                   IF "hold" \in money.claims THEN money.frozen - HoldAmount ELSE money.frozen
<1>1. money.frozen - HoldAmount \in Int /\ money.balance + HoldAmount \in Int
  BY Constants DEF MoneyType
<1> QED BY <1>1 DEF HoldReleased, MoneyType

\* A billing command takes effect or not, whatever its caller is told.
LEMMA CallEffect ==
  ASSUME TypeOK, NEW ok \in BOOLEAN
  PROVE  /\ ReserveHold(ok) => /\ money' \in {money, HoldReserved(money)}
                               /\ ok => money' = HoldReserved(money)
                               /\ faults' \in 0 .. MaxFaults
         /\ CaptureHold(ok) => /\ money' \in {money, HoldCaptured(money)}
                               /\ ok => money' = HoldCaptured(money)
                               /\ faults' \in 0 .. MaxFaults
         /\ ReleaseHold(ok) => /\ money' \in {money, HoldReleased(money)}
                               /\ faults' \in 0 .. MaxFaults
BY Types, FaultEffect DEF ReserveHold, CaptureHold, ReleaseHold, BillingCall

\* Releasing the capacity.
LEMMA ReleaseTaskEffect ==
  ASSUME task \in TaskType, NEW reason, ReleaseTask(reason)
  PROVE  /\ task' \in TaskType
         /\ task' # task => task' = "released" /\ (task = "bound" \/ reason \in Confirmed)
BY DEF ReleaseTask, TaskType

\* The queue after a step, with this owner of the job lock.
Queue(lock) ==
  queue' \in QueueType /\ queue'.lock = lock /\ (QueueKeepsJob => QueueKeepsJob')

\* One entry more or less on the ready list.
LEMMA ReadyEffect ==
  ASSUME queue \in QueueType, NEW n \in Nat
  PROVE  /\ queue' = [queue EXCEPT !.ready = n, !.active = TRUE] => Queue(queue.lock)
         /\ n > 0 => /\ queue' = [queue EXCEPT !.inflight = TRUE, !.ready = n] => Queue(queue.lock)
                     /\ queue' = [queue EXCEPT !.active = FALSE, !.ready = n] => Queue(queue.lock)
                     /\ queue' = [queue EXCEPT !.delayed = FALSE, !.ready = n] => Queue(queue.lock)
<1>1. ASSUME queue' = [queue EXCEPT !.ready = n, !.active = TRUE]
      PROVE  Queue(queue.lock)
  <2>1. queue' \in QueueType /\ queue'.lock = queue.lock /\ queue'.active = TRUE
    BY <1>1 DEF QueueType
  <2> QED BY <2>1 DEF Queue, QueueKeepsJob
<1>2. ASSUME n > 0, \/ queue' = [queue EXCEPT !.inflight = TRUE, !.ready = n]
                    \/ queue' = [queue EXCEPT !.active = FALSE, !.ready = n]
                    \/ queue' = [queue EXCEPT !.delayed = FALSE, !.ready = n]
      PROVE  Queue(queue.lock)
  <2>1. queue' \in QueueType /\ queue'.lock = queue.lock /\ queue'.ready = n
    BY <1>2 DEF QueueType
  <2> QED BY <1>2, <2>1 DEF Queue, QueueKeepsJob
<1> QED BY <1>1, <1>2

LEMMA EnqueueEffect ==
  ASSUME TypeOK, NEW ok \in BOOLEAN, EnqueueCall(ok)
  PROVE  Queue(queue.lock) /\ faults' \in 0 .. MaxFaults
<1>1. queue \in QueueType /\ faults \in 0 .. MaxFaults
  BY Types
<1>2. queue.ready + 1 \in Nat /\ queue.ready + 1 > 0
  BY <1>1 DEF QueueType
<1>3. queue' \in {queue, Enqueued(queue)} /\ (Fault \/ NoFault)
  BY DEF EnqueueCall
<1>4. UNCHANGED queue \/ queue' = [queue EXCEPT !.inflight = TRUE, !.ready = queue.ready + 1]
  BY <1>3 DEF Enqueued
<1>5. UNCHANGED queue => Queue(queue.lock)
  BY <1>1 DEF Queue, QueueKeepsJob
<1>6. Queue(queue.lock)
  BY <1>1, <1>2, <1>4, <1>5, ReadyEffect
<1> QED BY <1>1, <1>3, <1>6, FaultEffect

\* The worker's operations on the queue.
LEMMA QueueEffect ==
  ASSUME queue \in QueueType
  PROVE  /\ UNCHANGED queue => Queue(queue.lock)
         /\ queue' = Acked(queue) => Queue(queue.lock)
         /\ queue' = Requeued(queue) => Queue(queue.lock)
         /\ queue.ready > 0 /\ queue' = [queue EXCEPT !.ready = @ - 1, !.active = TRUE] => Queue(queue.lock)
         /\ queue' = [queue EXCEPT !.active = FALSE, !.ready = @ + 1] => Queue(queue.lock)
         /\ queue' = [queue EXCEPT !.delayed = FALSE, !.ready = @ + 1] => Queue(queue.lock)
         /\ \A l \in Workers \cup {"none"} : queue' = [queue EXCEPT !.lock = l] => Queue(l)
<1>1. queue.ready \in Nat
  BY DEF QueueType
<1>2. UNCHANGED queue => Queue(queue.lock)
  BY DEF Queue, QueueKeepsJob
<1>3. queue' = Acked(queue) => Queue(queue.lock)
  BY DEF Queue, QueueKeepsJob, Acked, QueueType
<1>4. queue' = Requeued(queue) => Queue(queue.lock)
  BY DEF Queue, QueueKeepsJob, Requeued, QueueType
<1>5. queue.ready > 0 /\ queue' = [queue EXCEPT !.ready = @ - 1, !.active = TRUE] => Queue(queue.lock)
  <2>1. queue.ready > 0 => queue.ready - 1 \in Nat
    BY <1>1
  <2> QED BY <2>1, ReadyEffect
<1>6. queue.ready + 1 \in Nat /\ queue.ready + 1 > 0
  BY <1>1
<1>7. /\ queue' = [queue EXCEPT !.active = FALSE, !.ready = @ + 1] => Queue(queue.lock)
      /\ queue' = [queue EXCEPT !.delayed = FALSE, !.ready = @ + 1] => Queue(queue.lock)
  BY <1>6, ReadyEffect
<1>8. \A l \in Workers \cup {"none"} : queue' = [queue EXCEPT !.lock = l] => Queue(l)
  BY DEF Queue, QueueKeepsJob, QueueType
<1> QED BY <1>2, <1>3, <1>4, <1>5, <1>6, <1>7, <1>8

-----------------------------------------------------------------------------
(* Type correctness.                                                       *)

LEMMA TypesNext ==
  TypeOK' <=>
    /\ job' \in JobType /\ money' \in MoneyType /\ task' \in TaskType /\ queue' \in QueueType
    /\ upstream' \in UpstreamType /\ sub' \in SubType /\ client' \in ClientType
    /\ rec' \in {"idle", "listed", "refund", "retry"}
    /\ work' \in [Workers -> WorkerType]
    /\ calls' \in 0 .. MaxCalls /\ faults' \in 0 .. MaxFaults /\ stalled' \in BOOLEAN
BY DEF TypeOK, JobType, MoneyType, TaskType, QueueType, UpstreamType, SubType, ClientPcs,
       ClientType, WorkerType

\* The types of what only the submitting request, only a later request, only the
\* scanner and only a worker writes.
LEMMA SubmitTypes == ASSUME TypeOK, Submit \/ SubmitCrash PROVE TypeOK'
<1>t. /\ job \in JobType /\ money \in MoneyType /\ task \in TaskType /\ queue \in QueueType
      /\ upstream \in UpstreamType /\ sub \in SubType /\ faults \in 0 .. MaxFaults
  BY Types
<1>q. ASSUME job' \in JobType, money' \in MoneyType, task' \in TaskType, queue' \in QueueType,
             upstream' \in UpstreamType, sub' \in SubType, faults' \in 0 .. MaxFaults,
             UNCHANGED <<client, rec, work, calls, stalled>>
      PROVE  TypeOK'
  BY <1>q, Types, TypesNext
<1>1. CASE SubmitReserve \/ SubmitBind \/ SubmitRebind \/ SubmitReturn \/ SubmitCrash
  <2>1. sub' \in SubType
    BY <1>1, <1>t, SubToEffect DEF SubmitReserve, SubmitBind, SubmitRebind, SubmitReturn,
       SubmitCrash, SubmitPcs
  <2>2. task' \in TaskType /\ faults' \in 0 .. MaxFaults
    BY <1>1, <1>t, FaultEffect DEF SubmitReserve, SubmitBind, SubmitRebind, SubmitReturn,
       SubmitCrash, TaskType
  <2> QED BY <1>1, <1>q, <1>t, <2>1, <2>2 DEF SubmitReserve, SubmitBind, SubmitRebind,
             SubmitReturn, SubmitCrash
<1>2. CASE SubmitIntent
  <2>1. sub' \in SubType
    <3>1. \A pc \in SubmitPcs : SubTo(pc) => sub' \in SubType
      BY <1>t, SubToEffect
    <3>2. [sub EXCEPT !.pc = "submit", !.started = TRUE] \in SubType
      BY <1>t DEF SubType, SubmitPcs
    <3> QED BY <1>2, <3>1, <3>2 DEF SubmitIntent, SubmitPcs
  <2>2. task' \in TaskType /\ faults' \in 0 .. MaxFaults
    BY <1>2, <1>t, FaultEffect DEF SubmitIntent, TaskType
  <2> QED BY <1>2, <1>q, <1>t, <2>1, <2>2 DEF SubmitIntent
<1>3. CASE SubmitHold \/ SubmitAbandon \/ SubmitRefund
  <2>1. sub' \in SubType
    BY <1>3, <1>t, SubToEffect DEF SubmitHold, SubmitAbandon, SubmitRefund, SubmitPcs
  <2>2. \E ok \in BOOLEAN : ReserveHold(ok) \/ ReleaseHold(ok)
    BY <1>3 DEF SubmitHold, SubmitAbandon, SubmitRefund
  <2>3. money' \in MoneyType /\ faults' \in 0 .. MaxFaults
    BY <1>t, <2>2, CallEffect, ReservedEffect, ReleasedEffect
  <2> QED BY <1>3, <1>q, <1>t, <2>1, <2>3 DEF SubmitHold, SubmitAbandon, SubmitRefund
<1>4. CASE SubmitEnqueue \/ SubmitRetry
  <2>1. sub' \in SubType
    BY <1>4, <1>t, SubToEffect DEF SubmitEnqueue, SubmitRetry, SubmitPcs
  <2>2. queue' \in QueueType /\ faults' \in 0 .. MaxFaults
    BY <1>4, EnqueueEffect DEF SubmitEnqueue, SubmitRetry, Queue
  <2> QED BY <1>4, <1>q, <1>t, <2>1, <2>2 DEF SubmitEnqueue, SubmitRetry
<1>5. CASE SubmitProvider \/ SubmitAbort
  <2>1. sub' \in SubType
    BY <1>5, <1>t, SubToEffect DEF SubmitProvider, SubmitAbort, SubmitPcs
  <2>2. upstream' \in UpstreamType /\ faults' \in 0 .. MaxFaults
    BY <1>5, <1>t, FaultEffect DEF SubmitProvider, SubmitAbort, CancelUpstream, UpstreamType, Running
  <2> QED BY <1>5, <1>q, <1>t, <2>1, <2>2 DEF SubmitProvider, SubmitAbort
<1>6. CASE SubmitCreate \/ SubmitAbandonFail \/ SubmitAdopt \/ SubmitRecord \/ SubmitHide
  <2>1. sub' \in SubType
    BY <1>6, <1>t, SubToEffect DEF SubmitCreate, SubmitAbandonFail, SubmitAdopt, SubmitRecord,
       SubmitHide, SubmitPcs
  <2>2. job' \in JobType
    BY <1>6, <1>t, StatusWrite, TransitionEffect, AdoptEffect, RowKeptEffect
       DEF SubmitCreate, SubmitAbandonFail, SubmitAdopt, SubmitRecord, SubmitHide,
           RecordSubmitFailure, Row, RowKept, Statuses, Terminal
  <2>3. faults' \in 0 .. MaxFaults
    BY <1>6, <1>t, FaultEffect DEF SubmitCreate, SubmitAbandonFail, SubmitAdopt, SubmitRecord,
       SubmitHide
  <2> QED BY <1>6, <1>q, <1>t, <2>1, <2>2, <2>3 DEF SubmitCreate, SubmitAbandonFail, SubmitAdopt,
             SubmitRecord, SubmitHide
<1>7. CASE SubmitItems \/ SubmitUpload
  <2>1. sub' \in SubType
    <3>1. \A pc \in SubmitPcs : SubTo(pc) => sub' \in SubType
      BY <1>t, SubToEffect
    <3>2. [sub EXCEPT !.pc = "refund", !.quiet = TRUE] \in SubType
      BY <1>t DEF SubType, SubmitPcs
    <3> QED BY <1>7, <3>1, <3>2 DEF SubmitItems, SubmitUpload, SubmitPcs
  <2>2. job' \in JobType
    BY <1>7, <1>t, TransitionEffect DEF SubmitItems, SubmitUpload, Row, Statuses
  <2>3. faults' \in 0 .. MaxFaults
    BY <1>7, <1>t, FaultEffect DEF SubmitItems, SubmitUpload
  <2> QED BY <1>7, <1>q, <1>t, <2>1, <2>2, <2>3 DEF SubmitItems, SubmitUpload
<1> QED BY <1>1, <1>2, <1>3, <1>4, <1>5, <1>6, <1>7 DEF Submit

LEMMA ClientTypes ==
  ASSUME TypeOK, CancelRead \/ ResubmitRead \/ Client \/ ClientFail
  PROVE  TypeOK'
<1>t. /\ job \in JobType /\ money \in MoneyType /\ task \in TaskType /\ queue \in QueueType
      /\ upstream \in UpstreamType /\ client \in ClientType /\ faults \in 0 .. MaxFaults
      /\ calls \in 0 .. MaxCalls /\ MaxCalls \in Nat
  BY Types, Constants
<1>q. ASSUME job' \in JobType, money' \in MoneyType, task' \in TaskType, queue' \in QueueType,
             upstream' \in UpstreamType, client' \in ClientType, faults' \in 0 .. MaxFaults,
             calls' \in 0 .. MaxCalls, UNCHANGED <<sub, rec, work, stalled>>
      PROVE  TypeOK'
  BY <1>q, Types, TypesNext
<1>1. CASE CancelRead \/ ResubmitRead
  <2>1. client' \in ClientType
    <3>1. job.status \in Statuses
      BY <1>t DEF JobType
    <3>2. \A pc \in ClientPcs, s \in Statuses : [seen |-> s, pc |-> pc] \in ClientType
      BY DEF ClientType
    <3>3. IdleClient \in ClientType
      BY DEF IdleClient, ClientType, ClientPcs, Statuses
    <3> QED BY <1>1, <3>1, <3>2, <3>3 DEF CancelRead, ResubmitRead, ClientPcs, Statuses
  <2>2. calls' \in 0 .. MaxCalls
    BY <1>1, <1>t DEF CancelRead, ResubmitRead
  <2> QED BY <1>1, <1>q, <1>t, <2>1, <2>2 DEF CancelRead, ResubmitRead
<1>2. CASE CancelTransition
  <2>1. client' \in ClientType
    BY <1>2, <1>t, ClientToEffect DEF CancelTransition, ClientPcs
  <2>2. job' \in JobType
    BY <1>2, <1>t, TransitionEffect DEF CancelTransition, Row, Statuses, Terminal
  <2> QED BY <1>2, <1>q, <1>t, <2>1, <2>2 DEF CancelTransition
<1>3. CASE CancelFree \/ CancelProvider \/ ClientFail
  <2>1. client' \in ClientType
    BY <1>3, <1>t, ClientToEffect DEF CancelFree, CancelProvider, ClientFail, ClientPcs
  <2>2. task' \in TaskType
    BY <1>3, <1>t, ReleaseTaskEffect DEF CancelFree, CancelProvider, ClientFail
  <2>3. upstream' \in UpstreamType /\ faults' \in 0 .. MaxFaults
    BY <1>3, <1>t, FaultEffect DEF CancelFree, CancelProvider, ClientFail, CancelUpstream, UpstreamType
  <2> QED BY <1>3, <1>q, <1>t, <2>1, <2>2, <2>3 DEF CancelFree, CancelProvider, ClientFail
<1>4. CASE CancelRefund
  <2>1. client' \in ClientType
    BY <1>4, <1>t, ClientToEffect DEF CancelRefund, ClientPcs
  <2>2. money' \in MoneyType /\ faults' \in 0 .. MaxFaults
    BY <1>4, <1>t, CallEffect, ReleasedEffect DEF CancelRefund
  <2> QED BY <1>4, <1>q, <1>t, <2>1, <2>2 DEF CancelRefund
<1>5. CASE ClientEnqueue
  <2>1. client' \in ClientType
    BY <1>5, <1>t, ClientToEffect DEF ClientEnqueue, ClientPcs
  <2>2. queue' \in QueueType /\ faults' \in 0 .. MaxFaults
    BY <1>5, EnqueueEffect DEF ClientEnqueue, Queue
  <2> QED BY <1>5, <1>q, <1>t, <2>1, <2>2 DEF ClientEnqueue
<1> QED BY <1>1, <1>2, <1>3, <1>4, <1>5 DEF Client

LEMMA RecoverTypes == ASSUME TypeOK, Recover PROVE TypeOK'
<1>t. job \in JobType /\ money \in MoneyType /\ queue \in QueueType /\ faults \in 0 .. MaxFaults
  BY Types
<1>q. ASSUME job' \in JobType, money' \in MoneyType, queue' \in QueueType,
             rec' \in {"idle", "listed", "refund", "retry"}, faults' \in 0 .. MaxFaults,
             UNCHANGED <<task, upstream, sub, client, work, calls, stalled>>
      PROVE  TypeOK'
  BY <1>q, Types, TypesNext
<1>1. CASE RecoverList \/ RecoverFail
  <2>1. job' \in JobType
    BY <1>1, <1>t, StatusWrite DEF RecoverList, RecoverFail, Row, Statuses, Terminal
  <2> QED BY <1>1, <1>q, <1>t, <2>1 DEF RecoverList, RecoverFail
<1>2. CASE RecoverRefund
  <2>1. money' \in MoneyType /\ faults' \in 0 .. MaxFaults
    BY <1>2, <1>t, CallEffect, ReleasedEffect DEF RecoverRefund
  <2> QED BY <1>2, <1>q, <1>t, <2>1 DEF RecoverRefund
<1>3. CASE RecoverRetry
  <2>1. queue' \in QueueType /\ faults' \in 0 .. MaxFaults
    BY <1>3, EnqueueEffect DEF RecoverRetry, Queue
  <2> QED BY <1>3, <1>q, <1>t, <2>1 DEF RecoverRetry
<1> QED BY <1>1, <1>2, <1>3 DEF Recover

LEMMA WorkerTypes ==
  ASSUME TypeOK, NEW w \in Workers, Worker(w) \/ WorkerFail(w) \/ WorkerCrash(w)
  PROVE  TypeOK'
<1>t. /\ job \in JobType /\ money \in MoneyType /\ task \in TaskType /\ queue \in QueueType
      /\ work \in [Workers -> WorkerType] /\ faults \in 0 .. MaxFaults /\ job.status \in Statuses
      /\ queue.lock \in Workers \cup {"none"}
  BY Types DEF JobType, QueueType
<1>q. ASSUME job' \in JobType, money' \in MoneyType, task' \in TaskType, queue' \in QueueType,
             work' \in [Workers -> WorkerType], faults' \in 0 .. MaxFaults,
             UNCHANGED <<upstream, sub, client, rec, calls, stalled>>
      PROVE  TypeOK'
  BY <1>q, Types, TypesNext
<1>w. /\ \A pc \in WorkerPcs : WorkTo(w, pc) \/ Saw(w, pc) => work' \in [Workers -> WorkerType]
      /\ \A s \in Statuses : Ended(w, s) => work' \in [Workers -> WorkerType]
  BY <1>t, WorkToEffect, SawEffect, EndedEffect DEF At
<1>1. CASE WorkerReserve(w) \/ WorkerLock(w) \/ WorkerFinish(w) \/ WorkerUnlock(w)
  <2>1. work' \in [Workers -> WorkerType]
    BY <1>1, <1>w DEF WorkerReserve, WorkerLock, WorkerFinish, WorkerUnlock, WorkerPcs
  <2>2. queue' \in QueueType
    BY <1>1, <1>t, QueueEffect DEF WorkerReserve, WorkerLock, WorkerFinish, WorkerUnlock, Queue
  <2> QED BY <1>1, <1>q, <1>t, <2>1, <2>2 DEF WorkerReserve, WorkerLock, WorkerFinish, WorkerUnlock
<1>2. CASE \/ WorkerRoute(w) \/ ProcessLoad(w) \/ ProcessAdmit(w) \/ WorkerFail(w) \/ WorkerCrash(w)
  <2>1. work' \in [Workers -> WorkerType]
    BY <1>2, <1>w DEF WorkerRoute, ProcessLoad, ProcessAdmit, WorkerFail, WorkerCrash, WorkerPcs
  <2>2. faults' \in 0 .. MaxFaults
    BY <1>2, <1>t, FaultEffect DEF WorkerRoute, ProcessLoad, ProcessAdmit, WorkerFail, WorkerCrash
  <2> QED BY <1>2, <1>q, <1>t, <2>1, <2>2 DEF WorkerRoute, ProcessLoad, ProcessAdmit, WorkerFail,
             WorkerCrash
<1>3. CASE ProcessRecover(w) \/ ProcessFree(w) \/ ProcessPoll(w) \/ SettleLoad(w) \/ SettleFree(w)
  <2>1. work' \in [Workers -> WorkerType]
    BY <1>3, <1>w DEF ProcessRecover, ProcessFree, ProcessPoll, SettleLoad, SettleFree, WorkerPcs
  <2>2. task' \in TaskType
    BY <1>3, <1>t, ReleaseTaskEffect DEF ProcessRecover, ProcessFree, ProcessPoll, SettleLoad,
       SettleFree
  <2> QED BY <1>3, <1>q, <1>t, <2>1, <2>2 DEF ProcessRecover, ProcessFree, ProcessPoll, SettleLoad,
             SettleFree
<1>4. CASE ProcessRefund(w) \/ SettleCapture(w) \/ SettleExhaust(w)
  <2>1. work' \in [Workers -> WorkerType]
    BY <1>4, <1>w DEF ProcessRefund, SettleCapture, SettleExhaust, WorkerPcs
  <2>2. \E ok \in BOOLEAN : CaptureHold(ok) \/ ReleaseHold(ok)
    BY <1>4 DEF ProcessRefund, SettleCapture, SettleExhaust
  <2>3. money' \in MoneyType /\ faults' \in 0 .. MaxFaults
    BY <1>t, <2>2, CallEffect, CapturedEffect, ReleasedEffect
  <2>4. job' \in JobType
    BY <1>4, <1>t, SettlementFailureEffect DEF ProcessRefund, SettleCapture, SettleExhaust, Row
  <2> QED BY <1>4, <1>q, <1>t, <2>1, <2>3, <2>4 DEF ProcessRefund, SettleCapture, SettleExhaust
<1>5. CASE ProcessIndex(w) \/ SettleFailure(w) \/ SettleExpire(w) \/ SettleMark(w)
  <2>1. work' \in [Workers -> WorkerType]
    BY <1>5, <1>w DEF ProcessIndex, SettleFailure, SettleExpire, SettleMark, WorkerPcs
  <2>2. job' \in JobType
    BY <1>5, <1>t, SettlementFailureEffect, StatusWrite, TransitionEffect, RowKeptEffect
       DEF ProcessIndex, SettleFailure, SettleExpire, SettleMark, Row, RowKept, Statuses, Terminal
  <2> QED BY <1>5, <1>q, <1>t, <2>1, <2>2 DEF ProcessIndex, SettleFailure, SettleExpire, SettleMark
<1>6. CASE ProcessTransition(w)
  <2>1. PICK to \in {"running", "indexing", "settling", "failed", "cancelled"} :
          \/ Transition(to) /\ (Ended(w, to) \/ WorkTo(w, "index") \/ WorkTo(w, "requeue"))
          \/ UNCHANGED job /\ WorkTo(w, "requeue")
    BY <1>6 DEF ProcessTransition
  <2>2. to \in Statuses
    BY DEF Statuses, Terminal
  <2>3. work' \in [Workers -> WorkerType]
    BY <1>w, <2>1, <2>2 DEF WorkerPcs
  <2>4. job' \in JobType
    BY <1>t, <2>1, <2>2, TransitionEffect DEF Row
  <2> QED BY <1>6, <1>q, <1>t, <2>3, <2>4 DEF ProcessTransition
<1> QED BY <1>1, <1>2, <1>3, <1>4, <1>5, <1>6 DEF Worker

\* Every step preserves the types.
LEMMA TypeStep == TypeOK /\ [Next]_vars => TypeOK'
<1> SUFFICES ASSUME TypeOK, [Next]_vars PROVE TypeOK'
  OBVIOUS
<1>t. job \in JobType /\ queue \in QueueType /\ upstream \in UpstreamType
      /\ faults \in 0 .. MaxFaults /\ stalled \in BOOLEAN
  BY Types
<1>q. ASSUME job' \in JobType, queue' \in QueueType, upstream' \in UpstreamType,
             faults' \in 0 .. MaxFaults, stalled' \in BOOLEAN,
             UNCHANGED <<money, task, sub, client, rec, work, calls>>
      PROVE  TypeOK'
  BY <1>q, Types, TypesNext
<1>1. CASE JobAges \/ SubmitHeartbeat
  <2>1. job' \in JobType
    BY <1>1, <1>t, RowKeptEffect DEF JobAges, SubmitHeartbeat, Row, RowKept
  <2> QED BY <1>1, <1>q, <1>t, <2>1 DEF JobAges, SubmitHeartbeat
<1>2. CASE LockExpires \/ RecoverStaleActive \/ MoveDueDelayed
  <2>1. queue' \in QueueType
    BY <1>2, <1>t, QueueEffect DEF LockExpires, RecoverStaleActive, MoveDueDelayed, Queue
  <2>2. faults' \in 0 .. MaxFaults /\ stalled' \in BOOLEAN
    BY <1>2, <1>t, FaultEffect DEF LockExpires, RecoverStaleActive, MoveDueDelayed, Missed
  <2> QED BY <1>2, <1>q, <1>t, <2>1, <2>2 DEF LockExpires, RecoverStaleActive, MoveDueDelayed
<1>3. CASE Provider
  BY <1>3, <1>q, <1>t DEF Provider, UpstreamType, Running
<1>4. CASE UNCHANGED vars
  BY <1>4, <1>q, <1>t DEF vars
<1> QED BY <1>1, <1>2, <1>3, <1>4, SubmitTypes, ClientTypes, RecoverTypes, WorkerTypes DEF Next

-----------------------------------------------------------------------------
(* What a step that is not Submit's does to the job row, to the billing    *)
(* tables, to the capacity and to the provider's batch.                    *)

Moved(status, named) == Row(status, named, job.retries) /\ UNCHANGED <<money, task, upstream>>
Counted == Row(job.status, job.named, job'.retries) /\ job'.retries >= job.retries

\* Cancel and the scanner.
OwnerMoves ==
  \/ job.status \in {"created", "uploading", "submitted", "running"} /\ Moved("cancelled", job.named)
  \/ ~job.named /\ job.status \in {"created", "uploading"} /\ Moved("failed", job.named)
WorkerMoves(w) ==
  /\ job.named
  /\ \/ work[w].pc = "toRunning" /\ job.status \in {"submitted", "running"} /\ Moved("running", TRUE)
     \/ work[w].pc = "toIndexing" /\ job.status \in {"submitted", "running"} /\ Moved("indexing", TRUE)
     \/ work[w].pc = "toSettling" /\ job.status = "indexing" /\ Moved("settling", TRUE)
     \/ work[w].pc \in {"toFailed", "expire"} /\ job.status \notin Terminal /\ Moved("failed", TRUE)
     \/ work[w].pc = "toCancelled" /\ job.status \in {"submitted", "running"} /\ Moved("cancelled", TRUE)
     \/ work[w].pc = "mark" /\ job.status = "settling" /\ Moved("completed", TRUE)
Refunds ==
  /\ Counted /\ UNCHANGED <<task, upstream>> /\ money' = HoldReleased(money)
  /\ job.status \in Unpaid \/ \E w \in Workers : work[w].pc = "exhaust"
Captures ==
  /\ RowKept /\ UNCHANGED <<task, upstream>> /\ money' = HoldCaptured(money)
  /\ \E w \in Workers : work[w].pc = "capture"
Frees ==
  /\ RowKept /\ UNCHANGED <<money, upstream>> /\ task' = "released"
  /\ (job.named /\ upstream \notin Running) \/ (task = "bound" /\ job.status \in Terminal)
BatchMoves ==
  RowKept /\ UNCHANGED <<money, task>> /\ upstream \in Running /\ upstream' # "none"

OutsideStep ==
  \/ OwnerMoves \/ \E w \in Workers : WorkerMoves(w)
  \/ Counted /\ UNCHANGED <<money, task, upstream>>
  \/ Refunds \/ Captures \/ Frees \/ BatchMoves

\* The status table, read backwards.
LEMMA Table ==
  ASSUME NEW s
  PROVE  /\ CanTransition(s, "running") => s \in {"submitted", "running"}
         /\ CanTransition(s, "indexing") => s \in {"submitted", "running"}
         /\ CanTransition(s, "settling") => s = "indexing"
         /\ CanTransition(s, "failed") => s \notin Terminal \cup {"none"}
         /\ CanTransition(s, "cancelled") => s \in {"created", "uploading", "submitted", "running"}
         /\ CanTransition(s, "uploading") => s = "created"
         /\ CanTransition(s, "submitted") => s \in {"created", "uploading"}
BY DEF CanTransition, Terminal

LEMMA KeptIsCounted == ASSUME job \in JobType PROVE RowKept => Counted
<1>1. job.retries >= job.retries
  BY Constants DEF JobType
<1> QED BY <1>1 DEF RowKept, Counted, Row

\* A release of capacity that names its reason.
LEMMA FreesEffect ==
  ASSUME TypeOK, NEW reason, ReleaseTask(reason), RowKept, UNCHANGED <<money, upstream>>,
         (job.named /\ upstream \notin Running) \/ (reason \notin Confirmed /\ job.status \in Terminal)
  PROVE  OutsideStep
<1>1. task' # task => task' = "released" /\ (task = "bound" \/ reason \in Confirmed)
  BY Types, ReleaseTaskEffect
<1>2. Counted
  BY Types, KeptIsCounted
<1> QED BY <1>1, <1>2 DEF OutsideStep, Frees

LEMMA ClientOutside ==
  ASSUME TypeOK, StageInvariant, CancelRead \/ ResubmitRead \/ Client \/ ClientFail
  PROVE  OutsideStep
<1>t. job \in JobType /\ money \in MoneyType /\ upstream \in UpstreamType
  BY Types
<1>k. UNCHANGED job => RowKept /\ Counted
  BY <1>t, RowKeptEffect, KeptIsCounted
<1>1. CASE CancelRead \/ ResubmitRead \/ ClientFail \/ ClientEnqueue
  BY <1>1, <1>k DEF CancelRead, ResubmitRead, ClientFail, ClientEnqueue, OutsideStep
<1>2. CASE CancelTransition
  <2>1. CASE Transition("cancelled")
    <3>1. CanTransition(job.status, "cancelled") /\ Row("cancelled", job.named, job.retries)
      BY <1>t, <2>1, TransitionEffect DEF Statuses, Terminal
    <3> QED BY <1>2, <3>1, Table DEF CancelTransition, OutsideStep, OwnerMoves, Moved
  <2>2. CASE UNCHANGED job
    BY <1>2, <1>k, <2>2 DEF CancelTransition, OutsideStep
  <2> QED BY <1>2, <2>1, <2>2 DEF CancelTransition
<1>3. CASE CancelFree
  <2>1. job.status \in Terminal
    BY <1>3 DEF CancelFree, StageInvariant, RefundStage
  <2>2. "local_terminal" \notin Confirmed
    BY DEF Confirmed
  <2> QED BY <1>3, <1>k, <2>1, <2>2, FreesEffect DEF CancelFree
<1>4. CASE CancelRefund
  <2>1. job.status \in Unpaid
    BY <1>4 DEF CancelRefund, StageInvariant, RefundStage
  <2>2. money' \in {money, HoldReleased(money)}
    BY <1>4, CallEffect DEF CancelRefund
  <2> QED BY <1>4, <1>k, <2>1, <2>2 DEF CancelRefund, OutsideStep, Refunds
<1>5. CASE CancelProvider
  <2>1. upstream' = upstream \/ (upstream \in Running /\ upstream' = "cancelled")
    BY <1>5 DEF CancelProvider, CancelUpstream
  <2> QED BY <1>5, <1>k, <2>1 DEF CancelProvider, OutsideStep, BatchMoves
<1> QED BY <1>1, <1>2, <1>3, <1>4, <1>5 DEF Client

LEMMA RecoverOutside == ASSUME TypeOK, StageInvariant, Recover PROVE OutsideStep
<1>t. job \in JobType
  BY Types
<1>k. UNCHANGED job => RowKept /\ Counted
  BY <1>t, RowKeptEffect, KeptIsCounted
<1>1. CASE RecoverList \/ RecoverRetry
  BY <1>1, <1>k DEF RecoverList, RecoverRetry, OutsideStep
<1>2. CASE RecoverFail
  <2>1. CASE Unsubmitted /\ ~job.fresh
    <3>1. Row("failed", job.named, job.retries)
      BY <1>2, <1>t, <2>1, StatusWrite DEF RecoverFail, Statuses, Terminal
    <3> QED BY <1>2, <2>1, <3>1 DEF RecoverFail, Unsubmitted, OutsideStep, OwnerMoves, Moved
  <2>2. CASE ~(Unsubmitted /\ ~job.fresh)
    BY <1>2, <1>k, <2>2 DEF RecoverFail, OutsideStep
  <2> QED BY <2>1, <2>2
<1>3. CASE RecoverRefund
  <2>1. job.status \in Unpaid
    BY <1>3 DEF RecoverRefund, StageInvariant, RefundStage
  <2>2. money' \in {money, HoldReleased(money)}
    BY <1>3, CallEffect DEF RecoverRefund
  <2> QED BY <1>3, <1>k, <2>1, <2>2 DEF RecoverRefund, OutsideStep, Refunds
<1> QED BY <1>1, <1>2, <1>3 DEF Recover

LEMMA WorkerOutside ==
  ASSUME TypeOK, StageInvariant, NEW w \in Workers, Worker(w) \/ WorkerFail(w) \/ WorkerCrash(w)
  PROVE  OutsideStep
<1>t. job \in JobType /\ work[w] \in WorkerType
  BY Types
<1>k. UNCHANGED job => RowKept /\ Counted
  BY <1>t, RowKeptEffect, KeptIsCounted
<1>s. WorkerStage(w) /\ SubmitStage
  BY DEF StageInvariant
<1>1. CASE \/ WorkerReserve(w) \/ WorkerLock(w) \/ WorkerFinish(w) \/ WorkerUnlock(w) \/ WorkerRoute(w)
           \/ ProcessLoad(w) \/ ProcessAdmit(w) \/ WorkerFail(w) \/ WorkerCrash(w)
  BY <1>1, <1>k DEF WorkerReserve, WorkerLock, WorkerFinish, WorkerUnlock, WorkerRoute, ProcessLoad,
     ProcessAdmit, WorkerFail, WorkerCrash, OutsideStep
<1>2. CASE ProcessRecover(w) \/ SettleFree(w)
  <2>1. job.named /\ upstream \notin Running
    BY <1>2, <1>s DEF ProcessRecover, SettleFree, WorkerStage, KnowsEnd, Polled, Settling
  <2> QED BY <1>2, <1>k, <2>1, FreesEffect DEF ProcessRecover, SettleFree
<1>3. CASE ProcessFree(w)
  <2>1. job.status \in Terminal
    BY <1>3, <1>s DEF ProcessFree, WorkerStage, RefundStage
  <2>2. "local_terminal" \notin Confirmed
    BY DEF Confirmed
  <2> QED BY <1>3, <1>k, <2>1, <2>2, FreesEffect DEF ProcessFree
<1>4. CASE ProcessPoll(w)
  <2>1. UNCHANGED task \/ (job.named /\ upstream \notin Running /\ ReleaseTask("provider_terminal"))
    BY <1>4, <1>s DEF ProcessPoll, WorkerStage
  <2> QED BY <1>4, <1>k, <2>1, FreesEffect DEF ProcessPoll, OutsideStep
<1>5. CASE SettleLoad(w)
  <2>1. job.named /\ upstream \notin Running
    BY <1>5, <1>s DEF SettleLoad, WorkerStage, KnowsEnd, Polled, Settling
  <2>2. UNCHANGED task \/ ReleaseTask("provider_terminal")
    BY <1>5 DEF SettleLoad
  <2> QED BY <1>5, <1>k, <2>1, <2>2, FreesEffect DEF SettleLoad, OutsideStep
<1>6. CASE ProcessRefund(w)
  <2>1. job.status \in Unpaid
    BY <1>6, <1>s DEF ProcessRefund, WorkerStage, RefundStage
  <2>2. money' \in {money, HoldReleased(money)}
    BY <1>6, CallEffect DEF ProcessRefund
  <2> QED BY <1>6, <1>k, <2>1, <2>2 DEF ProcessRefund, OutsideStep, Refunds
<1>7. CASE SettleExhaust(w)
  <2>1. money' \in {money, HoldReleased(money)}
    BY <1>7, CallEffect DEF SettleExhaust
  <2>2. Counted
    BY <1>7, <1>k, <1>t, SettlementFailureEffect DEF SettleExhaust, Counted
  <2> QED BY <1>7, <2>1, <2>2 DEF SettleExhaust, OutsideStep, Refunds
<1>8. CASE SettleCapture(w)
  <2>1. money' \in {money, HoldCaptured(money)}
    BY <1>8, CallEffect DEF SettleCapture
  <2> QED BY <1>8, <1>k, <2>1 DEF SettleCapture, OutsideStep, Captures
<1>9. CASE SettleFailure(w)
  <2>1. Counted
    BY <1>9, <1>t, SettlementFailureEffect DEF SettleFailure, Counted
  <2> QED BY <1>9, <2>1 DEF SettleFailure, OutsideStep
<1>10. CASE ProcessIndex(w)
  <2>1. RowKept
    BY <1>10, <1>k, <1>t, RowKeptEffect DEF ProcessIndex
  <2> QED BY <1>10, <1>t, <2>1, KeptIsCounted DEF ProcessIndex, OutsideStep
<1>11. CASE SettleExpire(w) \/ SettleMark(w)
  <2>1. job.named
    BY <1>11, <1>s DEF SettleExpire, SettleMark, WorkerStage, KnowsEnd, Polled, Settling
  <2>2. CASE Transition("failed") /\ work[w].pc = "expire"
    <3>1. CanTransition(job.status, "failed") /\ Row("failed", job.named, job.retries)
      BY <1>t, <2>2, TransitionEffect DEF Statuses, Terminal
    <3>2. job.named = TRUE
      BY <1>t, <2>1 DEF JobType
    <3> QED BY <1>11, <2>1, <2>2, <3>1, <3>2, Table
            DEF SettleExpire, SettleMark, OutsideStep, WorkerMoves, Moved
  <2>3. CASE /\ work[w].pc = "mark" /\ job.status = "settling"
             /\ job' = [job EXCEPT !.status = "completed", !.fresh = TRUE]
    <3>1. Row("completed", job.named, job.retries)
      BY <1>t, <2>3, StatusWrite DEF Statuses, Terminal
    <3>2. job.named = TRUE
      BY <1>t, <2>1 DEF JobType
    <3> QED BY <1>11, <2>1, <2>3, <3>1, <3>2
            DEF SettleExpire, SettleMark, OutsideStep, WorkerMoves, Moved
  <2>4. CASE UNCHANGED job
    BY <1>11, <1>k, <2>4 DEF SettleExpire, SettleMark, OutsideStep
  <2> QED BY <1>11, <2>2, <2>3, <2>4 DEF SettleExpire, SettleMark
<1>12. CASE ProcessTransition(w)
  <2>1. job.named /\ job.named = TRUE
    <3>1. job.named
      BY <1>12, <1>s DEF ProcessTransition, WorkerStage, KnowsEnd, Polled
    <3> QED BY <1>t, <3>1 DEF JobType
  <2>2. PICK to \in {"running", "indexing", "settling", "failed", "cancelled"} :
          /\ <<work[w].pc, to>> \in {<<"toRunning", "running">>, <<"toIndexing", "indexing">>,
                                     <<"toSettling", "settling">>, <<"toFailed", "failed">>,
                                     <<"toCancelled", "cancelled">>}
          /\ Transition(to) \/ UNCHANGED job
    BY <1>12 DEF ProcessTransition
  <2>3. CASE Transition(to)
    <3>1. CanTransition(job.status, to) /\ Row(to, TRUE, job.retries)
      BY <1>t, <2>1, <2>3, TransitionEffect DEF Statuses, Terminal
    <3>2. Moved(to, TRUE)
      BY <1>12, <3>1 DEF ProcessTransition, Moved
    <3>3. WorkerMoves(w)
      <4>1. CASE work[w].pc = "toRunning" /\ to = "running"
        BY <2>1, <3>1, <3>2, <4>1, Table DEF WorkerMoves
      <4>2. CASE work[w].pc = "toIndexing" /\ to = "indexing"
        BY <2>1, <3>1, <3>2, <4>2, Table DEF WorkerMoves
      <4>3. CASE work[w].pc = "toSettling" /\ to = "settling"
        BY <2>1, <3>1, <3>2, <4>3, Table DEF WorkerMoves
      <4>4. CASE work[w].pc = "toFailed" /\ to = "failed"
        BY <2>1, <3>1, <3>2, <4>4, Table DEF WorkerMoves
      <4>5. CASE work[w].pc = "toCancelled" /\ to = "cancelled"
        BY <1>s, <2>1, <3>1, <3>2, <4>5, Table DEF WorkerMoves, SubmitStage
      <4> QED BY <2>2, <4>1, <4>2, <4>3, <4>4, <4>5
    <3> QED BY <3>3 DEF OutsideStep
  <2>4. CASE UNCHANGED job
    BY <1>12, <1>k, <2>4 DEF ProcessTransition, OutsideStep
  <2> QED BY <2>2, <2>3, <2>4
<1> QED BY <1>1, <1>2, <1>3, <1>4, <1>5, <1>6, <1>7, <1>8, <1>9, <1>10, <1>11, <1>12 DEF Worker

\* Time, the queue's housekeeping and the provider.
Surroundings ==
  \/ SubmitHeartbeat \/ JobAges \/ LockExpires \/ RecoverStaleActive \/ MoveDueDelayed \/ Provider
  \/ UNCHANGED vars
LEMMA SurroundingsOutside == ASSUME TypeOK, Surroundings PROVE OutsideStep
<1>t. job \in JobType
  BY Types
<1>1. CASE Provider
  BY <1>1, <1>t, RowKeptEffect DEF Provider, OutsideStep, BatchMoves, Running
<1>2. CASE ~Provider
  <2>1. RowKept
    BY <1>2, <1>t, RowKeptEffect DEF Surroundings, SubmitHeartbeat, JobAges, LockExpires,
       RecoverStaleActive, MoveDueDelayed, vars
  <2> QED BY <1>2, <1>t, <2>1, KeptIsCounted DEF Surroundings, SubmitHeartbeat, JobAges, LockExpires,
             RecoverStaleActive, MoveDueDelayed, vars, OutsideStep
<1> QED BY <1>1, <1>2

-----------------------------------------------------------------------------
(* What everybody may rely on while the others take steps.                 *)

Rely ==
  /\ job.named => job'.named
  /\ job.status \in Terminal =>
       job'.status \in Terminal /\ (job.status = "completed" <=> job'.status = "completed")
  /\ job.named /\ job.status \in {"settling", "completed", "failed"} =>
       job'.status \in {"settling", "completed", "failed"}
  /\ job.named /\ upstream \notin Running => upstream' \notin Running
  /\ job.retries >= MaxRetries => job'.retries >= MaxRetries
  /\ money.claims \subseteq money'.claims

LEMMA OutsideRely == ASSUME TypeOK, SubmitStage, OutsideStep PROVE Rely
<1>t. /\ job \in JobType /\ money \in MoneyType /\ job.retries \in Nat /\ job.named \in BOOLEAN
      /\ MaxRetries \in Nat
  BY Types, Constants DEF JobType
<1>1. CASE OwnerMoves
  BY <1>1 DEF OwnerMoves, Moved, Row, Rely, Terminal
<1>2. ASSUME NEW w \in Workers, WorkerMoves(w) PROVE Rely
  BY <1>2 DEF WorkerMoves, Moved, Row, Rely, Terminal
<1>3. ASSUME Counted
      PROVE  /\ job.named => job'.named
             /\ job'.status = job.status
             /\ job.retries >= MaxRetries => job'.retries >= MaxRetries
  <2>1. job'.retries \in Nat
    BY <1>3, <1>t DEF Counted, Row, JobType
  <2> QED BY <1>3, <1>t, <2>1 DEF Counted, Row
<1>4. RowKept => Counted
  BY <1>t, KeptIsCounted
<1>5. CASE Counted /\ UNCHANGED <<money, task, upstream>>
  BY <1>3, <1>5 DEF Rely
<1>6. CASE Refunds
  <2>1. money.claims \subseteq money'.claims
    BY <1>6, <1>t, ReleasedEffect DEF Refunds
  <2> QED BY <1>3, <1>6, <2>1 DEF Refunds, Rely
<1>7. CASE Captures
  <2>1. money.claims \subseteq money'.claims
    BY <1>7, <1>t, CapturedEffect DEF Captures
  <2> QED BY <1>3, <1>4, <1>7, <2>1 DEF Captures, Rely
<1>8. CASE Frees \/ BatchMoves
  BY <1>3, <1>4, <1>8 DEF Frees, BatchMoves, Rely
<1> QED BY <1>1, <1>2, <1>5, <1>6, <1>7, <1>8 DEF OutsideStep

\* A refund that is under way stays justified.
LEMMA RefundRely ==
  ASSUME Rely, NEW pc, NEW seen, RefundStage(pc, seen)
  PROVE  /\ pc = "free" => job'.status \in Terminal /\ (job'.status = "completed" <=> seen = "completed")
         /\ pc = "refund" => job'.status \in Unpaid
<1>1. Unpaid = Terminal \ {"completed"}
  BY DEF Unpaid, Terminal
<1> QED BY <1>1 DEF Rely, RefundStage

\* What a worker has found out stays true while others take steps.
LEMMA WorkerRely ==
  ASSUME Rely, NEW q \in Workers, WorkerStage(q), work'[q] = work[q]
  PROVE  WorkerStage(q)'
<1>1. RefundStage(work[q].pc, work[q].seen)'
  <2>1. RefundStage(work[q].pc, work[q].seen)
    BY DEF WorkerStage
  <2>2. /\ work[q].pc = "free" =>
             job'.status \in Terminal /\ (job'.status = "completed" <=> work[q].seen = "completed")
        /\ work[q].pc = "refund" => job'.status \in Unpaid
    BY <2>1, RefundRely
  <2> QED BY <2>2 DEF RefundStage
<1>2. KnowsEnd(q)' <=> KnowsEnd(q)
  BY DEF KnowsEnd, Polled, Settling
<1>3. KnowsEnd(q) \/ work[q].pc \in {"poll", "toRunning"} \/ work[q].named => job.named
  BY DEF WorkerStage
<1>4. work[q].pc \in Settling => KnowsEnd(q)
  BY DEF KnowsEnd, Polled
<1> QED BY <1>1, <1>2, <1>3, <1>4 DEF WorkerStage, Rely, Settling

-----------------------------------------------------------------------------
(* What a step of Submit does.                                             *)

Unfunded == {"reserve", "create", "bind", "hold"}
Funded == {"items", "upload", "intent", "submit", "adopt"}
Adopted == {"rebind", "abort", "enqueue", "return", "done"}

\* Where Submit goes next.
SubmitControl ==
  /\ sub' \in SubType
  /\ sub'.pc \in {"reserve", "create"} => sub.pc = "reserve" /\ RowKept
  /\ sub.pc \in Adopted => sub'.pc \in Adopted
  /\ sub'.pc = "rebind" => Row("submitted", TRUE, job.retries)
  /\ sub'.pc \in Unfunded => sub.pc \in Unfunded /\ UNCHANGED money
  /\ sub'.pc \in Funded =>
       (sub.pc \in Funded /\ UNCHANGED money) \/ (sub.pc = "hold" /\ money' = HoldReserved(money))
  /\ sub'.pc = "submit" => task' = "uncertain" /\ sub'.started
  /\ sub.started => sub'.started
  /\ sub'.pc \in Unfunded \cup {"items", "upload", "intent"} =>
       /\ sub.pc \in Unfunded \cup {"items", "upload", "intent"}
       /\ sub'.started = sub.started
SubmitRow ==
  \/ RowKept
  \/ sub.pc = "create" /\ Moved("created", job.named)
  \/ sub.pc = "upload" /\ job.status = "created" /\ Moved("uploading", job.named)
  \/ sub.pc \in {"abandonFail", "abandonRetry", "record", "recordRetry"} /\ Moved("failed", job.named)
  \/ /\ sub.pc = "adopt" /\ sub'.pc \in Adopted
     /\ job.status \in {"created", "uploading"} /\ Moved("submitted", TRUE)
SubmitMoney ==
  \/ UNCHANGED money
  \/ /\ RowKept /\ UNCHANGED <<task, upstream>>
     /\ \/ sub.pc = "hold" /\ money' = HoldReserved(money) /\ sub'.pc \notin Unfunded
        \/ sub.pc \in {"abandon", "refund"} /\ money' = HoldReleased(money) /\ sub'.pc \notin Funded
SubmitTask ==
  \/ UNCHANGED task
  \/ /\ RowKept /\ UNCHANGED <<money, upstream>>
     /\ \/ ~sub.started
        \/ sub.pc = "rebind" /\ task' = "bound" /\ task # "released"
SubmitBatch ==
  \/ UNCHANGED upstream
  \/ /\ RowKept /\ UNCHANGED <<money, task>>
     /\ \/ sub.pc = "submit" /\ upstream' = "queued" /\ sub'.started = sub.started
        \/ upstream \in Running /\ upstream' = "cancelled"
SubmitStep == SubmitControl /\ SubmitRow /\ SubmitMoney /\ SubmitTask /\ SubmitBatch

LEMMA SubmitSteps == ASSUME TypeOK, CapacityStage, Submit \/ SubmitCrash PROVE SubmitStep
<1>t. job \in JobType /\ money \in MoneyType /\ sub \in SubType /\ sub.started \in BOOLEAN
  BY Types DEF SubType
<1>k. UNCHANGED job => RowKept
  BY <1>t, RowKeptEffect
<1>s. \A pc \in SubmitPcs : SubTo(pc) =>
        sub' \in SubType /\ sub'.pc = pc /\ sub'.started = sub.started
  BY <1>t, SubToEffect
<1>1. CASE SubmitReserve \/ SubmitBind
  BY <1>1, <1>k, <1>s DEF SubmitReserve, SubmitBind, SubmitPcs, SubmitStep, SubmitControl, SubmitRow,
     SubmitMoney, SubmitTask, SubmitBatch, Unfunded, Funded, Adopted, CapacityStage
<1>2. CASE SubmitRebind \/ SubmitReturn \/ SubmitCrash
  BY <1>2, <1>k, <1>s DEF SubmitRebind, SubmitReturn, SubmitCrash, SubmitPcs, SubmitStep, SubmitControl,
     SubmitRow, SubmitMoney, SubmitTask, SubmitBatch, Unfunded, Funded, Adopted, Reserved
<1>3. CASE SubmitIntent
  <2>1. CASE sub' = [sub EXCEPT !.pc = "submit", !.started = TRUE]
    <3>1. sub' \in SubType /\ sub'.pc = "submit" /\ sub'.started = TRUE
      BY <1>t, <2>1 DEF SubType, SubmitPcs
    <3>2. task' = "uncertain"
      <4>1. sub.pc = "intent"
        BY <1>3 DEF SubmitIntent
      <4>2. ~SubTo("abandon")
        BY <1>s, <3>1 DEF SubmitPcs
      <4> QED BY <1>3, <4>2 DEF SubmitIntent
    <3> QED BY <1>3, <1>k, <3>1, <3>2 DEF SubmitIntent, SubmitStep, SubmitControl, SubmitRow, SubmitMoney,
            SubmitTask, SubmitBatch, Unfunded, Funded, Adopted, CapacityStage
  <2>2. CASE SubTo("abandon")
    <3>1. sub' \in SubType /\ sub'.pc = "abandon" /\ sub'.started = sub.started
      BY <1>s, <2>2 DEF SubmitPcs
    <3> QED BY <1>3, <1>k, <3>1 DEF SubmitIntent, SubmitStep, SubmitControl, SubmitRow, SubmitMoney,
            SubmitTask, SubmitBatch, Unfunded, Funded, Adopted, CapacityStage
  <2> QED BY <1>3, <2>1, <2>2 DEF SubmitIntent
<1>4. CASE SubmitHold
  <2>1. \/ money' = HoldReserved(money) /\ SubTo("items")
        \/ money' \in {money, HoldReserved(money)} /\ SubTo("record")
    BY <1>4, CallEffect DEF SubmitHold
  <2> QED BY <1>4, <1>k, <1>s, <2>1 DEF SubmitHold, SubmitPcs, SubmitStep, SubmitControl, SubmitRow,
          SubmitMoney, SubmitTask, SubmitBatch, Unfunded, Funded, Adopted
<1>5. CASE SubmitAbandon \/ SubmitRefund
  <2>1. money' \in {money, HoldReleased(money)}
    BY <1>5, CallEffect DEF SubmitAbandon, SubmitRefund
  <2>2. \E pc \in {"abandonFail", "abandonRetry", "return", "record", "recordRetry"} : SubTo(pc)
    BY <1>5 DEF SubmitAbandon, SubmitRefund
  <2> QED BY <1>5, <1>k, <1>s, <2>1, <2>2 DEF SubmitAbandon, SubmitRefund, SubmitPcs, SubmitStep,
          SubmitControl, SubmitRow, SubmitMoney, SubmitTask, SubmitBatch, Unfunded, Funded, Adopted
<1>6. CASE SubmitEnqueue \/ SubmitRetry \/ SubmitItems
  BY <1>6, <1>k, <1>s DEF SubmitEnqueue, SubmitRetry, SubmitItems, SubmitPcs, SubmitStep, SubmitControl,
     SubmitRow, SubmitMoney, SubmitTask, SubmitBatch, Unfunded, Funded, Adopted
<1>7. CASE SubmitProvider \/ SubmitAbort
  BY <1>7, <1>k, <1>s DEF SubmitProvider, SubmitAbort, CancelUpstream, SubmitPcs, SubmitStep, SubmitControl,
     SubmitRow, SubmitMoney, SubmitTask, SubmitBatch, Unfunded, Funded, Adopted
<1>8. CASE SubmitCreate
  <2>1. RowKept \/ Row("created", job.named, job.retries)
    BY <1>8, <1>k, <1>t, StatusWrite DEF SubmitCreate, Statuses
  <2> QED BY <1>8, <1>k, <1>s, <2>1 DEF SubmitCreate, Moved, SubmitPcs, SubmitStep, SubmitControl, SubmitRow,
     SubmitMoney, SubmitTask, SubmitBatch, Unfunded, Funded, Adopted
<1>9. CASE SubmitUpload
  <2>1. RowKept \/ (job.status = "created" /\ Row("uploading", job.named, job.retries))
    BY <1>9, <1>k, <1>t, TransitionEffect, Table DEF SubmitUpload, Statuses
  <2>2. /\ sub' \in SubType /\ sub'.pc \in {"intent", "refund"} /\ sub'.started = sub.started
    <3>1. \A pc \in {"intent", "refund"} : SubTo(pc) =>
             sub' \in SubType /\ sub'.pc = pc /\ sub'.started = sub.started
      BY <1>s DEF SubmitPcs
    <3>2. sub' = [sub EXCEPT !.pc = "refund", !.quiet = TRUE] =>
             sub' \in SubType /\ sub'.pc = "refund" /\ sub'.started = sub.started
      BY <1>t DEF SubType, SubmitPcs
    <3> QED BY <1>9, <3>1, <3>2 DEF SubmitUpload
  <2> QED BY <1>9, <2>1, <2>2 DEF SubmitUpload, Moved, SubmitStep, SubmitControl, SubmitRow,
     SubmitMoney, SubmitTask, SubmitBatch, Unfunded, Funded, Adopted
<1>10. CASE SubmitAbandonFail
  <2>1. RowKept \/ Row("failed", job.named, job.retries)
    BY <1>10, <1>k, <1>t, TransitionEffect DEF SubmitAbandonFail, Statuses, Terminal
  <2>2. \E pc \in {"hide", "retry", "return"} : SubTo(pc)
    BY <1>10 DEF SubmitAbandonFail
  <2> QED BY <1>10, <1>s, <2>1, <2>2 DEF SubmitAbandonFail, Moved, SubmitPcs, SubmitStep, SubmitControl,
     SubmitRow, SubmitMoney, SubmitTask, SubmitBatch, Unfunded, Funded, Adopted
<1>11. CASE SubmitAdopt
  <2>1. /\ RowKept \/ (job.status \in {"created", "uploading"} /\ Row("submitted", TRUE, job.retries))
        /\ (Row("submitted", TRUE, job.retries) /\ SubTo("rebind")) \/ SubTo("abort")
    BY <1>11, <1>k, <1>t, AdoptEffect, Table DEF SubmitAdopt
  <2> QED BY <1>11, <1>s, <2>1 DEF SubmitAdopt, Moved, SubmitPcs, SubmitStep, SubmitControl, SubmitRow,
     SubmitMoney, SubmitTask, SubmitBatch, Unfunded, Funded, Adopted
<1>12. CASE SubmitRecord \/ SubmitHide
  <2>1. RowKept \/ (SubmitRecord /\ Row("failed", job.named, job.retries))
    BY <1>12, <1>k, <1>t, StatusWrite, RowKeptEffect DEF SubmitRecord, SubmitHide, RecordSubmitFailure,
       Statuses, Terminal
  <2>2. \E pc \in {"hide", "retry", "return"} : SubTo(pc)
    BY <1>12 DEF SubmitRecord, SubmitHide
  <2> QED BY <1>12, <1>s, <2>1, <2>2 DEF SubmitRecord, SubmitHide, Moved, SubmitPcs, SubmitStep,
     SubmitControl, SubmitRow, SubmitMoney, SubmitTask, SubmitBatch, Unfunded, Funded, Adopted
<1> QED BY <1>1, <1>2, <1>3, <1>4, <1>5, <1>6, <1>7, <1>8, <1>9, <1>10, <1>11, <1>12 DEF Submit

LEMMA SubmitRely == ASSUME TypeOK, SubmitStage, SubmitStep PROVE Rely
<1>t. /\ job \in JobType /\ money \in MoneyType /\ job.retries \in Nat /\ MaxRetries \in Nat
      /\ job.named \in BOOLEAN
  BY Types, Constants DEF JobType
<1>1. \/ RowKept
      \/ ~job.named /\ \E s \in {"created", "uploading", "failed"} : Row(s, job.named, job.retries)
      \/ ~job.named /\ job.status \in {"created", "uploading"} /\ Row("submitted", TRUE, job.retries)
  BY DEF SubmitStep, SubmitRow, SubmitStage, Moved
<1>2. ~job.named => job.status \in {"none", "created", "uploading"} \cup Unpaid
  BY <1>t DEF SubmitStage, JobType, Statuses, Terminal, Unpaid
<1>3. /\ sub.pc = "create" => job.status = "none"
      /\ job.named => sub.pc \notin {"create", "upload", "adopt", "submit"}
  BY DEF SubmitStage
<1>4. /\ job.named => job'.named
      /\ job.status \in Terminal =>
           job'.status \in Terminal /\ (job.status = "completed" <=> job'.status = "completed")
      /\ job.named => job'.status = job.status
      /\ job'.retries = job.retries
  <2>1. CASE RowKept
    BY <2>1 DEF RowKept, Row
  <2>2. CASE ~RowKept
    <3>1. ~job.named /\ job.status \notin {"completed"}
      BY <1>1, <1>2, <2>2 DEF Unpaid
    <3>2. job.status \in Terminal => job'.status = "failed"
      BY <1>3, <2>2 DEF SubmitStep, SubmitRow, Moved, Row, Terminal
    <3> QED BY <1>1, <2>2, <3>1, <3>2 DEF Row, Terminal
  <2> QED BY <2>1, <2>2
<1>5. job.named /\ upstream \notin Running => upstream' \notin Running
  BY <1>3 DEF SubmitStep, SubmitBatch
<1>6. money.claims \subseteq money'.claims
  BY <1>t, ReservedEffect, ReleasedEffect DEF SubmitStep, SubmitMoney
<1> QED BY <1>4, <1>5, <1>6 DEF Rely

-----------------------------------------------------------------------------
(* The stages of the actors.                                               *)

\* Submit steps keep the order of the submission, and so does everybody else.
LEMMA SubmitStageKept ==
  ASSUME TypeOK, SubmitStage, SubmitStep \/ (OutsideStep /\ UNCHANGED sub)
  PROVE  SubmitStage'
<1>t. job \in JobType /\ job.named \in BOOLEAN
  BY Types DEF JobType
<1>1. CASE SubmitStep
  <2>1. CASE RowKept
    BY <1>1, <2>1 DEF SubmitStep, SubmitControl, RowKept, Row, SubmitStage, Unpaid, Adopted
  <2>2. CASE ~RowKept
    BY <1>1, <2>2 DEF SubmitStep, SubmitControl, SubmitRow, Moved, Row, SubmitStage, Adopted
  <2> QED BY <2>1, <2>2
<1>2. CASE OutsideStep /\ UNCHANGED sub
  <2>1. CASE OwnerMoves
    BY <1>2, <2>1 DEF OwnerMoves, Moved, Row, SubmitStage
  <2>2. ASSUME NEW w \in Workers, WorkerMoves(w) PROVE SubmitStage'
    BY <1>2, <2>2 DEF WorkerMoves, Moved, Row, SubmitStage, Terminal
  <2>3. CASE job'.status = job.status /\ job'.named = job.named
    BY <1>2, <2>3 DEF SubmitStage
  <2> QED BY <1>2, <2>1, <2>2, <2>3
          DEF OutsideStep, Counted, Refunds, Captures, Frees, BatchMoves, RowKept, Row
<1> QED BY <1>1, <1>2

\* The later request of the owner: what it read decides whether it refunds.
ClientStage ==
  RefundStage(client.pc, client.seen) /\ (client.pc = "cancel" => client.seen \notin Terminal)
LEMMA ClientStageKept ==
  ASSUME TypeOK, ClientStage, Rely,
         CancelRead \/ ResubmitRead \/ Client \/ ClientFail \/ UNCHANGED client
  PROVE  ClientStage'
<1>t. job \in JobType /\ client \in ClientType
  BY Types
<1>q. ASSUME client'.pc \notin {"free", "refund", "cancel"} PROVE ClientStage'
  BY <1>q DEF ClientStage, RefundStage
<1>c. \A pc \in ClientPcs : ClientTo(pc) => client'.pc = pc /\ (pc # "idle" => client'.seen = client.seen)
  BY <1>t, ClientToEffect
<1>r. /\ client.pc = "free" =>
           job'.status \in Terminal /\ (job'.status = "completed" <=> client.seen = "completed")
      /\ client.pc = "refund" => job'.status \in Unpaid
  BY RefundRely DEF ClientStage
<1>1. CASE CancelRead
  <2>1. CASE job.status \in Terminal
    <3>1. client'.pc = "free" /\ client'.seen = job.status /\ job' = job
      BY <1>1, <2>1 DEF CancelRead, Terminal
    <3> QED BY <2>1, <3>1 DEF ClientStage, RefundStage
  <2>2. CASE job.status \notin Terminal
    <3>1. \/ client'.pc \in {"idle", "provider"}
          \/ client'.pc = "cancel" /\ client'.seen = job.status
      BY <1>1, <2>2 DEF CancelRead, IdleClient
    <3> QED BY <1>q, <2>2, <3>1 DEF ClientStage, RefundStage
  <2> QED BY <2>1, <2>2
<1>2. CASE ResubmitRead \/ ClientFail \/ ClientEnqueue \/ CancelProvider
  <2>1. client'.pc \in {"idle", "enqueue"}
    BY <1>2, <1>c DEF ResubmitRead, ClientFail, ClientEnqueue, CancelProvider, ClientPcs
  <2> QED BY <1>q, <2>1
<1>3. CASE CancelTransition
  <2>1. CASE Transition("cancelled") /\ ClientTo("free")
    <3>1. job'.status = "cancelled" /\ client'.pc = "free" /\ client'.seen = client.seen
      BY <1>c, <1>t, <2>1, TransitionEffect DEF ClientPcs, Row, Statuses, Terminal
    <3>2. client.seen # "completed"
      BY <1>3 DEF CancelTransition, ClientStage, Terminal
    <3> QED BY <3>1, <3>2 DEF ClientStage, RefundStage, Terminal
  <2>2. CASE ClientTo("idle")
    BY <1>c, <1>q, <2>2 DEF ClientPcs
  <2> QED BY <1>3, <2>1, <2>2 DEF CancelTransition
<1>4. CASE CancelFree
  <2>1. client.pc = "free" /\ job' = job
    BY <1>4 DEF CancelFree
  <2>2. CASE client.seen = "completed"
    BY <1>4, <1>c, <1>q, <2>2 DEF CancelFree, ClientPcs
  <2>3. CASE client.seen # "completed"
    <3>1. client'.pc = "refund"
      BY <1>4, <1>c, <2>3 DEF CancelFree, ClientPcs
    <3>2. job'.status \in Unpaid
      BY <1>r, <2>1, <2>3 DEF Terminal, Unpaid
    <3> QED BY <3>1, <3>2 DEF ClientStage, RefundStage
  <2> QED BY <2>2, <2>3
<1>5. CASE CancelRefund
  <2>1. client'.pc \in {"idle", "enqueue"}
    BY <1>5, <1>c DEF CancelRefund, ClientPcs
  <2> QED BY <1>q, <2>1
<1>6. CASE UNCHANGED client
  BY <1>6, <1>r DEF ClientStage, RefundStage
<1> QED BY <1>1, <1>2, <1>3, <1>4, <1>5, <1>6 DEF Client

\* The scanner refunds only what it has failed.
LEMMA RecoverStageKept ==
  ASSUME TypeOK, RefundStage(rec, "none"), Rely, Recover \/ UNCHANGED rec
  PROVE  RefundStage(rec, "none")'
<1>t. job \in JobType /\ rec \in {"idle", "listed", "refund", "retry"}
  BY Types
<1>q. ASSUME rec' \in {"idle", "listed", "retry"} PROVE RefundStage(rec, "none")'
  BY <1>q DEF RefundStage
<1>1. CASE RecoverList \/ RecoverRefund \/ RecoverRetry
  BY <1>1, <1>q DEF RecoverList, RecoverRefund, RecoverRetry
<1>2. CASE RecoverFail
  <2>1. CASE Unsubmitted /\ ~job.fresh
    <3>1. job'.status = "failed" /\ rec' = "refund"
      BY <1>2, <1>t, <2>1, StatusWrite DEF RecoverFail, Row, Statuses, Terminal
    <3> QED BY <3>1 DEF RefundStage, Unpaid
  <2>2. CASE ~(Unsubmitted /\ ~job.fresh)
    BY <1>2, <1>q, <2>2 DEF RecoverFail
  <2> QED BY <2>1, <2>2
<1>3. CASE UNCHANGED rec
  <2>1. rec = "refund" => job'.status \in Unpaid
    BY RefundRely
  <2> QED BY <1>3, <1>t, <2>1 DEF RefundStage
<1> QED BY <1>1, <1>2, <1>3 DEF Recover

\* The worker that takes the step: what it does next is justified by what it has
\* read, and what it has read is still so.
LEMMA ActorStage ==
  ASSUME TypeOK, StageInvariant, CapacityStage, Rely, NEW w \in Workers,
         Worker(w) \/ WorkerFail(w) \/ WorkerCrash(w)
  PROVE  WorkerStage(w)'
<1>t. /\ job \in JobType /\ work \in [Workers -> WorkerType] /\ work[w] \in WorkerType
      /\ money \in MoneyType /\ job.named \in BOOLEAN
  BY Types DEF JobType
<1>s. WorkerStage(w) /\ SubmitStage
  BY DEF StageInvariant
<1>w. \A pc \in WorkerPcs : WorkTo(w, pc) =>
        /\ work'[w].pc = pc
        /\ pc # "idle" => work'[w].seen = work[w].seen /\ work'[w].named = work[w].named
        /\ pc = "idle" => work'[w].named = FALSE
  BY <1>t, WorkToEffect DEF At
<1>o. /\ work[w].named \/ work[w].pc \in {"poll", "toRunning"} \/ KnowsEnd(w) => job'.named
      /\ work[w].pc \in Settling => job'.status \in {"settling", "completed", "failed"}
      /\ KnowsEnd(w) => upstream' \notin Running
      /\ work[w].pc \in {"exhaust", "expire"} => job'.retries >= MaxRetries
  <2>1. work[w].pc \in Settling => KnowsEnd(w)
    BY DEF KnowsEnd, Polled
  <2> QED BY <1>s, <2>1 DEF WorkerStage, Rely
<1>p. work[w].pc \in {"toIndexing", "toSettling", "toFailed", "toCancelled", "index", "recover",
                      "settle", "capture", "failure", "exhaust", "expire", "mark", "freeDone"}
        => KnowsEnd(w)
  BY DEF KnowsEnd, Polled, Settling
<1>q. ASSUME work'[w].pc \in {"idle", "reserved", "route", "process", "ack", "requeue", "unlock"},
             work'[w].named => job'.named
      PROVE  WorkerStage(w)'
  BY <1>q DEF WorkerStage, RefundStage, KnowsEnd, Polled, Settling
<1>1. CASE \/ WorkerReserve(w) \/ WorkerLock(w) \/ WorkerFinish(w) \/ WorkerUnlock(w)
           \/ WorkerFail(w) \/ WorkerCrash(w) \/ SettleFree(w) \/ ProcessRefund(w) \/ SettleMark(w)
  <2>1. CASE \E pc \in {"idle", "reserved", "route", "ack", "requeue", "unlock"} : WorkTo(w, pc)
    <3>1. /\ work'[w].pc \in {"idle", "reserved", "route", "ack", "requeue", "unlock"}
          /\ work'[w].named => work[w].named
      BY <1>w, <2>1 DEF WorkerPcs
    <3> QED BY <1>o, <1>q, <3>1
  <2>2. CASE WorkTo(w, "freeDone") /\ SettleMark(w)
    <3>1. work'[w].pc = "freeDone" /\ work[w].pc = "mark"
      BY <1>w, <2>2 DEF SettleMark, WorkerPcs
    <3>2. job'.named /\ upstream' \notin Running /\ job'.status \in {"settling", "completed", "failed"}
      BY <1>o, <1>p, <3>1 DEF Settling
    <3> QED BY <3>1, <3>2 DEF WorkerStage, RefundStage, KnowsEnd, Polled, Settling
  <2> QED BY <1>1, <2>1, <2>2 DEF WorkerReserve, WorkerLock, WorkerFinish, WorkerUnlock, WorkerFail,
             WorkerCrash, SettleFree, ProcessRefund, SettleMark
<1>2. CASE WorkerRoute(w)
  <2>1. CASE job.status = "settling"
    <3>1. work'[w].pc = "settle" /\ job' = job /\ upstream' = upstream
      BY <1>2, <1>w, <2>1 DEF WorkerRoute, WorkerPcs
    <3>2. job.named /\ upstream \notin Running
      BY <1>s, <2>1 DEF SubmitStage, CapacityStage
    <3> QED BY <2>1, <3>1, <3>2 DEF WorkerStage, RefundStage, KnowsEnd, Polled, Settling
  <2>2. CASE job.status # "settling"
    <3>1. work'[w].pc = "process" /\ work'[w].named = work[w].named
      BY <1>2, <1>w, <2>2 DEF WorkerRoute, WorkerPcs
    <3> QED BY <1>o, <1>q, <3>1
  <2> QED BY <2>1, <2>2
<1>3. CASE ProcessLoad(w)
  <2>0. /\ \A pc \in WorkerPcs : Saw(w, pc) =>
             work'[w].pc = pc /\ work'[w].seen = job.status /\ work'[w].named = job.named
        /\ job' = job /\ upstream' = upstream
    BY <1>3, <1>t, SawEffect DEF At, ProcessLoad
  <2>1. CASE job.status \in {"indexing", "settling"}
    <3>1. work'[w].pc = "recover"
      BY <1>3, <2>0, <2>1 DEF ProcessLoad, WorkerPcs
    <3>2. job.named /\ upstream \notin Running
      BY <1>s, <2>1 DEF SubmitStage, CapacityStage
    <3> QED BY <2>0, <3>1, <3>2 DEF WorkerStage, RefundStage, KnowsEnd, Polled, Settling
  <2>2. CASE job.status \in Terminal
    <3>1. work'[w].pc = "free" /\ work'[w].seen = job.status /\ work'[w].named = job.named
      BY <1>3, <2>0, <2>2 DEF ProcessLoad, WorkerPcs, Terminal
    <3> QED BY <2>0, <2>2, <3>1 DEF WorkerStage, RefundStage, KnowsEnd, Polled, Settling
  <2>3. CASE job.status \notin {"indexing", "settling"} \cup Terminal
    <3>1. work'[w].pc = "admit" /\ work'[w].seen = job.status /\ work'[w].named = job.named
      BY <1>3, <2>0, <2>3 DEF ProcessLoad, WorkerPcs
    <3> QED BY <2>0, <2>3, <3>1 DEF WorkerStage, RefundStage, KnowsEnd, Polled, Settling
  <2> QED BY <2>1, <2>2, <2>3
<1>4. CASE ProcessRecover(w)
  <2>1. /\ work'[w].pc \in {"ack", "admit"} /\ work[w].pc = "recover"
        /\ work'[w].seen = work[w].seen /\ work'[w].named = work[w].named
    BY <1>4, <1>w DEF ProcessRecover, WorkerPcs
  <2>2. job'.named /\ upstream' \notin Running
    BY <1>o, <1>p, <2>1
  <2> QED BY <2>1, <2>2 DEF WorkerStage, RefundStage, KnowsEnd, Polled, Settling
<1>5. CASE ProcessFree(w)
  <2>1. /\ work'[w].pc \in {"ack", "refund"} /\ work'[w].named = work[w].named
        /\ work'[w].pc = "refund" => work[w].seen # "completed"
    BY <1>5, <1>w DEF ProcessFree, WorkerPcs
  <2>2. job.status \in Terminal /\ (job.status = "completed" <=> work[w].seen = "completed") /\ job' = job
    BY <1>5, <1>s DEF ProcessFree, WorkerStage, RefundStage
  <2>3. work'[w].pc = "refund" => job'.status \in Unpaid
    BY <2>1, <2>2 DEF Terminal, Unpaid
  <2> QED BY <1>o, <2>1, <2>3 DEF WorkerStage, RefundStage, KnowsEnd, Polled, Settling
<1>6. CASE ProcessAdmit(w)
  <2>1. /\ work[w].pc = "admit" /\ work'[w].named = work[w].named
        /\ \/ work'[w].pc = "requeue"
           \/ work'[w].pc = "index" /\ work[w].named /\ work[w].seen = "indexing"
           \/ work'[w].pc = "poll" /\ work[w].named
    BY <1>6, <1>w DEF ProcessAdmit, WorkerPcs
  <2>2. work'[w].pc = "index" => upstream' \notin Running
    BY <1>o, <2>1 DEF KnowsEnd
  <2> QED BY <1>o, <2>1, <2>2 DEF WorkerStage, RefundStage, KnowsEnd, Polled, Settling
<1>7. CASE ProcessPoll(w)
  <2>1. /\ work[w].pc = "poll" /\ work'[w].named = work[w].named
        /\ upstream' = upstream
        /\ \/ work'[w].pc \in {"requeue", "toRunning"}
           \/ work'[w].pc \in {"toIndexing", "toFailed", "toCancelled"} /\ upstream \notin Running
    BY <1>7, <1>w DEF ProcessPoll, WorkerPcs
  <2> QED BY <1>o, <2>1 DEF WorkerStage, RefundStage, KnowsEnd, Polled, Settling
<1>8. CASE ProcessTransition(w)
  <2>1. PICK to \in {"running", "indexing", "settling", "failed", "cancelled"} :
          \/ /\ Transition(to)
             /\ \/ to \in Terminal /\ Ended(w, to)
                \/ to = "indexing" /\ WorkTo(w, "index")
                \/ WorkTo(w, "requeue")
          \/ WorkTo(w, "requeue")
    BY <1>8 DEF ProcessTransition
  <2>2. work[w].pc \in {"toRunning", "toIndexing", "toSettling", "toFailed", "toCancelled"}
    BY <1>8 DEF ProcessTransition
  <2>3. job'.named
    BY <1>o, <1>p, <2>2
  <2>4. CASE WorkTo(w, "requeue")
    <3>1. work'[w].pc = "requeue"
      BY <1>w, <2>4 DEF WorkerPcs
    <3> QED BY <1>q, <2>3, <3>1
  <2>5. CASE Transition(to) /\ to \in Terminal /\ Ended(w, to)
    <3>1. job'.status = to
      BY <1>t, <2>5, TransitionEffect DEF Row, Statuses
    <3>2. work'[w].pc = "free" /\ work'[w].seen = to
      BY <1>t, <2>5, EndedEffect DEF At, Statuses
    <3> QED BY <2>3, <2>5, <3>1, <3>2 DEF WorkerStage, RefundStage, KnowsEnd, Polled, Settling
  <2>6. CASE to = "indexing" /\ WorkTo(w, "index") /\ Transition(to)
    <3>1. work'[w].pc = "index"
      BY <1>w, <2>6 DEF WorkerPcs
    <3>2. CASE work[w].pc = "toRunning"
      <4>1. Transition("running") \/ WorkTo(w, "requeue")
        BY <1>8, <3>2 DEF ProcessTransition
      <4>2. Transition("running") => job'.status = "running"
        BY <1>t, TransitionEffect DEF Row, Statuses
      <4>3. job'.status = "indexing"
        BY <1>t, <2>6, TransitionEffect DEF Row, Statuses
      <4> QED BY <2>4, <4>1, <4>2, <4>3
    <3>3. CASE work[w].pc # "toRunning"
      <4>1. upstream' \notin Running
        BY <1>o, <1>p, <2>2, <3>3
      <4> QED BY <2>3, <3>1, <4>1 DEF WorkerStage, RefundStage, KnowsEnd, Polled, Settling
    <3> QED BY <3>2, <3>3
  <2> QED BY <2>1, <2>4, <2>5, <2>6
<1>9. CASE ProcessIndex(w)
  <2>1. work'[w].pc \in {"toSettling", "toFailed", "requeue"} /\ work[w].pc = "index"
    BY <1>9, <1>w DEF ProcessIndex, WorkerPcs
  <2>2. job'.named /\ upstream' \notin Running
    BY <1>o, <1>p, <2>1
  <2> QED BY <2>1, <2>2 DEF WorkerStage, RefundStage, KnowsEnd, Polled, Settling
<1>10. CASE SettleLoad(w)
  <2>1. /\ work[w].pc = "settle" /\ job' = job
        /\ \/ work'[w].pc \in {"freeDone", "requeue", "failure", "capture"}
           \/ work'[w].pc = "exhaust" /\ Exhausted(job)
    BY <1>10, <1>w DEF SettleLoad, WorkerPcs
  <2>2. job'.named /\ upstream' \notin Running /\ job'.status \in {"settling", "completed", "failed"}
    BY <1>o, <1>p, <2>1 DEF Settling
  <2>3. work'[w].pc = "exhaust" => job'.retries >= MaxRetries
    BY <2>1 DEF Exhausted
  <2> QED BY <2>1, <2>2, <2>3 DEF WorkerStage, RefundStage, KnowsEnd, Polled, Settling
<1>11. CASE SettleCapture(w)
  <2>1. /\ work[w].pc = "capture"
        /\ \/ work'[w].pc = "mark" /\ money' = HoldCaptured(money)
           \/ work'[w].pc = "failure"
    <3>1. PICK ok \in BOOLEAN : CaptureHold(ok) /\ WorkTo(w, IF ok THEN "mark" ELSE "failure")
      BY <1>11 DEF SettleCapture
    <3>2. CASE ok
      BY <1>11, <1>w, <3>1, <3>2, CallEffect DEF SettleCapture, WorkerPcs
    <3>3. CASE ~ok
      BY <1>11, <1>w, <3>1, <3>3 DEF SettleCapture, WorkerPcs
    <3> QED BY <3>2, <3>3
  <2>2. job'.named /\ upstream' \notin Running /\ job'.status \in {"settling", "completed", "failed"}
    BY <1>o, <1>p, <2>1 DEF Settling
  <2>3. work'[w].pc = "mark" => "capture" \in money'.claims
    BY <1>t, <2>1, CapturedEffect
  <2> QED BY <2>1, <2>2, <2>3 DEF WorkerStage, RefundStage, KnowsEnd, Polled, Settling
<1>12. CASE SettleFailure(w)
  <2>1. /\ work[w].pc = "failure"
        /\ \/ work'[w].pc = "requeue"
           \/ work'[w].pc = "exhaust" /\ Exhausted(job')
    BY <1>12, <1>w DEF SettleFailure, WorkerPcs
  <2>2. job'.named /\ upstream' \notin Running /\ job'.status \in {"settling", "completed", "failed"}
    BY <1>o, <1>p, <2>1 DEF Settling
  <2>3. work'[w].pc = "exhaust" => job'.retries >= MaxRetries
    BY <2>1 DEF Exhausted
  <2> QED BY <2>1, <2>2, <2>3 DEF WorkerStage, RefundStage, KnowsEnd, Polled, Settling
<1>13. CASE SettleExhaust(w) \/ SettleExpire(w)
  <2>1. /\ work[w].pc \in {"exhaust", "expire"}
        /\ work'[w].pc \in {"requeue", "expire", "ack"}
    BY <1>13, <1>w DEF SettleExhaust, SettleExpire, WorkerPcs
  <2>2. job'.named /\ upstream' \notin Running /\ job'.status \in {"settling", "completed", "failed"}
    BY <1>o, <1>p, <2>1 DEF Settling
  <2>3. job'.retries >= MaxRetries
    BY <1>o, <2>1
  <2> QED BY <2>1, <2>2, <2>3 DEF WorkerStage, RefundStage, KnowsEnd, Polled, Settling
<1> QED BY <1>1, <1>2, <1>3, <1>4, <1>5, <1>6, <1>7, <1>8, <1>9, <1>10, <1>11, <1>12, <1>13 DEF Worker

\* Who takes a step, and what of the others it leaves alone.
LEMMA Actors ==
  ASSUME [Next]_vars
  PROVE  \/ (Submit \/ SubmitCrash) /\ UNCHANGED <<client, rec, work, stalled>>
         \/ (CancelRead \/ ResubmitRead \/ Client \/ ClientFail) /\ UNCHANGED <<sub, rec, work, stalled>>
         \/ Recover /\ UNCHANGED <<sub, client, work, stalled>>
         \/ \E w \in Workers : /\ Worker(w) \/ WorkerFail(w) \/ WorkerCrash(w)
                               /\ UNCHANGED <<sub, client, rec, stalled>>
         \/ Surroundings /\ UNCHANGED <<sub, client, rec, work>>
<1>1. Submit \/ SubmitCrash => UNCHANGED <<client, rec, work, stalled>>
  BY DEF Submit, SubmitCrash, SubmitReserve, SubmitCreate, SubmitBind, SubmitHold, SubmitItems,
     SubmitUpload, SubmitIntent, SubmitAbandon, SubmitAbandonFail, SubmitProvider, SubmitAdopt,
     SubmitAbort, SubmitRebind, SubmitEnqueue, SubmitRefund, SubmitRecord, SubmitHide, SubmitRetry,
     SubmitReturn
<1>2. CancelRead \/ ResubmitRead \/ Client \/ ClientFail => UNCHANGED <<sub, rec, work, stalled>>
  BY DEF CancelRead, ResubmitRead, Client, ClientFail, CancelTransition, CancelFree, CancelRefund,
     CancelProvider, ClientEnqueue
<1>3. Recover => UNCHANGED <<sub, client, work, stalled>>
  BY DEF Recover, RecoverList, RecoverFail, RecoverRefund, RecoverRetry
<1>4. ASSUME NEW w \in Workers, Worker(w) \/ WorkerFail(w) \/ WorkerCrash(w)
      PROVE  UNCHANGED <<sub, client, rec, stalled>>
  BY <1>4 DEF Worker, WorkerFail, WorkerCrash, WorkerReserve, WorkerLock, WorkerRoute, ProcessLoad,
     ProcessRecover, ProcessFree, ProcessRefund, ProcessAdmit, ProcessPoll, ProcessTransition,
     ProcessIndex, SettleLoad, SettleCapture, SettleFailure, SettleExhaust, SettleExpire, SettleMark,
     SettleFree, WorkerFinish, WorkerUnlock
<1>5. Surroundings => UNCHANGED <<sub, client, rec, work>>
  BY DEF Surroundings, SubmitHeartbeat, JobAges, LockExpires, RecoverStaleActive, MoveDueDelayed,
     Provider, vars
<1> QED BY <1>1, <1>2, <1>3, <1>4, <1>5 DEF Next, Surroundings

\* Every step is one of Submit's or one that leaves Submit alone.
LEMMA Steps ==
  ASSUME TypeOK, StageInvariant, CapacityStage, [Next]_vars
  PROVE  /\ SubmitStep \/ (OutsideStep /\ UNCHANGED sub)
         /\ Rely
<1>1. SubmitStep \/ (OutsideStep /\ UNCHANGED sub)
  BY Actors, SubmitSteps, ClientOutside, RecoverOutside, WorkerOutside, SurroundingsOutside
<1> QED BY <1>1, SubmitRely, OutsideRely DEF StageInvariant

\* A worker's step leaves the other workers alone.
LEMMA WorkerAlone ==
  ASSUME TypeOK, NEW w \in Workers, Worker(w) \/ WorkerFail(w) \/ WorkerCrash(w)
  PROVE  Others(w)
<1>t. job \in JobType /\ work \in [Workers -> WorkerType]
  BY Types
<1>1. /\ \A pc : WorkTo(w, pc) => Others(w)
      /\ \A pc : Saw(w, pc) => Others(w)
      /\ \A s : Ended(w, s) => Others(w)
  BY <1>t DEF WorkTo, Saw, Ended, Others
<1>2. CASE Worker(w)
  <2>1. \/ \E pc : WorkTo(w, pc)
        \/ \E pc : Saw(w, pc)
        \/ \E s : Ended(w, s)
    BY <1>2 DEF Worker, WorkerReserve, WorkerLock, WorkerRoute, ProcessLoad,
       ProcessRecover, ProcessFree, ProcessRefund, ProcessAdmit, ProcessPoll, ProcessTransition,
       ProcessIndex, SettleLoad, SettleCapture, SettleFailure, SettleExhaust, SettleExpire, SettleMark,
       SettleFree, WorkerFinish, WorkerUnlock
  <2> QED BY <1>1, <2>1
<1>3. CASE WorkerFail(w) \/ WorkerCrash(w)
  BY <1>1, <1>3 DEF WorkerFail, WorkerCrash
<1> QED BY <1>2, <1>3

\* The stages of all actors are kept by every step.
LEMMA StageStep ==
  ASSUME TypeOK, StageInvariant, CapacityStage, [Next]_vars
  PROVE  StageInvariant'
<1>1. SubmitStage'
  BY Steps, SubmitStageKept DEF StageInvariant
<1>2. Rely
  BY Steps
<1>3. ClientStage'
  BY <1>2, Actors, ClientStageKept DEF StageInvariant, ClientStage
<1>4. RefundStage(rec, "none")'
  BY <1>2, Actors, RecoverStageKept DEF StageInvariant
<1>5. ASSUME NEW q \in Workers PROVE WorkerStage(q)'
  <2>1. WorkerStage(q)
    BY DEF StageInvariant
  <2>2. work'[q] = work[q] \/ Worker(q) \/ WorkerFail(q) \/ WorkerCrash(q)
    BY Actors, WorkerAlone DEF Others
  <2> QED BY <1>2, <2>1, <2>2, WorkerRely, ActorStage
<1> QED BY <1>1, <1>3, <1>4, <1>5 DEF StageInvariant, ClientStage

-----------------------------------------------------------------------------
(* Capacity.                                                               *)

LEMMA CapacityStep ==
  ASSUME TypeOK, StageInvariant, CapacityStage, [Next]_vars
  PROVE  CapacityStage'
<1>t. /\ job \in JobType /\ job.named \in BOOLEAN /\ sub.started \in BOOLEAN /\ sub \in SubType
  BY Types DEF JobType, SubType
<1>s. SubmitStage
  BY DEF StageInvariant
<1>1. CASE SubmitStep
  <2>1. CASE RowKept /\ UNCHANGED <<task, upstream>>
    BY <1>1, <1>t, <2>1 DEF SubmitStep, SubmitControl, RowKept, Row, CapacityStage, LiveBatchKeepsCapacity, Unfunded
  <2>2. CASE ~RowKept
    <3>1. ~job.named /\ UNCHANGED <<task, upstream>>
      BY <1>1, <1>s, <2>2 DEF SubmitStep, SubmitRow, Moved, SubmitStage
    <3> QED BY <1>1, <1>t, <2>2, <3>1 DEF SubmitStep, SubmitControl, SubmitRow, Moved, Row, CapacityStage,
            LiveBatchKeepsCapacity, Unfunded
  <2>3. CASE RowKept /\ task' # task
    <3>1. UNCHANGED upstream
      BY <1>1, <2>3 DEF SubmitStep, SubmitTask
    <3>2. CASE ~sub.started
      <4>1. upstream = "none"
        BY <3>2 DEF CapacityStage
      <4> QED BY <1>1, <1>t, <2>3, <3>1, <3>2, <4>1 DEF SubmitStep, SubmitControl, RowKept, Row,
              CapacityStage, LiveBatchKeepsCapacity, Unfunded, Running
    <3>3. CASE sub.pc = "rebind" /\ task' = "bound"
      <4>1. sub'.pc \in Adopted
        BY <1>1, <3>3 DEF SubmitStep, SubmitControl, Adopted
      <4>2. job.named
        BY <1>s, <3>3 DEF SubmitStage
      <4> QED BY <1>1, <1>t, <2>3, <3>1, <3>3, <4>1, <4>2 DEF SubmitStep, SubmitControl, RowKept, Row,
              CapacityStage, LiveBatchKeepsCapacity, Unfunded, Adopted
    <3> QED BY <1>1, <2>3, <3>2, <3>3 DEF SubmitStep, SubmitTask
  <2>4. CASE RowKept /\ upstream' # upstream
    <3>1. UNCHANGED task
      BY <1>1, <2>4 DEF SubmitStep, SubmitBatch
    <3>2. CASE sub.pc = "submit" /\ upstream' = "queued" /\ sub'.started = sub.started
      <4>1. ~job.named /\ task = "uncertain" /\ sub.started
        BY <1>s, <3>2 DEF SubmitStage, CapacityStage
      <4>2. job.status \notin {"indexing", "settling", "completed"}
        BY <1>s, <4>1 DEF SubmitStage
      <4> QED BY <1>1, <1>t, <2>4, <3>1, <3>2, <4>1, <4>2 DEF SubmitStep, SubmitControl, RowKept, Row,
              CapacityStage, LiveBatchKeepsCapacity, Unfunded
    <3>3. CASE upstream \in Running /\ upstream' = "cancelled"
      BY <1>1, <1>t, <2>4, <3>1, <3>3 DEF SubmitStep, SubmitControl, RowKept, Row,
         CapacityStage, LiveBatchKeepsCapacity, Unfunded, Running
    <3> QED BY <1>1, <2>4, <3>2, <3>3 DEF SubmitStep, SubmitBatch
  <2> QED BY <2>1, <2>2, <2>3, <2>4
<1>2. CASE OutsideStep /\ UNCHANGED sub
  <2>1. CASE OwnerMoves
    BY <1>2, <1>s, <2>1 DEF OwnerMoves, Moved, Row, CapacityStage, LiveBatchKeepsCapacity, SubmitStage
  <2>2. ASSUME NEW w \in Workers, WorkerMoves(w) PROVE CapacityStage'
    <3>1. work[w].pc \in {"toIndexing", "toSettling", "toFailed", "expire", "mark"} => upstream \notin Running
      BY DEF StageInvariant, WorkerStage, KnowsEnd, Polled, Settling
    <3> QED BY <1>2, <2>2, <3>1 DEF WorkerMoves, Moved, Row, CapacityStage, LiveBatchKeepsCapacity
  <2>3. CASE Counted /\ UNCHANGED <<task, upstream>>
    BY <1>2, <2>3 DEF Counted, Row, CapacityStage, LiveBatchKeepsCapacity
  <2>4. CASE Frees
    <3>1. job.named => sub.pc # "submit"
      BY <1>s DEF SubmitStage
    <3> QED BY <1>2, <2>4, <3>1 DEF Frees, RowKept, Row, CapacityStage, LiveBatchKeepsCapacity, Terminal
  <2>5. CASE BatchMoves
    BY <1>2, <2>5 DEF BatchMoves, RowKept, Row, CapacityStage, LiveBatchKeepsCapacity, Running
  <2>6. RowKept => Counted
    BY <1>t, KeptIsCounted
  <2> QED BY <1>2, <2>1, <2>2, <2>3, <2>4, <2>5, <2>6 DEF OutsideStep, Refunds, Captures
<1> QED BY <1>1, <1>2, Steps

-----------------------------------------------------------------------------
(* The hold of a job that goes on.                                         *)

LEMMA FundedStep ==
  ASSUME TypeOK, StageInvariant, CapacityStage, FundedStage, [Next]_vars
  PROVE  FundedStage'
<1>t. /\ job \in JobType /\ money \in MoneyType /\ money.frozen \in Int /\ job.named \in BOOLEAN
      /\ OtherFrozen \in Nat /\ HoldAmount \in Nat /\ HoldAmount > 0
  BY Types, Constants DEF JobType, MoneyType
<1>s. SubmitStage
  BY DEF StageInvariant
<1>k. RowKept => Counted
  BY <1>t, KeptIsCounted
<1>f. /\ "hold" \notin money.claims => money.frozen = OtherFrozen /\ ~job.named
      /\ sub.pc \in Unfunded => "hold" \notin money.claims
      /\ sub.pc \in Funded => "hold" \in money.claims /\ (job.status \in {"created", "uploading"} => Held)
      /\ job.status \in {"submitted", "running", "indexing"} => "hold" \in money.claims /\ Held
  BY DEF FundedStage, Unfunded, Funded, SubmittedIsFunded
<1>q. ASSUME "hold" \notin money'.claims => money'.frozen = OtherFrozen /\ ~job'.named,
             sub'.pc \in Unfunded => "hold" \notin money'.claims,
             sub'.pc \in Funded => "hold" \in money'.claims /\ (job'.status \in {"created", "uploading"} => Held'),
             job'.status \in {"submitted", "running", "indexing"} => "hold" \in money'.claims /\ Held'
      PROVE  FundedStage'
  BY <1>q DEF FundedStage, Unfunded, Funded, SubmittedIsFunded
<1>m. UNCHANGED money => Held' = Held
  BY DEF Held
<1>1. CASE SubmitStep
  <2>1. CASE UNCHANGED money
    <3>1. sub'.pc \in Unfunded => sub.pc \in Unfunded
      BY <1>1 DEF SubmitStep, SubmitControl
    <3>2. money # HoldReserved(money)
      <4>1. HoldReserved(money).frozen # money.frozen
        BY <1>t, ReservedEffect
      <4> QED BY <4>1
    <3>3. sub'.pc \in Funded => sub.pc \in Funded
      BY <1>1, <2>1, <3>2 DEF SubmitStep, SubmitControl
    <3>4. CASE RowKept
      BY <1>f, <1>m, <1>q, <2>1, <3>1, <3>3, <3>4 DEF RowKept, Row
    <3>5. CASE sub.pc = "create" /\ Moved("created", job.named)
      BY <1>f, <1>m, <1>q, <2>1, <3>1, <3>3, <3>5 DEF Moved, Row, Funded
    <3>6. CASE sub.pc = "upload" /\ job.status = "created" /\ Moved("uploading", job.named)
      BY <1>f, <1>m, <1>q, <2>1, <3>1, <3>3, <3>6 DEF Moved, Row
    <3>7. CASE Moved("failed", job.named)
      BY <1>f, <1>m, <1>q, <2>1, <3>1, <3>3, <3>7 DEF Moved, Row
    <3>8. CASE /\ sub.pc = "adopt" /\ sub'.pc \in Adopted
               /\ job.status \in {"created", "uploading"} /\ Moved("submitted", TRUE)
      BY <1>f, <1>m, <1>q, <2>1, <3>8 DEF Moved, Row, Adopted, Unfunded, Funded
    <3> QED BY <1>1, <3>4, <3>5, <3>6, <3>7, <3>8 DEF SubmitStep, SubmitRow
  <2>2. CASE sub.pc = "hold" /\ money' = HoldReserved(money) /\ RowKept /\ sub'.pc \notin Unfunded
    <3>1. "hold" \in money'.claims /\ money'.frozen = money.frozen + HoldAmount
      BY <1>t, <2>2, ReservedEffect
    <3>2. money.frozen = OtherFrozen
      BY <1>f, <2>2 DEF Unfunded
    <3>3. Held'
      BY <1>t, <3>1, <3>2 DEF Held
    <3> QED BY <1>q, <2>2, <3>1, <3>3
  <2>3. CASE /\ sub.pc \in {"abandon", "refund"} /\ money' = HoldReleased(money) /\ RowKept
             /\ sub'.pc \notin Funded
    <3>1. ~job.named /\ job.status \notin {"submitted", "running", "indexing"}
      BY <1>s, <2>3 DEF SubmitStage
    <3>2. "hold" \notin money'.claims => "hold" \notin money.claims /\ money'.frozen = money.frozen
      BY <1>t, <2>3, ReleasedEffect
    <3>3. sub'.pc \notin Unfunded
      BY <1>1, <2>3 DEF SubmitStep, SubmitControl, Unfunded
    <3> QED BY <1>f, <1>q, <2>3, <3>1, <3>2, <3>3 DEF RowKept, Row
  <2> QED BY <1>1, <2>1, <2>2, <2>3 DEF SubmitStep, SubmitMoney
<1>2. CASE OutsideStep /\ UNCHANGED sub
  <2>1. CASE OwnerMoves
    BY <1>2, <1>f, <1>m, <1>q, <2>1 DEF OwnerMoves, Moved, Row
  <2>2. ASSUME NEW w \in Workers, WorkerMoves(w) PROVE FundedStage'
    <3>1. sub.pc \notin Funded /\ UNCHANGED money
      BY <1>s, <2>2 DEF SubmitStage, Funded, WorkerMoves, Moved
    <3> QED BY <1>2, <1>f, <1>m, <1>q, <2>2, <3>1 DEF WorkerMoves, Moved, Row
  <2>3. CASE Counted /\ UNCHANGED money
    BY <1>2, <1>f, <1>m, <1>q, <2>3 DEF Counted, Row
  <2>4. CASE Refunds
    <3>1. job.status \in {"failed", "cancelled", "settling", "completed"}
      BY <2>4 DEF Refunds, Unpaid, StageInvariant, WorkerStage, Settling
    <3>2. /\ "hold" \in money'.claims <=> "hold" \in money.claims
          /\ "hold" \notin money.claims => money'.frozen = money.frozen
      BY <1>t, <2>4, ReleasedEffect DEF Refunds
    <3>3. job'.status = job.status /\ job'.named = job.named
      BY <2>4 DEF Refunds, Counted, Row
    <3> QED BY <1>2, <1>f, <1>q, <3>1, <3>2, <3>3
  <2>5. CASE Captures
    <3>1. job.named /\ job.status \in {"settling", "completed", "failed"}
      BY <2>5 DEF Captures, StageInvariant, WorkerStage, KnowsEnd, Polled, Settling
    <3>2. "hold" \in money'.claims <=> "hold" \in money.claims
      BY <1>t, <2>5, CapturedEffect DEF Captures
    <3>3. job'.status = job.status /\ job'.named = job.named
      BY <2>5 DEF Captures, RowKept, Row
    <3> QED BY <1>2, <1>f, <1>q, <3>1, <3>2, <3>3
  <2> QED BY <1>2, <1>k, <2>1, <2>2, <2>3, <2>4, <2>5 DEF OutsideStep, Frees, BatchMoves
<1> QED BY <1>1, <1>2, Steps

-----------------------------------------------------------------------------
(* The job lock.                                                           *)

\* A worker that has lost its lock stays marked.
LEMMA StalledStays == ASSUME [Next]_vars PROVE stalled => stalled'
<1>1. ASSUME Surroundings, stalled PROVE stalled'
  BY <1>1 DEF Surroundings, SubmitHeartbeat, JobAges, LockExpires, RecoverStaleActive, MoveDueDelayed,
     Provider, Missed, vars
<1> QED BY <1>1, Actors

\* Neither the owner's requests nor the scanner touch the lock or a job that is
\* being settled.
LEMMA NotByWorker ==
  ASSUME TypeOK, StageInvariant, CapacityStage,
         \/ Submit \/ SubmitCrash \/ CancelRead \/ ResubmitRead \/ Client \/ ClientFail \/ Recover
  PROVE  /\ queue'.lock = queue.lock
         /\ job.status = "settling" => job'.status = "settling"
         /\ job'.status \in {"settling", "completed"} => job'.status = job.status
<1>t. job \in JobType /\ queue \in QueueType
  BY Types
<1>e. \A ok \in BOOLEAN : EnqueueCall(ok) => queue'.lock = queue.lock
  BY EnqueueEffect DEF Queue
<1>1. CASE Submit \/ SubmitCrash
  <2>1. SubmitStep
    BY <1>1, SubmitSteps
  <2>2. queue'.lock = queue.lock
    BY <1>1, <1>e DEF Submit, SubmitCrash, SubmitReserve, SubmitCreate, SubmitBind, SubmitHold,
     SubmitItems, SubmitUpload, SubmitIntent, SubmitAbandon, SubmitAbandonFail, SubmitProvider,
     SubmitAdopt, SubmitAbort, SubmitRebind, SubmitEnqueue, SubmitRefund, SubmitRecord, SubmitHide,
     SubmitRetry, SubmitReturn
  <2>3. job.status = "settling" => job.named
    BY DEF StageInvariant, SubmitStage
  <2>4. job.named => RowKept
    BY <2>1 DEF SubmitStep, SubmitRow, StageInvariant, SubmitStage
  <2>5. \/ RowKept
        \/ job'.status \in {"created", "uploading", "failed", "submitted"}
    BY <2>1 DEF SubmitStep, SubmitRow, Moved, Row
  <2> QED BY <2>2, <2>3, <2>4, <2>5 DEF RowKept, Row
<1>2. CASE CancelRead \/ ResubmitRead \/ Client \/ ClientFail
  <2>1. queue'.lock = queue.lock
    BY <1>2, <1>e DEF CancelRead, ResubmitRead, Client, ClientFail, CancelTransition, CancelFree,
       CancelRefund, CancelProvider, ClientEnqueue
  <2>2. UNCHANGED job \/ Transition("cancelled")
    BY <1>2 DEF CancelRead, ResubmitRead, Client, ClientFail, CancelTransition, CancelFree,
       CancelRefund, CancelProvider, ClientEnqueue
  <2>3. Transition("cancelled") => CanTransition(job.status, "cancelled") /\ job'.status = "cancelled"
    BY <1>t, TransitionEffect DEF Row, Statuses, Terminal
  <2> QED BY <2>1, <2>2, <2>3, Table
<1>3. CASE Recover
  <2>1. queue'.lock = queue.lock
    BY <1>3, <1>e DEF Recover, RecoverList, RecoverFail, RecoverRefund, RecoverRetry
  <2>2. UNCHANGED job \/ (Unsubmitted /\ job'.status = "failed")
    BY <1>3, <1>t, StatusWrite DEF Recover, RecoverList, RecoverFail, RecoverRefund, RecoverRetry, Row,
       Statuses, Terminal
  <2> QED BY <2>1, <2>2 DEF Unsubmitted
<1> QED BY <1>1, <1>2, <1>3

Guarded == {"admit", "poll", "toRunning", "toIndexing", "toFailed", "toCancelled", "index", "toSettling"}
Paying == {"capture", "failure", "exhaust", "expire", "mark"}

\* The worker that has the lock and takes the step.
LEMMA OwnerOfLock ==
  ASSUME TypeOK, NEW w \in Workers, LockStage(w), ~stalled,
         work[w].pc \notin {"idle", "reserved"}, Worker(w) \/ WorkerFail(w) \/ WorkerCrash(w)
  PROVE  /\ work'[w].pc \notin {"idle", "reserved"} => queue'.lock = w
         /\ \/ work'[w].pc \in Guarded
            \/ work'[w].pc = "recover" /\ work'[w].seen # "settling"
            => job'.status \notin {"settling", "completed"}
         /\ work'[w].pc \in Paying => job'.status = "settling"
<1>t. job \in JobType /\ queue \in QueueType /\ work \in [Workers -> WorkerType]
  BY Types
<1>l. /\ queue.lock = w
      /\ \/ work[w].pc \in Guarded
         \/ work[w].pc = "recover" /\ work[w].seen # "settling"
         => job.status \notin {"settling", "completed"}
      /\ work[w].pc \in Paying => job.status = "settling"
  BY DEF LockStage, Guarded, Paying
<1>w. \A pc \in WorkerPcs : WorkTo(w, pc) => work'[w].pc = pc
  BY <1>t, WorkToEffect DEF At
<1>k. UNCHANGED queue => queue'.lock = w
  BY <1>l
<1>1. CASE \/ WorkerFinish(w) \/ WorkerUnlock(w) \/ WorkerFail(w) \/ WorkerCrash(w)
           \/ SettleFree(w) \/ ProcessRefund(w) \/ ProcessFree(w) \/ SettleExpire(w) \/ SettleMark(w)
  <2>1. \E pc \in {"idle", "ack", "requeue", "unlock", "refund", "freeDone"} :
          WorkTo(w, pc) /\ (pc # "idle" => UNCHANGED queue \/ queue' \in {Acked(queue), Requeued(queue)})
    BY <1>1 DEF WorkerFinish, WorkerUnlock, WorkerFail, WorkerCrash, SettleFree, ProcessRefund,
       ProcessFree, SettleExpire, SettleMark
  <2>2. UNCHANGED queue \/ queue' \in {Acked(queue), Requeued(queue)} => queue'.lock = w
    BY <1>l, <1>t, QueueEffect DEF Queue
  <2>3. /\ work'[w].pc \in {"idle", "ack", "requeue", "unlock", "refund", "freeDone"}
        /\ work'[w].pc # "idle" => queue'.lock = w
    BY <1>w, <2>1, <2>2 DEF WorkerPcs
  <2> QED BY <2>3 DEF Guarded, Paying
<1>2. CASE WorkerReserve(w) \/ WorkerLock(w)
  BY <1>2 DEF WorkerReserve, WorkerLock
<1>3. CASE WorkerRoute(w)
  <2>1. work'[w].pc \in {"settle", "process"}
    BY <1>3, <1>w DEF WorkerRoute, WorkerPcs
  <2> QED BY <1>3, <1>k, <2>1 DEF WorkerRoute, Guarded, Paying
<1>4. CASE ProcessLoad(w)
  <2>1. \A pc \in WorkerPcs : Saw(w, pc) => work'[w].pc = pc /\ work'[w].seen = job.status
    BY <1>t, SawEffect DEF At
  <2>2. /\ work'[w].seen = job.status /\ job' = job
        /\ \/ work'[w].pc = "recover" /\ job.status \in {"indexing", "settling"}
           \/ work'[w].pc = "free"
           \/ work'[w].pc = "admit" /\ job.status \notin {"indexing", "settling"} \cup Terminal
    BY <1>4, <2>1 DEF ProcessLoad, WorkerPcs
  <2> QED BY <1>4, <1>k, <2>2 DEF ProcessLoad, Guarded, Paying, Terminal
<1>5. CASE ProcessRecover(w)
  <2>1. work'[w].pc = "ack" \/ (work'[w].pc = "admit" /\ work[w].seen # "settling")
    BY <1>5, <1>w DEF ProcessRecover, WorkerPcs
  <2> QED BY <1>5, <1>k, <1>l, <2>1 DEF ProcessRecover, Guarded, Paying
<1>6. CASE ProcessAdmit(w) \/ ProcessPoll(w)
  <2>1. work[w].pc \in Guarded /\ job' = job /\ UNCHANGED queue
    BY <1>6 DEF ProcessAdmit, ProcessPoll, Guarded
  <2>2. work'[w].pc \in {"requeue", "index", "poll", "toRunning", "toIndexing", "toFailed", "toCancelled"}
    BY <1>6, <1>w DEF ProcessAdmit, ProcessPoll, WorkerPcs
  <2> QED BY <1>k, <1>l, <2>1, <2>2 DEF Paying
<1>7. CASE ProcessTransition(w)
  <2>1. UNCHANGED queue
    BY <1>7 DEF ProcessTransition
  <2>2. \/ work'[w].pc = "index" /\ job'.status = "indexing"
        \/ work'[w].pc \in {"free", "requeue"}
    <3>1. \A s \in Terminal : Ended(w, s) => work'[w].pc = "free"
      BY <1>t, EndedEffect DEF At, Statuses
    <3>2. \A s \in {"running", "indexing", "settling", "failed", "cancelled"} : Transition(s) => job'.status = s
      BY <1>t, TransitionEffect DEF Row, Statuses, Terminal
    <3>3. \/ \E s \in Terminal : Ended(w, s)
          \/ WorkTo(w, "requeue")
          \/ WorkTo(w, "index") /\ Transition("indexing")
      BY <1>7 DEF ProcessTransition
    <3> QED BY <1>w, <3>1, <3>2, <3>3 DEF WorkerPcs
  <2> QED BY <1>k, <2>1, <2>2 DEF Guarded, Paying
<1>8. CASE ProcessIndex(w)
  <2>1. /\ work'[w].pc \in {"toSettling", "toFailed", "requeue"}
        /\ work[w].pc \in Guarded /\ UNCHANGED queue
    BY <1>8, <1>w DEF ProcessIndex, WorkerPcs, Guarded
  <2>2. job'.status = job.status
    BY <1>8, <1>t, RowKeptEffect DEF ProcessIndex, RowKept, Row
  <2> QED BY <1>k, <1>l, <2>1, <2>2 DEF Paying
<1>9. CASE SettleLoad(w)
  <2>1. /\ job' = job /\ UNCHANGED queue
        /\ \/ work'[w].pc \in {"freeDone", "requeue"}
           \/ work'[w].pc \in {"exhaust", "failure", "capture"} /\ job.status = "settling"
    BY <1>9, <1>w DEF SettleLoad, WorkerPcs
  <2> QED BY <1>k, <2>1 DEF Guarded, Paying
<1>10. CASE SettleCapture(w) \/ SettleFailure(w) \/ SettleExhaust(w)
  <2>1. /\ work'[w].pc \in {"mark", "failure", "exhaust", "expire", "requeue"}
        /\ work[w].pc \in Paying /\ UNCHANGED queue
    BY <1>10, <1>w DEF SettleCapture, SettleFailure, SettleExhaust, WorkerPcs, Paying
  <2>2. job'.status = job.status
    BY <1>10, <1>t, SettlementFailureEffect DEF SettleCapture, SettleFailure, SettleExhaust, Row
  <2> QED BY <1>k, <1>l, <2>1, <2>2 DEF Guarded
<1> QED BY <1>1, <1>2, <1>3, <1>4, <1>5, <1>6, <1>7, <1>8, <1>9, <1>10 DEF Worker

\* While no lock was lost, at most one worker is at work, and nobody else moves the
\* job under its hands.
LEMMA LockStep ==
  ASSUME TypeOK, StageInvariant, CapacityStage, \A w \in Workers : LockStage(w), [Next]_vars,
         NEW q \in Workers
  PROVE  LockStage(q)'
<1>t. queue \in QueueType /\ "none" \notin Workers /\ work \in [Workers -> WorkerType] /\ job \in JobType
  BY Types, Constants
<1> SUFFICES ASSUME ~stalled' PROVE LockStage(q)'
  BY DEF LockStage
<1>n. ~stalled
  BY StalledStays
<1>l. \A w \in Workers :
        /\ work[w].pc \notin {"idle", "reserved"} => queue.lock = w
        /\ \/ work[w].pc \in Guarded
           \/ work[w].pc = "recover" /\ work[w].seen # "settling"
           => job.status \notin {"settling", "completed"}
        /\ work[w].pc \in Paying => job.status = "settling"
  BY <1>n DEF LockStage, Guarded, Paying
<1>q. ASSUME work'[q].pc \notin {"idle", "reserved"} => queue'.lock = q,
             \/ work'[q].pc \in Guarded
             \/ work'[q].pc = "recover" /\ work'[q].seen # "settling"
             => job'.status \notin {"settling", "completed"},
             work'[q].pc \in Paying => job'.status = "settling"
      PROVE  LockStage(q)'
  BY <1>q DEF LockStage, Guarded, Paying
<1>i. ASSUME work'[q].pc \in {"idle", "reserved"} PROVE LockStage(q)'
  BY <1>i DEF LockStage
<1>1. CASE /\ Submit \/ SubmitCrash \/ CancelRead \/ ResubmitRead \/ Client \/ ClientFail \/ Recover
           /\ UNCHANGED work
  <2>1. /\ queue'.lock = queue.lock
        /\ job.status = "settling" => job'.status = "settling"
        /\ job'.status \in {"settling", "completed"} => job'.status = job.status
    BY <1>1, NotByWorker
  <2> QED BY <1>1, <1>l, <1>q, <2>1
<1>2. CASE Surroundings /\ UNCHANGED work
  <2>1. job'.status = job.status
    BY <1>2, <1>t, RowKeptEffect DEF Surroundings, SubmitHeartbeat, JobAges, LockExpires,
       RecoverStaleActive, MoveDueDelayed, Provider, vars, RowKept, Row
  <2>2. CASE LockExpires
    <3>1. queue.lock \in Workers
      BY <1>t, <2>2 DEF LockExpires, QueueType
    <3>2. work[queue.lock].pc \in {"idle", "reserved"}
      BY <1>n, <2>2 DEF LockExpires, Missed
    <3>3. work[q].pc \in {"idle", "reserved"}
      BY <1>l, <3>2
    <3> QED BY <1>2, <1>i, <3>3
  <2>3. CASE ~LockExpires
    <3>1. queue'.lock = queue.lock
      BY <1>2, <1>t, <2>3, QueueEffect DEF Surroundings, SubmitHeartbeat, JobAges,
         RecoverStaleActive, MoveDueDelayed, Provider, vars, Queue
    <3> QED BY <1>2, <1>l, <1>q, <2>1, <3>1
  <2> QED BY <2>2, <2>3
<1>3. ASSUME NEW w \in Workers, Worker(w) \/ WorkerFail(w) \/ WorkerCrash(w) PROVE LockStage(q)'
  <2>1. Others(w)
    BY <1>3, WorkerAlone
  <2>2. CASE work[w].pc \notin {"idle", "reserved"}
    <3>1. CASE q = w
      <4>1. LockStage(w)
        OBVIOUS
      <4> QED BY <1>3, <1>n, <1>q, <2>2, <3>1, <4>1, OwnerOfLock
    <3>2. CASE q # w
      <4>1. work'[q].pc \in {"idle", "reserved"}
        BY <1>l, <2>1, <2>2, <3>2 DEF Others
      <4> QED BY <1>i, <4>1
    <3> QED BY <3>1, <3>2
  <2>3. CASE work[w].pc \in {"idle", "reserved"}
    <3>1. WorkerReserve(w) \/ WorkerLock(w) \/ WorkerCrash(w)
      BY <1>3, <2>3 DEF Worker, WorkerFail, WorkerRoute, ProcessLoad,
       ProcessRecover, ProcessFree, ProcessRefund, ProcessAdmit, ProcessPoll, ProcessTransition,
       ProcessIndex, SettleLoad, SettleCapture, SettleFailure, SettleExhaust, SettleExpire, SettleMark,
       SettleFree, WorkerFinish, WorkerUnlock
    <3>2. job' = job
      BY <3>1 DEF WorkerReserve, WorkerLock, WorkerCrash
    <3>3. CASE WorkerLock(w) /\ queue.lock = "none"
      <4>1. \A p \in Workers : work[p].pc \in {"idle", "reserved"}
        BY <1>l, <1>t, <3>3
      <4>2. queue'.lock = w /\ work'[w].pc = "route"
        <5>1. WorkTo(w, "route") /\ queue' = [queue EXCEPT !.lock = w]
          BY <3>3 DEF WorkerLock
        <5>2. work'[w].pc = "route"
          BY <1>t, <5>1, WorkToEffect DEF At, WorkerPcs
        <5> QED BY <1>t, <5>1, <5>2, QueueEffect DEF Queue
      <4>3. CASE q = w
        BY <1>q, <4>2, <4>3 DEF Guarded, Paying
      <4>4. CASE q # w
        BY <1>i, <2>1, <4>1, <4>4 DEF Others
      <4> QED BY <4>3, <4>4
    <3>4. CASE ~(WorkerLock(w) /\ queue.lock = "none")
      <4>1. queue'.lock = queue.lock
        BY <1>t, <3>1, <3>4, QueueEffect DEF WorkerReserve, WorkerLock, WorkerCrash, Queue
      <4>2. work'[w].pc \in {"idle", "reserved"}
        <5>1. WorkTo(w, "idle") \/ WorkTo(w, "reserved")
          BY <3>1, <3>4 DEF WorkerReserve, WorkerLock, WorkerCrash
        <5> QED BY <1>t, <5>1, WorkToEffect DEF At, WorkerPcs
      <4>3. CASE q = w
        BY <1>i, <4>2, <4>3
      <4>4. CASE q # w
        <5>1. work'[q] = work[q]
          BY <2>1, <4>4 DEF Others
        <5> QED BY <1>l, <1>q, <3>2, <4>1, <5>1
      <4> QED BY <4>3, <4>4
    <3> QED BY <3>3, <3>4
  <2> QED BY <2>2, <2>3
<1> QED BY <1>1, <1>2, <1>3, Actors

-----------------------------------------------------------------------------
(* The books of the hold.                                                  *)

LEMMA BooksStep ==
  ASSUME TypeOK, StageInvariant, CapacityStage, FundedStage, \A w \in Workers : LockStage(w),
         HoldBooks, [Next]_vars
  PROVE  HoldBooks'
<1>t. /\ job \in JobType /\ money \in MoneyType /\ money.frozen \in Int /\ job.retries \in Nat
      /\ OtherFrozen \in Nat /\ HoldAmount \in Nat /\ HoldAmount > 0 /\ MaxRetries \in Nat
  BY Types, Constants DEF JobType, MoneyType
<1>s. SubmitStage
  BY DEF StageInvariant
<1> SUFFICES ASSUME ~stalled', job'.retries < MaxRetries PROVE HoldBooks'
  BY DEF HoldBooks
<1>r. job'.retries \in Nat
  BY Types, TypeStep, TypesNext DEF JobType
<1>n. ~stalled /\ job.retries < MaxRetries
  <2>1. Rely
    BY Steps
  <2>2. job.retries >= MaxRetries => job'.retries >= MaxRetries
    BY <2>1 DEF Rely
  <2>3. job.retries < MaxRetries
    BY <1>r, <1>t, <2>2
  <2> QED BY <2>3, StalledStays
<1>h. Held <=> money.frozen > OtherFrozen
  BY DEF Held
<1>b. /\ money.frozen \in {OtherFrozen, OtherFrozen + HoldAmount}
      /\ "capture" \in money.claims =>
           money.frozen = OtherFrozen /\ job.status \in {"settling", "completed"}
      /\ "capture" \notin money.claims =>
           /\ job.status # "completed"
           /\ job.status = "settling" => Held
           /\ "hold" \in money.claims /\ "release" \notin money.claims => Held
  BY <1>n DEF HoldBooks
<1>x. Held => money.frozen = OtherFrozen + HoldAmount
  BY <1>b, <1>h, <1>t
<1>q. ASSUME money'.frozen \in {OtherFrozen, OtherFrozen + HoldAmount},
             "capture" \in money'.claims =>
               money'.frozen = OtherFrozen /\ job'.status \in {"settling", "completed"},
             "capture" \notin money'.claims =>
               /\ job'.status # "completed"
               /\ job'.status = "settling" => Held'
               /\ "hold" \in money'.claims /\ "release" \notin money'.claims => Held'
      PROVE  HoldBooks'
  BY <1>q DEF HoldBooks
<1>m. UNCHANGED money => Held' = Held
  BY DEF Held
<1>k. RowKept => Counted
  BY <1>t, KeptIsCounted
\* A step that leaves the money alone and does not end or begin the settlement.
<1>y. ASSUME UNCHANGED money, job.status \notin {"settling", "completed"},
             job'.status \notin {"settling", "completed"}
      PROVE  HoldBooks'
  BY <1>b, <1>m, <1>q, <1>y
<1>z. ASSUME UNCHANGED money, job'.status = job.status PROVE HoldBooks'
  BY <1>b, <1>m, <1>q, <1>z
\* A refund of a job that is not being settled.
<1>u. ASSUME money' = HoldReleased(money), job.status \notin {"settling", "completed"},
             job'.status = job.status
      PROVE  HoldBooks'
  <2>1. CASE "release" \in money.claims
    BY <1>t, <1>u, <1>z, <2>1, ReleasedEffect
  <2>2. CASE "release" \notin money.claims
    <3>1. /\ "capture" \notin money'.claims /\ "release" \in money'.claims
          /\ money'.frozen = IF "hold" \in money.claims THEN money.frozen - HoldAmount ELSE money.frozen
      BY <1>b, <1>t, <1>u, <2>2, ReleasedEffect
    <3>2. "hold" \in money.claims => money.frozen = OtherFrozen + HoldAmount
      BY <1>b, <1>u, <1>x, <2>2
    <3>3. money'.frozen \in {OtherFrozen, OtherFrozen + HoldAmount}
      BY <1>b, <1>t, <3>1, <3>2
    <3> QED BY <1>q, <1>u, <3>1, <3>3
  <2> QED BY <2>1, <2>2
<1>1. CASE SubmitStep
  <2>1. CASE job.named
    <3>1. RowKept /\ UNCHANGED money
      BY <1>1, <1>s, <2>1 DEF SubmitStep, SubmitRow, SubmitMoney, SubmitStage
    <3> QED BY <1>z, <3>1 DEF RowKept, Row
  <2>2. CASE ~job.named
    <3>1. job.status \notin {"settling", "completed"}
      BY <1>s, <2>2 DEF SubmitStage
    <3>2. job'.status \notin {"settling", "completed"}
      BY <1>1, <3>1 DEF SubmitStep, SubmitRow, RowKept, Moved, Row
    <3>3. CASE UNCHANGED money
      BY <1>y, <3>1, <3>2, <3>3
    <3>4. CASE sub.pc = "hold" /\ money' = HoldReserved(money)
      <4>1. money.frozen = OtherFrozen
        BY <3>4 DEF FundedStage
      <4>2. /\ money'.frozen = OtherFrozen + HoldAmount
            /\ money'.claims = money.claims \cup {"hold"}
        BY <1>t, <3>4, <4>1, ReservedEffect
      <4>3. Held'
        BY <1>t, <4>2 DEF Held
      <4>4. "capture" \notin money'.claims
        BY <1>b, <3>1, <4>2
      <4> QED BY <1>q, <3>2, <4>2, <4>3, <4>4
    <3>5. CASE money' = HoldReleased(money) /\ RowKept
      BY <1>u, <3>1, <3>5 DEF RowKept, Row
    <3> QED BY <1>1, <3>3, <3>4, <3>5 DEF SubmitStep, SubmitMoney
  <2> QED BY <2>1, <2>2
<1>2. CASE OutsideStep
  <2>1. CASE OwnerMoves
    BY <1>y, <2>1 DEF OwnerMoves, Moved, Row
  <2>2. ASSUME NEW w \in Workers, WorkerMoves(w) PROVE HoldBooks'
    <3>s. WorkerStage(w) /\ LockStage(w)
      BY DEF StageInvariant
    <3>1. CASE \/ work[w].pc = "toRunning" /\ job.status \in {"submitted", "running"} /\ Moved("running", TRUE)
               \/ work[w].pc = "toIndexing" /\ job.status \in {"submitted", "running"} /\ Moved("indexing", TRUE)
               \/ work[w].pc = "toCancelled" /\ job.status \in {"submitted", "running"} /\ Moved("cancelled", TRUE)
      BY <1>y, <3>1 DEF Moved, Row
    <3>2. CASE work[w].pc = "toSettling" /\ job.status = "indexing" /\ Moved("settling", TRUE)
      <4>1. Held /\ "capture" \notin money.claims
        BY <1>b, <3>2 DEF FundedStage, SubmittedIsFunded
      <4> QED BY <1>b, <1>m, <1>q, <3>2, <4>1 DEF Moved, Row
    <3>3. CASE work[w].pc = "toFailed" /\ job.status \notin Terminal /\ Moved("failed", TRUE)
      <4>1. job.status \notin {"settling", "completed"}
        BY <1>n, <3>s, <3>3 DEF LockStage
      <4> QED BY <1>y, <3>3, <4>1 DEF Moved, Row
    <3>4. work[w].pc # "expire"
      <4>1. work[w].pc = "expire" => job.retries >= MaxRetries
        BY <3>s DEF WorkerStage
      <4> QED BY <1>n, <1>t, <4>1
    <3>5. CASE work[w].pc = "mark" /\ job.status = "settling" /\ Moved("completed", TRUE)
      <4>1. "capture" \in money.claims
        BY <3>s, <3>5 DEF WorkerStage
      <4> QED BY <1>b, <1>q, <3>5, <4>1 DEF Moved, Row
    <3> QED BY <2>2, <3>1, <3>2, <3>3, <3>4, <3>5 DEF WorkerMoves
  <2>3. CASE Counted /\ UNCHANGED money
    BY <1>z, <2>3 DEF Counted, Row
  <2>4. CASE Refunds
    <3>1. \A w \in Workers : work[w].pc # "exhaust"
      <4>1. \A w \in Workers : work[w].pc = "exhaust" => job.retries >= MaxRetries
        BY DEF StageInvariant, WorkerStage
      <4> QED BY <1>n, <1>t, <4>1
    <3>2. job.status \in Unpaid
      BY <2>4, <3>1 DEF Refunds
    <3> QED BY <1>u, <2>4, <3>2 DEF Refunds, Counted, Row, Unpaid
  <2>5. CASE Captures
    <3>1. job.status = "settling"
      BY <1>n, <2>5 DEF Captures, LockStage
    <3>2. job'.status = job.status /\ money' = HoldCaptured(money)
      BY <2>5 DEF Captures, RowKept, Row
    <3>3. CASE "capture" \in money.claims
      BY <1>t, <1>z, <3>2, <3>3, CapturedEffect
    <3>4. CASE "capture" \notin money.claims
      <4>1. money.frozen = OtherFrozen + HoldAmount
        BY <1>b, <1>x, <3>1, <3>4
      <4>2. /\ money'.frozen = money.frozen - HoldAmount
            /\ "capture" \in money'.claims
        BY <1>t, <3>2, <3>4, CapturedEffect
      <4>3. money'.frozen = OtherFrozen
        BY <1>t, <4>1, <4>2
      <4> QED BY <1>q, <3>1, <3>2, <4>2, <4>3
    <3> QED BY <3>3, <3>4
  <2> QED BY <1>2, <1>k, <2>1, <2>2, <2>3, <2>4, <2>5 DEF OutsideStep, Frees, BatchMoves
<1> QED BY <1>1, <1>2, Steps

-----------------------------------------------------------------------------
(* The queue and the end of the job.                                       *)

\* No step takes the last entry of a job away and leaves its inflight key.
LEMMA QueueStep == ASSUME TypeOK, QueueKeepsJob, [Next]_vars PROVE QueueKeepsJob'
<1>t. queue \in QueueType
  BY Types
<1>q. \A l : Queue(l) => QueueKeepsJob'
  BY DEF Queue
<1>u. UNCHANGED queue => QueueKeepsJob'
  BY DEF QueueKeepsJob
<1>e. \A ok \in BOOLEAN : EnqueueCall(ok) => QueueKeepsJob'
  BY <1>q, EnqueueEffect
<1>o. /\ queue' = Acked(queue) => QueueKeepsJob'
      /\ queue' = Requeued(queue) => QueueKeepsJob'
      /\ queue.ready > 0 /\ queue' = [queue EXCEPT !.ready = @ - 1, !.active = TRUE] => QueueKeepsJob'
      /\ queue' = [queue EXCEPT !.active = FALSE, !.ready = @ + 1] => QueueKeepsJob'
      /\ queue' = [queue EXCEPT !.delayed = FALSE, !.ready = @ + 1] => QueueKeepsJob'
      /\ \A l \in Workers \cup {"none"} : queue' = [queue EXCEPT !.lock = l] => QueueKeepsJob'
  BY <1>q, <1>t, QueueEffect
<1>1. CASE Submit \/ SubmitCrash
  <2>1. UNCHANGED queue \/ \E ok \in BOOLEAN : EnqueueCall(ok)
    BY <1>1 DEF Submit, SubmitCrash, SubmitReserve, SubmitCreate, SubmitBind, SubmitHold, SubmitItems,
       SubmitUpload, SubmitIntent, SubmitAbandon, SubmitAbandonFail, SubmitProvider, SubmitAdopt,
       SubmitAbort, SubmitRebind, SubmitEnqueue, SubmitRefund, SubmitRecord, SubmitHide, SubmitRetry,
       SubmitReturn
  <2> QED BY <1>e, <1>u, <2>1
<1>2. CASE CancelRead \/ ResubmitRead \/ Client \/ ClientFail \/ Recover
  <2>1. UNCHANGED queue \/ \E ok \in BOOLEAN : EnqueueCall(ok)
    BY <1>2 DEF CancelRead, ResubmitRead, Client, ClientFail, CancelTransition, CancelFree, CancelRefund,
       CancelProvider, ClientEnqueue, Recover, RecoverList, RecoverFail, RecoverRefund, RecoverRetry
  <2> QED BY <1>e, <1>u, <2>1
<1>3. ASSUME NEW w \in Workers, Worker(w) \/ WorkerFail(w) \/ WorkerCrash(w) PROVE QueueKeepsJob'
  <2>1. CASE WorkerReserve(w)
    BY <1>o, <2>1 DEF WorkerReserve
  <2>2. CASE WorkerLock(w)
    BY <1>o, <2>2 DEF WorkerLock
  <2>3. CASE WorkerFinish(w)
    BY <1>o, <2>3 DEF WorkerFinish
  <2>4. CASE WorkerUnlock(w)
    <3>1. queue.lock \in Workers \cup {"none"}
      BY <1>t DEF QueueType
    <3> QED BY <1>o, <2>4, <3>1 DEF WorkerUnlock
  <2>5. CASE ~(WorkerReserve(w) \/ WorkerLock(w) \/ WorkerFinish(w) \/ WorkerUnlock(w))
    <3>1. UNCHANGED queue
      BY <1>3, <2>5 DEF Worker, WorkerFail, WorkerCrash, WorkerRoute, ProcessLoad, ProcessRecover,
         ProcessFree, ProcessRefund, ProcessAdmit, ProcessPoll, ProcessTransition, ProcessIndex,
         SettleLoad, SettleCapture, SettleFailure, SettleExhaust, SettleExpire, SettleMark, SettleFree
    <3> QED BY <1>u, <3>1
  <2> QED BY <2>1, <2>2, <2>3, <2>4, <2>5
<1>4. CASE Surroundings
  BY <1>4, <1>o, <1>u DEF Surroundings, SubmitHeartbeat, JobAges, LockExpires, RecoverStaleActive,
     MoveDueDelayed, Provider, vars
<1> QED BY <1>1, <1>2, <1>3, <1>4, Actors

\* Nobody moves an ended job, except that a failing Submit writes failed over cancelled.
LEMMA EndStep ==
  ASSUME TypeOK, StageInvariant, CapacityStage, [Next]_vars, job.status \in Terminal
  PROVE  \/ job'.status = job.status
         \/ job.status = "cancelled" /\ job'.status = "failed" /\ sub.pc # "done"
<1>t. job \in JobType
  BY Types
<1>1. CASE SubmitStep
  <2>1. CASE RowKept
    BY <2>1 DEF RowKept, Row
  <2>2. CASE ~RowKept
    <3>1. ~job.named /\ job.status # "none"
      BY <1>1, <2>2 DEF SubmitStep, SubmitRow, StageInvariant, SubmitStage, Terminal
    <3>2. job.status \in {"failed", "cancelled"}
      BY <3>1 DEF StageInvariant, SubmitStage, Terminal
    <3>3. job'.status = "failed" /\ sub.pc # "done"
      BY <1>1, <2>2, <3>2 DEF SubmitStep, SubmitRow, Moved, Row, StageInvariant, SubmitStage
    <3> QED BY <3>2, <3>3
  <2> QED BY <2>1, <2>2
<1>2. CASE OutsideStep
  <2>1. ~OwnerMoves
    BY DEF OwnerMoves, Terminal
  <2>2. \A w \in Workers : ~WorkerMoves(w)
    BY DEF WorkerMoves, Terminal
  <2>3. RowKept \/ Counted
    BY <1>2, <2>1, <2>2 DEF OutsideStep, Refunds, Captures, Frees, BatchMoves
  <2> QED BY <2>3 DEF RowKept, Counted, Row
<1> QED BY <1>1, <1>2, Steps

-----------------------------------------------------------------------------
(* The specification.                                                      *)

\* The initial state satisfies the invariant.
LEMMA BatchInit == Init => BatchInvariant /\ QueueKeepsJob
<1> SUFFICES ASSUME Init PROVE BatchInvariant /\ QueueKeepsJob
  OBVIOUS
<1>j. /\ job.status = "none" /\ job.named = FALSE /\ job.retries = 0
      /\ money.frozen = OtherFrozen /\ money.claims = {}
      /\ queue.lock = "none" /\ queue.inflight = FALSE
      /\ sub.pc = "reserve" /\ sub.started = FALSE
      /\ client.pc = "idle" /\ rec = "idle" /\ upstream = "none" /\ task = "none"
      /\ \A w \in Workers : work[w].pc = "idle" /\ work[w].named = FALSE
  BY DEF Init, IdleClient, IdleWorker
<1>1. TypeOK
  <2>1. job \in JobType
    BY Constants DEF Init, JobType, Statuses
  <2>2. money \in MoneyType /\ task \in TaskType /\ upstream \in UpstreamType
    BY Constants DEF Init, MoneyType, TaskType, UpstreamType
  <2>3. queue \in QueueType
    BY DEF Init, QueueType
  <2>4. sub \in SubType /\ client \in ClientType
    BY DEF Init, SubType, SubmitPcs, ClientType, ClientPcs, IdleClient, Statuses
  <2>5. IdleWorker \in WorkerType
    BY DEF IdleWorker, WorkerType, WorkerPcs, Statuses
  <2>6. work \in [Workers -> WorkerType]
    BY <2>5 DEF Init
  <2>7. calls \in 0 .. MaxCalls /\ faults \in 0 .. MaxFaults
    <3>1. calls = MaxCalls /\ faults = MaxFaults
      BY DEF Init
    <3> QED BY <3>1, Constants
  <2>8. stalled \in BOOLEAN
    BY DEF Init
  <2> QED BY <1>j, <2>1, <2>2, <2>3, <2>4, <2>6, <2>7, <2>8, Types
<1>2. StageInvariant
  BY <1>j DEF StageInvariant, SubmitStage, RefundStage, WorkerStage, KnowsEnd, Polled, Settling
<1>3. CapacityStage
  BY <1>j DEF CapacityStage, LiveBatchKeepsCapacity, Running
<1>4. FundedStage
  BY <1>j DEF FundedStage, SubmittedIsFunded
<1>5. \A w \in Workers : LockStage(w)
  BY <1>j DEF LockStage
<1>6. HoldBooks
  BY <1>j DEF HoldBooks
<1>7. QueueKeepsJob
  BY <1>j DEF QueueKeepsJob
<1> QED BY <1>1, <1>2, <1>3, <1>4, <1>5, <1>6, <1>7 DEF BatchInvariant

\* The inductive invariant and what the queue keeps, for any number of workers,
\* requests and faults.
THEOREM BatchInvariantHolds == Spec => [](BatchInvariant /\ QueueKeepsJob)
<1>1. BatchInvariant /\ QueueKeepsJob /\ [Next]_vars => (BatchInvariant /\ QueueKeepsJob)'
  <2> SUFFICES ASSUME BatchInvariant, QueueKeepsJob, [Next]_vars
               PROVE  (BatchInvariant /\ QueueKeepsJob)'
    OBVIOUS
  <2>0. /\ TypeOK /\ StageInvariant /\ CapacityStage /\ FundedStage /\ HoldBooks
        /\ \A w \in Workers : LockStage(w)
    BY DEF BatchInvariant
  <2>1. TypeOK' /\ QueueKeepsJob'
    BY <2>0, TypeStep, QueueStep
  <2>2. StageInvariant' /\ CapacityStage' /\ FundedStage'
    BY <2>0, StageStep, CapacityStep, FundedStep
  <2>3. \A w \in Workers : LockStage(w)'
    BY <2>0, LockStep
  <2>4. HoldBooks'
    BY <2>0, BooksStep
  <2> QED BY <2>1, <2>2, <2>3, <2>4 DEF BatchInvariant
<1> QED BY <1>1, BatchInit, PTL DEF Spec

\* Every variable keeps its type.
THEOREM TypeCorrect == Spec => []TypeOK
<1>1. BatchInvariant /\ QueueKeepsJob => TypeOK
  BY DEF BatchInvariant
<1> QED BY <1>1, BatchInvariantHolds, PTL

\* A job that is submitted, running or being indexed is paid for: neither Cancel nor
\* the scanner nor a failing Submit has refunded its hold, and nobody has captured it.
THEOREM JobsAreFunded == Spec => []SubmittedIsFunded
<1>1. BatchInvariant /\ QueueKeepsJob => SubmittedIsFunded
  BY DEF BatchInvariant, FundedStage
<1> QED BY <1>1, BatchInvariantHolds, PTL

\* While no worker has outlived its lock and settlement has not given up, the hold is
\* captured or released once, and never at the cost of the user's other jobs.
THEOREM HoldsEndOnce == Spec => []HoldEndsOnce
<1>1. BatchInvariant /\ QueueKeepsJob => HoldEndsOnce
  <2> SUFFICES ASSUME BatchInvariant, ~stalled, job.retries < MaxRetries
               PROVE  /\ money.frozen >= OtherFrozen
                      /\ job.status = "completed" => "capture" \in money.claims /\ ~Held
                      /\ job.status \in {"failed", "cancelled"} => "capture" \notin money.claims
    BY DEF HoldEndsOnce
  <2>1. /\ money.frozen \in {OtherFrozen, OtherFrozen + HoldAmount}
        /\ "capture" \in money.claims =>
             money.frozen = OtherFrozen /\ job.status \in {"settling", "completed"}
        /\ "capture" \notin money.claims => job.status # "completed"
    BY DEF BatchInvariant, HoldBooks
  <2>2. money.frozen >= OtherFrozen /\ (money.frozen = OtherFrozen => ~Held)
    BY <2>1, Constants DEF Held
  <2> QED BY <2>1, <2>2
<1> QED BY <1>1, BatchInvariantHolds, PTL

\* A batch that the provider may still be working on keeps its unfinished-task
\* reservation, through every crash and lost answer, unless the job was cancelled.
THEOREM LiveBatchesKeepCapacity == Spec => []LiveBatchKeepsCapacity
<1>1. BatchInvariant /\ QueueKeepsJob => LiveBatchKeepsCapacity
  BY DEF BatchInvariant, CapacityStage
<1> QED BY <1>1, BatchInvariantHolds, PTL

\* The inflight key never outlives the last queue entry of the job, so no Enqueue is
\* swallowed by it for good.
THEOREM QueuedJobsAreKept == Spec => []QueueKeepsJob
BY BatchInvariantHolds, PTL

\* A job that has ended stays ended.
THEOREM EndsAreFinal == Spec => EndIsFinal
<1>1. (BatchInvariant /\ QueueKeepsJob) /\ [Next]_vars =>
        [job.status \in Terminal =>
           \/ job'.status = job.status
           \/ job.status = "cancelled" /\ job'.status = "failed" /\ sub.pc # "done"]_vars
  BY EndStep DEF BatchInvariant
<1> QED BY <1>1, BatchInvariantHolds, PTL DEF Spec, EndIsFinal
=============================================================================

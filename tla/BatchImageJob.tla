---------------------------- MODULE BatchImageJob ----------------------------
(***************************************************************************)
(* One batch image job from its submission to the end of its balance hold. *)
(* The job row, the billing tables and the unfinished-task reservation are *)
(* in PostgreSQL, the work queue is in Redis, and the images are made by a *)
(* provider that answers late, wrongly or not at all.  Nothing spans these *)
(* stores, so every call below is a step of its own.  The actors are the   *)
(* request that submits the job, the owner's later requests (Cancel and    *)
(* the idempotent retry), the scanner for stale submissions, and the queue *)
(* workers of all instances.                                               *)
(*                                                                         *)
(* The user's other batch jobs are the amount OtherFrozen of the frozen    *)
(* balance.  A call may fail without effect, or take effect and be         *)
(* reported as failed, and a worker that is alive may miss its heartbeats; *)
(* MaxFaults bounds how often.                                             *)
(***************************************************************************)
EXTENDS Integers, FiniteSets

CONSTANTS
  Workers,      \* queue workers
  Balance,      \* the user's balance before the job
  OtherFrozen,  \* frozen for the user's other jobs
  HoldAmount,   \* price frozen for this job
  Costs,        \* what the indexed result may cost
  MaxRetries,   \* batchImageSettlementMaxRetries
  MaxCalls,     \* bound: later requests of the owner
  MaxFaults     \* bound: failed or lost calls, refusals, crashes and missed heartbeats

ASSUME BatchAssumption ==
  /\ IsFiniteSet(Workers) /\ "none" \notin Workers
  /\ Balance \in Nat /\ OtherFrozen \in Nat
  /\ HoldAmount \in Nat \ {0}
  /\ Costs \subseteq Nat /\ Costs # {}
  /\ MaxRetries \in Nat \ {0}
  /\ MaxCalls \in Nat /\ MaxFaults \in Nat

VARIABLES
  job,       \* row of batch_image_jobs
  money,     \* users.balance, users.frozen_balance and usage_billing_dedup
  task,      \* state of the row of gateway_unfinished_tasks
  queue,     \* ready list, delayed and active sets, inflight key, job lock
  upstream,  \* the provider's batch
  sub,       \* the request that submits the job
  client,    \* a later request of the owner
  rec,       \* ReleaseStaleUnsubmittedOnce
  work,      \* work[w]: the worker and what it has read
  calls,     \* later requests still to come
  faults,    \* faults still to come
  stalled    \* history: a living worker has missed its heartbeats

vars == <<job, money, task, queue, upstream, sub, client, rec, work,
          calls, faults, stalled>>

-----------------------------------------------------------------------------
(* The job row. *)

Terminal == {"completed", "failed", "cancelled"}

Statuses == Terminal \cup
  {"none", "created", "uploading", "submitted", "running", "indexing", "settling"}

(* The table of permitted status changes.  output_deleted, which only the  *)
(* retention cleanup writes, is left out.                                  *)
CanTransition(from, to) ==
  /\ from \notin Terminal \cup {"none"}
  /\ \/ to = "failed"
     \/ <<from, to>> \in
          {<<"created", "uploading">>, <<"created", "submitted">>,
           <<"created", "cancelled">>, <<"uploading", "submitted">>,
           <<"uploading", "cancelled">>, <<"submitted", "running">>,
           <<"submitted", "indexing">>, <<"submitted", "cancelled">>,
           <<"running", "running">>, <<"running", "indexing">>,
           <<"running", "cancelled">>, <<"indexing", "settling">>,
           <<"settling", "completed">>}

(* TransitionBatchImageJobStatus: the row is locked, checked and written;  *)
(* a write refreshes updated_at.                                           *)
TransitionUnchecked(to) == job' = [job EXCEPT !.status = to, !.fresh = TRUE]
Transition(to) ==
  /\ CanTransition(job.status, to)
  /\ job' = [job EXCEPT !.status = to, !.fresh = TRUE]

(* RecordBatchImageJobSubmitFailure(markFailed): no look at the status. *)
RecordSubmitFailure == job' = [job EXCEPT !.status = "failed", !.fresh = TRUE]

(* SetBatchImageJobSettlementFailed; the count matters only up to the limit. *)
RecordSettlementFailure ==
  job' = [job EXCEPT !.fresh = TRUE,
            !.retries = IF @ < MaxRetries THEN @ + 1 ELSE @]

-----------------------------------------------------------------------------
(* The balance.  Each command is one transaction that first claims its     *)
(* request id; a command whose id is already claimed changes nothing.      *)

Fault == faults > 0 /\ faults' = faults - 1

NoFault == UNCHANGED faults

(* reserveUsageBillingBatchImageBalance *)
HoldReserved(m) ==
  [m EXCEPT !.balance = @ - HoldAmount, !.frozen = @ + HoldAmount,
            !.claims = @ \cup {"hold"}]

(* captureUsageBillingBatchImageBalance *)
CanCapture(m) == "capture" \in m.claims \/ m.frozen >= HoldAmount

HoldCapturedAgain(m) ==
  [m EXCEPT !.balance = @ + (HoldAmount - job.cost), !.frozen = @ - HoldAmount,
            !.claims = @ \cup {"capture"}]
HoldCaptured(m) ==
  IF "capture" \in m.claims THEN m
  ELSE [m EXCEPT !.balance = @ + (HoldAmount - job.cost), !.frozen = @ - HoldAmount,
                 !.claims = @ \cup {"capture"}]

(* releaseUsageBillingBatchImageBalance: without a hold nothing is paid    *)
(* back, but the transaction commits and the release id stays claimed.     *)
CanRelease(m) ==
  \/ "release" \in m.claims
  \/ "hold" \notin m.claims
  \/ m.frozen >= HoldAmount

HoldReleased(m) ==
  IF "release" \in m.claims THEN m
  ELSE IF "hold" \notin m.claims THEN [m EXCEPT !.claims = @ \cup {"release"}]
  ELSE [m EXCEPT !.balance = @ + HoldAmount, !.frozen = @ - HoldAmount,
                 !.claims = @ \cup {"release"}]

(* A billing command as its caller sees it: the effect and the answer ok. *)
BillingCall(possible, result, ok) ==
  \/ ok /\ possible /\ money' = result /\ NoFault
  \/ ~ok /\ ~possible /\ UNCHANGED money /\ NoFault
  \/ ~ok /\ Fault /\ money' \in {money} \cup (IF possible THEN {result} ELSE {})

ReserveHold(ok) == BillingCall(money.balance >= HoldAmount, HoldReserved(money), ok)
CaptureHold(ok) == BillingCall(CanCapture(money), HoldCaptured(money), ok)
ReleaseHold(ok) == BillingCall(CanRelease(money), HoldReleased(money), ok)

-----------------------------------------------------------------------------
(* The unfinished-task reservation. *)

Confirmed == {"provider_terminal", "task_completed", "task_cancelled_confirmed"}

(* ReleaseTask finds the row by the task id that Bind has written; an      *)
(* uncertain row needs a confirmed reason.                                 *)
ReleaseTask(reason) ==
  task' = IF task = "bound" \/ (task = "uncertain" /\ reason \in Confirmed)
          THEN "released" ELSE task

(* Bind and MarkUncertain fail on a released row. *)
Reserved == task \in {"reserved", "bound", "uncertain"}

-----------------------------------------------------------------------------
(* The queue.  Each operation is one script or one MULTI. *)

(* Enqueue: the inflight key makes it a no-op while the job is queued. *)
Enqueued(q) ==
  IF q.inflight THEN q ELSE [q EXCEPT !.inflight = TRUE, !.ready = @ + 1]

AckedStillInflight(q) == [q EXCEPT !.active = FALSE, !.delayed = FALSE]
Acked(q) == [q EXCEPT !.active = FALSE, !.delayed = FALSE, !.inflight = FALSE]

Requeued(q) == [q EXCEPT !.active = FALSE, !.delayed = TRUE]

EnqueueCall(ok) ==
  \/ ok /\ queue' = Enqueued(queue) /\ NoFault
  \/ ~ok /\ Fault /\ queue' \in {queue, Enqueued(queue)}

-----------------------------------------------------------------------------
(* Submit. *)

Running == {"queued", "running"}

(* What provider.Cancel does to a batch that is still running. *)
CancelUpstream == upstream' = IF upstream \in Running THEN "cancelled" ELSE upstream

SubTo(pc) == sub' = [sub EXCEPT !.pc = pc]

SubmitReserve ==
  /\ sub.pc = "reserve"
  /\ \/ task' = "reserved" /\ SubTo("create")
     \/ UNCHANGED task /\ SubTo("done")
  /\ UNCHANGED <<job, money, queue, upstream, client, rec, work, calls, faults, stalled>>

SubmitCreate ==
  /\ sub.pc = "create"
  /\ \/ job' = [job EXCEPT !.status = "created", !.fresh = TRUE] /\ NoFault /\ SubTo("bind")
     \/ UNCHANGED job /\ Fault /\ SubTo("return")
  /\ UNCHANGED <<money, task, queue, upstream, client, rec, work, calls, stalled>>

SubmitBind ==
  /\ sub.pc = "bind"
  /\ \/ Reserved /\ task' = "bound" /\ NoFault /\ SubTo("hold")
     \/ UNCHANGED task /\ Fault /\ SubTo("return")
  /\ UNCHANGED <<job, money, queue, upstream, client, rec, work, calls, stalled>>

SubmitWithoutHold ==
  /\ sub.pc = "hold"
  /\ \E ok \in BOOLEAN : ReserveHold(ok)
  /\ SubTo("items")
  /\ UNCHANGED <<job, task, queue, upstream, client, rec, work, calls, stalled>>
SubmitHold ==
  /\ sub.pc = "hold"
  /\ \/ ReserveHold(TRUE) /\ SubTo("items")
     \/ ReserveHold(FALSE) /\ SubTo("record")
  /\ UNCHANGED <<job, task, queue, upstream, client, rec, work, calls, stalled>>

SubmitItems ==
  /\ sub.pc = "items"
  /\ \/ NoFault /\ SubTo("upload")
     \/ Fault /\ SubTo("refund")
  /\ UNCHANGED <<job, money, task, queue, upstream, client, rec, work, calls, stalled>>

(* A job that Cancel or the scanner has ended keeps its status. *)
SubmitUpload ==
  /\ sub.pc = "upload"
  /\ \/ Transition("uploading") /\ NoFault /\ SubTo("intent")
     \/ /\ ~CanTransition(job.status, "uploading")
        /\ UNCHANGED job /\ NoFault
        /\ sub' = [sub EXCEPT !.pc = "refund", !.quiet = TRUE]
     \/ UNCHANGED job /\ Fault /\ SubTo("refund")
  /\ UNCHANGED <<money, task, queue, upstream, client, rec, work, calls, stalled>>

(* MarkUncertain("provider_create_inflight"); the heartbeat already runs. *)
SubmitIntent ==
  /\ sub.pc = "intent"
  /\ \/ /\ Reserved /\ task' = "uncertain" /\ NoFault
        /\ sub' = [sub EXCEPT !.pc = "submit", !.started = TRUE]
     \/ ~Reserved /\ UNCHANGED task /\ NoFault /\ SubTo("abandon")
     \/ task' \in {task, IF Reserved THEN "uncertain" ELSE task} /\ Fault /\ SubTo("abandon")
  /\ UNCHANGED <<job, money, queue, upstream, client, rec, work, calls, stalled>>

(* The intent was not persisted: the hold is returned before the job ends. *)
SubmitAbandon ==
  /\ sub.pc = "abandon"
  /\ \E ok \in BOOLEAN :
       ReleaseHold(ok) /\ SubTo(IF ok THEN "abandonFail" ELSE "abandonRetry")
  /\ UNCHANGED <<job, task, queue, upstream, client, rec, work, calls, stalled>>

SubmitAbandonFail ==
  /\ sub.pc \in {"abandonFail", "abandonRetry"}
  /\ \/ /\ Transition("failed") /\ NoFault
        /\ SubTo(IF sub.pc = "abandonFail" THEN "hide" ELSE "retry")
     \/ /\ UNCHANGED job
        /\ \/ ~CanTransition(job.status, "failed") /\ NoFault
           \/ Fault
        /\ SubTo(IF sub.pc = "abandonFail" THEN "return" ELSE "retry")
  /\ UNCHANGED <<money, task, queue, upstream, client, rec, work, calls, stalled>>

(* provider.Submit: created and named; refused; or an error that hides     *)
(* whether the batch exists.                                               *)
SubmitProvider ==
  /\ sub.pc = "submit"
  /\ \/ upstream' = "queued" /\ NoFault /\ SubTo("adopt")
     \/ UNCHANGED upstream /\ NoFault /\ SubTo("refund")
     \/ upstream' = "queued" /\ Fault /\ SubTo("refund")
  /\ UNCHANGED <<job, money, task, queue, client, rec, work, calls, stalled>>

(* UpdateBatchImageJobProviderSubmit: status and provider_job_name. *)
SubmitAdopt ==
  LET adopted == [job EXCEPT !.status = "submitted", !.named = TRUE, !.fresh = TRUE]
      allowed == CanTransition(job.status, "submitted")
  IN /\ sub.pc = "adopt"
     /\ \/ allowed /\ job' = adopted /\ NoFault /\ SubTo("rebind")
        \/ ~allowed /\ UNCHANGED job /\ NoFault /\ SubTo("abort")
        \/ allowed /\ job' \in {job, adopted} /\ Fault /\ SubTo("abort")
     /\ UNCHANGED <<money, task, queue, upstream, client, rec, work, calls, stalled>>

(* abortOrphanProviderJob *)
SubmitAbort ==
  /\ sub.pc = "abort"
  /\ \/ CancelUpstream /\ NoFault
     \/ UNCHANGED upstream /\ Fault
  /\ SubTo("return")
  /\ UNCHANGED <<job, money, task, queue, client, rec, work, calls, stalled>>

SubmitRebind ==
  /\ sub.pc = "rebind"
  /\ \/ Reserved /\ task' = "bound" /\ NoFault /\ SubTo("enqueue")
     \/ ~Reserved /\ UNCHANGED task /\ NoFault /\ SubTo("return")
     \/ UNCHANGED task /\ Fault /\ SubTo("return")
  /\ UNCHANGED <<job, money, queue, upstream, client, rec, work, calls, stalled>>

SubmitEnqueue ==
  /\ sub.pc = "enqueue"
  /\ \E ok \in BOOLEAN : EnqueueCall(ok)
  /\ SubTo("return")
  /\ UNCHANGED <<job, money, task, upstream, client, rec, work, calls, stalled>>

(* releaseFailedSubmitHold and what follows it. *)
SubmitRefund ==
  /\ sub.pc = "refund"
  /\ \/ ReleaseHold(TRUE) /\ SubTo(IF sub.quiet THEN "return" ELSE "record")
     \/ ReleaseHold(FALSE) /\ SubTo("recordRetry")
  /\ UNCHANGED <<job, task, queue, upstream, client, rec, work, calls, stalled>>

SubmitRecord ==
  /\ sub.pc \in {"record", "recordRetry"}
  /\ \/ RecordSubmitFailure /\ NoFault
     \/ UNCHANGED job /\ Fault
  /\ SubTo(IF sub.pc = "record" THEN "hide" ELSE "retry")
  /\ UNCHANGED <<money, task, queue, upstream, client, rec, work, calls, stalled>>

(* hidePreUpstreamSubmitFailure: later requests no longer find the job. *)
SubmitHide ==
  /\ sub.pc = "hide"
  /\ job' = [job EXCEPT !.hidden = TRUE]
  /\ SubTo("return")
  /\ UNCHANGED <<money, task, queue, upstream, client, rec, work, calls, faults, stalled>>

SubmitRetry ==
  /\ sub.pc = "retry"
  /\ \E ok \in BOOLEAN : EnqueueCall(ok)
  /\ SubTo("return")
  /\ UNCHANGED <<job, money, task, upstream, client, rec, work, calls, stalled>>

(* The deferred release: only when the provider was never called. *)
SubmitReturnReleases ==
  /\ sub.pc = "return"
  /\ task' = "released" /\ NoFault
  /\ SubTo("done")
  /\ UNCHANGED <<job, money, queue, upstream, client, rec, work, calls, stalled>>
SubmitReturn ==
  /\ sub.pc = "return"
  /\ \/ task' = (IF sub.started THEN task ELSE "released") /\ NoFault
     \/ ~sub.started /\ UNCHANGED task /\ Fault
  /\ SubTo("done")
  /\ UNCHANGED <<job, money, queue, upstream, client, rec, work, calls, stalled>>

SubmitCrash ==
  /\ sub.pc \notin {"reserve", "done"}
  /\ Fault
  /\ SubTo("done")
  /\ UNCHANGED <<job, money, task, queue, upstream, client, rec, work, calls, stalled>>

Submit ==
  \/ SubmitReserve \/ SubmitCreate \/ SubmitBind \/ SubmitHold \/ SubmitItems
  \/ SubmitUpload \/ SubmitIntent \/ SubmitAbandon \/ SubmitAbandonFail
  \/ SubmitProvider \/ SubmitAdopt \/ SubmitAbort \/ SubmitRebind \/ SubmitEnqueue
  \/ SubmitRefund \/ SubmitRecord \/ SubmitHide \/ SubmitRetry \/ SubmitReturn

-----------------------------------------------------------------------------
(* Cancel, and the retry of Submit with the same idempotency key. *)

IdleClient == [pc |-> "idle", seen |-> "none"]

ClientTo(pc) == client' = IF pc = "idle" THEN IdleClient ELSE [client EXCEPT !.pc = pc]

(* Cancel reads the job once and acts on that copy. *)
CancelRead ==
  /\ client.pc = "idle" /\ calls > 0
  /\ job.status # "none" /\ ~job.hidden
  /\ calls' = calls - 1
  /\ client' =
       IF job.status = "settling" THEN IdleClient
       ELSE [seen |-> job.status,
             pc   |-> IF job.status \in Terminal THEN "free"
                      ELSE IF job.named THEN "provider" ELSE "cancel"]
  /\ UNCHANGED <<job, money, task, queue, upstream, sub, rec, work, faults, stalled>>

CancelTransition ==
  /\ client.pc = "cancel"
  /\ \/ Transition("cancelled") /\ ClientTo("free")
     \/ ~CanTransition(job.status, "cancelled") /\ UNCHANGED job /\ ClientTo("idle")
  /\ UNCHANGED <<money, task, queue, upstream, sub, rec, work, calls, faults, stalled>>

CancelFree ==
  /\ client.pc = "free"
  /\ ReleaseTask("local_terminal")
  /\ ClientTo(IF client.seen = "completed" THEN "idle" ELSE "refund")
  /\ UNCHANGED <<job, money, queue, upstream, sub, rec, work, calls, faults, stalled>>

CancelRefund ==
  /\ client.pc = "refund"
  /\ \E ok \in BOOLEAN : ReleaseHold(ok) /\ ClientTo(IF ok THEN "idle" ELSE "enqueue")
  /\ UNCHANGED <<job, task, queue, upstream, sub, rec, work, calls, stalled>>

CancelProvider ==
  /\ client.pc = "provider"
  /\ CancelUpstream
  /\ ClientTo("enqueue")
  /\ UNCHANGED <<job, money, task, queue, sub, rec, work, calls, faults, stalled>>

(* Submit finds the job of its idempotency key already submitted. *)
ResubmitRead ==
  /\ client.pc = "idle" /\ calls > 0
  /\ job.status = "submitted"
  /\ calls' = calls - 1
  /\ client' = [pc |-> "enqueue", seen |-> "submitted"]
  /\ UNCHANGED <<job, money, task, queue, upstream, sub, rec, work, faults, stalled>>

ClientEnqueue ==
  /\ client.pc = "enqueue"
  /\ \E ok \in BOOLEAN : EnqueueCall(ok)
  /\ ClientTo("idle")
  /\ UNCHANGED <<job, money, task, upstream, sub, rec, work, calls, stalled>>

(* A call of the request fails, or its process dies. *)
ClientFail ==
  /\ client.pc # "idle"
  /\ Fault
  /\ ClientTo("idle")
  /\ UNCHANGED <<job, money, task, queue, upstream, sub, rec, work, calls, stalled>>

Client ==
  \/ CancelTransition \/ CancelFree \/ CancelRefund \/ CancelProvider \/ ClientEnqueue

-----------------------------------------------------------------------------
(* ReleaseStaleUnsubmittedOnce.  fresh stands for updated_at > cutoff. *)

Unsubmitted == job.status \in {"created", "uploading"} /\ ~job.named

RecoverList ==
  /\ rec = "idle" /\ Unsubmitted /\ ~job.fresh
  /\ rec' = "listed"
  /\ UNCHANGED <<job, money, task, queue, upstream, sub, client, work, calls, faults, stalled>>

(* FailStaleUnsubmittedBatchImageJob checks again what the list promised. *)
RecoverFail ==
  /\ rec = "listed"
  /\ IF Unsubmitted /\ ~job.fresh
       THEN job' = [job EXCEPT !.status = "failed", !.fresh = TRUE] /\ rec' = "refund"
       ELSE UNCHANGED job /\ rec' = "idle"
  /\ UNCHANGED <<money, task, queue, upstream, sub, client, work, calls, faults, stalled>>

RecoverRefund ==
  /\ rec = "refund"
  /\ \E ok \in BOOLEAN : ReleaseHold(ok) /\ rec' = IF ok THEN "idle" ELSE "retry"
  /\ UNCHANGED <<job, task, queue, upstream, sub, client, work, calls, stalled>>

RecoverRetry ==
  /\ rec = "retry"
  /\ \E ok \in BOOLEAN : EnqueueCall(ok)
  /\ rec' = "idle"
  /\ UNCHANGED <<job, money, task, upstream, sub, client, work, calls, stalled>>

Recover == RecoverList \/ RecoverFail \/ RecoverRefund \/ RecoverRetry

-----------------------------------------------------------------------------
(* RunOnce of a queue worker. *)

IdleWorker == [pc |-> "idle", seen |-> "none", named |-> FALSE]

WorkTo(w, pc) == work' = [work EXCEPT ![w] = IF pc = "idle" THEN IdleWorker
                                             ELSE [@ EXCEPT !.pc = pc]]

Saw(w, pc) == work' = [work EXCEPT ![w] =
                         [pc |-> pc, seen |-> job.status, named |-> job.named]]

(* A worker that ended the job itself goes on with the status it wrote. *)
Ended(w, status) == work' = [work EXCEPT ![w].pc = "free", ![w].seen = status]

WorkerReserve(w) ==
  /\ work[w].pc = "idle" /\ queue.ready > 0
  /\ queue' = [queue EXCEPT !.ready = @ - 1, !.active = TRUE]
  /\ WorkTo(w, "reserved")
  /\ UNCHANGED <<job, money, task, upstream, sub, client, rec, calls, faults, stalled>>

(* TryAcquireJobLock; on a conflict the job goes back with a delay. *)
WorkerLock(w) ==
  /\ work[w].pc = "reserved"
  /\ IF queue.lock = "none"
       THEN queue' = [queue EXCEPT !.lock = w] /\ WorkTo(w, "route")
       ELSE queue' = Requeued(queue) /\ WorkTo(w, "idle")
  /\ UNCHANGED <<job, money, task, upstream, sub, client, rec, calls, faults, stalled>>

(* BatchImagePipelineProcessor reads the status to choose the handler ... *)
WorkerRoute(w) ==
  /\ work[w].pc = "route"
  /\ WorkTo(w, IF job.status = "settling" THEN "settle" ELSE "process")
  /\ UNCHANGED <<job, money, task, queue, upstream, sub, client, rec, calls, faults, stalled>>

(* ... which reads the job again. *)
ProcessLoad(w) ==
  /\ work[w].pc = "process"
  /\ Saw(w, IF job.status \in {"indexing", "settling"} THEN "recover"
            ELSE IF job.status \in Terminal THEN "free" ELSE "admit")
  /\ UNCHANGED <<job, money, task, queue, upstream, sub, client, rec, calls, faults, stalled>>

(* indexing and settling prove that the provider has finished. *)
ProcessRecover(w) ==
  /\ work[w].pc = "recover"
  /\ ReleaseTask("provider_terminal")
  /\ WorkTo(w, IF work[w].seen = "settling" THEN "ack" ELSE "admit")
  /\ UNCHANGED <<job, money, queue, upstream, sub, client, rec, calls, faults, stalled>>

(* releaseTerminalHold: first the reservation, then the hold. *)
ProcessFree(w) ==
  /\ work[w].pc = "free"
  /\ ReleaseTask("local_terminal")
  /\ WorkTo(w, IF work[w].seen = "completed" THEN "ack" ELSE "refund")
  /\ UNCHANGED <<job, money, queue, upstream, sub, client, rec, calls, faults, stalled>>

ProcessRefund(w) ==
  /\ work[w].pc = "refund"
  /\ \E ok \in BOOLEAN : ReleaseHold(ok) /\ WorkTo(w, IF ok THEN "ack" ELSE "requeue")
  /\ UNCHANGED <<job, task, queue, upstream, sub, client, rec, calls, stalled>>

(* Slot, account and provider_job_name; a refusal is a fault (WorkerFail). *)
ProcessAdmit(w) ==
  /\ work[w].pc = "admit"
  /\ WorkTo(w, IF ~work[w].named THEN "requeue"
               ELSE IF work[w].seen = "indexing" THEN "index" ELSE "poll")
  /\ UNCHANGED <<job, money, task, queue, upstream, sub, client, rec, calls, faults, stalled>>

(* provider.Get; a finished batch frees the capacity before anything else. *)
ProcessPoll(w) ==
  /\ work[w].pc = "poll"
  /\ \/ upstream = "queued" /\ UNCHANGED task /\ WorkTo(w, "requeue")
     \/ /\ upstream = "running" /\ UNCHANGED task
        /\ WorkTo(w, IF work[w].seen = "running" THEN "requeue" ELSE "toRunning")
     \/ /\ upstream \notin Running
        /\ ReleaseTask("provider_terminal")
        /\ WorkTo(w, CASE upstream = "succeeded" -> "toIndexing"
                       [] upstream = "failed"    -> "toFailed"
                       [] OTHER                  -> "toCancelled")
  /\ UNCHANGED <<job, money, queue, upstream, sub, client, rec, calls, faults, stalled>>

ProcessTransition(w) ==
  LET pc == work[w].pc
      to == CASE pc = "toRunning"   -> "running"
              [] pc = "toIndexing"  -> "indexing"
              [] pc = "toSettling"  -> "settling"
              [] pc = "toCancelled" -> "cancelled"
              [] OTHER              -> "failed"
  IN /\ pc \in {"toRunning", "toIndexing", "toSettling", "toFailed", "toCancelled"}
     /\ \/ /\ Transition(to)
           /\ IF to \in Terminal THEN Ended(w, to)
              ELSE WorkTo(w, IF to = "indexing" THEN "index" ELSE "requeue")
        \/ ~CanTransition(job.status, to) /\ UNCHANGED job /\ WorkTo(w, "requeue")
     /\ UNCHANGED <<money, task, queue, upstream, sub, client, rec, calls, faults, stalled>>

(* Index: the result lines become items and counts, or are unusable; a job *)
(* that somebody else has moved on is left alone.                          *)
ProcessIndex(w) ==
  /\ work[w].pc = "index"
  /\ \/ /\ job.status = "indexing"
        /\ \E c \in Costs : job' = [job EXCEPT !.cost = c, !.fresh = TRUE]
        /\ WorkTo(w, "toSettling")
     \/ job.status # "indexing" /\ UNCHANGED job /\ WorkTo(w, "requeue")
     \/ UNCHANGED job /\ WorkTo(w, "toFailed")
  /\ UNCHANGED <<money, task, queue, upstream, sub, client, rec, calls, faults, stalled>>

(* isBatchImageSettlementRetryExhausted *)
Exhausted(j) == j.retries >= MaxRetries

(* Settle reads the job and frees the capacity of finished work. *)
SettleLoad(w) ==
  /\ work[w].pc = "settle"
  /\ \/ job.status = "completed" /\ WorkTo(w, "freeDone") /\ UNCHANGED task
     \/ job.status \notin {"completed", "settling"} /\ WorkTo(w, "requeue") /\ UNCHANGED task
     \/ /\ job.status = "settling"
        /\ ReleaseTask("provider_terminal")
        /\ WorkTo(w, IF Exhausted(job) THEN "exhaust"
                     ELSE IF job.cost > HoldAmount THEN "failure" ELSE "capture")
  /\ UNCHANGED <<job, money, queue, upstream, sub, client, rec, calls, faults, stalled>>

SettleCapture(w) ==
  /\ work[w].pc = "capture"
  /\ \E ok \in BOOLEAN : CaptureHold(ok) /\ WorkTo(w, IF ok THEN "mark" ELSE "failure")
  /\ UNCHANGED <<job, task, queue, upstream, sub, client, rec, calls, stalled>>

(* recordSettlementFailure *)
SettleFailure(w) ==
  /\ work[w].pc = "failure"
  /\ RecordSettlementFailure
  /\ WorkTo(w, IF Exhausted(job') THEN "exhaust" ELSE "requeue")
  /\ UNCHANGED <<money, task, queue, upstream, sub, client, rec, calls, faults, stalled>>

(* failExhaustedSettlement: refund, then fail the job. *)
SettleExhaust(w) ==
  /\ work[w].pc = "exhaust"
  /\ \/ ReleaseHold(TRUE) /\ UNCHANGED job /\ WorkTo(w, "expire")
     \/ ReleaseHold(FALSE) /\ RecordSettlementFailure /\ WorkTo(w, "requeue")
  /\ UNCHANGED <<task, queue, upstream, sub, client, rec, calls, stalled>>

SettleExpire(w) ==
  /\ work[w].pc = "expire"
  /\ \/ Transition("failed") /\ WorkTo(w, "ack")
     \/ ~CanTransition(job.status, "failed") /\ UNCHANGED job /\ WorkTo(w, "requeue")
  /\ UNCHANGED <<money, task, queue, upstream, sub, client, rec, calls, faults, stalled>>

(* MarkBatchImageJobSettled, only from settling. *)
SettleMark(w) ==
  /\ work[w].pc = "mark"
  /\ \/ /\ job.status = "settling"
        /\ job' = [job EXCEPT !.status = "completed", !.fresh = TRUE]
        /\ WorkTo(w, "freeDone")
     \/ job.status # "settling" /\ UNCHANGED job /\ WorkTo(w, "requeue")
  /\ UNCHANGED <<money, task, queue, upstream, sub, client, rec, calls, faults, stalled>>

SettleFree(w) ==
  /\ work[w].pc = "freeDone"
  /\ ReleaseTask("task_completed")
  /\ WorkTo(w, "ack")
  /\ UNCHANGED <<job, money, queue, upstream, sub, client, rec, calls, faults, stalled>>

WorkerFinish(w) ==
  /\ work[w].pc \in {"ack", "requeue"}
  /\ queue' = IF work[w].pc = "ack" THEN Acked(queue) ELSE Requeued(queue)
  /\ WorkTo(w, "unlock")
  /\ UNCHANGED <<job, money, task, upstream, sub, client, rec, calls, faults, stalled>>

(* The deferred lock.Release compares the token. *)
WorkerUnlock(w) ==
  /\ work[w].pc = "unlock"
  /\ queue' = [queue EXCEPT !.lock = IF @ = w THEN "none" ELSE @]
  /\ WorkTo(w, "idle")
  /\ UNCHANGED <<job, money, task, upstream, sub, client, rec, calls, faults, stalled>>

(* Any call of Process may fail: the job is requeued after a delay. *)
WorkerFail(w) ==
  /\ work[w].pc \notin {"idle", "reserved", "ack", "requeue", "unlock"}
  /\ Fault
  /\ WorkTo(w, "requeue")
  /\ UNCHANGED <<job, money, task, queue, upstream, sub, client, rec, calls, stalled>>

WorkerCrash(w) ==
  /\ work[w].pc # "idle"
  /\ Fault
  /\ WorkTo(w, "idle")
  /\ UNCHANGED <<job, money, task, queue, upstream, sub, client, rec, calls, stalled>>

Worker(w) ==
  \/ WorkerReserve(w) \/ WorkerLock(w) \/ WorkerRoute(w)
  \/ ProcessLoad(w) \/ ProcessRecover(w) \/ ProcessFree(w) \/ ProcessRefund(w)
  \/ ProcessAdmit(w) \/ ProcessPoll(w) \/ ProcessTransition(w) \/ ProcessIndex(w)
  \/ SettleLoad(w) \/ SettleCapture(w) \/ SettleFailure(w) \/ SettleExhaust(w)
  \/ SettleExpire(w) \/ SettleMark(w) \/ SettleFree(w)
  \/ WorkerFinish(w) \/ WorkerUnlock(w)

-----------------------------------------------------------------------------
(* Time, the queue's housekeeping and the provider. *)

(* A lease lapses under a worker that heartbeats only if it stalls. *)
Missed(heartbeating) ==
  \/ ~heartbeating /\ UNCHANGED <<faults, stalled>>
  \/ heartbeating /\ Fault /\ stalled' = TRUE

(* updated_at passes the cutoff, also while Submit is slow:                *)
(* runSubmitHeartbeat covers only the provider call and the write before.  *)
JobAges ==
  /\ job.fresh /\ Unsubmitted
  /\ job' = [job EXCEPT !.fresh = FALSE]
  /\ UNCHANGED <<money, task, queue, upstream, sub, client, rec, work, calls, faults, stalled>>

(* TouchBatchImageJobSubmitting *)
SubmitHeartbeat ==
  /\ sub.pc \in {"intent", "submit"} /\ ~job.fresh
  /\ job.status \in {"created", "uploading"}
  /\ job' = [job EXCEPT !.fresh = TRUE]
  /\ UNCHANGED <<money, task, queue, upstream, sub, client, rec, work, calls, faults, stalled>>

LockExpires ==
  /\ queue.lock # "none"
  /\ Missed(work[queue.lock].pc \notin {"idle", "reserved"})
  /\ queue' = [queue EXCEPT !.lock = "none"]
  /\ UNCHANGED <<job, money, task, upstream, sub, client, rec, work, calls>>

(* The active entry passes StaleActiveAfter and returns to the ready list. *)
(* One goroutine keeps entry and lock alive, so the stall that cost a      *)
(* worker its lock may cost it the entry as well.                          *)
RecoverStaleActiveDrops ==
  /\ queue.active
  /\ Missed(\E w \in Workers :
              work[w].pc = "reserved" \/ (work[w].pc # "idle" /\ queue.lock = w))
  /\ queue' = [queue EXCEPT !.active = FALSE]
  /\ UNCHANGED <<job, money, task, upstream, sub, client, rec, work, calls>>
RecoverStaleActive ==
  /\ queue.active
  /\ Missed(\E w \in Workers :
              work[w].pc = "reserved" \/ (work[w].pc # "idle" /\ queue.lock = w))
  /\ queue' = [queue EXCEPT !.active = FALSE, !.ready = @ + 1]
  /\ UNCHANGED <<job, money, task, upstream, sub, client, rec, work, calls>>

MoveDueDelayed ==
  /\ queue.delayed
  /\ queue' = [queue EXCEPT !.delayed = FALSE, !.ready = @ + 1]
  /\ UNCHANGED <<job, money, task, upstream, sub, client, rec, work, calls, faults, stalled>>

(* External: the provider works on the batch. *)
Provider ==
  /\ \/ upstream = "queued" /\ upstream' = "running"
     \/ upstream = "running" /\ upstream' \in {"succeeded", "failed", "cancelled"}
  /\ UNCHANGED <<job, money, task, queue, sub, client, rec, work, calls, faults, stalled>>

-----------------------------------------------------------------------------
Init ==
  /\ job = [status |-> "none", named |-> FALSE, fresh |-> TRUE, hidden |-> FALSE,
            retries |-> 0, cost |-> 0]
  /\ money = [balance |-> Balance, frozen |-> OtherFrozen, claims |-> {}]
  /\ task = "none"
  /\ queue = [ready |-> 0, delayed |-> FALSE, active |-> FALSE, inflight |-> FALSE,
              lock |-> "none"]
  /\ upstream = "none"
  /\ sub = [pc |-> "reserve", started |-> FALSE, quiet |-> FALSE]
  /\ client = IdleClient
  /\ rec = "idle"
  /\ work = [w \in Workers |-> IdleWorker]
  /\ calls = MaxCalls /\ faults = MaxFaults /\ stalled = FALSE

Next ==
  \/ Submit \/ SubmitCrash \/ SubmitHeartbeat
  \/ CancelRead \/ ResubmitRead \/ Client \/ ClientFail
  \/ Recover
  \/ \E w \in Workers : Worker(w) \/ WorkerFail(w) \/ WorkerCrash(w)
  \/ JobAges \/ LockExpires \/ RecoverStaleActive \/ MoveDueDelayed \/ Provider

Spec == Init /\ [][Next]_vars

(* Requests and workers keep running, the timers of the queue fire, dead   *)
(* leases expire and the provider finishes what it accepted.               *)
Fairness ==
  /\ WF_vars(Submit) /\ WF_vars(Client) /\ WF_vars(Recover)
  /\ \A w \in Workers : WF_vars(Worker(w))
  /\ WF_vars(LockExpires) /\ WF_vars(RecoverStaleActive)
  /\ WF_vars(MoveDueDelayed) /\ WF_vars(Provider)

FairSpec == Spec /\ Fairness

-----------------------------------------------------------------------------
(* Properties. *)

SubmitPcs ==
  {"reserve", "create", "bind", "hold", "items", "upload", "intent", "submit", "adopt",
   "abort", "rebind", "enqueue", "abandon", "abandonFail", "abandonRetry", "refund",
   "record", "recordRetry", "hide", "retry", "return", "done"}

WorkerPcs ==
  {"idle", "reserved", "route", "process", "recover", "free", "refund", "admit", "poll",
   "toRunning", "toIndexing", "toSettling", "toFailed", "toCancelled", "index", "settle",
   "capture", "failure", "exhaust", "expire", "mark", "freeDone", "ack", "requeue", "unlock"}

(* Every variable has its type. *)
TypeOK ==
  /\ job \in [status : Statuses, named : BOOLEAN, fresh : BOOLEAN, hidden : BOOLEAN,
              retries : 0 .. MaxRetries, cost : Costs \cup {0}]
  /\ money \in [balance : Int, frozen : Int, claims : SUBSET {"hold", "capture", "release"}]
  /\ task \in {"none", "reserved", "bound", "uncertain", "released"}
  /\ queue \in [ready : Nat, delayed : BOOLEAN, active : BOOLEAN, inflight : BOOLEAN,
                lock : Workers \cup {"none"}]
  /\ upstream \in Running \cup {"none", "succeeded", "failed", "cancelled"}
  /\ sub \in [pc : SubmitPcs, started : BOOLEAN, quiet : BOOLEAN]
  /\ client \in [pc : {"idle", "cancel", "free", "refund", "provider", "enqueue"},
                 seen : Statuses]
  /\ rec \in {"idle", "listed", "refund", "retry"}
  /\ work \in [Workers -> [pc : WorkerPcs, seen : Statuses, named : BOOLEAN]]
  /\ calls \in 0 .. MaxCalls /\ faults \in 0 .. MaxFaults /\ stalled \in BOOLEAN

(* The job's share of the frozen balance is still there. *)
Held == money.frozen > OtherFrozen

(* Whatever Cancel, the scanner, a failing Submit and retried settlements  *)
(* do, a job that goes on is paid for: while it is submitted, running or   *)
(* being indexed its hold is neither refunded nor captured.                *)
SubmittedIsFunded ==
  job.status \in {"submitted", "running", "indexing"} =>
     "hold" \in money.claims /\ Held

(* As long as no worker has outlived its lock and settlement has not given *)
(* up, the hold ends once: the frozen balance of the user's other jobs is  *)
(* never paid out, a completed job was charged and an ended one was not.   *)
HoldEndsOnce ==
  ~stalled /\ job.retries < MaxRetries =>
    /\ money.frozen >= OtherFrozen
    /\ job.status = "completed" => "capture" \in money.claims /\ ~Held
    /\ job.status \in {"failed", "cancelled"} => "capture" \notin money.claims

(* A batch the provider may still be working on occupies the user's        *)
(* capacity, known or not, unless Cancel has ended the job.                *)
LiveBatchKeepsCapacity ==
  upstream \in Running /\ job.status # "cancelled" => task \in {"bound", "uncertain"}

(* An ended job stays ended; the only change of mind is a failing Submit   *)
(* that writes failed over a concurrent cancellation.                      *)
EndIsFinal ==
  [][job.status \in Terminal =>
       \/ job'.status = job.status
       \/ job.status = "cancelled" /\ job'.status = "failed" /\ sub.pc # "done"]_vars

(* The inflight key blocks every further Enqueue, so while it is set the   *)
(* job is in one of the three queue structures.                            *)
QueueKeepsJob ==
  queue.inflight => queue.ready > 0 \/ queue.delayed \/ queue.active

(* A queued job that the provider accepted is charged or refunded in the   *)
(* end, through worker crashes, failed calls and concurrent cancellation,  *)
(* unless a worker went on after it had lost its lock.                     *)
QueuedJobsSettle ==
  (queue.inflight /\ job.status \in {"submitted", "running", "indexing", "settling"})
     ~> (~Held \/ stalled)

-----------------------------------------------------------------------------
(* Three statements of the repository that TLC refutes; see the README.    *)

(* docs/GATEWAY_TASK_LIMITS.md: queued, running and unconfirmed provider   *)
(* states still consume capacity.                                          *)
RunningBatchIsCounted ==
  upstream \in Running => task \in {"bound", "uncertain"}

(* batch_image_billing_recovery.go: a refund that did not happen must have *)
(* a retry path, or the frozen balance leaks for good.                     *)
NoStrandedHold ==
  /\ job.status \in {"failed", "cancelled"}
  /\ sub.pc = "done" /\ client.pc = "idle" /\ rec = "idle"
  /\ \A w \in Workers : work[w].pc = "idle"
  /\ ~queue.inflight /\ queue.ready = 0
  => ~Held

(* batch_image_repo.go: a worker that lags behind its expired lock must    *)
(* not make the accounts drift.                                            *)
StragglerPaysNobody == job.retries < MaxRetries => money.frozen >= OtherFrozen

-----------------------------------------------------------------------------
(* The parts of the inductive invariant. *)

Unpaid == {"failed", "cancelled"}
Settling == {"settle", "capture", "failure", "exhaust", "expire", "mark", "freeDone"}
Polled == {"toIndexing", "toSettling", "toFailed", "toCancelled", "index", "recover"} \cup Settling

(* The name of the provider's batch separates a job whose Submit may still *)
(* change its mind from one that only the workers move on.                 *)
SubmitStage ==
  /\ sub.pc \in {"reserve", "create"} => job.status = "none"
  /\ job.named => sub.pc \in {"rebind", "abort", "enqueue", "return", "done"}
  /\ sub.pc = "rebind" => job.named
  /\ job.named => job.status \notin {"none", "created", "uploading"}
  /\ job.status \in {"submitted", "running", "indexing", "settling", "completed"} => job.named

(* Only an ended job is refunded by its owner's Cancel, by the scanner and *)
(* by a worker, and a completed one is not.                                *)
RefundStage(pc, seen) ==
  /\ pc = "free" => job.status \in Terminal /\ (job.status = "completed" <=> seen = "completed")
  /\ pc = "refund" => job.status \in Unpaid

(* A worker knows from its poll or from the status that the provider has   *)
(* finished.                                                               *)
KnowsEnd(w) == work[w].pc \in Polled \/ (work[w].pc = "admit" /\ work[w].seen = "indexing")

(* A worker that polls, indexes or settles works on a named batch.  What   *)
(* it has read is still true of the provider, and of the settlement too.   *)
WorkerStage(w) ==
  /\ RefundStage(work[w].pc, work[w].seen)
  /\ work[w].named \/ work[w].pc \in {"poll", "toRunning"} \/ KnowsEnd(w) => job.named
  /\ work[w].pc \in Settling => job.status \in {"settling", "completed", "failed"}
  /\ KnowsEnd(w) => upstream \notin Running
  /\ work[w].pc \in {"exhaust", "expire"} => job.retries >= MaxRetries
  /\ work[w].pc = "mark" => "capture" \in money.claims

StageInvariant ==
  /\ SubmitStage
  /\ RefundStage(client.pc, client.seen) /\ (client.pc = "cancel" => client.seen \notin Terminal)
  /\ RefundStage(rec, "none")
  /\ \A w \in Workers : WorkerStage(w)

(* The provider was called by a Submit that had persisted its intent, and  *)
(* only a poll that found the batch finished gives its capacity back.      *)
CapacityStage ==
  /\ upstream # "none" => sub.started
  /\ sub.started => sub.pc \notin {"reserve", "create", "bind", "hold", "items", "upload", "intent"}
  /\ sub.pc = "submit" => sub.started /\ task = "uncertain"
  /\ job.status \in {"indexing", "settling", "completed"} => upstream \notin Running
  /\ upstream \in Running /\ job.named => job.status # "failed"
  /\ upstream \in Running /\ ~job.named => task = "uncertain"
  /\ LiveBatchKeepsCapacity

(* The hold is claimed once, before the provider is called, and stays      *)
(* until the job has ended or is being settled.                            *)
FundedStage ==
  /\ "hold" \notin money.claims => money.frozen = OtherFrozen /\ ~job.named
  /\ sub.pc \in {"reserve", "create", "bind", "hold"} => "hold" \notin money.claims
  /\ sub.pc \in {"items", "upload", "intent", "submit", "adopt"} =>
       "hold" \in money.claims /\ (job.status \in {"created", "uploading"} => Held)
  /\ SubmittedIsFunded

(* As long as no worker has outlived its lock, the one that has it is the  *)
(* only one at work, and the job is where that worker believes it to be.   *)
LockStage(w) ==
  ~stalled =>
    /\ work[w].pc \notin {"idle", "reserved"} => queue.lock = w
    /\ \/ work[w].pc \in {"admit", "poll", "toRunning", "toIndexing", "toFailed", "toCancelled",
                          "index", "toSettling"}
       \/ work[w].pc = "recover" /\ work[w].seen # "settling"
       => job.status \notin {"settling", "completed"}
    /\ work[w].pc \in {"capture", "failure", "exhaust", "expire", "mark"} => job.status = "settling"

(* The books of the hold, while settlement has not given up.               *)
HoldBooks ==
  ~stalled /\ job.retries < MaxRetries =>
    /\ money.frozen \in {OtherFrozen, OtherFrozen + HoldAmount}
    /\ "capture" \in money.claims =>
         money.frozen = OtherFrozen /\ job.status \in {"settling", "completed"}
    /\ "capture" \notin money.claims =>
         /\ job.status # "completed"
         /\ job.status = "settling" => Held
         /\ "hold" \in money.claims /\ "release" \notin money.claims => Held

BatchInvariant ==
  /\ TypeOK /\ StageInvariant /\ CapacityStage /\ FundedStage
  /\ \A w \in Workers : LockStage(w)
  /\ HoldBooks

=============================================================================

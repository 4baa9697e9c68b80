----------------------- MODULE IdempotencyCoordinator -----------------------
(***************************************************************************)
(* Requests with one Idempotency-Key in one scope.  The first one executes *)
(* and stores its response; the others replay it, are refused while it is  *)
(* under way or backing off, or take the row over when it failed or is     *)
(* past its TTL.                                                           *)
(***************************************************************************)
EXTENDS IdempotencyStore

CONSTANTS
  Assignments,  \* the ways payloads (fingerprints) are given to requests
  Detached,     \* requests with an ExecutionTimeout: they renew their claim
  Backoff,      \* FailedRetryBackoff
  RenewWithin,  \* renewal interval (lease/3) plus its timeout
  MaxFaults     \* bound: failed statements in one behaviour

ASSUME CoordinatorAssumption ==
  /\ Assignments \subseteq [Callers -> Payloads] /\ Detached \subseteq Callers
  /\ Backoff \in Nat /\ 0 < Backoff /\ Backoff < TTL
  /\ RenewWithin \in Nat /\ 0 < RenewWithin /\ Slack + RenewWithin < TTL
  /\ Slack < Lease  \* a claim is quicker than the lock it takes
  /\ MaxFaults \in Nat

VARIABLES
  payload,   \* payload[r]: fingerprint of request r
  row,       \* the row of the key
  pc,        \* pc[r]: where Execute of request r is, or its outcome ("failed": it ended
             \* with an error before it executed, or its process died)
  age,       \* age[r]: ticks since r took its `now', while it claims
  found,     \* found[r]: ID and status of the row r read
  record,    \* record[r]: ID of the row r claimed
  expires,   \* expires[r]: the expiry r computed for the row
  result,    \* result[r]: what the execution of r returned; "stored" is remembered
  due,       \* due[r]: 0 without renewals, else 1 + ticks until the next one must be over
  timedOut,  \* the detached executions past their ExecutionTimeout
  answer,    \* answer[r]: the request whose response r replayed
  faults,    \* number of failed statements
  overrun    \* history: a claim expired under its request

claimVars == <<age, found>>
ownVars == <<record, expires, result, due, timedOut>>
vars == <<row, pc, claimVars, ownVars, answer, faults, overrun, payload>>

Fault == faults < MaxFaults /\ faults' = faults + 1
ClaimPlaces == {"creating", "reading", "reclaimingExpired", "rereading", "reclaiming"}
Claiming(r) == pc[r] \in ClaimPlaces
Active == {r \in Callers : pc[r] \in {"executing", "persisting"}}
Places == ClaimPlaces \cup {"idle", "executing", "persisting", "done", "replayed", "failed"}
Sights == [id : Callers, status : Statuses \cup {"absent"}]
Results == {"none", "failed", "stored", "truncated"}

To(r, p) ==
  /\ pc' = [pc EXCEPT ![r] = p]
  /\ age' = IF p \in ClaimPlaces THEN age ELSE [age EXCEPT ![r] = 0]
NotFound(r) == [id |-> r, status |-> "absent"]
Forget(r) == found' = [found EXCEPT ![r] = NotFound(r)]
----------------------------------------------------------------------------
(* Execute, the claim.                                                     *)

Start(r) ==
  /\ pc[r] = "idle"
  /\ To(r, "creating")
  /\ UNCHANGED <<row, found, ownVars, answer, faults, overrun, payload>>

\* The row is claimed and the execution starts, with its renewals.
Begin(r, id) ==
  /\ To(r, "executing")
  /\ record' = [record EXCEPT ![r] = id]
  /\ expires' = [expires EXCEPT ![r] = After(TTL, age[r])]
  /\ due' = [due EXCEPT ![r] = IF r \in Detached THEN RenewWithin + 1 ELSE 0]
  /\ Forget(r)
  /\ UNCHANGED <<result, timedOut, answer, faults, overrun, payload>>

Create(r) ==
  /\ pc[r] = "creating"
  /\ \/ Absent(row) /\ row' = CreateProcessing(r, payload[r], age[r]) /\ Begin(r, r)
     \/ /\ ~Absent(row)
        /\ To(r, "reading")
        /\ UNCHANGED <<row, found, ownVars, answer, faults, overrun, payload>>

\* What r does with a row that has its fingerprint: replay the response, if it
\* was stored whole, refuse, or try to take a failed row over.
Decide(r) ==
  \/ /\ row.status = "succeeded" /\ row.body = "stored"
     /\ To(r, "replayed")
     /\ answer' = [answer EXCEPT ![r] = row.by]
     /\ UNCHANGED found
  \/ row.status = "succeeded" /\ row.body # "stored" /\ To(r, "failed") /\ UNCHANGED <<answer, found>>
  \/ row.status = "processing" /\ To(r, "failed") /\ UNCHANGED <<answer, found>>
  \/ /\ row.status = "failed_retryable" /\ row.lock > -age[r]
     /\ To(r, "failed") /\ UNCHANGED <<answer, found>>
  \/ /\ row.status = "failed_retryable" /\ row.lock <= -age[r]
     /\ To(r, "reclaiming")
     /\ found' = [found EXCEPT ![r] = [id |-> row.id, status |-> row.status]]
     /\ UNCHANGED answer

SameIgnored(r) == TRUE
SameFingerprint(r) == row.fingerprint = payload[r]
\* GetByScopeAndKeyHash, the first one: a row past its expiry may be taken over.
Read(r) ==
  /\ pc[r] = "reading"
  /\ \/ Absent(row) /\ To(r, "failed") /\ UNCHANGED <<answer, found>>
     \/ ~Absent(row) /\ ~SameFingerprint(r) /\ To(r, "failed") /\ UNCHANGED <<answer, found>>
     \/ /\ ~Absent(row) /\ SameFingerprint(r) /\ row.expires <= -age[r]
        /\ To(r, "reclaimingExpired")
        /\ found' = [found EXCEPT ![r] = [id |-> row.id, status |-> row.status]]
        /\ UNCHANGED answer
     \/ ~Absent(row) /\ SameFingerprint(r) /\ row.expires > -age[r] /\ Decide(r)
  /\ UNCHANGED <<row, ownVars, faults, overrun, payload>>

\* TryReclaim of an expired row; another request may have been quicker.
CanReclaimAnyway(r) == row.id = found[r].id /\ ~Absent(row)
CanReclaim(r) == Reclaimable(row, found[r].id, found[r].status, age[r])
ReclaimExpired(r) ==
  /\ pc[r] = "reclaimingExpired"
  /\ \/ CanReclaim(r) /\ row' = TryReclaim(row, age[r]) /\ Begin(r, found[r].id)
     \/ /\ ~CanReclaim(r)
        /\ To(r, "rereading") /\ Forget(r)
        /\ UNCHANGED <<row, ownVars, answer, faults, overrun, payload>>
ReadLatest(r) ==
  /\ pc[r] = "rereading"
  /\ \/ Absent(row) /\ To(r, "failed") /\ UNCHANGED <<answer, found>>
     \/ ~Absent(row) /\ ~SameFingerprint(r) /\ To(r, "failed") /\ UNCHANGED <<answer, found>>
     \/ ~Absent(row) /\ SameFingerprint(r) /\ Decide(r)
  /\ UNCHANGED <<row, ownVars, faults, overrun, payload>>

\* TryReclaim of a failed row after its backoff.
Reclaim(r) ==
  /\ pc[r] = "reclaiming"
  /\ \/ CanReclaim(r) /\ row' = TryReclaim(row, age[r]) /\ Begin(r, found[r].id)
     \/ /\ ~CanReclaim(r)
        /\ To(r, "failed") /\ Forget(r)
        /\ UNCHANGED <<row, ownVars, answer, faults, overrun, payload>>

\* A statement of the claim fails, executed or not.
ClaimError(r) ==
  /\ Claiming(r) /\ Fault
  /\ row' \in {row}
       \cup (IF pc[r] = "creating" /\ Absent(row)
             THEN {CreateProcessing(r, payload[r], age[r])} ELSE {})
       \cup (IF pc[r] \in {"reclaimingExpired", "reclaiming"} /\ CanReclaim(r)
             THEN {TryReclaim(row, age[r])} ELSE {})
  /\ To(r, "failed") /\ Forget(r)
  /\ UNCHANGED <<ownVars, answer, overrun, payload>>
----------------------------------------------------------------------------
(* Execute, the execution and its result.                                  *)

\* renewProcessingLease: extended, or stopped (due 0) when the row is another
\* one's or not processing any more; a failure is tried again.
CanExtend(r) == Extendable(row, record[r], payload[r])
RenewOnce(r) ==
  /\ r \in Active /\ due[r] > 0
  /\ row' = IF CanExtend(r) THEN ExtendProcessingLock(row) ELSE row
  /\ due' = [due EXCEPT ![r] = 0]
  /\ UNCHANGED <<pc, claimVars, record, expires, result, timedOut, answer, faults, overrun, payload>>
Renew(r) ==
  /\ r \in Active /\ due[r] > 0
  /\ row' = IF CanExtend(r) THEN ExtendProcessingLock(row) ELSE row
  /\ due' = [due EXCEPT ![r] = IF CanExtend(r) THEN RenewWithin + 1 ELSE 0]
  /\ UNCHANGED <<pc, claimVars, record, expires, result, timedOut, answer, faults, overrun, payload>>
RenewError(r) ==
  /\ r \in Active /\ due[r] > 0 /\ Fault
  /\ row' \in {row} \cup (IF CanExtend(r) THEN {ExtendProcessingLock(row)} ELSE {})
  /\ due' = [due EXCEPT ![r] = RenewWithin + 1]
  /\ UNCHANGED <<pc, claimVars, record, expires, result, timedOut, answer, overrun, payload>>

\* The context of a detached execution ends, and with it the renewals.
TimeOut(r) ==
  /\ pc[r] = "executing" /\ r \in Detached \ timedOut
  /\ timedOut' = timedOut \cup {r}
  /\ due' = [due EXCEPT ![r] = 0]
  /\ UNCHANGED <<row, pc, claimVars, record, expires, result, answer, faults, overrun, payload>>

\* execute returns; a response that is too long will be stored truncated.  A
\* detached request computes a new expiry.
Return(r) ==
  /\ pc[r] = "executing"
  /\ To(r, "persisting")
  /\ \E x \in Results \ {"none"} : result' = [result EXCEPT ![r] = x]
  /\ expires' = IF r \in Detached THEN [expires EXCEPT ![r] = TTL] ELSE expires
  /\ UNCHANGED <<row, found, record, due, timedOut, answer, faults, overrun, payload>>

\* MarkSucceeded or MarkFailedRetryable.
Marked(r) ==
  IF ~Marks(row, record[r]) THEN row
  ELSE IF result[r] = "failed" THEN MarkFailedRetryable(row, Backoff, expires[r])
  ELSE MarkSucceeded(row, r, result[r], expires[r])
End(r, p) ==
  /\ To(r, p) /\ Forget(r)
  /\ record' = [record EXCEPT ![r] = r]
  /\ expires' = [expires EXCEPT ![r] = 0]
  /\ due' = [due EXCEPT ![r] = 0]
  /\ timedOut' = timedOut \ {r}
  /\ result' = [result EXCEPT ![r] = IF p = "done" /\ @ = "stored" THEN @ ELSE "none"]
  /\ UNCHANGED <<answer, overrun, payload>>
Persist(r) ==
  /\ pc[r] = "persisting"
  /\ row' = Marked(r)
  /\ End(r, "done")
  /\ UNCHANGED faults
\* The statement fails, executed or not, or the response cannot be marshalled.
PersistError(r) ==
  /\ pc[r] = "persisting" /\ Fault
  /\ row' \in {row, Marked(r)}
  /\ End(r, "done")
Crash(r) ==
  /\ Claiming(r) \/ r \in Active
  /\ End(r, "failed")
  /\ UNCHANGED <<row, faults>>
----------------------------------------------------------------------------
\* cleanupOnce
Cleanup ==
  /\ Deletable(row)
  /\ row' = DeleteExpired(row)
  /\ UNCHANGED <<pc, claimVars, ownVars, answer, faults, overrun, payload>>

\* Time passes while there is a row or a request.
Tick ==
  /\ ~Absent(row) \/ \E r \in Callers : Claiming(r) \/ r \in Active
  /\ \A r \in Callers : (Claiming(r) => age[r] < Slack) /\ due[r] # 1
  /\ row' = Aged(row)
  /\ age' = [r \in Callers |-> IF Claiming(r) THEN age[r] + 1 ELSE 0]
  /\ expires' = [r \in Callers |-> IF r \in Active THEN Earlier(expires[r]) ELSE expires[r]]
  /\ due' = [r \in Callers |-> IF due[r] > 1 THEN due[r] - 1 ELSE due[r]]
  /\ overrun' = (overrun \/ (Active # {} /\ row'.expires <= 0))
  /\ UNCHANGED <<pc, found, record, result, timedOut, answer, faults, payload>>

Init ==
  /\ payload \in Assignments
  /\ row = NoRow
  /\ pc = [r \in Callers |-> "idle"] /\ age = [r \in Callers |-> 0]
  /\ found = [r \in Callers |-> NotFound(r)]
  /\ record = [r \in Callers |-> r] /\ expires = [r \in Callers |-> 0]
  /\ result = [r \in Callers |-> "none"] /\ due = [r \in Callers |-> 0]
  /\ answer = [r \in Callers |-> r] /\ timedOut = {}
  /\ faults = 0 /\ overrun = FALSE

Claim(r) ==
  \/ Create(r) \/ Read(r) \/ ReclaimExpired(r) \/ ReadLatest(r) \/ Reclaim(r) \/ ClaimError(r)
Renewal(r) == Renew(r) \/ RenewError(r)
Conclude(r) == Persist(r) \/ PersistError(r)
Next ==
  \/ Tick \/ Cleanup
  \/ \E r \in Callers :
       Start(r) \/ Claim(r) \/ Renewal(r) \/ TimeOut(r) \/ Return(r) \/ Conclude(r) \/ Crash(r)
Spec == Init /\ [][Next]_vars

\* Time passes, the statements of a claim return before it does, and the cleanup
\* runs; nothing is asked of executions, of their renewals or of the statements that
\* store their results.
Fairness ==
  /\ WF_vars(Tick \/ \E r \in Callers : Claim(r))
  /\ WF_vars(Cleanup)
FairSpec == Spec /\ Fairness
----------------------------------------------------------------------------
\* Type correctness.
TypeOK ==
  /\ payload \in [Callers -> Payloads] /\ row \in Rows
  /\ pc \in [Callers -> Places]
  /\ age \in [Callers -> 0..Slack]
  /\ found \in [Callers -> Sights]
  /\ record \in [Callers -> Callers] /\ expires \in [Callers -> Times]
  /\ result \in [Callers -> Results] /\ due \in [Callers -> 0..RenewWithin + 1]
  /\ answer \in [Callers -> Callers] /\ timedOut \subseteq Callers
  /\ faults \in 0..MaxFaults /\ overrun \in BOOLEAN

\* TestIdempotencyCoordinator_ConcurrentSameKeySingleSideEffect: two requests
\* execute side by side only after the row of one of them expired under it.
OneExecution == ~overrun => \A r, q \in Active : r = q

\* A replayed response was stored whole by a request with the same payload.
ReplayIsGenuine ==
  \A r \in Callers : pc[r] = "replayed" =>
    payload[answer[r]] = payload[r] /\ result[answer[r]] = "stored"

\* While the store answers, a detached request does not lose its row before its
\* ExecutionTimeout, however little the TTL exceeds the lease.
DetachedKeepsRow ==
  [][faults = 0 /\ ~overrun /\ overrun' => ~(Active \subseteq Detached \ timedOut)]_vars

\* A stored success is not executed again before it expires, unless a request
\* is under way that has read the row before.
SuccessIsFinal ==
  [][~overrun /\ row.status = "succeeded" /\ row.expires > 0 /\ row'.status # "succeeded"
       => \E r \in Callers : pc[r] = "reclaimingExpired"]_vars

\* A key is never blocked for ever: again and again it is being executed or has no
\* row, so a row that a crash or a failed statement left behind goes away.
KeyIsFreed == []<>(Active # {} \/ Absent(row))

\* Refuted by TLC, see the README:
\* "concurrent same-key requests should execute business side-effect once"
\* (TestIdempotencyCoordinator_ConcurrentSameKeySingleSideEffect): a success that
\* was stored and has not expired is not executed again, whatever was read before.
SingleSideEffect ==
  [][~overrun /\ row.status = "succeeded" /\ row.expires > 0 => row'.status = "succeeded"]_vars
----------------------------------------------------------------------------
(* The parts of the inductive invariant.                                   *)

\* As long as no row expired under its request, an execution has a live row.
ActiveHasRow == ~overrun /\ Active # {} => row.status = "processing" /\ row.expires > 0
\* A request that takes over after a failure read a failed row ...
FailureWasRead ==
  \A r \in Callers : pc[r] = "reclaiming" => found[r].status = "failed_retryable"
\* ... and one that read an expired row is too early for the lock of a later claim.
ExpiredReadIsTooEarly ==
  \A r \in Callers :
    pc[r] = "reclaimingExpired" /\ ~overrun /\ Active # {} => row.lock > -age[r]
\* A result that is persisted is known.
ResultIsKnown == \A r \in Callers : pc[r] = "persisting" => result[r] # "none"
CoordinatorInvariant ==
  /\ TypeOK /\ ActiveHasRow /\ FailureWasRead /\ ExpiredReadIsTooEarly
  /\ ResultIsKnown /\ OneExecution
\* The row carries the payload of the request that created it, ...
RowHasPayload == ~Absent(row) => row.fingerprint = payload[row.id]
\* ... which is the payload of every request that reads or claims it.
ClaimsOwnPayload ==
  \A r \in Callers :
    /\ payload[record[r]] = payload[r] /\ payload[found[r].id] = payload[r]
    /\ pc[r] = "reclaimingExpired" => found[r].status # "absent"
\* Request q is done, its response is remembered, and it had the payload of r.
Stored(r, q) == pc[q] = "done" /\ result[q] = "stored" /\ payload[q] = payload[r]
\* The response in the row, and the one a request replayed, was stored by such a one.
RowIsGenuine == row.status = "succeeded" /\ row.body = "stored" => Stored(row.id, row.by)
ReplayWasStored == \A r \in Callers : pc[r] = "replayed" => Stored(r, answer[r])
ResponseInvariant == RowHasPayload /\ ClaimsOwnPayload /\ RowIsGenuine /\ ReplayWasStored

\* While the store answers, an execution owns the row, and the next renewal of a
\* detached one is over before the row expires.
RenewedInTime ==
  faults = 0 /\ ~overrun => \A r \in Active :
    record[r] = row.id /\ (r \in Detached \ timedOut => 0 < due[r] /\ due[r] <= row.expires)
=============================================================================

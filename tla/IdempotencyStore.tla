-------------------------- MODULE IdempotencyStore --------------------------
(***************************************************************************)
(* The row that table idempotency_records holds for one scope and key, and *)
(* the statements of the repository on it.  A statement is a condition     *)
(* (its WHERE clause) and the row it leaves.                               *)
(*                                                                         *)
(* Times are relative to the current one: lock and expires count down, and *)
(* a caller that took its `now' age ticks ago compares them with -age.     *)
(* Times more than Slack in the past are not told apart; locked_until NULL *)
(* is such a time, since every reader treats it so.                        *)
(***************************************************************************)
EXTENDS Integers

CONSTANTS
  Callers,   \* requests or operations; each creates at most one row, whose ID it is
  Payloads,  \* request fingerprints
  TTL,       \* life of a row
  Lease,     \* ProcessingTimeout, the time a claim locks the row for
  Slack      \* bound: ticks between a caller's time.Now() and its claim

ASSUME StoreAssumption ==
  /\ Callers # {} /\ Payloads # {}
  /\ TTL \in Nat /\ Lease \in Nat /\ Slack \in Nat
  /\ 0 < Lease /\ Lease < TTL /\ Slack < TTL

Statuses == {"processing", "succeeded", "failed_retryable"}
Bodies == {"none", "stored", "truncated"}
Past == -Slack
Times == Past..TTL
Rows == [id : Callers, fingerprint : Payloads, status : Statuses \cup {"absent"},
         lock : Times, expires : Times, body : Bodies, by : Callers]

\* A time the caller computed as now + n when its `now' was age ticks ago.
AfterAge(n, age) == n + age
After(n, age) == IF n - age > Past THEN n - age ELSE Past
Earlier(t) == IF t > Past THEN t - 1 ELSE Past

Absent(row) == row.status = "absent"
\* The row time.Now() + one tick sees.
Aged(row) == [row EXCEPT !.lock = Earlier(@), !.expires = Earlier(@)]

\* CreateProcessing: INSERT ... ON CONFLICT DO NOTHING, of a row that is absent.
CreateProcessing(c, fingerprint, age) ==
  [id |-> c, fingerprint |-> fingerprint, status |-> "processing",
   lock |-> After(Lease, age), expires |-> After(TTL, age), body |-> "none", by |-> c]

\* TryReclaim: the fingerprint and the stored response are kept.
Reclaimable(row, id, from, age) ==
  row.id = id /\ row.status = from /\ row.lock <= -age
TryReclaim(row, age) ==
  [row EXCEPT !.status = "processing", !.lock = After(Lease, age), !.expires = After(TTL, age)]

\* ExtendProcessingLock
Extendable(row, id, fingerprint) ==
  row.id = id /\ row.status = "processing" /\ row.fingerprint = fingerprint
ExtendProcessingLock(row) == [row EXCEPT !.lock = Lease, !.expires = TTL]

\* MarkSucceeded and MarkFailedRetryable: by ID alone, whatever the status is
\* and whoever holds the claim.
Marks(row, id) == ~Absent(row) /\ row.id = id
MarkSucceeded(row, c, body, expires) ==
  [row EXCEPT !.status = "succeeded", !.body = body, !.by = c, !.lock = Past, !.expires = expires]
MarkFailedRetryable(row, lock, expires) ==
  [row EXCEPT !.status = "failed_retryable", !.lock = lock, !.expires = expires]

NoRow ==
  [id |-> CHOOSE c \in Callers : TRUE, fingerprint |-> CHOOSE p \in Payloads : TRUE,
   status |-> "absent", lock |-> Past, expires |-> Past, body |-> "none",
   by |-> CHOOSE c \in Callers : TRUE]
\* DeleteExpired: rows past expires_at, of any status.
DeletableFinished(row) == row.status \in {"succeeded", "failed_retryable"} /\ row.expires <= 0
Deletable(row) == ~Absent(row) /\ row.expires <= 0
DeleteExpired(row) == NoRow
=============================================================================

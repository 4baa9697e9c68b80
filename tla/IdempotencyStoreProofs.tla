----------------------- MODULE IdempotencyStoreProofs -----------------------
(* What the statements on a row of idempotency_records leave behind.        *)
EXTENDS IdempotencyStore, TLAPS

\* Times computed from a `now' that is at most Slack old.
LEMMA ComputedTimes ==
  /\ Past \in Times /\ 0 \in Times /\ TTL \in Times /\ Lease \in Times
  /\ \A n \in 0..TTL, age \in 0..Slack :
       /\ After(n, age) \in Times
       /\ After(n, age) >= n - age
       /\ n - age >= Past => After(n, age) = n - age
  /\ \A t \in Times : /\ Earlier(t) \in Times
                      /\ Earlier(t) <= t
                      /\ t > Past => Earlier(t) = t - 1
BY StoreAssumption, SMT DEF Past, Times, After, Earlier

\* A row stays a row, whatever statement is executed.
LEMMA RowTypes ==
  ASSUME NEW row \in Rows
  PROVE  /\ Aged(row) \in Rows
         /\ \A age \in 0..Slack : TryReclaim(row, age) \in Rows
         /\ ExtendProcessingLock(row) \in Rows
         /\ \A c \in Callers, b \in Bodies, t \in Times : MarkSucceeded(row, c, b, t) \in Rows
         /\ \A l \in Times, t \in Times : MarkFailedRetryable(row, l, t) \in Rows
         /\ DeleteExpired(row) \in Rows
<1> USE DEF Rows, Statuses, Bodies
<1>1. Aged(row) \in Rows
  BY ComputedTimes DEF Aged
<1>2. ASSUME NEW age \in 0..Slack PROVE TryReclaim(row, age) \in Rows
  <2>1. Lease \in 0..TTL /\ TTL \in 0..TTL
    BY StoreAssumption
  <2> QED BY <2>1, ComputedTimes DEF TryReclaim
<1>3. ExtendProcessingLock(row) \in Rows
  BY ComputedTimes DEF ExtendProcessingLock
<1>4. ASSUME NEW c \in Callers, NEW b \in Bodies, NEW t \in Times
      PROVE  MarkSucceeded(row, c, b, t) \in Rows
  BY ComputedTimes DEF MarkSucceeded
<1>5. ASSUME NEW l \in Times, NEW t \in Times PROVE MarkFailedRetryable(row, l, t) \in Rows
  BY DEF MarkFailedRetryable
<1>6. DeleteExpired(row) \in Rows
  BY ComputedTimes, StoreAssumption DEF DeleteExpired, NoRow
<1> QED BY <1>1, <1>2, <1>3, <1>4, <1>5, <1>6

\* An inserted row, and the absence of one, are rows.
LEMMA NewRows ==
  /\ NoRow \in Rows
  /\ \A c \in Callers, p \in Payloads, age \in 0..Slack : CreateProcessing(c, p, age) \in Rows
<1>1. NoRow \in Rows
  BY ComputedTimes, StoreAssumption DEF NoRow, Rows, Statuses, Bodies
<1>2. ASSUME NEW c \in Callers, NEW p \in Payloads, NEW age \in 0..Slack
      PROVE  CreateProcessing(c, p, age) \in Rows
  <2>1. Lease \in 0..TTL /\ TTL \in 0..TTL
    BY StoreAssumption
  <2> QED BY <2>1, ComputedTimes DEF CreateProcessing, Rows, Statuses, Bodies
<1> QED BY <1>1, <1>2

\* Two rows tell the same request's story: same creator, payload and stored response.
SameStory(a, b) ==
  a.id = b.id /\ a.fingerprint = b.fingerprint /\ a.body = b.body /\ a.by = b.by

\* No statement but an insertion or a deletion changes whose row it is.
LEMMA RowFields ==
  ASSUME NEW row \in Rows, NEW c, NEW age, NEW b, NEW l, NEW t
  PROVE  /\ SameStory(Aged(row), row) /\ Aged(row).status = row.status
         /\ Aged(row).lock = Earlier(row.lock) /\ Aged(row).expires = Earlier(row.expires)
         /\ SameStory(TryReclaim(row, age), row) /\ TryReclaim(row, age).status = "processing"
         /\ TryReclaim(row, age).lock = After(Lease, age)
         /\ TryReclaim(row, age).expires = After(TTL, age)
         /\ SameStory(ExtendProcessingLock(row), row)
         /\ ExtendProcessingLock(row).status = row.status
         /\ ExtendProcessingLock(row).lock = Lease /\ ExtendProcessingLock(row).expires = TTL
         /\ SameStory(MarkFailedRetryable(row, l, t), row)
         /\ MarkFailedRetryable(row, l, t).status = "failed_retryable"
         /\ MarkSucceeded(row, c, b, t).id = row.id
         /\ MarkSucceeded(row, c, b, t).fingerprint = row.fingerprint
         /\ MarkSucceeded(row, c, b, t).status = "succeeded"
         /\ MarkSucceeded(row, c, b, t).body = b /\ MarkSucceeded(row, c, b, t).by = c
<1> USE DEF Rows, SameStory
<1>1. /\ SameStory(Aged(row), row) /\ Aged(row).status = row.status
      /\ Aged(row).lock = Earlier(row.lock) /\ Aged(row).expires = Earlier(row.expires)
  BY DEF Aged
<1>2. /\ SameStory(TryReclaim(row, age), row) /\ TryReclaim(row, age).status = "processing"
      /\ TryReclaim(row, age).lock = After(Lease, age)
      /\ TryReclaim(row, age).expires = After(TTL, age)
  BY DEF TryReclaim
<1>3. /\ SameStory(ExtendProcessingLock(row), row)
      /\ ExtendProcessingLock(row).status = row.status
      /\ ExtendProcessingLock(row).lock = Lease /\ ExtendProcessingLock(row).expires = TTL
  BY DEF ExtendProcessingLock
<1>4. /\ SameStory(MarkFailedRetryable(row, l, t), row)
      /\ MarkFailedRetryable(row, l, t).status = "failed_retryable"
  BY DEF MarkFailedRetryable
<1>5. /\ MarkSucceeded(row, c, b, t).id = row.id
      /\ MarkSucceeded(row, c, b, t).fingerprint = row.fingerprint
      /\ MarkSucceeded(row, c, b, t).status = "succeeded"
      /\ MarkSucceeded(row, c, b, t).body = b /\ MarkSucceeded(row, c, b, t).by = c
  BY DEF MarkSucceeded
<1> QED BY <1>1, <1>2, <1>3, <1>4, <1>5
=============================================================================

--------------------- MODULE SystemOperationLockProofs ---------------------
(***************************************************************************)
(* Two system operations never run side by side while no operation         *)
(* outlives its lease, and renewals keep the lock of an operation whose ID *)
(* is in the row, for any number of operations and any lease.              *)
(***************************************************************************)
EXTENDS SystemOperationLock, IdempotencyStoreProofs

\* Initially there is no row and no operation.
LEMMA InitInvariant == Init => LockInvariant
<1> SUFFICES ASSUME Init PROVE LockInvariant
  OBVIOUS
<1>1. TypeOK
  <2>1. row \in Rows /\ faults \in 0..MaxFaults
    BY NewRows, LockAssumption DEF Init
  <2>5. overrun \in BOOLEAN /\ record \in [Callers -> Callers] /\ renewing \subseteq Callers
    BY Zenon DEF Init
  <2>2. found \in [Callers -> [id : Callers, status : Statuses \cup {"absent"}]]
    BY DEF Init
  <2>3. age \in [Callers -> 0..Slack] /\ due \in [Callers -> 0..RenewWithin]
    BY LockAssumption, StoreAssumption DEF Init
  <2>4. pc \in [Callers -> {"idle", "creating", "reading", "reclaiming", "refused",
                            "running", "over", "crashed"}]
    BY DEF Init
  <2> QED BY <2>1, <2>2, <2>3, <2>4, <2>5 DEF TypeOK
<1>2. Running = {}
  BY DEF Init, Running
<1>3. RowOutlivesLock
  BY ComputedTimes, StoreAssumption DEF Init, RowOutlivesLock, NoRow, Past
<1> QED BY <1>1, <1>2, <1>3 DEF LockInvariant, RunningIsLocked, OneOperationAtATime

\* No statement lets the lock outlive the row.
LEMMA RowStep ==
  ASSUME NEW r \in Rows, r.lock <= r.expires
  PROVE  /\ Aged(r).lock <= Aged(r).expires
         /\ \A c \in Callers, p \in Payloads, g \in 0..Slack :
              CreateProcessing(c, p, g).lock <= CreateProcessing(c, p, g).expires
         /\ \A g \in 0..Slack : TryReclaim(r, g).lock <= TryReclaim(r, g).expires
         /\ ExtendProcessingLock(r).lock <= ExtendProcessingLock(r).expires
         /\ \A c \in Callers : MarkSucceeded(r, c, "stored", TTL).lock
                                 <= MarkSucceeded(r, c, "stored", TTL).expires
         /\ MarkFailedRetryable(r, 0, TTL).lock <= MarkFailedRetryable(r, 0, TTL).expires
         /\ DeleteExpired(r).lock <= DeleteExpired(r).expires
<1> USE StoreAssumption DEF Rows, Times, Past
<1>1. Aged(r).lock <= Aged(r).expires
  BY DEF Aged, Earlier
<1>2. \A g \in 0..Slack : After(Lease, g) <= After(TTL, g)
  BY DEF After
<1>3. \A g \in 0..Slack : TryReclaim(r, g).lock <= TryReclaim(r, g).expires
  BY <1>2 DEF TryReclaim
<1>4. \A c \in Callers, p \in Payloads, g \in 0..Slack :
        CreateProcessing(c, p, g).lock <= CreateProcessing(c, p, g).expires
  BY <1>2 DEF CreateProcessing
<1>5. ExtendProcessingLock(r).lock <= ExtendProcessingLock(r).expires
  BY DEF ExtendProcessingLock
<1>6. \A c \in Callers : MarkSucceeded(r, c, "stored", TTL).lock
                           <= MarkSucceeded(r, c, "stored", TTL).expires
  BY DEF MarkSucceeded
<1>7. MarkFailedRetryable(r, 0, TTL).lock <= MarkFailedRetryable(r, 0, TTL).expires
  BY DEF MarkFailedRetryable
<1>8. DeleteExpired(r).lock <= DeleteExpired(r).expires
  BY DEF DeleteExpired, NoRow
<1> QED BY <1>1, <1>3, <1>4, <1>5, <1>6, <1>7, <1>8

\* Every step keeps the types.
LEMMA TypeStep == LockInvariant /\ [Next]_vars => TypeOK'
<1> SUFFICES ASSUME TypeOK, [Next]_vars PROVE TypeOK'
  BY DEF LockInvariant
<1> USE LockAssumption, StoreAssumption DEF TypeOK
<1>1. ASSUME NEW o \in Callers, Acquire(o) PROVE TypeOK'
  BY <1>1 DEF Acquire
<1>2. ASSUME NEW o \in Callers, Create(o) PROVE TypeOK'
  <2>1. CreateProcessing(o, OperationID[o], age[o]) \in Rows
    BY NewRows
  <2> QED BY <1>2, <2>1 DEF Create, Hold
<1>3. ASSUME NEW o \in Callers, Read(o) PROVE TypeOK'
  <2>1. [id |-> row.id, status |-> row.status] \in [id : Callers, status : Statuses \cup {"absent"}]
    BY DEF Rows
  <2> QED BY <1>3, <2>1 DEF Read, Refuse
<1>4. ASSUME NEW o \in Callers, Reclaim(o) PROVE TypeOK'
  <2>1. TryReclaim(row, age[o]) \in Rows
    BY RowTypes
  <2> QED BY <1>4, <2>1 DEF Reclaim, Hold, Refuse
<1>5. ASSUME NEW o \in Callers, AcquireError(o) PROVE TypeOK'
  <2>1. TryReclaim(row, age[o]) \in Rows /\ CreateProcessing(o, OperationID[o], age[o]) \in Rows
    BY RowTypes, NewRows
  <2> QED BY <1>5, <2>1 DEF AcquireError, Refuse, Fault
<1>6. ASSUME NEW o \in Callers, Renew(o) \/ RenewError(o) PROVE TypeOK'
  <2>1. ExtendProcessingLock(row) \in Rows
    BY RowTypes
  <2>2. CASE Renew(o)
    <3>1. CanExtend(o) \in BOOLEAN
      BY DEF CanExtend, Extendable
    <3> QED BY <2>1, <2>2, <3>1 DEF Renew
  <2>3. CASE RenewError(o)
    BY <2>1, <2>3 DEF RenewError, Fault
  <2> QED BY <1>6, <2>2, <2>3
<1>7. ASSUME NEW o \in Callers, Release(o) \/ ReleaseError(o) PROVE TypeOK'
  <2>1. Marked(o) \subseteq Rows
    <3>1. "stored" \in Bodies
      BY DEF Bodies
    <3>2. row \in Rows /\ 0 \in Times /\ TTL \in Times
      BY ComputedTimes
    <3>3. MarkSucceeded(row, o, "stored", TTL) \in Rows /\ MarkFailedRetryable(row, 0, TTL) \in Rows
      BY <3>1, <3>2, RowTypes
    <3> QED BY <3>2, <3>3 DEF Marked
  <2> QED BY <1>7, <2>1 DEF Release, ReleaseError, Stop, Fault
<1>8. ASSUME NEW o \in Callers, Crash(o) PROVE TypeOK'
  BY <1>8 DEF Crash
<1>9. CASE Cleanup
  BY <1>9, RowTypes DEF Cleanup
<1>10. CASE Tick
  <2>1. row' \in Rows
    BY <1>10, RowTypes DEF Tick
  <2>2. age' \in [Callers -> 0..Slack] /\ due' \in [Callers -> 0..RenewWithin]
    BY <1>10 DEF Tick
  <2>3. overrun' \in BOOLEAN
    BY <1>10 DEF Tick
  <2> QED BY <1>10, <2>1, <2>2, <2>3 DEF Tick
<1>11. CASE UNCHANGED vars
  BY <1>11 DEF vars
<1> QED BY <1>1, <1>2, <1>3, <1>4, <1>5, <1>6, <1>7, <1>8, <1>9, <1>10, <1>11 DEF Next, Operation

\* Every step keeps the lock in front of the running operation, and the
\* operation alone.
LEMMA InvariantStep == LockInvariant /\ [Next]_vars => LockInvariant'
<1> SUFFICES ASSUME LockInvariant, [Next]_vars PROVE LockInvariant'
  OBVIOUS
<1>t. TypeOK'
  BY TypeStep
<1>n. row.lock \in Int /\ row.expires \in Int /\ row \in Rows /\ \A o \in Callers : age[o] \in 0..Slack
  BY StoreAssumption DEF LockInvariant, TypeOK, Rows, Times, Past
<1> DEFINE Kept == RunningIsLocked' /\ RowOutlivesLock' /\ OneOperationAtATime'
<1> USE DEF RunningIsLocked, OneOperationAtATime, RowOutlivesLock
<1>m. RunningIsLocked /\ OneOperationAtATime /\ RowOutlivesLock /\ TypeOK
  BY DEF LockInvariant
\* Steps that end or start no operation and leave a closed lock closed.
<1>1. ASSUME Running' \subseteq Running, overrun' = overrun, RowOutlivesLock',
             row.status = "processing" /\ row.lock > 0 /\ Running' # {}
               => row'.status = "processing" /\ row'.lock > 0
      PROVE  Kept
  BY <1>1, <1>m
<1>2. ASSUME NEW o \in Callers, Acquire(o) PROVE Kept
  BY <1>1, <1>2, <1>m DEF Acquire, Running, TypeOK
<1>3. ASSUME NEW o \in Callers, Create(o) PROVE Kept
  <2>1. CASE ~Absent(row)
    BY <1>1, <1>3, <1>m, <2>1 DEF Create, Running, TypeOK
  <2>2. CASE Absent(row)
    <3>1. overrun \/ Running = {}
      BY <1>m, <2>2 DEF Absent
    <3>2. /\ row' = CreateProcessing(o, OperationID[o], age[o])
          /\ Running' = Running \cup {o} /\ overrun' = overrun
      BY <1>3, <1>m, <2>2 DEF Create, Hold, Running, TypeOK
    <3>3. RowOutlivesLock'
      BY <3>2, <1>n, <1>m, RowStep, LockAssumption
    <3>4. row'.status = "processing" /\ row'.lock > 0
      BY <3>2, <1>n, ComputedTimes, StoreAssumption, LockAssumption DEF CreateProcessing, After, Past
    <3> QED BY <3>1, <3>2, <3>3, <3>4
  <2> QED BY <2>1, <2>2
<1>4. ASSUME NEW o \in Callers, Read(o) PROVE Kept
  BY <1>1, <1>4, <1>m DEF Read, Refuse, Running, TypeOK
<1>5. ASSUME NEW o \in Callers, Reclaim(o) PROVE Kept
  <2>1. CASE ~CanReclaim(o)
    BY <1>1, <1>5, <1>m, <2>1 DEF Reclaim, Refuse, Running, TypeOK
  <2>2. CASE CanReclaim(o)
    <3>1. overrun \/ Running = {}
      BY <1>m, <1>n, <2>2, StoreAssumption DEF CanReclaim, Reclaimable
    <3>2. row' = TryReclaim(row, age[o]) /\ Running' = Running \cup {o} /\ overrun' = overrun
      BY <1>5, <1>m, <2>2 DEF Reclaim, Hold, Running, TypeOK
    <3>3. RowOutlivesLock'
      BY <3>2, <1>n, <1>m, RowStep
    <3>4. row'.status = "processing" /\ row'.lock > 0
      BY <3>2, <1>n, ComputedTimes, StoreAssumption, LockAssumption DEF TryReclaim, After, Rows, Past, Times
    <3> QED BY <3>1, <3>2, <3>3, <3>4
  <2> QED BY <2>1, <2>2
<1>6. ASSUME NEW o \in Callers, AcquireError(o) PROVE Kept
  <2>1. Running' = Running /\ overrun' = overrun
    BY <1>6, <1>m DEF AcquireError, Refuse, Running, Claiming, TypeOK
  <2>2. \/ row' = row
        \/ Absent(row) /\ row' = CreateProcessing(o, OperationID[o], age[o])
        \/ CanReclaim(o) /\ row' = TryReclaim(row, age[o])
    BY <1>6 DEF AcquireError
  <2>3. RowOutlivesLock'
    BY <2>2, <1>n, <1>m, RowStep, LockAssumption
  <2>4. row.status = "processing" /\ row.lock > 0 => row' = row
    BY <2>2, <1>n, StoreAssumption DEF Absent, CanReclaim, Reclaimable
  <2> QED BY <1>1, <2>1, <2>3, <2>4
<1>7. ASSUME NEW o \in Callers, Renew(o) \/ RenewError(o) PROVE Kept
  <2>1. Running' = Running /\ overrun' = overrun
    BY <1>7 DEF Renew, RenewError, Running
  <2>2. row' \in {row, ExtendProcessingLock(row)}
    BY <1>7 DEF Renew, RenewError
  <2>3. RowOutlivesLock'
    BY <2>2, <1>n, <1>m, RowStep
  <2>4. row.status = "processing" /\ row.lock > 0 => row'.status = "processing" /\ row'.lock > 0
    BY <2>2, <1>n, StoreAssumption DEF ExtendProcessingLock, Rows
  <2> QED BY <1>1, <2>1, <2>3, <2>4
<1>8. ASSUME NEW o \in Callers, Release(o) \/ ReleaseError(o) PROVE Kept
  <2>1. o \in Running /\ Running' = Running \ {o} /\ overrun' = overrun
    BY <1>8, <1>m DEF Release, ReleaseError, Stop, Running, TypeOK
  <2>2. row' \in Marked(o) \cup {row}
    BY <1>8 DEF Release, ReleaseError
  <2>3. \/ row' = row
        \/ row' = MarkSucceeded(row, o, "stored", TTL)
        \/ row' = MarkFailedRetryable(row, 0, TTL)
    BY <2>2 DEF Marked
  <2>4. RowOutlivesLock'
    BY <2>3, <1>n, <1>m, RowStep
  <2>5. overrun \/ Running' = {}
    BY <2>1, <1>m
  <2> QED BY <2>1, <2>4, <2>5
<1>9. ASSUME NEW o \in Callers, Crash(o) PROVE Kept
  BY <1>1, <1>9, <1>m DEF Crash, Running, TypeOK
<1>10. ASSUME Cleanup PROVE Kept
  <2>1. overrun \/ Running = {}
    BY <1>10, <1>m, <1>n DEF Cleanup, Deletable
  <2>2. Running' = Running /\ overrun' = overrun /\ row' = DeleteExpired(row)
    BY <1>10 DEF Cleanup, Running
  <2> QED BY <2>1, <2>2, <1>n, <1>m, RowStep
<1>11. ASSUME Tick PROVE Kept
  <2>1. Running' = Running /\ row' = Aged(row)
    BY <1>11 DEF Tick, Running
  <2>2. RowOutlivesLock'
    BY <2>1, <1>n, <1>m, RowStep
  <2>3. row'.status = row.status /\ row'.lock \in Int
    <3>1. row'.status = row.status
      BY <2>1, <1>n DEF Aged, Rows
    <3>2. row' \in Rows
      BY <1>t DEF TypeOK
    <3> QED BY <3>1, <3>2, StoreAssumption DEF Rows, Times, Past
  <2>4. ~overrun' => ~overrun /\ (Running = {} \/ row'.lock > 0)
    <3>1. overrun' <=> (overrun \/ (Running # {} /\ row'.lock <= 0))
      BY <1>11, Zenon DEF Tick
    <3>2. ~(row'.lock <= 0) <=> row'.lock > 0
      BY <2>3
    <3> QED BY <3>1, <3>2, Zenon
  <2> QED BY <2>1, <2>2, <2>3, <2>4, <1>m
<1>12. ASSUME UNCHANGED vars PROVE Kept
  BY <1>12, <1>m DEF vars, Running
<1>13. Kept
  BY <1>2, <1>3, <1>4, <1>5, <1>6, <1>7, <1>8, <1>9, <1>10, <1>11, <1>12 DEF Next, Operation
<1> QED BY <1>t, <1>13 DEF LockInvariant

\* The inductive invariant holds.
THEOREM LockInvariantHolds == Spec => []LockInvariant
BY InitInvariant, InvariantStep, PTL DEF Spec

\* Type correctness of the lock service.
THEOREM TypeCorrect == Spec => []TypeOK
<1>1. LockInvariant => TypeOK
  BY DEF LockInvariant
<1> QED BY LockInvariantHolds, <1>1, PTL

\* As long as no operation outlives its lease, whatever fails or crashes, at
\* most one system operation is running.
THEOREM OneOperation == Spec => []OneOperationAtATime
<1>1. LockInvariant => OneOperationAtATime
  BY DEF LockInvariant
<1> QED BY LockInvariantHolds, <1>1, PTL

\* Every step that no failure and no outlived lease precedes leaves the row to
\* the running operation, and the time for its next renewal.
LEMMA RenewalStep == LockInvariant /\ RenewedInTime /\ [Next]_vars => RenewedInTime'
<1> SUFFICES ASSUME LockInvariant, RenewedInTime, [Next]_vars,
                    faults' = 0, ~overrun', NEW p \in Running'
             PROVE  /\ record'[p] = row'.id
                    /\ OperationID[p] = row'.fingerprint => p \in renewing' /\ due'[p] < row'.lock
  BY DEF RenewedInTime
<1> DEFINE Good == /\ record'[p] = row'.id
                   /\ OperationID[p] = row'.fingerprint => p \in renewing' /\ due'[p] < row'.lock
<1>t. /\ row \in Rows /\ row.lock \in Times /\ row.expires \in Times
      /\ pc \in [Callers -> {"idle", "creating", "reading", "reclaiming", "refused",
                             "running", "over", "crashed"}]
      /\ record \in [Callers -> Callers] /\ due \in [Callers -> 0..RenewWithin]
      /\ renewing \subseteq Callers /\ faults \in Nat
      /\ \A o \in Callers : age[o] \in 0..Slack
  BY LockAssumption DEF LockInvariant, TypeOK, Rows
<1>u. TypeOK' /\ p \in Callers
  BY TypeStep DEF Running
<1>z. /\ row.lock \in Int /\ row.expires \in Int /\ due[p] \in Int /\ Slack \in Nat
      /\ RenewWithin \in Nat /\ Lease \in Nat /\ Lease > RenewWithin + Slack
  BY <1>t, <1>u, StoreAssumption, LockAssumption DEF Times, Past
<1>v. faults = 0 /\ ~overrun
  <2>1. faults' = faults \/ faults' = faults + 1
    BY DEF Next, Operation, Acquire, Create, Hold, Read, Refuse, Reclaim, AcquireError, Renew,
           RenewError, Release, ReleaseError, Stop, Crash, Cleanup, Tick, Fault, vars
  <2>2. overrun' = overrun \/ Tick
    BY DEF Next, Operation, Acquire, Create, Hold, Read, Refuse, Reclaim, AcquireError, Renew,
           RenewError, Release, ReleaseError, Stop, Crash, Cleanup, vars
  <2>3. Tick => (overrun => overrun')
    BY Zenon DEF Tick
  <2> QED BY <1>t, <2>1, <2>2, <2>3
<1>w. ~Fault
  BY <1>v DEF Fault
<1>i. \A o \in Running : /\ record[o] = row.id
                         /\ OperationID[o] = row.fingerprint => o \in renewing /\ due[o] < row.lock
  BY <1>v DEF RenewedInTime
<1>o. /\ \A o, q \in Running : o = q
      /\ Running # {} => row.status = "processing" /\ row.lock > 0 /\ row.lock <= row.expires
  BY <1>v DEF LockInvariant, OneOperationAtATime, RunningIsLocked, RowOutlivesLock
\* Steps that touch neither the row nor the running operation.
<1>0. ASSUME row' = row, p \in Running, record'[p] = record[p], p \in renewing => p \in renewing',
             due'[p] = due[p]
      PROVE  Good
  BY <1>0, <1>i
\* A claim gives the operation the row and its lease, while nobody runs.
<1>h. ASSUME NEW o \in Callers, NEW id \in Callers, Hold(o, id), row'.id = id,
             row'.lock = After(Lease, age[o]), Running = {}
      PROVE  Good
  <2>1. p = o
    BY <1>h, <1>t, <1>u DEF Hold, Running
  <2>2. record'[o] = id /\ o \in renewing' /\ due'[o] = RenewWithin
    BY <1>h, <1>t DEF Hold
  <2>3. row'.lock > RenewWithin
    BY <1>h, <1>t, <1>z DEF After, Past
  <2> QED BY <1>h, <2>1, <2>2, <2>3
<1>1. ASSUME NEW o \in Callers, Acquire(o) \/ Read(o) PROVE Good
  <2>1. UNCHANGED <<row, record, renewing, due>> /\ p \in Running
    BY <1>1, <1>t, <1>u DEF Acquire, Read, Refuse, Running
  <2> QED BY <1>0, <2>1
<1>2. ASSUME NEW o \in Callers, Create(o) PROVE Good
  <2>1. CASE ~Absent(row)
    <3>1. UNCHANGED <<row, record, renewing, due>> /\ p \in Running
      BY <1>2, <2>1, <1>t, <1>u DEF Create, Running
    <3> QED BY <1>0, <3>1
  <2>2. CASE Absent(row)
    <3>1. row' = CreateProcessing(o, OperationID[o], age[o]) /\ Hold(o, o) /\ Running = {}
      BY <1>2, <1>o, <2>2 DEF Create, Absent
    <3>2. row'.id = o /\ row'.lock = After(Lease, age[o])
      BY <3>1 DEF CreateProcessing
    <3> QED BY <1>h, <3>1, <3>2
  <2> QED BY <2>1, <2>2
<1>3. ASSUME NEW o \in Callers, Reclaim(o) PROVE Good
  <2>1. CASE ~CanReclaim(o)
    <3>1. UNCHANGED <<row, record, renewing, due>> /\ p \in Running
      BY <1>3, <2>1, <1>t, <1>u DEF Reclaim, Refuse, Running
    <3> QED BY <1>0, <3>1
  <2>2. CASE CanReclaim(o)
    <3>1. row' = TryReclaim(row, age[o]) /\ Hold(o, found[o].id) /\ row.id = found[o].id
      BY <1>3, <2>2 DEF Reclaim, CanReclaim, Reclaimable
    <3>2. Running = {}
      BY <1>o, <1>t, <1>z, <2>2 DEF CanReclaim, Reclaimable
    <3>3. row'.id = row.id /\ row'.lock = After(Lease, age[o]) /\ row.id \in Callers
      BY <1>t, <3>1, RowFields DEF SameStory, Rows
    <3> QED BY <1>h, <3>1, <3>2, <3>3
  <2> QED BY <2>1, <2>2
<1>4. ASSUME NEW o \in Callers, Renew(o) PROVE Good
  <2>1. p \in Running /\ record' = record
    BY <1>4 DEF Renew, Running
  <2>2. CASE ~CanExtend(o)
    <3>1. row' = row /\ renewing' = renewing \ {o} /\ due' = [due EXCEPT ![o] = 0]
      BY <1>4, <2>2 DEF Renew
    <3>2. o = p => OperationID[p] # row.fingerprint
      BY <1>i, <1>o, <2>1, <2>2 DEF CanExtend, Extendable
    <3> QED BY <1>i, <1>t, <1>u, <2>1, <3>1, <3>2
  <2>3. CASE CanExtend(o)
    <3>1. /\ row' = ExtendProcessingLock(row) /\ renewing' = renewing
          /\ due' = [due EXCEPT ![o] = RenewWithin]
      BY <1>4, <2>3 DEF Renew
    <3>2. row'.id = row.id /\ row'.fingerprint = row.fingerprint /\ row'.lock = Lease
      BY <1>t, <3>1, RowFields DEF SameStory
    <3>3. due'[p] <= RenewWithin
      BY <1>t, <1>u, <1>z, <3>1
    <3>4. due'[p] \in Int
      BY <1>t, <1>u, <1>z, <3>1
    <3> QED BY <1>i, <1>z, <2>1, <3>1, <3>2, <3>3, <3>4
  <2> QED BY <2>2, <2>3
<1>5. ASSUME NEW o \in Callers, Release(o) PROVE Good
  <2>1. o \in Running /\ p \in Running /\ p # o
    BY <1>5, <1>t, <1>u DEF Release, Stop, Running
  <2> QED BY <1>o, <2>1
<1>6. ASSUME NEW o \in Callers, Crash(o) PROVE Good
  <2>1. p \in Running /\ p # o
    BY <1>6, <1>t, <1>u DEF Crash, Running
  <2>2. row' = row /\ record' = record /\ renewing' = renewing \ {o} /\ due' = [due EXCEPT ![o] = 0]
    BY <1>6 DEF Crash
  <2> QED BY <1>0, <1>t, <1>u, <2>1, <2>2
<1>7. ASSUME NEW o \in Callers, AcquireError(o) \/ RenewError(o) \/ ReleaseError(o) PROVE Good
  BY <1>7, <1>w DEF AcquireError, RenewError, ReleaseError
<1>8. CASE Cleanup
  <2>1. p \in Running
    BY <1>8 DEF Cleanup, Running
  <2> QED BY <1>8, <1>o, <1>z, <2>1 DEF Cleanup, Deletable
<1>9. CASE Tick
  <2>1. p \in Running /\ UNCHANGED <<record, renewing>> /\ row' = Aged(row)
    BY <1>9 DEF Tick, Running
  <2>2. row'.id = row.id /\ row'.fingerprint = row.fingerprint /\ row'.lock = Earlier(row.lock)
    BY <1>t, <2>1, RowFields DEF SameStory
  <2>3. row'.lock = row.lock - 1
    BY <1>o, <1>z, <2>1, <2>2 DEF Earlier, Past
  <2>4. p \in renewing => due'[p] = due[p] - 1
    BY <1>9, <1>t, <1>u, <1>z DEF Tick
  <2> QED BY <1>i, <1>z, <2>1, <2>2, <2>3, <2>4
<1>10. CASE UNCHANGED vars
  <2>1. p \in Running
    BY <1>10 DEF vars, Running
  <2> QED BY <1>0, <1>10, <2>1 DEF vars
<1> QED BY <1>1, <1>2, <1>3, <1>4, <1>5, <1>6, <1>7, <1>8, <1>9, <1>10 DEF Next, Operation

\* The lock of a running operation first opens under one that took the row over
\* from another operation, or after a failed statement.
THEOREM CreatorLockIsKept == Spec => CreatorKeepsLock
<1>1. Init => RenewedInTime
  BY DEF Init, RenewedInTime, Running
<1>2. ASSUME LockInvariant, RenewedInTime, [Next]_vars, faults = 0, ~overrun, overrun'
      PROVE  \E o \in Running : OperationID[o] # row.fingerprint
  <2>1. Tick
    BY <1>2 DEF Next, Operation, Acquire, Create, Hold, Read, Refuse, Reclaim, AcquireError, Renew,
                RenewError, Release, ReleaseError, Stop, Crash, Cleanup, vars
  <2>2. Running # {} /\ row'.lock <= 0
    BY <1>2, <2>1, Zenon DEF Tick
  <2>3. row \in Rows /\ row.lock \in Int /\ Slack \in Nat /\ due \in [Callers -> 0..RenewWithin]
    BY StoreAssumption, <1>2 DEF LockInvariant, TypeOK, Rows, Times, Past
  <2>4. row'.lock = Earlier(row.lock)
    BY <2>1, <2>3, RowFields DEF Tick
  <2>5. \A o \in Running : OperationID[o] = row.fingerprint => 1 < row.lock
    BY <1>2, <2>1, <2>3, LockAssumption DEF RenewedInTime, Tick, Running
  <2>6. ~(1 < row.lock)
    BY <2>2, <2>3, <2>4 DEF Earlier, Past
  <2> QED BY <2>2, <2>5, <2>6
<1>3. LockInvariant /\ RenewedInTime /\ [Next]_vars
      => [faults = 0 /\ ~overrun /\ overrun' =>
            \E o \in Running : OperationID[o] # row.fingerprint]_vars
  BY <1>2
<1>4. Spec => []RenewedInTime
  BY <1>1, RenewalStep, LockInvariantHolds, PTL DEF Spec
<1> QED BY <1>3, <1>4, LockInvariantHolds, PTL DEF Spec, CreatorKeepsLock
=============================================================================

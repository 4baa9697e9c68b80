------------------------ MODULE SystemOperationLock ------------------------
(***************************************************************************)
(* The global lock of system operations (update, rollback, restart): a row *)
(* of the idempotency table that every operation claims, renews and marks. *)
(* Unlike an idempotent request, an operation takes over any row that is   *)
(* not locked, whatever its status and its fingerprint.                    *)
(***************************************************************************)
EXTENDS IdempotencyStore

CONSTANTS
  OperationID,  \* OperationID[o]: retries with one Idempotency-Key share it
  RenewWithin,  \* renewal interval (lease/3) plus its timeout
  MaxFaults     \* bound: failed statements in one behaviour

ASSUME LockAssumption ==
  /\ OperationID \in [Callers -> Payloads]
  /\ RenewWithin \in Nat /\ 0 < RenewWithin
  /\ Slack + RenewWithin < Lease  \* a claim and a renewal fit in the lease
  /\ MaxFaults \in Nat

VARIABLES
  row,       \* the row of the lock
  pc,        \* pc[o]: where operation o is
  age,       \* age[o]: ticks since o took its `now', while it claims
  found,     \* found[o]: ID and status of the row o read
  record,    \* record[o]: ID of the row o claimed
  renewing,  \* the operations whose renewLoop is running
  due,       \* due[o]: ticks until its next renewal must be over
  faults,    \* number of failed statements
  overrun    \* history: an operation was still running when its lease was over

vars == <<row, pc, age, found, record, renewing, due, faults, overrun>>

Fault == faults < MaxFaults /\ faults' = faults + 1
Claiming(o) == pc[o] \in {"creating", "reading", "reclaiming"}
Running == {o \in Callers : pc[o] = "running"}
----------------------------------------------------------------------------
\* Acquire: `now' is taken; what it computes from it is relative to it.
Acquire(o) ==
  /\ pc[o] = "idle"
  /\ pc' = [pc EXCEPT ![o] = "creating"]
  /\ age' = [age EXCEPT ![o] = 0]
  /\ UNCHANGED <<row, found, record, renewing, due, faults, overrun>>

\* The claim succeeded: renewLoop starts.
Hold(o, id) ==
  /\ pc' = [pc EXCEPT ![o] = "running"]
  /\ record' = [record EXCEPT ![o] = id]
  /\ renewing' = renewing \cup {o}
  /\ due' = [due EXCEPT ![o] = RenewWithin]
  /\ UNCHANGED <<age, found, faults, overrun>>
Refuse(o) ==
  /\ pc' = [pc EXCEPT ![o] = "refused"]
  /\ UNCHANGED <<age, found, record, renewing, due, overrun>>

Create(o) ==
  /\ pc[o] = "creating"
  /\ \/ /\ Absent(row)
        /\ row' = CreateProcessing(o, OperationID[o], age[o])
        /\ Hold(o, o)
     \/ /\ ~Absent(row)
        /\ pc' = [pc EXCEPT ![o] = "reading"]
        /\ UNCHANGED <<row, age, found, record, renewing, due, faults, overrun>>

\* GetByScopeAndKeyHash: refused if the row is gone, or processing and locked.
Busy(o) == row.status = "processing" /\ row.lock > -age[o]
Read(o) ==
  /\ pc[o] = "reading"
  /\ IF Absent(row) \/ Busy(o)
     THEN Refuse(o) /\ UNCHANGED faults
     ELSE /\ found' = [found EXCEPT ![o] = [id |-> row.id, status |-> row.status]]
          /\ pc' = [pc EXCEPT ![o] = "reclaiming"]
          /\ UNCHANGED <<age, record, renewing, due, faults, overrun>>
  /\ UNCHANGED row

\* TryReclaim, with the status that was read.
CanReclaimAnyway(o) == row.id = found[o].id /\ row.status = found[o].status
CanReclaim(o) == Reclaimable(row, found[o].id, found[o].status, age[o])
Reclaim(o) ==
  /\ pc[o] = "reclaiming"
  /\ \/ /\ CanReclaim(o)
        /\ row' = TryReclaim(row, age[o])
        /\ Hold(o, found[o].id)
     \/ /\ ~CanReclaim(o)
        /\ Refuse(o) /\ UNCHANGED <<row, faults>>

\* A statement of Acquire fails, executed or not.
AcquireError(o) ==
  /\ Claiming(o) /\ Fault
  /\ row' \in {row}
       \cup (IF pc[o] = "creating" /\ Absent(row)
             THEN {CreateProcessing(o, OperationID[o], age[o])} ELSE {})
       \cup (IF pc[o] = "reclaiming" /\ CanReclaim(o) THEN {TryReclaim(row, age[o])} ELSE {})
  /\ Refuse(o)

\* renewLoop: extended, or stopped when the row is not processing with the
\* operation's own ID, or failed and tried again.
CanExtend(o) == Extendable(row, record[o], OperationID[o])
RenewOnce(o) ==
  /\ o \in renewing
  /\ row' = IF CanExtend(o) THEN ExtendProcessingLock(row) ELSE row
  /\ renewing' = renewing \ {o}
  /\ due' = [due EXCEPT ![o] = 0]
  /\ UNCHANGED <<pc, age, found, record, faults, overrun>>
Renew(o) ==
  /\ o \in renewing
  /\ row' = IF CanExtend(o) THEN ExtendProcessingLock(row) ELSE row
  /\ renewing' = IF CanExtend(o) THEN renewing ELSE renewing \ {o}
  /\ due' = [due EXCEPT ![o] = IF CanExtend(o) THEN RenewWithin ELSE 0]
  /\ UNCHANGED <<pc, age, found, record, faults, overrun>>
RenewError(o) ==
  /\ o \in renewing /\ Fault
  /\ row' \in {row} \cup (IF CanExtend(o) THEN {ExtendProcessingLock(row)} ELSE {})
  /\ due' = [due EXCEPT ![o] = RenewWithin]
  /\ UNCHANGED <<pc, age, found, record, renewing, overrun>>

\* Release: renewLoop is stopped and the row is marked by its ID, succeeded or
\* failed and not locked.
Marked(o) ==
  IF Marks(row, record[o])
  THEN {MarkSucceeded(row, o, "stored", TTL), MarkFailedRetryable(row, 0, TTL)}
  ELSE {row}
StopKeepsRenewing(o) ==
  /\ pc[o] = "running"
  /\ pc' = [pc EXCEPT ![o] = "over"]
  /\ UNCHANGED <<age, found, record, renewing, due, overrun>>
Stop(o) ==
  /\ pc[o] = "running"
  /\ pc' = [pc EXCEPT ![o] = "over"]
  /\ renewing' = renewing \ {o}
  /\ due' = [due EXCEPT ![o] = 0]
  /\ UNCHANGED <<age, found, record, overrun>>
Release(o) == Stop(o) /\ row' \in Marked(o) /\ UNCHANGED faults
\* Its failure, executed or not, is ignored.
ReleaseError(o) == Stop(o) /\ Fault /\ row' \in Marked(o) \cup {row}

\* The process dies, or is restarted by the operation itself.
Crash(o) ==
  /\ Claiming(o) \/ pc[o] = "running"
  /\ pc' = [pc EXCEPT ![o] = "crashed"]
  /\ renewing' = renewing \ {o}
  /\ due' = [due EXCEPT ![o] = 0]
  /\ UNCHANGED <<row, age, found, record, faults, overrun>>

\* cleanupOnce
Cleanup ==
  /\ Deletable(row)
  /\ row' = DeleteExpired(row)
  /\ UNCHANGED <<pc, age, found, record, renewing, due, faults, overrun>>

\* Time passes while there is a row or a claim.  A claim takes at most Slack,
\* a renewal is not late.
Tick ==
  /\ ~Absent(row) \/ \E o \in Callers : Claiming(o)
  /\ \A o \in Callers : (Claiming(o) => age[o] < Slack) /\ (o \in renewing => due[o] > 0)
  /\ row' = Aged(row)
  /\ age' = [o \in Callers |-> IF Claiming(o) THEN age[o] + 1 ELSE 0]
  /\ due' = [o \in Callers |-> IF due[o] > 0 THEN due[o] - 1 ELSE 0]
  /\ overrun' = (overrun \/ (Running # {} /\ row'.lock <= 0))
  /\ UNCHANGED <<pc, found, record, renewing, faults>>
----------------------------------------------------------------------------
Init ==
  /\ row = NoRow
  /\ pc = [o \in Callers |-> "idle"]
  /\ age = [o \in Callers |-> 0]
  /\ found = [o \in Callers |-> [id |-> o, status |-> "absent"]]
  /\ record = [o \in Callers |-> o]
  /\ renewing = {} /\ due = [o \in Callers |-> 0]
  /\ faults = 0 /\ overrun = FALSE

Operation(o) ==
  \/ Acquire(o) \/ Create(o) \/ Read(o) \/ Reclaim(o) \/ AcquireError(o)
  \/ Renew(o) \/ RenewError(o) \/ Release(o) \/ ReleaseError(o) \/ Crash(o)
Next == Tick \/ Cleanup \/ \E o \in Callers : Operation(o)
Spec == Init /\ [][Next]_vars

\* Statements return, tickers fire and the cleanup runs; an operation need not end.
Fairness ==
  /\ WF_vars(Tick) /\ WF_vars(Cleanup)
  /\ \A o \in Callers :
       /\ WF_vars(Create(o) \/ Read(o) \/ Reclaim(o) \/ AcquireError(o))
       /\ WF_vars(Renew(o) \/ RenewError(o))
FairSpec == Spec /\ Fairness
----------------------------------------------------------------------------
\* Type correctness.
TypeOK ==
  /\ row \in Rows
  /\ pc \in [Callers -> {"idle", "creating", "reading", "reclaiming", "refused",
                         "running", "over", "crashed"}]
  /\ age \in [Callers -> 0..Slack]
  /\ found \in [Callers -> [id : Callers, status : Statuses \cup {"absent"}]]
  /\ record \in [Callers -> Callers]
  /\ renewing \subseteq Callers /\ due \in [Callers -> 0..RenewWithin]
  /\ faults \in 0..MaxFaults /\ overrun \in BOOLEAN

\* "another system operation is in progress" (ErrSystemOperationBusy): two
\* operations run side by side only after one of them outlived its lease.
OneOperationAtATime == ~overrun => \A o, p \in Running : o = p

\* While the store answers, renewLoop keeps the lock of a running operation
\* whose own ID is in the row: the lock first opens under an operation that took
\* the row over from another one.
CreatorKeepsLock ==
  [][faults = 0 /\ ~overrun /\ overrun' =>
       \E o \in Running : OperationID[o] # row.fingerprint]_vars

\* "expired lease should allow a new operation to reclaim lock"
\* (TestSystemOperationLockService_RecoverAfterLeaseExpired): a lock that
\* nobody runs under, left by a crash or a lost answer, opens by itself.
LockOpens ==
  (Running = {}) ~> (Running # {} \/ row.status # "processing" \/ row.lock <= 0)

\* "locked_until should be renewed while lock is held"
\* (TestSystemOperationLockService_RenewLease): the lock of a running operation
\* is never open.
RenewedWhileHeld == Running # {} => row.lock > 0
----------------------------------------------------------------------------
(* The parts of the inductive invariant.                                   *)

\* As long as no lease was outlived, a running operation is behind a lock ...
RunningIsLocked == ~overrun /\ Running # {} => row.status = "processing" /\ row.lock > 0
\* ... and the row is not deleted before the lock opens.
RowOutlivesLock == row.lock <= row.expires
LockInvariant == TypeOK /\ RunningIsLocked /\ RowOutlivesLock /\ OneOperationAtATime
\* While the store answers, a running operation owns the row, and one whose ID is
\* in the row is renewed before the lock opens.
RenewedInTime ==
  faults = 0 /\ ~overrun => \A o \in Running :
    /\ record[o] = row.id
    /\ OperationID[o] = row.fingerprint => o \in renewing /\ due[o] < row.lock
=============================================================================

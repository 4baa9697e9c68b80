-------------------------- MODULE ConcurrencyLease --------------------------
(***************************************************************************)
(* Execution slots of the gateway.  Every request that may call upstream   *)
(* owns a member of a Redis sorted set shared by all gateway instances     *)
(* (one set per user and one per account); the member's age is bounded by  *)
(* SlotTTL and a per-request goroutine renews it.  Each instance remembers *)
(* in memory the owners it may still have to remove (ownerRecovery).       *)
(*                                                                         *)
(* Time is a countdown: slot[r] is the number of ticks before the member   *)
(* of r is older than SlotTTL (0: absent or expired; every script purges   *)
(* expired members before it looks at the set, so the two are the same to  *)
(* every reader).  left[r] is the same for the record of a failed release, *)
(* due[r] the time the command or the renewal under way may still take.    *)
(***************************************************************************)
EXTENDS Naturals, FiniteSets

CONSTANTS
  Instances,      \* gateway processes
  Requests,       \* request IDs, unique over all instances (generateRequestID)
  Pools,          \* the sorted sets: one per user, one per account
  UserPools,      \* the pools whose scope is "user"
  Home,           \* Home[r]: the instance that serves r
  Pool,           \* Pool[r]: the pool r asks for a slot
  Limits,         \* configured limits; 0 is "unlimited"
  SlotTTL,        \* ConcurrencySlotTTL, in ticks
  OpTimeout,      \* regularLeaseOperationTimeout
  RefreshWithin,  \* refresh interval plus refresh timeout
  OwnerCapacity,  \* concurrencyOwnerRecoveryCapacity
  RecoveryBatch,  \* concurrencyOwnerRecoveryBatch
  MaxFaults       \* bound: crashes and failed Redis commands in one behaviour

ASSUME SetsAssumption ==
  /\ IsFiniteSet(Instances) /\ IsFiniteSet(Requests)
  /\ Instances \cap Requests = {}
  /\ UserPools \subseteq Pools
  /\ Home \in [Requests -> Instances]
  /\ Pool \in [Requests -> Pools]
ASSUME NumbersAssumption ==
  /\ Limits \subseteq Nat
  /\ SlotTTL \in Nat /\ OpTimeout \in Nat /\ RefreshWithin \in Nat
  /\ OwnerCapacity \in Nat /\ RecoveryBatch \in Nat /\ MaxFaults \in Nat
\* The interval is min(ttl/3, 10s), the refresh timeout min(2s, ttl/6), the
\* acquire timeout 2s and the shortest configurable TTL one minute.
ASSUME RenewalAssumption == OpTimeout + RefreshWithin < SlotTTL

VARIABLES
  up,        \* up[i]: instance i is running
  faults,    \* number of crashes and failed commands so far
  limit,     \* limit[p]: the configured limit of user p
  slot,      \* slot[r]: ticks until r's member expires, 0 if it has none
  phase,     \* phase[r]: where r is in acquireRequestSlot and after it
  seen,      \* seen[r]: the limit r was resolved with
  reply,     \* reply[r]: the answer of the acquire script, on its way to r
  due,       \* due[r]: ticks the pending acquire or the next renewal may take
  owners,    \* ownerRecovery.owners, of all instances
  pending,   \* ownerRecovery.pending
  busy,      \* the owners whose state has busy = true
  left,      \* left[r]: ticks until expiresAt of r's pending record
  claimed,   \* claimed[a]: the owners that a (an admission or a cleanup worker) retries
  failed,    \* failed[r]: the "failed" flag of r's recoverConcurrencyOwners
  late,      \* late[r]: r's commands that Redis may still execute though the client gave up
  stray      \* history: requests whose slot was written by a late command

ownerVars == <<owners, pending, busy, left>>
redisVars == <<slot, late, stray>>
envVars == <<up, limit, faults>>
callVars == <<seen, reply, due, failed, claimed>>
vars == <<envVars, redisVars, ownerVars, callVars, phase>>

Commands == {"acquire", "refresh", "release"}
Phases == {"idle", "resolved", "recovering", "recovered", "acquiring",
           "running", "unmetered", "closing", "rejected", "done", "crashed"}
Terminal == {"rejected", "done", "crashed"}
Actors == Requests \cup Instances

\* A Redis command fails, or a process dies.
Fault == faults < MaxFaults /\ faults' = faults + 1

Group(p) == {r \in Requests : Pool[r] = p}
Of(i) == {r \in Requests : Home[r] = i}
Occupants(p) == {r \in Group(p) : slot[r] > 0}
Executing(p) ==
  {r \in Group(p) : phase[r] = "running" \/ (phase[r] = "unmetered" /\ p \in UserPools)}
----------------------------------------------------------------------------
(* The Redis scripts, as functions of the slots.                           *)

\* acquireScript: an existing member is re-scored, a new one is added while
\* the set is below the limit; a user without limit is counted all the same.
AdmitsOneTooMany(r, s) ==
  \/ slot[r] > 0
  \/ s = 0 /\ Pool[r] \in UserPools
  \/ Cardinality(Occupants(Pool[r])) <= s
Admits(r, s) ==
  \/ slot[r] > 0
  \/ s = 0 /\ Pool[r] \in UserPools
  \/ Cardinality(Occupants(Pool[r])) < s
AfterAcquire(r) ==
  IF Admits(r, seen[r]) THEN [slot EXCEPT ![r] = SlotTTL] ELSE slot

\* refreshRegularLeaseScript: renews an unexpired member, never recreates one.
RefreshRecreates(r) == [slot EXCEPT ![r] = SlotTTL]
AfterRefresh(r) ==
  IF slot[r] > 0 THEN [slot EXCEPT ![r] = SlotTTL] ELSE slot

\* ReleaseUserSlot / ReleaseAccountSlot: ZREM of exactly this member.
AfterRelease(r) == [slot EXCEPT ![r] = 0]
----------------------------------------------------------------------------
(* ownerRecovery, each operation under its mutex.                          *)

\* forgetLocked, for every owner of S
ForgetReservationOnly(S) ==
  /\ owners' = owners \ S
  /\ UNCHANGED <<pending, busy, left>>
Forget(S) ==
  /\ owners' = owners \ S
  /\ pending' = pending \ S
  /\ busy' = busy \ S
  /\ left' = [r \in Requests |-> IF r \in S THEN 0 ELSE left[r]]

\* markConcurrencyOwnerPending: no effect without a reservation
MarkPendingTooShort(r) ==
  /\ pending' = pending \cup {r}
  /\ left' = [left EXCEPT ![r] = RefreshWithin]
  /\ UNCHANGED <<owners, busy>>
MarkPending(r) ==
  IF r \in owners
  THEN /\ pending' = pending \cup {r}
       /\ left' = [left EXCEPT ![r] = SlotTTL]
       /\ UNCHANGED <<owners, busy>>
  ELSE UNCHANGED ownerVars

Expired(S) == {o \in S : left[o] = 0}

\* pendingConcurrencyOwners over the pending records in S: expired ones are
\* forgotten, at most RecoveryBatch idle ones become busy and are returned as C.
Claimable(S) == (S \ Expired(S)) \ busy
ClaimSets(S) ==
  {C \in SUBSET Claimable(S) :
     IF Cardinality(Claimable(S)) <= RecoveryBatch
     THEN C = Claimable(S) ELSE Cardinality(C) = RecoveryBatch}
Blocked(S, C) == (S \ Expired(S)) # C
ClaimKeepsExpired(S, C) ==
  /\ busy' = busy \cup C
  /\ UNCHANGED <<owners, pending, left>>
Claim(S, C) ==
  /\ owners' = owners \ Expired(S)
  /\ pending' = pending \ Expired(S)
  /\ busy' = (busy \ Expired(S)) \cup C
  /\ UNCHANGED left

\* One retried release of owner o: confirmed, or failed with the command
\* executed (reply lost) or not executed yet; finishConcurrencyOwnerRecovery.
RetrySucceeds(o) ==
  /\ slot' = AfterRelease(o)
  /\ Forget({o})
  /\ UNCHANGED <<late, faults>>
RetryFailureForgets(o) ==
  /\ Fault
  /\ UNCHANGED slot /\ late' = [late EXCEPT ![o] = @ \cup {"release"}]
  /\ Forget({o})
RetryFailureStaysBusy(o) ==
  /\ Fault
  /\ UNCHANGED slot /\ late' = [late EXCEPT ![o] = @ \cup {"release"}]
  /\ UNCHANGED ownerVars
RetryFails(o) ==
  /\ Fault
  /\ \/ slot' = AfterRelease(o) /\ UNCHANGED late
     \/ UNCHANGED slot /\ late' = [late EXCEPT ![o] = @ \cup {"release"}]
  /\ busy' = busy \ {o}
  /\ UNCHANGED <<owners, pending, left>>
----------------------------------------------------------------------------
(* acquireRequestSlot, the admission of r.                                 *)

\* The limit is resolved: for a user from the database, for an account it is
\* the one of the caller's account snapshot, which may be stale.  An account
\* without limit is admitted without a slot.
ResolveSkipsUnlimited(r) ==
  /\ phase[r] = "idle" /\ up[Home[r]]
  /\ \E l \in Limits :
       /\ Pool[r] \in UserPools => l = limit[Pool[r]]
       /\ seen' = [seen EXCEPT ![r] = l]
       /\ phase' = [phase EXCEPT ![r] = IF l = 0 THEN "unmetered" ELSE "resolved"]
  /\ UNCHANGED <<envVars, redisVars, ownerVars, reply, due, failed, claimed>>
ResolveLimit(r) ==
  /\ phase[r] = "idle" /\ up[Home[r]]
  /\ \E l \in Limits :
       /\ Pool[r] \in UserPools => l = limit[Pool[r]]
       /\ seen' = [seen EXCEPT ![r] = l]
       /\ phase' = [phase EXCEPT ![r] =
            IF Pool[r] \notin UserPools /\ l = 0 THEN "unmetered" ELSE "resolved"]
  /\ UNCHANGED <<envVars, redisVars, ownerVars, reply, due, failed, claimed>>

\* The request context is already cancelled, or the user cannot be read.
RejectEarly(r) ==
  /\ phase[r] = "idle" /\ up[Home[r]]
  /\ phase' = [phase EXCEPT ![r] = "rejected"]
  /\ UNCHANGED <<envVars, redisVars, ownerVars, callVars>>

\* recoverConcurrencyOwners, first half: claim this pool's pending releases.
ClaimGroup(r) ==
  LET S == {o \in pending : Home[o] = Home[r] /\ Pool[o] = Pool[r]}
  IN /\ phase[r] = "resolved"
     /\ \E C \in ClaimSets(S) :
          /\ Claim(S, C)
          /\ claimed' = [claimed EXCEPT ![r] = C]
          /\ failed' = [failed EXCEPT ![r] = C # {} /\ Blocked(S, C)]
          /\ phase' = [phase EXCEPT ![r] =
               IF C # {} THEN "recovering"
               ELSE IF Blocked(S, C) THEN "rejected" ELSE "recovered"]
     /\ UNCHANGED <<envVars, redisVars, seen, reply, due>>

\* recoverConcurrencyOwners, the loop: one claimed owner.  The admission goes
\* on only if every release of the pool is confirmed.
RecoverOne(r) ==
  /\ phase[r] = "recovering"
  /\ \E o \in claimed[r], ok \in BOOLEAN :
       /\ IF ok THEN RetrySucceeds(o) ELSE RetryFails(o)
       /\ claimed' = [claimed EXCEPT ![r] = @ \ {o}]
       /\ failed' = [failed EXCEPT ![r] = claimed[r] # {o} /\ (@ \/ ~ok)]
       /\ phase' = [phase EXCEPT ![r] =
            IF claimed[r] # {o} THEN @
            ELSE IF failed[r] \/ ~ok THEN "rejected" ELSE "recovered"]
  /\ UNCHANGED <<up, limit, stray, seen, reply, due>>

\* The table of r's instance has no room for another owner.
TableFullTooLate(S) == Cardinality(S) > OwnerCapacity
TableFull(S) == Cardinality(S) >= OwnerCapacity

\* reserveConcurrencyOwner, then the acquire command is sent.  A full table
\* gives up only expired pending records that nobody is retrying.
Reserve(r) ==
  LET own == owners \cap Of(Home[r])
      gone == IF TableFull(own)
              THEN Expired(pending \cap Of(Home[r])) \ busy ELSE {}
  IN /\ phase[r] = "recovered"
     /\ pending' = pending \ gone
     /\ IF TableFull(own \ gone)
        THEN /\ owners' = owners \ gone
             /\ phase' = [phase EXCEPT ![r] = "rejected"]
             /\ UNCHANGED due
        ELSE /\ owners' = (owners \ gone) \cup {r}
             /\ phase' = [phase EXCEPT ![r] = "acquiring"]
             /\ due' = [due EXCEPT ![r] = OpTimeout]
     /\ UNCHANGED <<envVars, redisVars, busy, left, seen, reply, failed, claimed>>

\* Redis executes the acquire script of r.
ExecAcquire(r) ==
  /\ phase[r] = "acquiring" /\ reply[r] = "none"
  /\ slot' = AfterAcquire(r)
  /\ reply' = [reply EXCEPT ![r] = IF Admits(r, seen[r]) THEN "yes" ELSE "no"]
  /\ UNCHANGED <<envVars, late, stray, ownerVars, seen, due, failed, claimed, phase>>

\* The Redis client re-sends a command it got no answer to; the first copy may
\* still reach Redis.
ResendAcquire(r) ==
  /\ phase[r] = "acquiring" /\ reply[r] = "none" /\ Fault
  /\ late' = [late EXCEPT ![r] = @ \cup {"acquire"}]
  /\ UNCHANGED <<up, limit, slot, stray, ownerVars, callVars, phase>>

\* The reply arrives in time: run with a renewer, or give the reservation back.
ReplyAcquire(r) ==
  /\ phase[r] = "acquiring" /\ reply[r] # "none"
  /\ reply' = [reply EXCEPT ![r] = "none"]
  /\ IF reply[r] = "yes"
     THEN /\ phase' = [phase EXCEPT ![r] = "running"]
          /\ due' = [due EXCEPT ![r] = RefreshWithin]
          /\ UNCHANGED ownerVars
     ELSE /\ phase' = [phase EXCEPT ![r] = "rejected"]
          /\ due' = [due EXCEPT ![r] = 0]
          /\ Forget({r})
  /\ UNCHANGED <<envVars, redisVars, seen, failed, claimed>>

\* r waits for no reply and no renewal any more.
Close(r) ==
  /\ phase' = [phase EXCEPT ![r] = "closing"]
  /\ reply' = [reply EXCEPT ![r] = "none"]
  /\ due' = [due EXCEPT ![r] = 0]

\* The acquire command times out or is cancelled; it may have been executed,
\* and if not it may still be.
AcquireErrorForgets(r) ==
  /\ phase[r] = "acquiring" /\ Fault
  /\ phase' = [phase EXCEPT ![r] = "rejected"]
  /\ reply' = [reply EXCEPT ![r] = "none"]
  /\ due' = [due EXCEPT ![r] = 0]
  /\ Forget({r})
  /\ UNCHANGED <<up, limit, redisVars, seen, failed, claimed>>
AcquireError(r) ==
  /\ phase[r] = "acquiring" /\ Fault
  /\ Close(r)
  /\ late' = [late EXCEPT ![r] = IF reply[r] = "none" THEN @ \cup {"acquire"} ELSE @]
  /\ UNCHANGED <<up, limit, slot, stray, ownerVars, seen, failed, claimed>>
----------------------------------------------------------------------------
(* refreshRequestLease and the end of the execution.                       *)

\* A renewal: confirmed, or the owner is gone and the execution is cancelled.
RefreshOutlivesExecution(r) ==
  /\ phase[r] \in {"running", "done"} /\ slot[r] > 0
  /\ slot' = AfterRefresh(r)
  /\ due' = [due EXCEPT ![r] = IF phase[r] = "running" THEN RefreshWithin ELSE 0]
  /\ UNCHANGED <<envVars, late, stray, ownerVars, seen, reply, failed, claimed, phase>>
Refresh(r) ==
  /\ phase[r] = "running"
  /\ slot' = AfterRefresh(r)
  /\ IF slot[r] > 0
     THEN due' = [due EXCEPT ![r] = RefreshWithin] /\ UNCHANGED <<phase, reply>>
     ELSE Close(r)
  /\ UNCHANGED <<envVars, late, stray, ownerVars, seen, failed, claimed>>

\* A renewal that is not confirmed cancels the execution (ErrConcurrencyLeaseLost).
RefreshErrorTolerated(r) ==
  /\ phase[r] = "running" /\ Fault
  /\ due' = [due EXCEPT ![r] = RefreshWithin]
  /\ UNCHANGED <<up, limit, redisVars, ownerVars, seen, reply, failed, claimed, phase>>
RefreshError(r) ==
  /\ phase[r] = "running" /\ Fault
  /\ \/ slot' = AfterRefresh(r) /\ UNCHANGED late
     \/ UNCHANGED slot /\ late' = [late EXCEPT ![r] = @ \cup {"refresh"}]
  /\ Close(r)
  /\ UNCHANGED <<up, limit, stray, ownerVars, seen, failed, claimed>>

\* The execution ends and its ReleaseFunc stops the renewer.
Finish(r) ==
  \/ /\ phase[r] = "running"
     /\ Close(r)
     /\ UNCHANGED <<envVars, redisVars, ownerVars, seen, failed, claimed>>
  \/ /\ phase[r] = "unmetered"
     /\ phase' = [phase EXCEPT ![r] = "done"]
     /\ UNCHANGED <<envVars, redisVars, ownerVars, callVars>>

\* reclaimConcurrencyOwner: the release is confirmed ...
Reclaim(r) ==
  /\ phase[r] = "closing"
  /\ phase' = [phase EXCEPT ![r] = "done"]
  /\ slot' = AfterRelease(r)
  /\ Forget({r})
  /\ UNCHANGED <<envVars, late, stray, callVars>>

\* ... or fails, executed or not, and the record is kept for a retry.
ReclaimError(r) ==
  /\ phase[r] = "closing" /\ Fault
  /\ phase' = [phase EXCEPT ![r] = "done"]
  /\ \/ slot' = AfterRelease(r) /\ UNCHANGED late
     \/ UNCHANGED slot /\ late' = [late EXCEPT ![r] = @ \cup {"release"}]
  /\ MarkPending(r)
  /\ UNCHANGED <<up, limit, stray, callVars>>
----------------------------------------------------------------------------
(* The cleanup worker of an instance (recoverPendingConcurrencyOwners).    *)

CleanerClaim(i) ==
  /\ up[i] /\ claimed[i] = {}
  /\ \E C \in ClaimSets(pending \cap Of(i)) :
       /\ Claim(pending \cap Of(i), C)
       /\ claimed' = [claimed EXCEPT ![i] = C]
  /\ UNCHANGED <<envVars, redisVars, seen, reply, due, failed, phase>>

CleanerRecover(i) ==
  /\ \E o \in claimed[i] :
       /\ RetrySucceeds(o) \/ RetryFails(o)
       /\ claimed' = [claimed EXCEPT ![i] = @ \ {o}]
  /\ UNCHANGED <<up, limit, stray, seen, reply, due, failed, phase>>
----------------------------------------------------------------------------
(* The environment.                                                        *)

\* A process dies: its memory and its requests are gone, Redis keeps the slots.
Crash(i) ==
  /\ up[i] /\ Fault
  /\ up' = [up EXCEPT ![i] = FALSE]
  /\ phase' = [r \in Requests |->
       IF r \in Of(i) /\ phase[r] \notin {"idle", "rejected"} THEN "crashed" ELSE phase[r]]
  /\ late' = [r \in Requests |->
       IF r \in Of(i) /\ phase[r] = "acquiring" /\ reply[r] = "none"
       THEN late[r] \cup {"acquire"} ELSE late[r]]
  /\ claimed' = [a \in Actors |-> IF a = i \/ a \in Of(i) THEN {} ELSE claimed[a]]
  /\ reply' = [r \in Requests |-> IF r \in Of(i) THEN "none" ELSE reply[r]]
  /\ due' = [r \in Requests |-> IF r \in Of(i) THEN 0 ELSE due[r]]
  /\ failed' = [r \in Requests |-> IF r \in Of(i) THEN FALSE ELSE failed[r]]
  /\ Forget(Of(i))
  /\ UNCHANGED <<limit, slot, stray, seen>>

\* CleanupStaleProcessSlots on startup reaps expired members only: the slots
\* of other instances, and of this one's former life, are left alone.
Restart(i) ==
  /\ ~up[i]
  /\ up' = [up EXCEPT ![i] = TRUE]
  /\ UNCHANGED <<faults, limit, redisVars, ownerVars, callVars, phase>>

\* Nothing that will run later for r removes its slot, except a retry.
Concluded(r) == phase[r] \in Terminal \/ reply[r] = "no"

\* Redis executes a command whose client has given up.
DeliverLate(r, c) ==
  /\ c \in late[r]
  /\ late' = [late EXCEPT ![r] = @ \ {c}]
  /\ slot' = CASE c = "acquire" -> AfterAcquire(r)
               [] c = "refresh" -> AfterRefresh(r)
               [] c = "release" -> AfterRelease(r)
  /\ stray' = IF c # "release" /\ Concluded(r) /\ slot'[r] > 0
              THEN stray \cup {r} ELSE stray
  /\ UNCHANGED <<envVars, ownerVars, callVars, phase>>

\* It is lost on the way instead.
DropLate(r, c) ==
  /\ c \in late[r]
  /\ late' = [late EXCEPT ![r] = @ \ {c}]
  /\ UNCHANGED <<envVars, slot, stray, ownerVars, callVars, phase>>

\* An administrator edits the limit of a user.
SetLimit(p) ==
  /\ \E l \in Limits \ {limit[p]} : limit' = [limit EXCEPT ![p] = l]
  /\ UNCHANGED <<up, faults, redisVars, ownerVars, callVars, phase>>

\* Commands and renewals end within their timeouts.
OnTime(r) == phase[r] \in {"acquiring", "running"} => due[r] > 0
Less(n) == IF n > 0 THEN n - 1 ELSE 0
Tick ==
  /\ \A r \in Requests : OnTime(r)
  /\ \E r \in Requests : slot[r] > 0 \/ left[r] > 0 \/ due[r] > 0
  /\ slot' = [r \in Requests |-> Less(slot[r])]
  /\ left' = [r \in Requests |-> Less(left[r])]
  /\ due' = [r \in Requests |-> Less(due[r])]
  /\ UNCHANGED <<envVars, late, stray, owners, pending, busy, seen, reply,
                 failed, claimed, phase>>
----------------------------------------------------------------------------
Init ==
  /\ up = [i \in Instances |-> TRUE]
  /\ faults = 0
  /\ limit \in [UserPools -> Limits]
  /\ slot = [r \in Requests |-> 0]
  /\ phase = [r \in Requests |-> "idle"]
  /\ seen \in {[r \in Requests |-> l] : l \in Limits}
  /\ reply = [r \in Requests |-> "none"]
  /\ due = [r \in Requests |-> 0]
  /\ owners = {} /\ pending = {} /\ busy = {}
  /\ left = [r \in Requests |-> 0]
  /\ claimed = [a \in Actors |-> {}]
  /\ failed = [r \in Requests |-> FALSE]
  /\ late = [r \in Requests |-> {}]
  /\ stray = {}

Admission(r) ==
  \/ ResolveLimit(r) \/ RejectEarly(r) \/ ClaimGroup(r) \/ RecoverOne(r)
  \/ Reserve(r) \/ ExecAcquire(r) \/ ResendAcquire(r) \/ ReplyAcquire(r)
  \/ AcquireError(r)
Execution(r) ==
  \/ Refresh(r) \/ RefreshError(r) \/ Finish(r) \/ Reclaim(r) \/ ReclaimError(r)
Cleaner(i) == CleanerClaim(i) \/ CleanerRecover(i)
Network == \E r \in Requests, c \in Commands : DeliverLate(r, c) \/ DropLate(r, c)

Next ==
  \/ \E r \in Requests : Admission(r) \/ Execution(r)
  \/ \E i \in Instances : Cleaner(i) \/ Crash(i) \/ Restart(i)
  \/ \E p \in UserPools : SetLimit(p)
  \/ Network
  \/ Tick

Spec == Init /\ [][Next]_vars

\* Goroutines, timers and Redis make progress; requests need not arrive and
\* executions need not end.  The late commands are executed or lost.
Fairness ==
  /\ \A r \in Requests :
       /\ WF_vars(ClaimGroup(r)) /\ WF_vars(RecoverOne(r)) /\ WF_vars(Reserve(r))
       /\ WF_vars(ExecAcquire(r) \/ ReplyAcquire(r) \/ AcquireError(r))
       /\ WF_vars(Refresh(r) \/ RefreshError(r))
       /\ WF_vars(Reclaim(r) \/ ReclaimError(r))
       /\ \A c \in Commands : WF_vars(DeliverLate(r, c) \/ DropLate(r, c))
  /\ \A i \in Instances :
       WF_vars(CleanerClaim(i)) /\ WF_vars(CleanerRecover(i)) /\ WF_vars(Restart(i))
  /\ WF_vars(Tick)
FairSpec == Spec /\ Fairness
----------------------------------------------------------------------------
(* Properties.                                                             *)

\* Type correctness of the slots, the recovery table and the call state.
TypeOK ==
  /\ up \in [Instances -> BOOLEAN] /\ faults \in 0..MaxFaults
  /\ limit \in [UserPools -> Limits] /\ seen \in [Requests -> Limits]
  /\ slot \in [Requests -> 0..SlotTTL] /\ left \in [Requests -> 0..SlotTTL]
  /\ due \in [Requests -> 0..SlotTTL]
  /\ phase \in [Requests -> Phases]
  /\ reply \in [Requests -> {"none", "yes", "no"}]
  /\ owners \subseteq Requests /\ pending \subseteq owners /\ busy \subseteq pending
  /\ claimed \in [Actors -> SUBSET Requests]
  /\ failed \in [Requests -> BOOLEAN]
  /\ late \in [Requests -> SUBSET Commands]
  /\ stray \subseteq Requests

\* A request may call upstream only while its unexpired member is in the user
\* pool, whatever else is released, recovered, restarted or delivered late:
\* neither a user without limit nor a renewal on its way is an exception.
ExecutionHoldsSlot == \A p \in Pools : Executing(p) \subseteq Occupants(p)

\* Over all instances, no more requests of a pool execute at once than the
\* largest limit configured for it allows (when no configured limit is 0).
ExecutionsWithinLimit ==
  0 \notin Limits =>
    \A p \in Pools : \E l \in Limits :
      Cardinality(Executing(p)) <= l

\* A limit counts the work that was accepted before it was lowered: a request
\* resolved with limit n > 0 enters the pool only while fewer than n requests
\* execute there, those admitted when the user was still unlimited included.
LoweredLimitSeesEarlierWork ==
  [][\A r \in Requests : slot[r] = 0 /\ slot'[r] > 0 /\ seen[r] > 0
       => Cardinality(Executing(Pool[r])) < seen[r]]_vars

\* Every member an instance has written is accounted for by a recovery record
\* of that instance until it is gone: none is leaked by a lost reply, a failed
\* release, a failed retry or a full table.  Only a crash and a command Redis
\* executes after its client gave up leave a member that nobody will remove.
SlotsAreRecorded ==
  \A r \in Requests :
    slot[r] > 0 /\ r \notin stray => r \in owners \/ phase[r] = "crashed"

\* A pending record is dropped as expired only when the member it stands for
\* has expired too ("conservative relative to its last Redis write").
RecordOutlivesSlot ==
  \A r \in pending : r \notin stray => slot[r] <= left[r]

\* A busy record has exactly one actor retrying it: a failed retry never
\* leaves a record that blocks its pool though nobody works on it.
BusyHasOneWorker ==
  /\ \A o \in busy : \E a \in Actors : o \in claimed[a]
  /\ \A a, b \in Actors : a # b => claimed[a] \cap claimed[b] = {}

\* No instance remembers more owners than its table has room for.
OwnersWithinCapacity ==
  \A i \in Instances : Cardinality(owners \cap Of(i)) <= OwnerCapacity

\* A lost or released owner is not recreated by a renewal or a retry: a member
\* appears only by an acquire script, and no executing request gets a new one.
NoResurrection ==
  [][\A r \in Requests : slot[r] = 0 /\ slot'[r] > 0
       => "acquire" \in late[r] \/ phase[r] = "acquiring"]_vars

\* The slot of a request that ended, in whatever way, is eventually free for good.
EndedSlotsVanish ==
  \A r \in Requests : phase[r] \in Terminal ~> [](slot[r] = 0)

\* The recovery table does not fill up with finished requests for ever.
RecordsDrain ==
  \A r \in Requests : phase[r] \in Terminal ~> r \notin owners
----------------------------------------------------------------------------
(* The inductive invariant behind the safety properties.                   *)

\* Which requests the recovery table, the retries and the late releases are
\* about: nothing but a request's own call touches its slot while it runs.
Bookkeeping ==
  /\ \A r \in Requests :
       /\ phase[r] \in {"acquiring", "running", "closing"} => r \in owners \ pending
       /\ r \in owners => phase[r] \in {"acquiring", "running", "closing", "done"}
       /\ "release" \in late[r] => phase[r] \in {"done", "crashed"}
       /\ late[r] # {} => phase[r] \in {"acquiring", "running", "closing"} \cup Terminal
       /\ reply[r] # "none" => phase[r] = "acquiring"
       /\ phase[r] = "unmetered" => Pool[r] \notin UserPools
  /\ \A a \in Actors : \A o \in claimed[a] : phase[o] \in {"done", "crashed"}

\* The member of a request outlives its pending command and its next renewal.
Renewal ==
  \A r \in Requests :
    /\ phase[r] = "acquiring" => due[r] <= OpTimeout
    /\ reply[r] = "yes" => slot[r] + OpTimeout >= SlotTTL + due[r]
    /\ phase[r] = "running" => slot[r] > due[r]

\* A refused acquire has left no member behind.
Refusal == \A r \in Requests : reply[r] = "no" /\ r \notin stray => slot[r] = 0

\* The members of a pool stay within some configured limit.
MembersWithinLimit ==
  0 \notin Limits =>
    \A p \in Pools : \E l \in Limits : Cardinality(Occupants(p)) <= l

\* An actor retries records of its own instance, and a pending record that is
\* being retried is busy.
HomeOf(a) == IF a \in Instances THEN a ELSE Home[a]
Retries ==
  \A a \in Actors : \A o \in claimed[a] :
    Home[o] = HomeOf(a) /\ (o \in pending => o \in busy)

LeaseInvariant ==
  /\ TypeOK /\ Bookkeeping /\ Renewal /\ Refusal /\ MembersWithinLimit
  /\ RecordOutlivesSlot /\ SlotsAreRecorded
=============================================================================

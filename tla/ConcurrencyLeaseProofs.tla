----------------------- MODULE ConcurrencyLeaseProofs -----------------------
(***************************************************************************)
(* Proofs about the execution slots, for every number of instances,        *)
(* requests, pools, limits, faults and every TTL and timeout with          *)
(* OpTimeout + RefreshWithin < SlotTTL.                                    *)
(***************************************************************************)
EXTENDS ConcurrencyLease, FiniteSetTheorems, TLAPS

\* What the assumptions on the constants say about the timeouts.
LEMMA NumbersFact ==
  /\ SlotTTL \in Nat /\ OpTimeout \in Nat /\ RefreshWithin \in Nat
  /\ OpTimeout < SlotTTL /\ RefreshWithin < SlotTTL /\ SlotTTL > 0
  /\ OpTimeout + RefreshWithin < SlotTTL
  /\ MaxFaults \in Nat
BY NumbersAssumption, RenewalAssumption

\* What Less computes: one tick off a countdown, never below zero.
LEMMA LessFact ==
  ASSUME NEW n \in Nat
  PROVE  /\ Less(n) \in Nat /\ Less(n) <= n
         /\ n > 0 => Less(n) = n - 1
         /\ n = 0 => Less(n) = 0
BY DEF Less

\* A command that fails leaves the fault counter within its bound.
LEMMA FaultFact ==
  ASSUME TypeOK, Fault
  PROVE  faults' \in 0..MaxFaults
BY NumbersFact DEF TypeOK, Fault

\* The scripts keep every slot within its TTL.
LEMMA ScriptsFact ==
  ASSUME TypeOK, NEW r \in Requests
  PROVE  /\ AfterAcquire(r) \in [Requests -> 0..SlotTTL]
         /\ AfterRefresh(r) \in [Requests -> 0..SlotTTL]
         /\ AfterRelease(r) \in [Requests -> 0..SlotTTL]
BY NumbersFact DEF TypeOK, AfterAcquire, AfterRefresh, AfterRelease

\* A command may outlive its caller.
LEMMA LateFact ==
  ASSUME TypeOK, NEW r \in Requests, NEW c \in Commands
  PROVE  [late EXCEPT ![r] = @ \cup {c}] \in [Requests -> SUBSET Commands]
BY DEF TypeOK

\* Forgetting owners shrinks the table and keeps its parts nested.
LEMMA ForgetFact ==
  ASSUME TypeOK, NEW S \in SUBSET Requests, Forget(S)
  PROVE  /\ owners' \subseteq Requests /\ pending' \subseteq owners'
         /\ busy' \subseteq pending'
         /\ left' \in [Requests -> 0..SlotTTL]
BY NumbersFact DEF TypeOK, Forget

\* A claim takes idle unexpired records of S and drops the expired ones.
LEMMA ClaimFact ==
  ASSUME TypeOK, NEW S \in SUBSET pending, NEW C \in ClaimSets(S), Claim(S, C)
  PROVE  /\ owners' \subseteq Requests /\ pending' \subseteq owners'
         /\ busy' \subseteq pending'
         /\ left' \in [Requests -> 0..SlotTTL]
         /\ C \subseteq Requests
BY DEF TypeOK, Claim, ClaimSets, Claimable, Expired

\* A retried release, confirmed or failed, keeps the types.
LEMMA RetryFact ==
  ASSUME TypeOK, NEW o \in Requests, RetrySucceeds(o) \/ RetryFails(o)
  PROVE  /\ owners' \subseteq Requests /\ pending' \subseteq owners'
         /\ busy' \subseteq pending'
         /\ left' \in [Requests -> 0..SlotTTL]
         /\ slot' \in [Requests -> 0..SlotTTL]
         /\ late' \in [Requests -> SUBSET Commands]
         /\ faults' \in 0..MaxFaults
<1>1. CASE RetrySucceeds(o)
  <2>1. Forget({o}) /\ slot' = AfterRelease(o) /\ late' = late /\ faults' = faults
    BY <1>1 DEF RetrySucceeds
  <2> QED BY <2>1, ForgetFact, ScriptsFact DEF TypeOK
<1>2. CASE RetryFails(o)
  <2>1. Fault /\ (slot' = AfterRelease(o) \/ slot' = slot)
    BY <1>2 DEF RetryFails
  <2>2. late' \in [Requests -> SUBSET Commands]
    BY <1>2 DEF RetryFails, TypeOK, Commands
  <2>3. busy' = busy \ {o} /\ owners' = owners /\ pending' = pending /\ left' = left
    BY <1>2 DEF RetryFails
  <2> QED BY <2>1, <2>2, <2>3, FaultFact, ScriptsFact DEF TypeOK
<1> QED BY <1>1, <1>2

\* Every step keeps the types.
LEMMA TypeInductive == TypeOK /\ [Next]_vars => TypeOK'
<1> SUFFICES ASSUME TypeOK, [Next]_vars PROVE TypeOK'
  OBVIOUS
<1> USE NumbersFact, SetsAssumption
<1>1. ASSUME NEW r \in Requests, ResolveLimit(r) PROVE TypeOK'
  BY <1>1 DEF ResolveLimit, TypeOK, envVars, redisVars, ownerVars, Phases
<1>2. ASSUME NEW r \in Requests, RejectEarly(r) PROVE TypeOK'
  BY <1>2 DEF RejectEarly, TypeOK, envVars, redisVars, ownerVars, callVars, Phases
<1>3. ASSUME NEW r \in Requests, ClaimGroup(r) PROVE TypeOK'
  <2> DEFINE S == {o \in pending : Home[o] = Home[r] /\ Pool[o] = Pool[r]}
  <2>1. PICK C \in ClaimSets(S) :
          /\ Claim(S, C)
          /\ claimed' = [claimed EXCEPT ![r] = C]
          /\ failed' = [failed EXCEPT ![r] = C # {} /\ Blocked(S, C)]
          /\ phase' = [phase EXCEPT ![r] =
               IF C # {} THEN "recovering"
               ELSE IF Blocked(S, C) THEN "rejected" ELSE "recovered"]
    BY <1>3 DEF ClaimGroup
  <2>2. UNCHANGED <<envVars, redisVars, seen, reply, due>>
    BY <1>3 DEF ClaimGroup
  <2>3. S \in SUBSET pending
    OBVIOUS
  <2>4. C \subseteq Requests /\ owners' \subseteq Requests /\ pending' \subseteq owners'
        /\ busy' \subseteq pending' /\ left' \in [Requests -> 0..SlotTTL]
    BY <2>1, <2>3, ClaimFact
  <2>5. (C # {} /\ Blocked(S, C)) \in BOOLEAN
    BY DEF Blocked
  <2> HIDE DEF S
  <2>6. claimed' \in [Actors -> SUBSET Requests] /\ failed' \in [Requests -> BOOLEAN]
    BY <2>1, <2>4, <2>5 DEF TypeOK, Actors
  <2>7. phase' \in [Requests -> Phases]
    BY <2>1 DEF TypeOK, Phases
  <2> QED BY <2>2, <2>4, <2>6, <2>7 DEF TypeOK, envVars, redisVars
<1>4. ASSUME NEW r \in Requests, RecoverOne(r) PROVE TypeOK'
  <2>1. PICK o \in claimed[r], ok \in BOOLEAN :
       /\ IF ok THEN RetrySucceeds(o) ELSE RetryFails(o)
       /\ claimed' = [claimed EXCEPT ![r] = @ \ {o}]
       /\ failed' = [failed EXCEPT ![r] = claimed[r] # {o} /\ (@ \/ ~ok)]
       /\ phase' = [phase EXCEPT ![r] =
            IF claimed[r] # {o} THEN @
            ELSE IF failed[r] \/ ~ok THEN "rejected" ELSE "recovered"]
    BY <1>4 DEF RecoverOne
  <2>2. UNCHANGED <<up, limit, stray, seen, reply, due>>
    BY <1>4 DEF RecoverOne
  <2>3. o \in Requests /\ r \in Actors
    BY DEF TypeOK, Actors
  <2>4. claimed' \in [Actors -> SUBSET Requests] /\ failed' \in [Requests -> BOOLEAN]
    BY <2>1, <2>3 DEF TypeOK
  <2>5. phase' \in [Requests -> Phases]
    BY <2>1 DEF TypeOK, Phases
  <2> QED BY <2>1, <2>2, <2>3, <2>4, <2>5, RetryFact DEF TypeOK
<1>5. ASSUME NEW r \in Requests, Reserve(r) PROVE TypeOK'
  <2> DEFINE own == owners \cap Of(Home[r])
  <2> DEFINE gone == IF TableFull(own)
                     THEN Expired(pending \cap Of(Home[r])) \ busy ELSE {}
  <2>1. /\ pending' = pending \ gone
        /\ owners' = owners \ gone \/ owners' = (owners \ gone) \cup {r}
        /\ \E f \in {"rejected", "acquiring"} : phase' = [phase EXCEPT ![r] = f]
        /\ due' = due \/ due' = [due EXCEPT ![r] = OpTimeout]
        /\ UNCHANGED <<envVars, redisVars, busy, left, seen, reply, failed, claimed>>
    BY <1>5 DEF Reserve
  <2>2. gone \cap busy = {}
    OBVIOUS
  <2> HIDE DEF gone, own
  <2> QED BY <2>1, <2>2 DEF TypeOK, envVars, redisVars, Phases
<1>6. ASSUME NEW r \in Requests, ExecAcquire(r) PROVE TypeOK'
  BY <1>6, ScriptsFact DEF ExecAcquire, TypeOK, envVars, ownerVars
<1>7. ASSUME NEW r \in Requests, ResendAcquire(r) PROVE TypeOK'
  BY <1>7, FaultFact DEF ResendAcquire, TypeOK, ownerVars, callVars, Commands
<1>8. ASSUME NEW r \in Requests, ReplyAcquire(r) PROVE TypeOK'
  <2>1. /\ phase' \in [Requests -> Phases] /\ due' \in [Requests -> 0..SlotTTL]
        /\ reply' \in [Requests -> {"none", "yes", "no"}]
    BY <1>8 DEF ReplyAcquire, TypeOK, Phases
  <2>2. Forget({r}) \/ UNCHANGED ownerVars
    BY <1>8 DEF ReplyAcquire
  <2>3. owners' \subseteq Requests /\ pending' \subseteq owners'
        /\ busy' \subseteq pending' /\ left' \in [Requests -> 0..SlotTTL]
    BY <2>2, ForgetFact DEF TypeOK, ownerVars
  <2> QED BY <1>8, <2>1, <2>3 DEF ReplyAcquire, TypeOK, envVars, redisVars
<1>9. ASSUME NEW r \in Requests, AcquireError(r) PROVE TypeOK'
  <2>1. /\ phase' \in [Requests -> Phases] /\ due' \in [Requests -> 0..SlotTTL]
        /\ reply' \in [Requests -> {"none", "yes", "no"}]
    BY <1>9 DEF AcquireError, Close, TypeOK, Phases
  <2>2. late' \in [Requests -> SUBSET Commands]
    BY <1>9 DEF AcquireError, TypeOK, Commands
  <2> QED BY <1>9, <2>1, <2>2, FaultFact DEF AcquireError, TypeOK, ownerVars
<1>10. ASSUME NEW r \in Requests, Refresh(r) PROVE TypeOK'
  <2>1. slot' \in [Requests -> 0..SlotTTL]
    BY <1>10, ScriptsFact DEF Refresh
  <2>2. /\ phase' \in [Requests -> Phases] /\ due' \in [Requests -> 0..SlotTTL]
        /\ reply' \in [Requests -> {"none", "yes", "no"}]
    BY <1>10 DEF Refresh, Close, TypeOK, Phases
  <2> QED BY <1>10, <2>1, <2>2 DEF Refresh, TypeOK, envVars, ownerVars
<1>11. ASSUME NEW r \in Requests, RefreshError(r) PROVE TypeOK'
  <2>1. /\ phase' \in [Requests -> Phases] /\ due' \in [Requests -> 0..SlotTTL]
        /\ reply' \in [Requests -> {"none", "yes", "no"}]
    BY <1>11 DEF RefreshError, Close, TypeOK, Phases
  <2>2. slot' \in [Requests -> 0..SlotTTL] /\ late' \in [Requests -> SUBSET Commands]
    <3>1. \/ slot' = AfterRefresh(r) /\ late' = late
          \/ slot' = slot /\ late' = [late EXCEPT ![r] = @ \cup {"refresh"}]
      BY <1>11 DEF RefreshError
    <3>2. [late EXCEPT ![r] = @ \cup {"refresh"}] \in [Requests -> SUBSET Commands]
      BY LateFact DEF Commands
    <3>3. AfterRefresh(r) \in [Requests -> 0..SlotTTL]
      BY ScriptsFact
    <3> QED BY <3>1, <3>2, <3>3 DEF TypeOK
  <2> QED BY <1>11, <2>1, <2>2, FaultFact DEF RefreshError, TypeOK, ownerVars
<1>12. ASSUME NEW r \in Requests, Finish(r) PROVE TypeOK'
  BY <1>12 DEF Finish, Close, TypeOK, envVars, redisVars, ownerVars, callVars, Phases
<1>13. ASSUME NEW r \in Requests, Reclaim(r) PROVE TypeOK'
  BY <1>13, ScriptsFact, ForgetFact DEF Reclaim, TypeOK, envVars, callVars, Phases
<1>14. ASSUME NEW r \in Requests, ReclaimError(r) PROVE TypeOK'
  <2>1. owners' = owners /\ pending' \subseteq owners /\ busy' \subseteq pending'
        /\ left' \in [Requests -> 0..SlotTTL]
    BY <1>14 DEF ReclaimError, MarkPending, TypeOK, ownerVars
  <2>2. slot' \in [Requests -> 0..SlotTTL] /\ late' \in [Requests -> SUBSET Commands]
    <3>1. \/ slot' = AfterRelease(r) /\ late' = late
          \/ slot' = slot /\ late' = [late EXCEPT ![r] = @ \cup {"release"}]
      BY <1>14 DEF ReclaimError
    <3>2. [late EXCEPT ![r] = @ \cup {"release"}] \in [Requests -> SUBSET Commands]
      BY LateFact DEF Commands
    <3>3. AfterRelease(r) \in [Requests -> 0..SlotTTL]
      BY ScriptsFact
    <3> QED BY <3>1, <3>2, <3>3 DEF TypeOK
  <2> QED BY <1>14, <2>1, <2>2, FaultFact DEF ReclaimError, TypeOK, callVars, Phases
<1>15. ASSUME NEW i \in Instances, CleanerClaim(i) PROVE TypeOK'
  <2> DEFINE S == pending \cap Of(i)
  <2>1. PICK C \in ClaimSets(S) : Claim(S, C) /\ claimed' = [claimed EXCEPT ![i] = C]
    BY <1>15 DEF CleanerClaim
  <2>2. S \in SUBSET pending
    OBVIOUS
  <2> HIDE DEF S
  <2>3. C \subseteq Requests /\ owners' \subseteq Requests /\ pending' \subseteq owners'
        /\ busy' \subseteq pending' /\ left' \in [Requests -> 0..SlotTTL]
    BY <2>1, <2>2, ClaimFact
  <2> QED BY <1>15, <2>1, <2>3 DEF CleanerClaim, TypeOK, envVars, redisVars, Actors
<1>16. ASSUME NEW i \in Instances, CleanerRecover(i) PROVE TypeOK'
  <2>1. PICK o \in claimed[i] :
          (RetrySucceeds(o) \/ RetryFails(o)) /\ claimed' = [claimed EXCEPT ![i] = @ \ {o}]
    BY <1>16 DEF CleanerRecover
  <2>2. o \in Requests /\ i \in Actors
    BY DEF TypeOK, Actors
  <2>3. claimed' \in [Actors -> SUBSET Requests]
    BY <2>1, <2>2 DEF TypeOK
  <2> QED BY <1>16, <2>1, <2>2, <2>3, RetryFact DEF CleanerRecover, TypeOK
<1>17. ASSUME NEW i \in Instances, Crash(i) PROVE TypeOK'
  <2>1. Of(i) \in SUBSET Requests
    BY DEF Of
  <2>2. owners' \subseteq Requests /\ pending' \subseteq owners'
        /\ busy' \subseteq pending' /\ left' \in [Requests -> 0..SlotTTL]
    BY <1>17, <2>1, ForgetFact DEF Crash
  <2>3. faults' \in 0..MaxFaults
    BY <1>17, FaultFact DEF Crash
  <2>4. phase' \in [Requests -> Phases] /\ late' \in [Requests -> SUBSET Commands]
    BY <1>17 DEF Crash, TypeOK, Phases, Commands
  <2>5. claimed' \in [Actors -> SUBSET Requests] /\ failed' \in [Requests -> BOOLEAN]
    BY <1>17 DEF Crash, TypeOK
  <2>6. reply' \in [Requests -> {"none", "yes", "no"}] /\ due' \in [Requests -> 0..SlotTTL]
    BY <1>17 DEF Crash, TypeOK
  <2> QED BY <1>17, <2>2, <2>3, <2>4, <2>5, <2>6 DEF Crash, TypeOK
<1>18. ASSUME NEW i \in Instances, Restart(i) PROVE TypeOK'
  BY <1>18 DEF Restart, TypeOK, redisVars, ownerVars, callVars
<1>19. ASSUME NEW r \in Requests, NEW c \in Commands, DeliverLate(r, c) PROVE TypeOK'
  <2>1. slot' \in [Requests -> 0..SlotTTL]
    BY <1>19, ScriptsFact DEF DeliverLate, Commands
  <2> QED BY <1>19, <2>1 DEF DeliverLate, TypeOK, envVars, ownerVars, callVars
<1>20. ASSUME NEW r \in Requests, NEW c \in Commands, DropLate(r, c) PROVE TypeOK'
  BY <1>20 DEF DropLate, TypeOK, envVars, ownerVars, callVars
<1>21. ASSUME NEW p \in UserPools, SetLimit(p) PROVE TypeOK'
  BY <1>21 DEF SetLimit, TypeOK, redisVars, ownerVars, callVars
<1>22. CASE Tick
  BY <1>22, LessFact DEF Tick, TypeOK, envVars
<1>23. CASE UNCHANGED vars
  BY <1>23 DEF TypeOK, vars, envVars, redisVars, ownerVars, callVars
<1> QED
  BY <1>1, <1>2, <1>3, <1>4, <1>5, <1>6, <1>7, <1>8, <1>9, <1>10, <1>11, <1>12,
     <1>13, <1>14, <1>15, <1>16, <1>17, <1>18, <1>19, <1>20, <1>21, <1>22, <1>23
  DEF Next, Admission, Execution, Cleaner, Network
----------------------------------------------------------------------------
(* Bookkeeping: who may touch the slot of whom.                            *)

\* A retried release is about a finished request and forgets at most it.
LEMMA RetryTouches ==
  ASSUME TypeOK, NEW o \in Requests, RetrySucceeds(o) \/ RetryFails(o)
  PROVE  /\ owners' \subseteq owners /\ pending' \subseteq pending
         /\ \A q \in Requests : q # o => (q \in owners' <=> q \in owners)
         /\ \A q \in Requests : q # o => late'[q] = late[q] /\ slot'[q] = slot[q]
         /\ \A q \in Requests : left'[q] = left[q] \/ q = o
         /\ slot'[o] = 0 \/ slot'[o] = slot[o]
BY DEF TypeOK, RetrySucceeds, RetryFails, Forget, AfterRelease

\* A claim drops pending records only.
LEMMA ClaimTouches ==
  ASSUME TypeOK, NEW S \in SUBSET pending, NEW C \in ClaimSets(S), Claim(S, C)
  PROVE  /\ owners' = owners \ Expired(S) /\ pending' = pending \ Expired(S)
         /\ left' = left
         /\ Expired(S) \subseteq pending /\ C \subseteq pending
BY DEF TypeOK, Claim, ClaimSets, Claimable, Expired

\* Every step keeps retries and late releases away from live requests.
LEMMA BookkeepingInductive ==
  TypeOK /\ Bookkeeping /\ [Next]_vars => Bookkeeping'
<1> SUFFICES ASSUME TypeOK, Bookkeeping, [Next]_vars PROVE Bookkeeping'
  OBVIOUS
<1> USE SetsAssumption DEF Terminal
<1>1. ASSUME NEW r \in Requests, ResolveLimit(r) PROVE Bookkeeping'
  BY <1>1 DEF ResolveLimit, TypeOK, Bookkeeping, envVars, redisVars, ownerVars
<1>2. ASSUME NEW r \in Requests, RejectEarly(r) PROVE Bookkeeping'
  BY <1>2 DEF RejectEarly, TypeOK, Bookkeeping, redisVars, ownerVars, callVars
<1>3. ASSUME NEW r \in Requests, ClaimGroup(r) PROVE Bookkeeping'
  <2> DEFINE S == {o \in pending : Home[o] = Home[r] /\ Pool[o] = Pool[r]}
  <2>1. PICK C \in ClaimSets(S) :
          /\ Claim(S, C)
          /\ claimed' = [claimed EXCEPT ![r] = C]
          /\ phase' = [phase EXCEPT ![r] =
               IF C # {} THEN "recovering"
               ELSE IF Blocked(S, C) THEN "rejected" ELSE "recovered"]
    BY <1>3 DEF ClaimGroup
  <2>2. phase[r] = "resolved" /\ late' = late /\ reply' = reply
    BY <1>3 DEF ClaimGroup, redisVars
  <2>3. S \in SUBSET pending
    OBVIOUS
  <2> HIDE DEF S
  <2>4. /\ owners' = owners \ Expired(S) /\ pending' = pending \ Expired(S)
        /\ Expired(S) \subseteq pending /\ C \subseteq pending
    BY <2>1, <2>3, ClaimTouches
  <2>5. PICK f \in {"recovering", "rejected", "recovered"} : phase' = [phase EXCEPT ![r] = f]
    BY <2>1
  <2>6. \A q \in Requests : q \in pending => phase[q] = "done"
    BY DEF Bookkeeping, TypeOK
  <2>7. r \in Actors
    BY DEF Actors
  <2>8. \A a \in Actors : \A o \in claimed'[a] : phase'[o] \in {"done", "crashed"}
    BY <2>1, <2>2, <2>4, <2>5, <2>6, <2>7 DEF Bookkeeping, TypeOK
  <2> QED BY <2>2, <2>4, <2>5, <2>6, <2>8 DEF Bookkeeping, TypeOK
<1>4. ASSUME NEW r \in Requests, RecoverOne(r) PROVE Bookkeeping'
  <2>1. PICK o \in claimed[r], ok \in BOOLEAN :
       /\ RetrySucceeds(o) \/ RetryFails(o)
       /\ claimed' = [claimed EXCEPT ![r] = @ \ {o}]
       /\ phase' = [phase EXCEPT ![r] =
            IF claimed[r] # {o} THEN @
            ELSE IF failed[r] \/ ~ok THEN "rejected" ELSE "recovered"]
    BY <1>4 DEF RecoverOne
  <2>2. phase[r] = "recovering" /\ reply' = reply
    BY <1>4 DEF RecoverOne
  <2>3. o \in Requests /\ r \in Actors /\ phase[o] \in {"done", "crashed"}
    BY DEF TypeOK, Actors, Bookkeeping
  <2>4. PICK f \in {"recovering", "rejected", "recovered"} : phase' = [phase EXCEPT ![r] = f]
    BY <2>1, <2>2 DEF TypeOK
  <2>5. \A a \in Actors : \A q \in claimed'[a] : phase'[q] \in {"done", "crashed"}
    BY <2>1, <2>2, <2>3, <2>4 DEF Bookkeeping, TypeOK
  <2>6. /\ owners' \subseteq owners /\ pending' \subseteq pending
        /\ \A q \in Requests : q # o => (q \in owners' <=> q \in owners)
        /\ \A q \in Requests : q # o => late'[q] = late[q]
    BY <2>1, <2>3, RetryTouches
  <2>7. o # r /\ phase'[o] = phase[o]
    BY <2>2, <2>3, <2>4 DEF TypeOK
  <2>8. \A q \in Requests : phase'[q] = phase[q] \/ (q = r /\ phase'[r] = f)
    BY <2>4 DEF TypeOK
  <2> QED BY <2>2, <2>3, <2>5, <2>6, <2>7, <2>8 DEF Bookkeeping, TypeOK
<1>5. ASSUME NEW r \in Requests, Reserve(r) PROVE Bookkeeping'
  <2> DEFINE own == owners \cap Of(Home[r])
  <2> DEFINE gone == IF TableFull(own)
                     THEN Expired(pending \cap Of(Home[r])) \ busy ELSE {}
  <2>1. /\ phase[r] = "recovered"
        /\ pending' = pending \ gone
        /\ \/ owners' = owners \ gone /\ phase' = [phase EXCEPT ![r] = "rejected"]
           \/ owners' = (owners \ gone) \cup {r} /\ phase' = [phase EXCEPT ![r] = "acquiring"]
        /\ UNCHANGED <<late, reply, claimed>>
    BY <1>5 DEF Reserve, redisVars
  <2>2. gone \subseteq pending
    BY DEF Expired
  <2> HIDE DEF gone, own
  <2>3. \A q \in Requests : q \in pending => phase[q] = "done"
    BY DEF Bookkeeping, TypeOK
  <2>4. \A a \in Actors : \A q \in claimed'[a] : phase'[q] \in {"done", "crashed"}
    BY <2>1 DEF Bookkeeping, TypeOK
  <2> QED BY <2>1, <2>2, <2>3, <2>4 DEF Bookkeeping, TypeOK
<1>6. ASSUME NEW r \in Requests, ExecAcquire(r) PROVE Bookkeeping'
  BY <1>6 DEF ExecAcquire, Bookkeeping, TypeOK, ownerVars
<1>7. ASSUME NEW r \in Requests, ResendAcquire(r) PROVE Bookkeeping'
  BY <1>7 DEF ResendAcquire, Bookkeeping, TypeOK, ownerVars, callVars
<1>8. ASSUME NEW r \in Requests, ReplyAcquire(r) PROVE Bookkeeping'
  BY <1>8 DEF ReplyAcquire, Forget, Bookkeeping, TypeOK, redisVars, ownerVars
<1>9. ASSUME NEW r \in Requests, AcquireError(r) PROVE Bookkeeping'
  BY <1>9 DEF AcquireError, Close, Bookkeeping, TypeOK, ownerVars
<1>10. ASSUME NEW r \in Requests, Refresh(r) PROVE Bookkeeping'
  BY <1>10 DEF Refresh, Close, Bookkeeping, TypeOK, ownerVars
<1>11. ASSUME NEW r \in Requests, RefreshError(r) PROVE Bookkeeping'
  BY <1>11 DEF RefreshError, Close, Bookkeeping, TypeOK, ownerVars
<1>12. ASSUME NEW r \in Requests, Finish(r) PROVE Bookkeeping'
  BY <1>12 DEF Finish, Close, Bookkeeping, TypeOK, redisVars, ownerVars, callVars
<1>13. ASSUME NEW r \in Requests, Reclaim(r) PROVE Bookkeeping'
  BY <1>13 DEF Reclaim, Forget, Bookkeeping, TypeOK, callVars
<1>14. ASSUME NEW r \in Requests, ReclaimError(r) PROVE Bookkeeping'
  BY <1>14 DEF ReclaimError, MarkPending, Bookkeeping, TypeOK, ownerVars, callVars
<1>15. ASSUME NEW i \in Instances, CleanerClaim(i) PROVE Bookkeeping'
  <2> DEFINE S == pending \cap Of(i)
  <2>1. PICK C \in ClaimSets(S) : Claim(S, C) /\ claimed' = [claimed EXCEPT ![i] = C]
    BY <1>15 DEF CleanerClaim
  <2>2. S \in SUBSET pending
    OBVIOUS
  <2> HIDE DEF S
  <2>3. /\ owners' = owners \ Expired(S) /\ pending' = pending \ Expired(S)
        /\ Expired(S) \subseteq pending /\ C \subseteq pending
    BY <2>1, <2>2, ClaimTouches
  <2>4. UNCHANGED <<late, reply, phase>>
    BY <1>15 DEF CleanerClaim, redisVars
  <2>5. \A q \in Requests : q \in pending => phase[q] = "done"
    BY DEF Bookkeeping, TypeOK
  <2>6. \A a \in Actors : \A o \in claimed'[a] : phase'[o] \in {"done", "crashed"}
    BY <2>1, <2>3, <2>4, <2>5 DEF Bookkeeping, TypeOK
  <2> QED BY <2>3, <2>4, <2>5, <2>6 DEF Bookkeeping, TypeOK
<1>16. ASSUME NEW i \in Instances, CleanerRecover(i) PROVE Bookkeeping'
  <2>1. PICK o \in claimed[i] :
          (RetrySucceeds(o) \/ RetryFails(o)) /\ claimed' = [claimed EXCEPT ![i] = @ \ {o}]
    BY <1>16 DEF CleanerRecover
  <2>2. o \in Requests /\ i \in Actors /\ phase[o] \in {"done", "crashed"}
    BY DEF TypeOK, Actors, Bookkeeping
  <2>3. UNCHANGED <<reply, phase>>
    BY <1>16 DEF CleanerRecover
  <2>4. /\ owners' \subseteq owners /\ pending' \subseteq pending
        /\ \A q \in Requests : q # o => (q \in owners' <=> q \in owners)
        /\ \A q \in Requests : q # o => late'[q] = late[q]
    BY <2>1, <2>2, RetryTouches
  <2>5. \A a \in Actors : \A q \in claimed'[a] : phase'[q] \in {"done", "crashed"}
    BY <2>1, <2>2, <2>3 DEF Bookkeeping, TypeOK
  <2> QED BY <2>2, <2>3, <2>4, <2>5 DEF Bookkeeping, TypeOK
<1>17. ASSUME NEW i \in Instances, Crash(i) PROVE Bookkeeping'
  BY <1>17 DEF Crash, Forget, Of, Bookkeeping, TypeOK
<1>18. ASSUME NEW i \in Instances, Restart(i) PROVE Bookkeeping'
  BY <1>18 DEF Restart, Bookkeeping, redisVars, ownerVars, callVars
<1>19. ASSUME NEW r \in Requests, NEW c \in Commands, DeliverLate(r, c) PROVE Bookkeeping'
  BY <1>19 DEF DeliverLate, Bookkeeping, TypeOK, ownerVars, callVars
<1>20. ASSUME NEW r \in Requests, NEW c \in Commands, DropLate(r, c) PROVE Bookkeeping'
  BY <1>20 DEF DropLate, Bookkeeping, TypeOK, ownerVars, callVars
<1>21. ASSUME NEW p \in UserPools, SetLimit(p) PROVE Bookkeeping'
  BY <1>21 DEF SetLimit, Bookkeeping, redisVars, ownerVars, callVars
<1>22. CASE Tick
  BY <1>22 DEF Tick, Bookkeeping
<1>23. CASE UNCHANGED vars
  BY <1>23 DEF Bookkeeping, vars, redisVars, ownerVars, callVars
<1> QED
  BY <1>1, <1>2, <1>3, <1>4, <1>5, <1>6, <1>7, <1>8, <1>9, <1>10, <1>11, <1>12,
     <1>13, <1>14, <1>15, <1>16, <1>17, <1>18, <1>19, <1>20, <1>21, <1>22, <1>23
  DEF Next, Admission, Execution, Cleaner, Network
----------------------------------------------------------------------------
(* How a step changes the slots.                                           *)

\* The slot of q does not grow, is renewed while it exists, or is taken anew
\* by an acquire script that found room, alone among all slots.
Grown(q) ==
  /\ slot[q] = 0 /\ slot'[q] = SlotTTL /\ Admits(q, seen[q])
  /\ phase[q] = "acquiring" \/ "acquire" \in late[q]
  /\ \A o \in Requests : o # q => slot'[o] = slot[o]
SlotStep(q) ==
  \/ slot'[q] <= slot[q]
  \/ slot[q] > 0 /\ slot'[q] = SlotTTL
  \/ Grown(q)

\* Every step is one of these for every slot.
LEMMA SlotSteps ==
  ASSUME TypeOK, [Next]_vars
  PROVE  \A q \in Requests : SlotStep(q)
<1> DEFINE Goal == \A q \in Requests : SlotStep(q)
<1> USE NumbersFact
<1>0. ASSUME slot' = slot PROVE Goal
  BY <1>0 DEF SlotStep, TypeOK
<1>a. ASSUME NEW r \in Requests, slot' = AfterAcquire(r),
             phase[r] = "acquiring" \/ "acquire" \in late[r]
      PROVE  Goal
  BY <1>a DEF SlotStep, Grown, AfterAcquire, TypeOK
<1>b. ASSUME NEW r \in Requests, slot' = AfterRefresh(r) PROVE Goal
  BY <1>b DEF SlotStep, AfterRefresh, TypeOK
<1>c. ASSUME NEW r \in Requests, slot' = AfterRelease(r) PROVE Goal
  BY <1>c DEF SlotStep, AfterRelease, TypeOK
<1>d. ASSUME NEW o \in Requests, RetrySucceeds(o) \/ RetryFails(o) PROVE Goal
  BY <1>d, <1>c, <1>0 DEF RetrySucceeds, RetryFails
<1> HIDE DEF Goal
<1>1. ASSUME NEW r \in Requests, ResolveLimit(r) PROVE Goal
  BY <1>1, <1>0 DEF ResolveLimit, redisVars
<1>2. ASSUME NEW r \in Requests, RejectEarly(r) PROVE Goal
  BY <1>2, <1>0 DEF RejectEarly, redisVars
<1>3. ASSUME NEW r \in Requests, ClaimGroup(r) PROVE Goal
  BY <1>3, <1>0 DEF ClaimGroup, redisVars
<1>4. ASSUME NEW r \in Requests, RecoverOne(r) PROVE Goal
  <2>1. PICK o \in claimed[r] : RetrySucceeds(o) \/ RetryFails(o)
    BY <1>4 DEF RecoverOne
  <2> QED BY <2>1, <1>d DEF TypeOK, Actors
<1>5. ASSUME NEW r \in Requests, Reserve(r) PROVE Goal
  BY <1>5, <1>0 DEF Reserve, redisVars
<1>6. ASSUME NEW r \in Requests, ExecAcquire(r) PROVE Goal
  BY <1>6, <1>a DEF ExecAcquire
<1>7. ASSUME NEW r \in Requests, ResendAcquire(r) PROVE Goal
  BY <1>7, <1>0 DEF ResendAcquire
<1>8. ASSUME NEW r \in Requests, ReplyAcquire(r) PROVE Goal
  BY <1>8, <1>0 DEF ReplyAcquire, redisVars
<1>9. ASSUME NEW r \in Requests, AcquireError(r) PROVE Goal
  BY <1>9, <1>0 DEF AcquireError
<1>10. ASSUME NEW r \in Requests, Refresh(r) PROVE Goal
  BY <1>10, <1>b DEF Refresh
<1>11. ASSUME NEW r \in Requests, RefreshError(r) PROVE Goal
  BY <1>11, <1>b, <1>0 DEF RefreshError
<1>12. ASSUME NEW r \in Requests, Finish(r) PROVE Goal
  BY <1>12, <1>0 DEF Finish, redisVars
<1>13. ASSUME NEW r \in Requests, Reclaim(r) PROVE Goal
  BY <1>13, <1>c DEF Reclaim
<1>14. ASSUME NEW r \in Requests, ReclaimError(r) PROVE Goal
  BY <1>14, <1>c, <1>0 DEF ReclaimError
<1>15. ASSUME NEW i \in Instances, CleanerClaim(i) PROVE Goal
  BY <1>15, <1>0 DEF CleanerClaim, redisVars
<1>16. ASSUME NEW i \in Instances, CleanerRecover(i) PROVE Goal
  <2>1. PICK o \in claimed[i] : RetrySucceeds(o) \/ RetryFails(o)
    BY <1>16 DEF CleanerRecover
  <2> QED BY <2>1, <1>d DEF TypeOK, Actors
<1>17. ASSUME NEW i \in Instances, Crash(i) PROVE Goal
  BY <1>17, <1>0 DEF Crash
<1>18. ASSUME NEW i \in Instances, Restart(i) PROVE Goal
  BY <1>18, <1>0 DEF Restart, redisVars
<1>19. ASSUME NEW r \in Requests, NEW c \in Commands, DeliverLate(r, c) PROVE Goal
  BY <1>19, <1>a, <1>b, <1>c DEF DeliverLate, Commands
<1>20. ASSUME NEW r \in Requests, NEW c \in Commands, DropLate(r, c) PROVE Goal
  BY <1>20, <1>0 DEF DropLate
<1>21. ASSUME NEW p \in UserPools, SetLimit(p) PROVE Goal
  BY <1>21, <1>0 DEF SetLimit, redisVars
<1>22. ASSUME Tick PROVE Goal
  BY <1>22, LessFact DEF Tick, SlotStep, TypeOK, Goal
<1>23. ASSUME UNCHANGED vars PROVE Goal
  BY <1>23, <1>0 DEF vars, redisVars
<1>24. Goal
  BY <1>1, <1>2, <1>3, <1>4, <1>5, <1>6, <1>7, <1>8, <1>9, <1>10, <1>11, <1>12,
     <1>13, <1>14, <1>15, <1>16, <1>17, <1>18, <1>19, <1>20, <1>21, <1>22, <1>23
  DEF Next, Admission, Execution, Cleaner, Network
<1> QED BY <1>24 DEF Goal

\* Occupants of a pool are finitely many.
LEMMA OccupantsFinite ==
  ASSUME NEW p \in Pools
  PROVE  IsFiniteSet(Occupants(p)) /\ Cardinality(Occupants(p)) \in Nat
<1>1. Occupants(p) \subseteq Requests /\ IsFiniteSet(Requests)
  BY SetsAssumption DEF Occupants, Group
<1>2. IsFiniteSet(Occupants(p))
  BY <1>1, FS_Subset
<1> QED BY <1>2, FS_CardinalityType

\* A member that is added where fewer than some configured limit were, leaves
\* the pool within a configured limit; nothing else adds a member.
LEMMA LimitInductive ==
  TypeOK /\ MembersWithinLimit /\ [Next]_vars => MembersWithinLimit'
<1> SUFFICES ASSUME TypeOK, MembersWithinLimit, [Next]_vars, 0 \notin Limits,
                    NEW p \in Pools
             PROVE  \E l \in Limits : Cardinality(Occupants(p)') <= l
  BY DEF MembersWithinLimit
<1>1. \A q \in Requests : SlotStep(q)
  BY SlotSteps
<1>2. IsFiniteSet(Occupants(p)) /\ Cardinality(Occupants(p)) \in Nat
  BY OccupantsFinite
<1>3. PICK l \in Limits : Cardinality(Occupants(p)) <= l
  BY DEF MembersWithinLimit
<1>4. CASE \E q \in Group(p) : Grown(q)
  <2>1. PICK q \in Group(p) : Grown(q)
    BY <1>4
  <2>2. q \in Requests /\ Pool[q] = p /\ seen[q] \in Limits
    BY DEF Group, TypeOK
  <2>3. Cardinality(Occupants(p)) < seen[q]
    BY <2>1, <2>2 DEF Grown, Admits
  <2>4. Occupants(p)' = Occupants(p) \cup {q} /\ q \notin Occupants(p)
    BY <2>1, <2>2, NumbersFact DEF Grown, Occupants, Group, TypeOK
  <2>5. Cardinality(Occupants(p)') = Cardinality(Occupants(p)) + 1
    BY <2>4, <1>2, FS_AddElement
  <2>6. seen[q] \in Nat
    BY <2>2, NumbersAssumption
  <2> QED BY <2>2, <2>3, <2>5, <2>6, <1>2
<1>5. CASE ~ \E q \in Group(p) : Grown(q)
  <2>0. slot' \in [Requests -> 0..SlotTTL]
    BY TypeInductive DEF TypeOK
  <2>1. Occupants(p)' \subseteq Occupants(p)
    BY <1>1, <1>5, <2>0 DEF SlotStep, Occupants, Group, TypeOK
  <2>2. /\ Cardinality(Occupants(p)') <= Cardinality(Occupants(p))
        /\ Cardinality(Occupants(p)') \in Nat
    BY <2>1, <1>2, FS_Subset, FS_CardinalityType
  <2>3. l \in Nat
    BY NumbersAssumption
  <2> QED BY <2>2, <2>3, <1>2, <1>3
<1> QED BY <1>4, <1>5
----------------------------------------------------------------------------
(* The timing argument: a renewal is due before the member expires.        *)

\* Steps that touch no phase, reply or renewal of a live request, and lower or
\* keep the slots of finished requests only.
LEMMA RenewalKept ==
  ASSUME TypeOK, Bookkeeping, Renewal, UNCHANGED <<reply, due>>,
         \A q \in Requests :
           /\ phase'[q] \in {"acquiring", "running"} => phase'[q] = phase[q]
           /\ phase[q] \in {"acquiring", "running"} => slot'[q] = slot[q]
  PROVE  Renewal'
BY DEF TypeOK, Bookkeeping, Renewal

\* Every step leaves the member of a request with more time than its next
\* command needs.
LEMMA RenewalInductive ==
  TypeOK /\ Bookkeeping /\ Renewal /\ [Next]_vars => Renewal'
<1> SUFFICES ASSUME TypeOK, Bookkeeping, Renewal, [Next]_vars PROVE Renewal'
  OBVIOUS
<1> USE NumbersFact
<1>1. ASSUME NEW r \in Requests, ResolveLimit(r) PROVE Renewal'
  BY <1>1, RenewalKept DEF ResolveLimit, TypeOK, redisVars
<1>2. ASSUME NEW r \in Requests, RejectEarly(r) PROVE Renewal'
  BY <1>2, RenewalKept DEF RejectEarly, TypeOK, redisVars, callVars
<1>3. ASSUME NEW r \in Requests, ClaimGroup(r) PROVE Renewal'
  <2>1. PICK f \in {"recovering", "rejected", "recovered"} : phase' = [phase EXCEPT ![r] = f]
    BY <1>3 DEF ClaimGroup
  <2>2. UNCHANGED <<slot, reply, due>>
    BY <1>3 DEF ClaimGroup, redisVars
  <2> QED BY <2>1, <2>2, RenewalKept DEF TypeOK
<1>4. ASSUME NEW r \in Requests, RecoverOne(r) PROVE Renewal'
  <2>1. PICK o \in claimed[r] :
          /\ RetrySucceeds(o) \/ RetryFails(o)
          /\ \/ phase' = phase
             \/ \E f \in {"rejected", "recovered"} : phase' = [phase EXCEPT ![r] = f]
    BY <1>4 DEF RecoverOne, TypeOK
  <2>2. UNCHANGED <<reply, due>>
    BY <1>4 DEF RecoverOne
  <2>3. o \in Requests /\ phase[o] \in {"done", "crashed"}
    BY DEF TypeOK, Actors, Bookkeeping
  <2>4. \A q \in Requests : q # o => slot'[q] = slot[q]
    BY <2>1, <2>3, RetryTouches
  <2>5. \A q \in Requests :
          /\ phase'[q] \in {"acquiring", "running"} => phase'[q] = phase[q]
          /\ phase[q] \in {"acquiring", "running"} => slot'[q] = slot[q]
    BY <2>1, <2>3, <2>4 DEF TypeOK
  <2> QED BY <2>2, <2>5, RenewalKept
<1>5. ASSUME NEW r \in Requests, Reserve(r) PROVE Renewal'
  <2>1. /\ phase[r] = "recovered" /\ UNCHANGED <<slot, reply>>
        /\ \/ phase' = [phase EXCEPT ![r] = "rejected"] /\ due' = due
           \/ phase' = [phase EXCEPT ![r] = "acquiring"] /\ due' = [due EXCEPT ![r] = OpTimeout]
    BY <1>5 DEF Reserve, redisVars
  <2> QED BY <2>1 DEF TypeOK, Bookkeeping, Renewal
<1>6. ASSUME NEW r \in Requests, ExecAcquire(r) PROVE Renewal'
  BY <1>6 DEF ExecAcquire, AfterAcquire, TypeOK, Bookkeeping, Renewal
<1>7. ASSUME NEW r \in Requests, ResendAcquire(r) PROVE Renewal'
  BY <1>7 DEF ResendAcquire, callVars, Renewal
<1>8. ASSUME NEW r \in Requests, ReplyAcquire(r) PROVE Renewal'
  BY <1>8 DEF ReplyAcquire, redisVars, TypeOK, Bookkeeping, Renewal
<1>9. ASSUME NEW r \in Requests, AcquireError(r) PROVE Renewal'
  BY <1>9 DEF AcquireError, Close, TypeOK, Renewal
<1>10. ASSUME NEW r \in Requests, Refresh(r) PROVE Renewal'
  BY <1>10 DEF Refresh, AfterRefresh, Close, TypeOK, Bookkeeping, Renewal
<1>11. ASSUME NEW r \in Requests, RefreshError(r) PROVE Renewal'
  <2>1. slot' = AfterRefresh(r) \/ slot' = slot
    BY <1>11 DEF RefreshError
  <2> QED BY <1>11, <2>1 DEF RefreshError, AfterRefresh, Close, TypeOK, Bookkeeping, Renewal
<1>12. ASSUME NEW r \in Requests, Finish(r) PROVE Renewal'
  BY <1>12 DEF Finish, Close, redisVars, callVars, TypeOK, Bookkeeping, Renewal
<1>13. ASSUME NEW r \in Requests, Reclaim(r) PROVE Renewal'
  BY <1>13, RenewalKept DEF Reclaim, AfterRelease, callVars, TypeOK
<1>14. ASSUME NEW r \in Requests, ReclaimError(r) PROVE Renewal'
  BY <1>14, RenewalKept DEF ReclaimError, AfterRelease, callVars, TypeOK
<1>15. ASSUME NEW i \in Instances, CleanerClaim(i) PROVE Renewal'
  BY <1>15 DEF CleanerClaim, redisVars, Renewal
<1>16. ASSUME NEW i \in Instances, CleanerRecover(i) PROVE Renewal'
  <2>1. PICK o \in claimed[i] : RetrySucceeds(o) \/ RetryFails(o)
    BY <1>16 DEF CleanerRecover
  <2>2. UNCHANGED <<reply, due, phase>>
    BY <1>16 DEF CleanerRecover
  <2>3. o \in Requests /\ phase[o] \in {"done", "crashed"}
    BY DEF TypeOK, Actors, Bookkeeping
  <2>4. \A q \in Requests : q # o => slot'[q] = slot[q]
    BY <2>1, <2>3, RetryTouches
  <2> QED BY <2>2, <2>3, <2>4, RenewalKept
<1>17. ASSUME NEW i \in Instances, Crash(i) PROVE Renewal'
  BY <1>17 DEF Crash, TypeOK, Bookkeeping, Renewal
<1>18. ASSUME NEW i \in Instances, Restart(i) PROVE Renewal'
  BY <1>18 DEF Restart, redisVars, callVars, Renewal
<1>19. ASSUME NEW r \in Requests, NEW c \in Commands, DeliverLate(r, c) PROVE Renewal'
  <2>1. /\ UNCHANGED <<phase, reply, due>> /\ c \in late[r]
        /\ slot' = CASE c = "acquire" -> AfterAcquire(r)
                     [] c = "refresh" -> AfterRefresh(r)
                     [] c = "release" -> AfterRelease(r)
    BY <1>19 DEF DeliverLate, callVars
  <2>2. CASE c = "release"
    BY <2>1, <2>2, RenewalKept DEF AfterRelease, Bookkeeping, TypeOK
  <2>3. CASE c \in {"acquire", "refresh"}
    <3>1. \A q \in Requests : slot'[q] = slot[q] \/ slot'[q] = SlotTTL
      BY <2>1, <2>3 DEF AfterAcquire, AfterRefresh, TypeOK
    <3>2. SlotTTL >= slot'[r] /\ \A q \in Requests : slot'[q] >= slot[q]
      BY <3>1 DEF TypeOK
    <3>3. ASSUME NEW q \in Requests, reply[q] = "yes"
          PROVE  slot'[q] + OpTimeout >= SlotTTL + due[q]
      <4>1. slot[q] + OpTimeout >= SlotTTL + due[q] /\ slot'[q] >= slot[q]
        BY <3>3, <3>2 DEF Renewal
      <4>2. slot[q] \in Nat /\ due[q] \in Nat /\ slot'[q] \in Nat
        BY <3>1 DEF TypeOK
      <4> QED BY <4>1, <4>2
    <3>4. ASSUME NEW q \in Requests, phase[q] = "running"
          PROVE  slot'[q] > due[q]
      BY <3>4, <3>1, <3>2 DEF Renewal, TypeOK
    <3> QED BY <2>1, <3>3, <3>4 DEF Renewal
  <2> QED BY <2>2, <2>3 DEF Commands
<1>20. ASSUME NEW r \in Requests, NEW c \in Commands, DropLate(r, c) PROVE Renewal'
  BY <1>20 DEF DropLate, callVars, Renewal
<1>21. ASSUME NEW p \in UserPools, SetLimit(p) PROVE Renewal'
  BY <1>21 DEF SetLimit, redisVars, callVars, Renewal
<1>22. CASE Tick
  BY <1>22 DEF Tick, OnTime, Less, TypeOK, Bookkeeping, Renewal
<1>23. CASE UNCHANGED vars
  BY <1>23 DEF vars, redisVars, callVars, Renewal
<1> QED
  BY <1>1, <1>2, <1>3, <1>4, <1>5, <1>6, <1>7, <1>8, <1>9, <1>10, <1>11, <1>12,
     <1>13, <1>14, <1>15, <1>16, <1>17, <1>18, <1>19, <1>20, <1>21, <1>22, <1>23
  DEF Next, Admission, Execution, Cleaner, Network
----------------------------------------------------------------------------
(* The recovery table accounts for every member.                           *)

Records == Refusal /\ RecordOutlivesSlot /\ SlotsAreRecorded

\* An expired pending record stands for no member.
LEMMA ExpiredIsGone ==
  ASSUME TypeOK, Records, NEW o \in pending, left[o] = 0, o \notin stray
  PROVE  slot[o] = 0
BY DEF TypeOK, Records, RecordOutlivesSlot

\* Dropping expired records loses track of no member.
LEMMA RecordsKept ==
  ASSUME TypeOK, Records, NEW D \in SUBSET pending, \A o \in D : left[o] = 0,
         owners \ D \subseteq owners', pending' \subseteq pending,
         UNCHANGED <<slot, left, stray, reply>>,
         \A q \in Requests : phase[q] = "crashed" => phase'[q] = "crashed"
  PROVE  Records'
BY ExpiredIsGone DEF TypeOK, Records, Refusal, RecordOutlivesSlot, SlotsAreRecorded

\* A retry removes a member, or keeps its record.
LEMMA RetryRecords ==
  ASSUME TypeOK, Bookkeeping, Records, NEW o \in Requests,
         RetrySucceeds(o) \/ RetryFails(o), UNCHANGED <<stray, reply>>,
         \A q \in Requests : phase[q] = "crashed" => phase'[q] = "crashed"
  PROVE  Records'
<1> USE NumbersFact
<1>1. CASE RetrySucceeds(o)
  BY <1>1 DEF RetrySucceeds, Forget, AfterRelease, TypeOK, Bookkeeping, Records,
              Refusal, RecordOutlivesSlot, SlotsAreRecorded
<1>2. CASE RetryFails(o)
  BY <1>2 DEF RetryFails, AfterRelease, TypeOK, Bookkeeping, Records,
              Refusal, RecordOutlivesSlot, SlotsAreRecorded
<1> QED BY <1>1, <1>2

\* Every step keeps a record of every member that is not stray.
LEMMA RecordsInductive ==
  TypeOK /\ Bookkeeping /\ Records /\ [Next]_vars => Records'
<1> SUFFICES ASSUME TypeOK, Bookkeeping, Records, [Next]_vars PROVE Records'
  OBVIOUS
<1> USE NumbersFact DEF Records, Refusal, RecordOutlivesSlot, SlotsAreRecorded
<1>1. ASSUME NEW r \in Requests, ResolveLimit(r) PROVE Records'
  BY <1>1 DEF ResolveLimit, TypeOK, redisVars, ownerVars
<1>2. ASSUME NEW r \in Requests, RejectEarly(r) PROVE Records'
  BY <1>2 DEF RejectEarly, TypeOK, redisVars, ownerVars, callVars
<1>3. ASSUME NEW r \in Requests, ClaimGroup(r) PROVE Records'
  <2> DEFINE S == {o \in pending : Home[o] = Home[r] /\ Pool[o] = Pool[r]}
  <2>1. PICK C \in ClaimSets(S) : Claim(S, C)
    BY <1>3 DEF ClaimGroup
  <2>2. S \in SUBSET pending
    OBVIOUS
  <2> HIDE DEF S
  <2>3. /\ owners' = owners \ Expired(S) /\ pending' = pending \ Expired(S)
        /\ left' = left /\ Expired(S) \subseteq pending
    BY <2>1, <2>2, ClaimTouches
  <2>4. UNCHANGED <<slot, stray, reply>> /\ phase[r] = "resolved"
        /\ \E f \in Phases : phase' = [phase EXCEPT ![r] = f]
    BY <1>3 DEF ClaimGroup, redisVars, Phases
  <2>5. \A o \in Expired(S) : left[o] = 0
    BY DEF Expired
  <2>6. \A q \in Requests : phase[q] = "crashed" => phase'[q] = "crashed"
    BY <2>4 DEF TypeOK
  <2> HIDE DEF Records
  <2> QED BY <2>3, <2>4, <2>5, <2>6, RecordsKept
<1>4. ASSUME NEW r \in Requests, RecoverOne(r) PROVE Records'
  <2>1. PICK o \in claimed[r] : RetrySucceeds(o) \/ RetryFails(o)
    BY <1>4 DEF RecoverOne
  <2>2. o \in Requests
    BY DEF TypeOK, Actors
  <2>3. UNCHANGED <<stray, reply>> /\ phase[r] = "recovering"
        /\ \E f \in Phases : phase' = [phase EXCEPT ![r] = f]
    BY <1>4 DEF RecoverOne, Phases, TypeOK
  <2>4. \A q \in Requests : phase[q] = "crashed" => phase'[q] = "crashed"
    BY <2>3 DEF TypeOK
  <2> HIDE DEF Records
  <2> QED BY <2>1, <2>2, <2>3, <2>4, RetryRecords
<1>5. ASSUME NEW r \in Requests, Reserve(r) PROVE Records'
  <2> DEFINE own == owners \cap Of(Home[r])
  <2> DEFINE gone == IF TableFull(own)
                     THEN Expired(pending \cap Of(Home[r])) \ busy ELSE {}
  <2>1. /\ phase[r] = "recovered" /\ pending' = pending \ gone
        /\ owners' = owners \ gone \/ owners' = (owners \ gone) \cup {r}
        /\ \E f \in Phases : phase' = [phase EXCEPT ![r] = f]
        /\ UNCHANGED <<slot, left, stray, reply>>
    BY <1>5 DEF Reserve, redisVars, Phases
  <2>2. gone \subseteq pending /\ \A o \in gone : left[o] = 0
    BY DEF Expired
  <2> HIDE DEF gone, own
  <2>3. \A q \in Requests : phase[q] = "crashed" => phase'[q] = "crashed"
    BY <2>1 DEF TypeOK
  <2> HIDE DEF Records
  <2> QED BY <2>1, <2>2, <2>3, RecordsKept
<1>6. ASSUME NEW r \in Requests, ExecAcquire(r) PROVE Records'
  BY <1>6 DEF ExecAcquire, AfterAcquire, Admits, TypeOK, Bookkeeping, ownerVars
<1>7. ASSUME NEW r \in Requests, ResendAcquire(r) PROVE Records'
  BY <1>7 DEF ResendAcquire, TypeOK, ownerVars, callVars
<1>8. ASSUME NEW r \in Requests, ReplyAcquire(r) PROVE Records'
  BY <1>8 DEF ReplyAcquire, Forget, TypeOK, Bookkeeping, redisVars, ownerVars
<1>9. ASSUME NEW r \in Requests, AcquireError(r) PROVE Records'
  BY <1>9 DEF AcquireError, Close, TypeOK, ownerVars
<1>10. ASSUME NEW r \in Requests, Refresh(r) PROVE Records'
  BY <1>10 DEF Refresh, AfterRefresh, Close, TypeOK, Bookkeeping, ownerVars
<1>11. ASSUME NEW r \in Requests, RefreshError(r) PROVE Records'
  <2>1. slot' = AfterRefresh(r) \/ slot' = slot
    BY <1>11 DEF RefreshError
  <2> QED BY <1>11, <2>1 DEF RefreshError, AfterRefresh, Close, TypeOK, Bookkeeping, ownerVars
<1>12. ASSUME NEW r \in Requests, Finish(r) PROVE Records'
  BY <1>12 DEF Finish, Close, TypeOK, redisVars, ownerVars, callVars
<1>13. ASSUME NEW r \in Requests, Reclaim(r) PROVE Records'
  BY <1>13 DEF Reclaim, AfterRelease, Forget, TypeOK, Bookkeeping, callVars
<1>14. ASSUME NEW r \in Requests, ReclaimError(r) PROVE Records'
  <2>1. slot' = AfterRelease(r) \/ slot' = slot
    BY <1>14 DEF ReclaimError
  <2>2. r \in owners /\ r \notin pending
    BY <1>14 DEF ReclaimError, Bookkeeping
  <2> QED BY <1>14, <2>1, <2>2 DEF ReclaimError, MarkPending, AfterRelease, TypeOK, Bookkeeping, callVars
<1>15. ASSUME NEW i \in Instances, CleanerClaim(i) PROVE Records'
  <2> DEFINE S == pending \cap Of(i)
  <2>1. PICK C \in ClaimSets(S) : Claim(S, C)
    BY <1>15 DEF CleanerClaim
  <2>2. S \in SUBSET pending
    OBVIOUS
  <2> HIDE DEF S
  <2>3. /\ owners' = owners \ Expired(S) /\ pending' = pending \ Expired(S)
        /\ left' = left /\ Expired(S) \subseteq pending
    BY <2>1, <2>2, ClaimTouches
  <2>4. UNCHANGED <<slot, stray, reply, phase>>
    BY <1>15 DEF CleanerClaim, redisVars
  <2>5. \A o \in Expired(S) : left[o] = 0
    BY DEF Expired
  <2> HIDE DEF Records
  <2> QED BY <2>3, <2>4, <2>5, RecordsKept
<1>16. ASSUME NEW i \in Instances, CleanerRecover(i) PROVE Records'
  <2>1. PICK o \in claimed[i] : RetrySucceeds(o) \/ RetryFails(o)
    BY <1>16 DEF CleanerRecover
  <2>2. o \in Requests /\ UNCHANGED <<stray, reply, phase>>
    BY <1>16 DEF CleanerRecover, TypeOK, Actors
  <2> HIDE DEF Records
  <2> QED BY <2>1, <2>2, RetryRecords
<1>17. ASSUME NEW i \in Instances, Crash(i) PROVE Records'
  BY <1>17 DEF Crash, Forget, TypeOK, Bookkeeping
<1>18. ASSUME NEW i \in Instances, Restart(i) PROVE Records'
  BY <1>18 DEF Restart, redisVars, ownerVars, callVars
<1>19. ASSUME NEW r \in Requests, NEW c \in Commands, DeliverLate(r, c) PROVE Records'
  <2>1. /\ UNCHANGED <<phase, reply, owners, pending, left>> /\ c \in late[r]
        /\ stray' = IF c # "release" /\ Concluded(r) /\ slot'[r] > 0
                    THEN stray \cup {r} ELSE stray
        /\ slot' = CASE c = "acquire" -> AfterAcquire(r)
                     [] c = "refresh" -> AfterRefresh(r)
                     [] c = "release" -> AfterRelease(r)
    BY <1>19 DEF DeliverLate, callVars, ownerVars
  <2>2. CASE c = "release"
    BY <2>1, <2>2 DEF AfterRelease, TypeOK
  <2>3. CASE c # "release"
    <3>1. \A q \in Requests : q # r => slot'[q] = slot[q]
      BY <2>1, <2>3 DEF AfterAcquire, AfterRefresh, TypeOK, Commands
    <3>2. slot'[r] \in 0..SlotTTL
      <4>1. slot' \in [Requests -> 0..SlotTTL]
        BY TypeInductive DEF TypeOK
      <4> QED BY <4>1
    <3>3. CASE Concluded(r)
      <4>0. stray' = IF slot'[r] > 0 THEN stray \cup {r} ELSE stray
        BY <2>1, <2>3, <3>3
      <4>1. stray \subseteq stray' /\ (r \in stray' \/ slot'[r] = 0)
        BY <4>0, <3>2
      <4>2. \A q \in Requests : q = r \/ (slot'[q] = slot[q] /\ (q \in stray' <=> q \in stray))
        BY <4>0, <3>1
      <4>3. \A q \in Requests : left[q] \in Nat
        BY DEF TypeOK
      <4>4. UNCHANGED <<phase, reply, owners, pending, left>>
        BY <2>1
      <4>5. Refusal'
        BY <4>1, <4>2, <4>4
      <4>6. SlotsAreRecorded'
        BY <4>1, <4>2, <4>4
      <4>7. RecordOutlivesSlot'
        BY <4>1, <4>2, <4>3, <4>4 DEF TypeOK
      <4> QED BY <4>5, <4>6, <4>7
    <3>4. CASE ~ Concluded(r)
      <4>1. phase[r] \in {"acquiring", "running", "closing"}
        BY <2>1, <3>4 DEF Bookkeeping, Concluded, Terminal, TypeOK
      <4>2. r \in owners /\ r \notin pending /\ reply[r] # "no"
        BY <4>1, <3>4 DEF Bookkeeping, Concluded
      <4> QED BY <2>1, <3>1, <3>4, <4>2 DEF TypeOK
    <3> QED BY <3>3, <3>4
  <2> QED BY <2>2, <2>3
<1>20. ASSUME NEW r \in Requests, NEW c \in Commands, DropLate(r, c) PROVE Records'
  BY <1>20 DEF DropLate, ownerVars, callVars
<1>21. ASSUME NEW p \in UserPools, SetLimit(p) PROVE Records'
  BY <1>21 DEF SetLimit, redisVars, ownerVars, callVars
<1>22. CASE Tick
  BY <1>22 DEF Tick, Less, TypeOK
<1>23. CASE UNCHANGED vars
  BY <1>23 DEF vars, redisVars, ownerVars, callVars
<1> QED
  BY <1>1, <1>2, <1>3, <1>4, <1>5, <1>6, <1>7, <1>8, <1>9, <1>10, <1>11, <1>12,
     <1>13, <1>14, <1>15, <1>16, <1>17, <1>18, <1>19, <1>20, <1>21, <1>22, <1>23
  DEF Next, Admission, Execution, Cleaner, Network
----------------------------------------------------------------------------
(* The theorems.                                                           *)

\* The invariant holds before the first request.
LEMMA InitLease == Init => LeaseInvariant
<1> SUFFICES ASSUME Init PROVE LeaseInvariant
  OBVIOUS
<1> USE NumbersFact, SetsAssumption
<1>1. TypeOK
  BY DEF Init, TypeOK, Phases, Actors
<1>2. Bookkeeping /\ Renewal /\ Refusal
  BY DEF Init, Bookkeeping, Renewal, Refusal, Terminal
<1>3. RecordOutlivesSlot /\ SlotsAreRecorded
  BY DEF Init, RecordOutlivesSlot, SlotsAreRecorded
<1>4. MembersWithinLimit
  <2>1. \E l \in Limits : l \in Nat
    BY NumbersAssumption DEF Init
  <2>2. \A p \in Pools : Occupants(p) = {}
    BY DEF Init, Occupants, Group
  <2>3. \A p \in Pools : Cardinality(Occupants(p)) = 0
    BY <2>2, FS_EmptySet
  <2> QED BY <2>1, <2>3 DEF MembersWithinLimit
<1> QED BY <1>1, <1>2, <1>3, <1>4 DEF LeaseInvariant

\* The conjunction of the parts is preserved by every step of every actor, a
\* crash, a late command and the passage of time included.
THEOREM LeaseInvariantHolds == Spec => []LeaseInvariant
<1>1. Init => LeaseInvariant
  BY InitLease
<1>2. LeaseInvariant /\ [Next]_vars => LeaseInvariant'
  <2> SUFFICES ASSUME LeaseInvariant, [Next]_vars PROVE LeaseInvariant'
    OBVIOUS
  <2>1. /\ TypeOK /\ Bookkeeping /\ Renewal /\ MembersWithinLimit /\ Records
    BY DEF LeaseInvariant, Records
  <2>2. /\ TypeOK' /\ Bookkeeping' /\ Renewal' /\ MembersWithinLimit' /\ Records'
    BY <2>1, TypeInductive, BookkeepingInductive, RenewalInductive, LimitInductive,
       RecordsInductive
  <2> QED BY <2>2 DEF LeaseInvariant, Records
<1> QED BY <1>1, <1>2, PTL DEF Spec

\* acquireRequestSlot, refreshRequestLease and ownerRecovery keep their types.
THEOREM TypeCorrect == Spec => []TypeOK
<1>1. LeaseInvariant => TypeOK
  BY DEF LeaseInvariant
<1> QED BY <1>1, LeaseInvariantHolds, PTL

\* The invariant puts every executing request among the members of its pool.
LEMMA ExecutingAreMembers ==
  ASSUME LeaseInvariant, NEW p \in Pools
  PROVE  Executing(p) \subseteq Occupants(p)
BY DEF LeaseInvariant, TypeOK, Bookkeeping, Renewal, Executing, Occupants, Group

\* No request calls upstream without an unexpired member, for every TTL and
\* timeout that leave a renewal time to be confirmed.
THEOREM SlotIsHeld == Spec => []ExecutionHoldsSlot
<1>1. LeaseInvariant => ExecutionHoldsSlot
  BY ExecutingAreMembers DEF ExecutionHoldsSlot
<1> QED BY <1>1, LeaseInvariantHolds, PTL

\* Fewer execute than are members.
LEMMA ExecutingAreFewer ==
  ASSUME LeaseInvariant, NEW p \in Pools
  PROVE  /\ Cardinality(Executing(p)) <= Cardinality(Occupants(p))
         /\ Cardinality(Executing(p)) \in Nat /\ Cardinality(Occupants(p)) \in Nat
<1>1. Executing(p) \subseteq Occupants(p)
  BY ExecutingAreMembers
<1>2. IsFiniteSet(Occupants(p)) /\ Cardinality(Occupants(p)) \in Nat
  BY OccupantsFinite
<1>3. IsFiniteSet(Executing(p)) /\ Cardinality(Executing(p)) <= Cardinality(Occupants(p))
  BY <1>1, <1>2, FS_Subset
<1> QED BY <1>2, <1>3, FS_CardinalityType

\* The configured limits bound the executions of all instances together.
THEOREM LimitIsKept == Spec => []ExecutionsWithinLimit
<1>1. LeaseInvariant => ExecutionsWithinLimit
  <2> SUFFICES ASSUME LeaseInvariant, 0 \notin Limits, NEW p \in Pools
               PROVE  \E l \in Limits : Cardinality(Executing(p)) <= l
    BY DEF ExecutionsWithinLimit
  <2>1. PICK l \in Limits : Cardinality(Occupants(p)) <= l
    BY DEF LeaseInvariant, MembersWithinLimit
  <2>2. l \in Nat
    BY NumbersAssumption
  <2> QED BY <2>1, <2>2, ExecutingAreFewer
<1> QED BY <1>1, LeaseInvariantHolds, PTL

\* No member is leaked by a lost reply, a failed release or a failed retry.
THEOREM MembersAreRecorded == Spec => []SlotsAreRecorded
<1>1. LeaseInvariant => SlotsAreRecorded
  BY DEF LeaseInvariant
<1> QED BY <1>1, LeaseInvariantHolds, PTL

\* A pending record is not dropped while its member may still count.
THEOREM RecordsOutliveSlots == Spec => []RecordOutlivesSlot
<1>1. LeaseInvariant => RecordOutlivesSlot
  BY DEF LeaseInvariant
<1> QED BY <1>1, LeaseInvariantHolds, PTL

\* Neither a renewal nor a retry brings a lost member back.
THEOREM MembersStayGone == Spec => NoResurrection
<1>1. LeaseInvariant /\ LeaseInvariant' /\ [Next]_vars =>
        [\A r \in Requests : slot[r] = 0 /\ slot'[r] > 0
           => "acquire" \in late[r] \/ phase[r] = "acquiring"]_vars
  <2> SUFFICES ASSUME LeaseInvariant, LeaseInvariant', [Next]_vars,
                      NEW r \in Requests, slot[r] = 0, slot'[r] > 0
               PROVE  "acquire" \in late[r] \/ phase[r] = "acquiring"
    OBVIOUS
  <2>1. SlotStep(r)
    BY SlotSteps DEF LeaseInvariant
  <2>2. slot'[r] \in Nat
    BY DEF LeaseInvariant, TypeOK
  <2> QED BY <2>1, <2>2 DEF SlotStep, Grown
<1> QED BY <1>1, LeaseInvariantHolds, PTL DEF Spec, NoResurrection

\* A limit that was lowered counts the work accepted before.
THEOREM LoweredLimitHolds == Spec => LoweredLimitSeesEarlierWork
<1>1. LeaseInvariant /\ LeaseInvariant' /\ [Next]_vars =>
        [\A r \in Requests : slot[r] = 0 /\ slot'[r] > 0 /\ seen[r] > 0
           => Cardinality(Executing(Pool[r])) < seen[r]]_vars
  <2> SUFFICES ASSUME LeaseInvariant, LeaseInvariant', [Next]_vars,
                      NEW r \in Requests, slot[r] = 0, slot'[r] > 0, seen[r] > 0
               PROVE  Cardinality(Executing(Pool[r])) < seen[r]
    OBVIOUS
  <2>1. SlotStep(r)
    BY SlotSteps DEF LeaseInvariant
  <2>0. seen[r] \in Limits /\ slot'[r] \in Nat
    BY DEF LeaseInvariant, TypeOK
  <2>2. slot'[r] \in Nat /\ seen[r] \in Nat
    BY <2>0, NumbersAssumption
  <2>3. Cardinality(Occupants(Pool[r])) < seen[r]
    BY <2>1, <2>2 DEF SlotStep, Grown, Admits
  <2>4. Pool[r] \in Pools
    BY SetsAssumption
  <2> QED BY <2>2, <2>3, <2>4, ExecutingAreFewer
<1> QED BY <1>1, LeaseInvariantHolds, PTL DEF Spec, LoweredLimitSeesEarlierWork
----------------------------------------------------------------------------
(* The recovery table stays within its capacity.                           *)

\* Only reserveConcurrencyOwner adds a record.
LEMMA OnlyReserveAdds ==
  ASSUME TypeOK, [Next]_vars
  PROVE  owners' \subseteq owners \/ \E r \in Requests : Reserve(r)
<1> DEFINE Goal == owners' \subseteq owners \/ \E r \in Requests : Reserve(r)
<1>1. ASSUME NEW S, Forget(S) PROVE Goal
  BY <1>1 DEF Forget
<1>2. ASSUME NEW S, NEW C, Claim(S, C) PROVE Goal
  BY <1>2 DEF Claim
<1>3. ASSUME NEW o, RetrySucceeds(o) \/ RetryFails(o) PROVE Goal
  BY <1>3 DEF RetrySucceeds, RetryFails, Forget
<1>4. ASSUME NEW r \in Requests, Admission(r) PROVE Goal
  <2>1. CASE ClaimGroup(r)
    BY <2>1, <1>2 DEF ClaimGroup
  <2>2. CASE RecoverOne(r)
    BY <2>2, <1>3 DEF RecoverOne
  <2>3. CASE ReplyAcquire(r)
    BY <2>3, <1>1 DEF ReplyAcquire, ownerVars
  <2>4. CASE ResolveLimit(r) \/ RejectEarly(r) \/ ExecAcquire(r) \/ ResendAcquire(r)
             \/ AcquireError(r)
    BY <2>4 DEF ResolveLimit, RejectEarly, ExecAcquire, ResendAcquire, AcquireError, ownerVars
  <2> QED BY <1>4, <2>1, <2>2, <2>3, <2>4 DEF Admission
<1>5. ASSUME NEW r \in Requests, Execution(r) PROVE Goal
  <2>1. CASE Reclaim(r)
    BY <2>1, <1>1 DEF Reclaim
  <2>2. CASE ReclaimError(r)
    BY <2>2 DEF ReclaimError, MarkPending, ownerVars
  <2>3. CASE Refresh(r) \/ RefreshError(r) \/ Finish(r)
    BY <2>3 DEF Refresh, RefreshError, Finish, ownerVars
  <2> QED BY <1>5, <2>1, <2>2, <2>3 DEF Execution
<1>6. ASSUME NEW i \in Instances, Cleaner(i) \/ Crash(i) \/ Restart(i) PROVE Goal
  <2>1. CASE CleanerClaim(i)
    BY <2>1, <1>2 DEF CleanerClaim
  <2>2. CASE CleanerRecover(i)
    BY <2>2, <1>3 DEF CleanerRecover
  <2>3. CASE Crash(i)
    BY <2>3, <1>1 DEF Crash
  <2>4. CASE Restart(i)
    BY <2>4 DEF Restart, ownerVars
  <2> QED BY <1>6, <2>1, <2>2, <2>3, <2>4 DEF Cleaner
<1>7. CASE \/ \E p \in UserPools : SetLimit(p)
           \/ Network \/ Tick \/ UNCHANGED vars
  BY <1>7 DEF SetLimit, Network, DeliverLate, DropLate, Tick, vars, ownerVars
<1> QED BY <1>4, <1>5, <1>6, <1>7 DEF Next

\* No instance remembers more owners than concurrencyOwnerRecoveryCapacity.
THEOREM TableIsBounded == Spec => []OwnersWithinCapacity
<1>1. Init => OwnersWithinCapacity
  <2> SUFFICES ASSUME Init, NEW i \in Instances
               PROVE  Cardinality(owners \cap Of(i)) <= OwnerCapacity
    BY DEF OwnersWithinCapacity
  <2>1. owners \cap Of(i) = {}
    BY DEF Init
  <2> QED BY <2>1, FS_EmptySet, NumbersAssumption
<1>2. TypeOK /\ TypeOK' /\ OwnersWithinCapacity /\ [Next]_vars => OwnersWithinCapacity'
  <2> SUFFICES ASSUME TypeOK, TypeOK', OwnersWithinCapacity, [Next]_vars, NEW i \in Instances
               PROVE  Cardinality(owners' \cap Of(i)) <= OwnerCapacity
    BY DEF OwnersWithinCapacity, Of
  <2>1. /\ IsFiniteSet(owners \cap Of(i)) /\ Cardinality(owners \cap Of(i)) \in Nat
        /\ Cardinality(owners \cap Of(i)) <= OwnerCapacity /\ OwnerCapacity \in Nat
    <3>1. owners \cap Of(i) \subseteq Requests
      BY DEF TypeOK
    <3> QED BY <3>1, FS_Subset, FS_CardinalityType, SetsAssumption, NumbersAssumption
            DEF OwnersWithinCapacity
  <2>2. ASSUME owners' \cap Of(i) \subseteq owners \cap Of(i)
        PROVE  Cardinality(owners' \cap Of(i)) <= OwnerCapacity
    <3>1. /\ Cardinality(owners' \cap Of(i)) <= Cardinality(owners \cap Of(i))
          /\ Cardinality(owners' \cap Of(i)) \in Nat
      BY <2>1, <2>2, FS_Subset, FS_CardinalityType
    <3> QED BY <2>1, <3>1
  <2>3. ASSUME NEW r \in Requests, Reserve(r)
        PROVE  Cardinality(owners' \cap Of(i)) <= OwnerCapacity
    <3> DEFINE own == owners \cap Of(Home[r])
    <3> DEFINE gone == IF TableFull(own)
                       THEN Expired(pending \cap Of(Home[r])) \ busy ELSE {}
    <3>1. \/ owners' = owners \ gone
          \/ owners' = (owners \ gone) \cup {r} /\ ~TableFull(own \ gone)
      BY <2>3 DEF Reserve
    <3> HIDE DEF gone
    <3>2. CASE owners' = (owners \ gone) \cup {r} /\ ~TableFull(own \ gone) /\ Home[r] = i
      <4>1. owners' \cap Of(i) = (own \ gone) \cup {r}
        BY <3>2 DEF Of
      <4>2. IsFiniteSet(own \ gone)
        BY <2>1, <3>2, FS_Subset
      <4>3. Cardinality(own \ gone) < OwnerCapacity /\ Cardinality(own \ gone) \in Nat
        BY <2>1, <3>2, <4>2, FS_CardinalityType DEF TableFull
      <4>4. \/ Cardinality((own \ gone) \cup {r}) = Cardinality(own \ gone)
            \/ Cardinality((own \ gone) \cup {r}) = Cardinality(own \ gone) + 1
        BY <4>2, FS_AddElement
      <4>5. Cardinality((own \ gone) \cup {r}) <= OwnerCapacity
        <5> HIDE DEF own
        <5> QED BY <2>1, <4>3, <4>4
      <4> QED BY <4>1, <4>5
    <3>3. CASE owners' = (owners \ gone) \cup {r} /\ Home[r] # i
      BY <3>3, <2>2 DEF Of
    <3>4. CASE owners' = owners \ gone
      BY <3>4, <2>2
    <3> QED BY <3>1, <3>2, <3>3, <3>4
  <2>4. owners' \subseteq owners \/ \E r \in Requests : Reserve(r)
    BY OnlyReserveAdds
  <2> QED BY <2>2, <2>3, <2>4
<1> QED BY <1>1, <1>2, TypeCorrect, PTL DEF Spec
----------------------------------------------------------------------------
(* Every busy record has one worker.                                       *)

Workers == Retries /\ BusyHasOneWorker

\* An actor that works on nothing claims idle records of its instance.
LEMMA ClaimWorkers ==
  ASSUME TypeOK, Workers, NEW a \in Actors, claimed[a] = {},
         NEW S \in SUBSET pending, NEW C \in ClaimSets(S), Claim(S, C),
         \A o \in S : Home[o] = HomeOf(a),
         claimed' = [claimed EXCEPT ![a] = C]
  PROVE  Workers'
<1>1. /\ pending' = pending \ Expired(S) /\ busy' = (busy \ Expired(S)) \cup C
      /\ C \subseteq S /\ C \cap busy = {} /\ C \cap Expired(S) = {}
  BY DEF Claim, ClaimSets, Claimable
<1>2. Retries'
  BY <1>1 DEF TypeOK, Workers, Retries, HomeOf
<1>3. \A o \in busy' : \E b \in Actors : o \in claimed'[b]
  BY <1>1 DEF TypeOK, Workers, BusyHasOneWorker
<1>4. \A b \in Actors : C \cap claimed[b] = {}
  BY <1>1 DEF Workers, Retries
<1>5. ASSUME NEW b \in Actors, NEW d \in Actors, b # d
      PROVE  claimed'[b] \cap claimed'[d] = {}
  BY <1>4, <1>5 DEF TypeOK, Workers, BusyHasOneWorker
<1> QED BY <1>2, <1>3, <1>5 DEF Workers, BusyHasOneWorker

\* An actor that is done with a record frees it or leaves it idle.
LEMMA RetryWorkers ==
  ASSUME TypeOK, Workers, NEW a \in Actors, NEW o \in claimed[a],
         RetrySucceeds(o) \/ RetryFails(o),
         claimed' = [claimed EXCEPT ![a] = @ \ {o}]
  PROVE  Workers'
<1>1. /\ busy' = busy \ {o} /\ pending' \subseteq pending
  BY DEF RetrySucceeds, RetryFails, Forget
<1>2. \A b \in Actors : claimed'[b] \subseteq claimed[b] /\ o \notin claimed'[b]
  BY DEF TypeOK, Workers, BusyHasOneWorker
<1>3. \A b \in Actors : \A q \in claimed[b] : q # o => q \in claimed'[b]
  BY DEF TypeOK
<1>4. Retries'
  BY <1>1, <1>2 DEF TypeOK, Workers, Retries, HomeOf
<1>5. BusyHasOneWorker'
  BY <1>1, <1>2, <1>3 DEF Workers, BusyHasOneWorker
<1> QED BY <1>4, <1>5 DEF Workers

\* Records that nobody works on come and go without consequence.
LEMMA WorkersKept ==
  ASSUME TypeOK, Workers, UNCHANGED <<claimed, busy>>,
         \A o \in pending' : o \in pending \/ \A a \in Actors : o \notin claimed[a]
  PROVE  Workers'
BY DEF TypeOK, Workers, Retries, BusyHasOneWorker, HomeOf

\* A request works on records only while it recovers them.
Idle == \A r \in Requests : phase[r] # "recovering" => claimed[r] = {}

\* Steps that leave the retries alone.
LEMMA WorkersUntouched ==
  ASSUME TypeOK, Workers, Idle, UNCHANGED <<claimed, busy>>, pending' \subseteq pending,
         \A r \in Requests : phase[r] = "recovering" => phase'[r] = "recovering"
  PROVE  Workers' /\ Idle'
<1>1. Workers'
  BY WorkersKept
<1> QED BY <1>1 DEF Idle, TypeOK

\* Every step keeps one worker per busy record.
LEMMA WorkersInductive ==
  TypeOK /\ Bookkeeping /\ Workers /\ Idle /\ [Next]_vars => Workers' /\ Idle'
<1> SUFFICES ASSUME TypeOK, Bookkeeping, Workers, Idle, [Next]_vars
             PROVE  Workers' /\ Idle'
  OBVIOUS
<1> USE SetsAssumption
<1>1. ASSUME NEW r \in Requests, ResolveLimit(r) PROVE Workers' /\ Idle'
  BY <1>1, WorkersUntouched DEF ResolveLimit, ownerVars, TypeOK
<1>2. ASSUME NEW r \in Requests, RejectEarly(r) PROVE Workers' /\ Idle'
  BY <1>2, WorkersUntouched DEF RejectEarly, ownerVars, callVars, TypeOK
<1>3. ASSUME NEW r \in Requests, ClaimGroup(r) PROVE Workers' /\ Idle'
  <2> DEFINE S == {o \in pending : Home[o] = Home[r] /\ Pool[o] = Pool[r]}
  <2>1. PICK C \in ClaimSets(S) :
          /\ Claim(S, C)
          /\ claimed' = [claimed EXCEPT ![r] = C]
          /\ phase' = [phase EXCEPT ![r] =
               IF C # {} THEN "recovering"
               ELSE IF Blocked(S, C) THEN "rejected" ELSE "recovered"]
    BY <1>3 DEF ClaimGroup
  <2>2. phase[r] = "resolved" /\ claimed[r] = {} /\ r \in Actors
    BY <1>3 DEF ClaimGroup, Idle, Actors
  <2>3. S \in SUBSET pending /\ \A o \in S : Home[o] = HomeOf(r)
    BY DEF HomeOf
  <2> HIDE DEF S
  <2>4. Workers'
    BY <2>1, <2>2, <2>3, ClaimWorkers
  <2>5. Idle'
    BY <2>1, <2>2 DEF Idle, TypeOK
  <2> QED BY <2>4, <2>5
<1>4. ASSUME NEW r \in Requests, RecoverOne(r) PROVE Workers' /\ Idle'
  <2>1. PICK o \in claimed[r], ok \in BOOLEAN :
       /\ RetrySucceeds(o) \/ RetryFails(o)
       /\ claimed' = [claimed EXCEPT ![r] = @ \ {o}]
       /\ phase' = [phase EXCEPT ![r] =
            IF claimed[r] # {o} THEN @
            ELSE IF failed[r] \/ ~ok THEN "rejected" ELSE "recovered"]
    BY <1>4 DEF RecoverOne
  <2>2. r \in Actors /\ phase[r] = "recovering"
    BY <1>4 DEF RecoverOne, Actors
  <2>3. Workers'
    BY <2>1, <2>2, RetryWorkers
  <2>4. claimed[r] # {o} => phase'[r] = "recovering"
    BY <2>1, <2>2 DEF TypeOK
  <2>5. claimed[r] = {o} => claimed'[r] = {}
    BY <2>1, <2>2 DEF TypeOK
  <2>6. \A q \in Requests : q # r => claimed'[q] = claimed[q] /\ phase'[q] = phase[q]
    BY <2>1 DEF TypeOK, Actors
  <2>7. Idle'
    BY <2>4, <2>5, <2>6 DEF Idle
  <2> QED BY <2>3, <2>7
<1>5. ASSUME NEW r \in Requests, Reserve(r) PROVE Workers' /\ Idle'
  <2>1. pending' \subseteq pending /\ UNCHANGED <<claimed, busy>> /\ phase[r] = "recovered"
    BY <1>5 DEF Reserve
  <2>2. \A q \in Requests : phase[q] = "recovering" => phase'[q] = "recovering"
    BY <1>5, <2>1 DEF Reserve, TypeOK
  <2> QED BY <2>1, <2>2, WorkersUntouched
<1>6. ASSUME NEW r \in Requests, ExecAcquire(r) PROVE Workers' /\ Idle'
  BY <1>6, WorkersUntouched DEF ExecAcquire, ownerVars
<1>7. ASSUME NEW r \in Requests, ResendAcquire(r) PROVE Workers' /\ Idle'
  BY <1>7, WorkersUntouched DEF ResendAcquire, ownerVars, callVars
<1>8. ASSUME NEW r \in Requests, ReplyAcquire(r) PROVE Workers' /\ Idle'
  <2>1. r \notin pending /\ r \notin busy
    BY <1>8 DEF ReplyAcquire, Bookkeeping, TypeOK
  <2>2. busy' = busy /\ pending' \subseteq pending /\ claimed' = claimed
    <3>1. claimed' = claimed /\ (UNCHANGED ownerVars \/ Forget({r}))
      BY <1>8 DEF ReplyAcquire
    <3>2. CASE UNCHANGED ownerVars
      BY <3>1, <3>2 DEF ownerVars
    <3>3. CASE Forget({r})
      BY <2>1, <3>1, <3>3 DEF Forget
    <3> QED BY <3>1, <3>2, <3>3
  <2>3. \A q \in Requests : phase[q] = "recovering" => phase'[q] = "recovering"
    <3>1. phase[r] = "acquiring" /\ \E p \in {"running", "rejected"} : phase' = [phase EXCEPT ![r] = p]
      BY <1>8 DEF ReplyAcquire
    <3> QED BY <3>1 DEF TypeOK
  <2> QED BY <2>2, <2>3, WorkersUntouched
<1>9. ASSUME NEW r \in Requests, AcquireError(r) PROVE Workers' /\ Idle'
  BY <1>9, WorkersUntouched DEF AcquireError, Close, ownerVars, TypeOK
<1>10. ASSUME NEW r \in Requests, Refresh(r) PROVE Workers' /\ Idle'
  BY <1>10, WorkersUntouched DEF Refresh, Close, ownerVars, TypeOK
<1>11. ASSUME NEW r \in Requests, RefreshError(r) PROVE Workers' /\ Idle'
  BY <1>11, WorkersUntouched DEF RefreshError, Close, ownerVars, TypeOK
<1>12. ASSUME NEW r \in Requests, Finish(r) PROVE Workers' /\ Idle'
  BY <1>12, WorkersUntouched DEF Finish, Close, ownerVars, callVars, TypeOK
<1>13. ASSUME NEW r \in Requests, Reclaim(r) PROVE Workers' /\ Idle'
  <2>1. r \notin pending /\ r \notin busy
    BY <1>13 DEF Reclaim, Bookkeeping, TypeOK
  <2>2. busy' = busy /\ pending' \subseteq pending /\ claimed' = claimed
    BY <1>13, <2>1 DEF Reclaim, Forget, callVars
  <2>3. \A q \in Requests : phase[q] = "recovering" => phase'[q] = "recovering"
    BY <1>13 DEF Reclaim, TypeOK
  <2> QED BY <2>2, <2>3, WorkersUntouched
<1>14. ASSUME NEW r \in Requests, ReclaimError(r) PROVE Workers' /\ Idle'
  <2>1. \A a \in Actors : r \notin claimed[a]
    BY <1>14 DEF ReclaimError, Bookkeeping
  <2>2. UNCHANGED <<claimed, busy>> /\ pending' \subseteq pending \cup {r}
    BY <1>14 DEF ReclaimError, MarkPending, callVars, ownerVars
  <2>3. Workers'
    BY <2>1, <2>2, WorkersKept
  <2>4. Idle'
    BY <1>14, <2>2 DEF ReclaimError, Idle, TypeOK
  <2> QED BY <2>3, <2>4
<1>15. ASSUME NEW i \in Instances, CleanerClaim(i) PROVE Workers' /\ Idle'
  <2> DEFINE S == pending \cap Of(i)
  <2>1. PICK C \in ClaimSets(S) : Claim(S, C) /\ claimed' = [claimed EXCEPT ![i] = C]
    BY <1>15 DEF CleanerClaim
  <2>2. S \in SUBSET pending /\ \A o \in S : Home[o] = HomeOf(i)
    BY DEF HomeOf, Of
  <2> HIDE DEF S
  <2>3. i \in Actors /\ claimed[i] = {} /\ phase' = phase
    BY <1>15 DEF CleanerClaim, Actors
  <2>4. Workers'
    BY <2>1, <2>2, <2>3, ClaimWorkers
  <2>5. Idle'
    BY <2>1, <2>3 DEF Idle, TypeOK, Actors
  <2> QED BY <2>4, <2>5
<1>16. ASSUME NEW i \in Instances, CleanerRecover(i) PROVE Workers' /\ Idle'
  <2>1. PICK o \in claimed[i] :
          (RetrySucceeds(o) \/ RetryFails(o)) /\ claimed' = [claimed EXCEPT ![i] = @ \ {o}]
    BY <1>16 DEF CleanerRecover
  <2>2. i \in Actors /\ phase' = phase
    BY <1>16 DEF CleanerRecover, Actors
  <2>3. Workers'
    BY <2>1, <2>2, RetryWorkers
  <2>4. Idle'
    BY <2>1, <2>2 DEF Idle, TypeOK, Actors
  <2> QED BY <2>3, <2>4
<1>17. ASSUME NEW i \in Instances, Crash(i) PROVE Workers' /\ Idle'
  <2>1. /\ busy' = busy \ Of(i) /\ pending' = pending \ Of(i)
        /\ claimed' = [a \in Actors |-> IF a = i \/ a \in Of(i) THEN {} ELSE claimed[a]]
        /\ phase' = [r \in Requests |->
             IF r \in Of(i) /\ phase[r] \notin {"idle", "rejected"} THEN "crashed" ELSE phase[r]]
    BY <1>17 DEF Crash, Forget
  <2>2. \A a \in Actors : (a = i \/ a \in Of(i)) <=> HomeOf(a) = i
    BY DEF HomeOf, Of, Actors
  <2>3. \A o \in busy' : o \in Requests /\ Home[o] # i
    BY <2>1 DEF Of, TypeOK
  <2>4. Retries'
    BY <2>1 DEF Workers, Retries, HomeOf, TypeOK
  <2>5. \A o \in busy' : \E a \in Actors : o \in claimed'[a]
    BY <2>1, <2>2, <2>3 DEF Workers, Retries, BusyHasOneWorker
  <2>6. \A a, b \in Actors : a # b => claimed'[a] \cap claimed'[b] = {}
    BY <2>1 DEF Workers, BusyHasOneWorker
  <2>7. Idle'
    BY <2>1 DEF Idle, Actors
  <2> QED BY <2>4, <2>5, <2>6, <2>7 DEF Workers, BusyHasOneWorker
<1>18. ASSUME NEW i \in Instances, Restart(i) PROVE Workers' /\ Idle'
  BY <1>18, WorkersUntouched DEF Restart, ownerVars, callVars
<1>19. ASSUME NEW r \in Requests, NEW c \in Commands, DeliverLate(r, c) \/ DropLate(r, c)
       PROVE  Workers' /\ Idle'
  BY <1>19, WorkersUntouched DEF DeliverLate, DropLate, ownerVars, callVars
<1>20. ASSUME NEW p \in UserPools, SetLimit(p) PROVE Workers' /\ Idle'
  BY <1>20, WorkersUntouched DEF SetLimit, ownerVars, callVars
<1>21. CASE Tick
  BY <1>21, WorkersUntouched DEF Tick
<1>22. CASE UNCHANGED vars
  BY <1>22, WorkersUntouched DEF vars, ownerVars, callVars
<1> QED
  BY <1>1, <1>2, <1>3, <1>4, <1>5, <1>6, <1>7, <1>8, <1>9, <1>10, <1>11, <1>12,
     <1>13, <1>14, <1>15, <1>16, <1>17, <1>18, <1>19, <1>20, <1>21, <1>22
  DEF Next, Admission, Execution, Cleaner, Network

\* A record that is busy is being retried, by one actor only: no record blocks
\* the admissions of its pool though nobody retries it.
THEOREM BusyRecordsHaveOneWorker == Spec => []BusyHasOneWorker
<1>1. Init => Workers /\ Idle
  BY DEF Init, Workers, Retries, BusyHasOneWorker, Idle, Actors
<1>2. LeaseInvariant /\ Workers /\ Idle /\ [Next]_vars => Workers' /\ Idle'
  BY WorkersInductive DEF LeaseInvariant
<1>3. Workers => BusyHasOneWorker
  BY DEF Workers
<1> QED BY <1>1, <1>2, <1>3, LeaseInvariantHolds, PTL DEF Spec
=============================================================================

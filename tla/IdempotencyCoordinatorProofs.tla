-------------------- MODULE IdempotencyCoordinatorProofs --------------------
(***************************************************************************)
(* Requests with one key never execute side by side while no row expires   *)
(* under its request, replays are genuine, a stored success is final and a *)
(* detached request keeps its row, for any number of requests, payloads    *)
(* and durations.                                                          *)
(***************************************************************************)
EXTENDS IdempotencyCoordinator, IdempotencyStoreProofs

\* Initially there is no row and no request.
LEMMA InitInvariant == Init => CoordinatorInvariant
<1> SUFFICES ASSUME Init PROVE CoordinatorInvariant
  OBVIOUS
<1>1. TypeOK
  <2>1. row \in Rows /\ faults \in 0..MaxFaults
    BY NewRows, CoordinatorAssumption DEF Init
  <2>2. overrun \in BOOLEAN /\ record \in [Callers -> Callers] /\ answer \in [Callers -> Callers]
        /\ timedOut \subseteq Callers
    BY Zenon DEF Init
  <2>3. found \in [Callers -> Sights]
    BY DEF Init, NotFound, Sights
  <2>4. age \in [Callers -> 0..Slack] /\ due \in [Callers -> 0..RenewWithin + 1]
    BY CoordinatorAssumption, StoreAssumption DEF Init
  <2>5. expires \in [Callers -> Times]
    BY ComputedTimes DEF Init
  <2>6. result \in [Callers -> Results]
    BY DEF Init, Results
  <2>7. pc \in [Callers -> Places]
    BY DEF Init, Places
  <2>8. payload \in [Callers -> Payloads]
    BY CoordinatorAssumption DEF Init
  <2> QED BY <2>1, <2>2, <2>3, <2>4, <2>5, <2>6, <2>7, <2>8 DEF TypeOK
<1>2. Active = {} /\ \A r \in Callers : pc[r] = "idle"
  BY DEF Init, Active
<1> QED BY <1>1, <1>2 DEF CoordinatorInvariant, ActiveHasRow, FailureWasRead,
                          ExpiredReadIsTooEarly, ResultIsKnown, OneExecution

\* Every step keeps the types.
LEMMA TypeStep == TypeOK /\ ResultIsKnown /\ [Next]_vars => TypeOK'
<1> SUFFICES ASSUME TypeOK, ResultIsKnown, [Next]_vars PROVE TypeOK'
  OBVIOUS
<1> USE CoordinatorAssumption, StoreAssumption DEF TypeOK, To, claimVars, ownVars
<1>f. /\ \A r \in Callers : NotFound(r) \in Sights
      /\ [id |-> row.id, status |-> row.status] \in Sights
      /\ row.by \in Callers
  BY DEF NotFound, Rows, Sights
<1>p. ASSUME NEW r \in Callers, NEW p \in Places, To(r, p)
      PROVE  pc' \in [Callers -> Places] /\ age' \in [Callers -> 0..Slack]
  <2>1. age' = age \/ age' = [age EXCEPT ![r] = 0]
    BY <1>p
  <2> QED BY <1>p, <2>1
<1>g. ASSUME NEW r \in Callers, NEW x \in Sights, found' = [found EXCEPT ![r] = x]
      PROVE  found' \in [Callers -> Sights]
  BY <1>g
<1>q. /\ {"creating", "reading", "reclaimingExpired", "rereading", "reclaiming"} \subseteq Places
      /\ {"executing", "persisting", "done", "replayed"} \subseteq Places
      /\ {"failed"} \subseteq Places
  BY DEF Places, ClaimPlaces
<1>1. ASSUME NEW r \in Callers, Start(r) PROVE TypeOK'
  BY <1>1, <1>p, <1>q DEF Start
<1>b. ASSUME NEW r \in Callers, NEW id \in Callers, Begin(r, id), row' \in Rows PROVE TypeOK'
  <2>1. After(TTL, age[r]) \in Times
    BY ComputedTimes
  <2> QED BY <1>b, <1>f, <1>p, <1>q, <2>1 DEF Begin, Forget
<1>2. ASSUME NEW r \in Callers, Create(r) PROVE TypeOK'
  <2>1. CreateProcessing(r, payload[r], age[r]) \in Rows
    BY NewRows
  <2>2. CASE Begin(r, r)
    BY <1>2, <1>b, <2>1, <2>2 DEF Create
  <2>3. CASE ~Begin(r, r)
    BY <1>2, <1>p, <1>q, <2>3 DEF Create
  <2> QED BY <2>2, <2>3
<1>d. ASSUME NEW r \in Callers, Decide(r)
      PROVE  /\ pc' \in [Callers -> Places] /\ age' \in [Callers -> 0..Slack]
             /\ found' \in [Callers -> Sights]
             /\ answer' \in [Callers -> Callers]
  <2>1. CASE row.status = "succeeded" /\ row.body = "stored"
    <3>1. To(r, "replayed") /\ found' = found /\ answer' = [answer EXCEPT ![r] = row.by]
      BY <1>d, <2>1 DEF Decide
    <3> QED BY <1>f, <1>p, <1>q, <3>1
  <2>2. CASE ~(row.status = "succeeded" /\ row.body = "stored")
    <3>1. /\ \/ found' = found
             \/ found' = [found EXCEPT ![r] = [id |-> row.id, status |-> row.status]]
          /\ To(r, "failed") \/ To(r, "reclaiming")
          /\ answer' = answer
      BY <1>d, <2>2 DEF Decide
    <3>2. found' \in [Callers -> Sights]
      BY <1>f, <1>g, <3>1
    <3>3. pc' \in [Callers -> Places] /\ age' \in [Callers -> 0..Slack]
      BY <1>p, <1>q, <3>1
    <3> QED BY <3>1, <3>2, <3>3
  <2> QED BY <2>1, <2>2
<1>3. ASSUME NEW r \in Callers, Read(r) \/ ReadLatest(r) PROVE TypeOK'
  <2>1. CASE Decide(r)
    BY <1>3, <1>d, <2>1 DEF Read, ReadLatest
  <2>2. CASE ~Decide(r)
    <3>1. /\ \/ found' = found
             \/ found' = [found EXCEPT ![r] = [id |-> row.id, status |-> row.status]]
          /\ To(r, "failed") \/ To(r, "reclaimingExpired")
          /\ UNCHANGED <<row, ownVars, answer, faults, overrun, payload>>
      BY <1>3, <2>2 DEF Read, ReadLatest
    <3>2. found' \in [Callers -> Sights]
      BY <1>f, <1>g, <3>1
    <3>3. pc' \in [Callers -> Places] /\ age' \in [Callers -> 0..Slack]
      BY <1>p, <1>q, <3>1
    <3> QED BY <3>1, <3>2, <3>3
  <2> QED BY <2>1, <2>2
<1>4. ASSUME NEW r \in Callers, ReclaimExpired(r) \/ Reclaim(r) PROVE TypeOK'
  <2>1. TryReclaim(row, age[r]) \in Rows /\ found[r].id \in Callers
    BY RowTypes DEF Sights
  <2>2. CASE Begin(r, found[r].id)
    BY <1>4, <1>b, <2>1, <2>2 DEF ReclaimExpired, Reclaim
  <2>3. CASE ~Begin(r, found[r].id)
    <3>1. /\ To(r, "rereading") \/ To(r, "failed")
          /\ found' = [found EXCEPT ![r] = NotFound(r)]
          /\ UNCHANGED <<row, ownVars, answer, faults, overrun, payload>>
      BY <1>4, <2>3 DEF ReclaimExpired, Reclaim, Forget
    <3> QED BY <1>f, <1>g, <1>p, <1>q, <3>1
  <2> QED BY <2>2, <2>3
<1>5. ASSUME NEW r \in Callers, ClaimError(r) PROVE TypeOK'
  <2>1. TryReclaim(row, age[r]) \in Rows /\ CreateProcessing(r, payload[r], age[r]) \in Rows
    BY RowTypes, NewRows
  <2> QED BY <1>5, <1>f, <1>p, <1>q, <2>1 DEF ClaimError, Fault, Forget
<1>6. ASSUME NEW r \in Callers, Renew(r) \/ RenewError(r) PROVE TypeOK'
  <2>1. ExtendProcessingLock(row) \in Rows
    BY RowTypes
  <2>2. CASE Renew(r)
    <3>1. CanExtend(r) \in BOOLEAN
      BY DEF CanExtend, Extendable
    <3> QED BY <2>1, <2>2, <3>1 DEF Renew
  <2>3. CASE RenewError(r)
    BY <2>1, <2>3 DEF RenewError, Fault
  <2> QED BY <1>6, <2>2, <2>3
<1>7. ASSUME NEW r \in Callers, Return(r) PROVE TypeOK'
  BY <1>7, <1>p, <1>q, ComputedTimes DEF Return
<1>o. ASSUME NEW r \in Callers, TimeOut(r) PROVE TypeOK'
  BY <1>o DEF TimeOut
<1>m. ASSUME NEW r \in Callers, pc[r] = "persisting", result[r] # "none" PROVE Marked(r) \in Rows
  <2>1. result[r] # "failed" => result[r] \in Bodies
    BY <1>m DEF Results, Bodies
  <2>2. Backoff \in Times /\ expires[r] \in Times /\ row \in Rows
    BY DEF Times, Past
  <2> QED BY <2>1, <2>2, RowTypes DEF Marked
<1>8. ASSUME NEW r \in Callers, Persist(r) \/ PersistError(r) \/ Crash(r) PROVE TypeOK'
  <2>1. row' \in Rows
    <3>1. pc[r] = "persisting" => Marked(r) \in Rows
      BY <1>m DEF ResultIsKnown
    <3> QED BY <1>8, <3>1 DEF Persist, PersistError, Crash
  <2>2. faults' \in 0..MaxFaults
    BY <1>8 DEF Persist, PersistError, Crash, Fault
  <2>3. End(r, "done") \/ End(r, "failed")
    BY <1>8 DEF Persist, PersistError, Crash
  <2>4. /\ pc' \in [Callers -> Places] /\ age' \in [Callers -> 0..Slack]
        /\ found' \in [Callers -> Sights]
        /\ UNCHANGED <<answer, overrun, payload>>
    BY <1>f, <1>g, <1>p, <1>q, <2>3 DEF End, Forget
  <2>6. result' \in [Callers -> Results]
    <3>1. \E x \in {"none", "stored"} : result' = [result EXCEPT ![r] = x]
      BY <2>3 DEF End
    <3> QED BY <3>1 DEF Results
  <2>5. /\ record' \in [Callers -> Callers] /\ expires' \in [Callers -> Times]
        /\ due' \in [Callers -> 0..RenewWithin + 1] /\ timedOut' \subseteq Callers
    <3>1. /\ record' = [record EXCEPT ![r] = r] /\ expires' = [expires EXCEPT ![r] = 0]
          /\ due' = [due EXCEPT ![r] = 0] /\ timedOut' = timedOut \ {r}
      BY <2>3 DEF End
    <3>2. 0 \in Times /\ 0 \in 0..RenewWithin + 1
      BY ComputedTimes
    <3> QED BY <3>1, <3>2
  <2> QED BY <2>1, <2>2, <2>4, <2>5, <2>6
<1>9. CASE Cleanup
  BY <1>9, RowTypes DEF Cleanup
<1>10. CASE Tick
  <2>1. row' \in Rows
    BY <1>10, RowTypes DEF Tick
  <2>2. age' \in [Callers -> 0..Slack] /\ due' \in [Callers -> 0..RenewWithin + 1]
    BY <1>10 DEF Tick
  <2>3. expires' \in [Callers -> Times]
    BY <1>10, ComputedTimes DEF Tick
  <2>4. overrun' \in BOOLEAN
    BY <1>10 DEF Tick
  <2> QED BY <1>10, <2>1, <2>2, <2>3, <2>4 DEF Tick
<1>11. CASE UNCHANGED vars
  BY <1>11 DEF vars
<1> QED BY <1>1, <1>2, <1>3, <1>4, <1>5, <1>6, <1>o, <1>7, <1>8, <1>9, <1>10, <1>11
        DEF Next, Claim, Renewal, Conclude

\* Every step keeps the row of the execution out of the others' reach, and the
\* execution alone.
LEMMA InvariantStep == CoordinatorInvariant /\ [Next]_vars => CoordinatorInvariant'
<1> SUFFICES ASSUME CoordinatorInvariant, [Next]_vars PROVE CoordinatorInvariant'
  OBVIOUS
<1>t. TypeOK'
  BY TypeStep DEF CoordinatorInvariant
<1>n. /\ row.lock \in Int /\ row.expires \in Int /\ row.lock >= -Slack
      /\ row \in Rows /\ Slack \in Nat
      /\ pc \in [Callers -> Places] /\ found \in [Callers -> Sights]
      /\ age \in [Callers -> 0..Slack] /\ \A r \in Callers : age[r] \in 0..Slack
  BY StoreAssumption DEF CoordinatorInvariant, TypeOK, Rows, Times, Past
\* A request that goes on with its claim keeps its `now'.
<1>a. ASSUME NEW r \in Callers, NEW p, To(r, p)
      PROVE  \A q \in Callers : pc'[q] = "reclaimingExpired" => age'[q] = age[q]
  BY <1>a, <1>n DEF To, ClaimPlaces
<1>m. ActiveHasRow /\ FailureWasRead /\ ExpiredReadIsTooEarly /\ ResultIsKnown /\ OneExecution
  BY DEF CoordinatorInvariant
<1> DEFINE Kept == /\ ActiveHasRow' /\ FailureWasRead' /\ ExpiredReadIsTooEarly'
                   /\ ResultIsKnown' /\ OneExecution'
           Locked == row.status = "processing" /\ row.expires > 0
                       /\ \A r \in Callers : pc[r] = "reclaimingExpired" => row.lock > -age[r]
<1> USE DEF ActiveHasRow, FailureWasRead, ExpiredReadIsTooEarly, ResultIsKnown, OneExecution
\* Steps that start no execution and leave the row of one locked.
<1>1. ASSUME Active' \subseteq Active, overrun' = overrun, FailureWasRead', ResultIsKnown',
             ~overrun /\ Active' # {} /\ Locked => Locked'
      PROVE  Kept
  BY <1>1, <1>m
\* A request that claims the row while nobody executes.
<1>b. ASSUME NEW r \in Callers, NEW id \in Callers, Begin(r, id), overrun \/ Active = {},
             row'.status = "processing", row'.expires > 0, row'.lock > 0
      PROVE  Kept
  <2>1. Active' = Active \cup {r} /\ overrun' = overrun
    BY <1>b, <1>n DEF Begin, To, Active
  <2>4. \A q \in Callers : age'[q] \in 0..Slack
    BY <1>t DEF TypeOK
  <2>2. FailureWasRead' /\ ResultIsKnown'
    BY <1>b, <1>m, <1>n DEF Begin, To, Forget
  <2>3. row'.lock \in Int
    BY <1>t, StoreAssumption DEF TypeOK, Rows, Times, Past
  <2> QED BY <1>b, <1>n, <2>1, <2>2, <2>3, <2>4
\* While one executes, no other request can take its row.
<1>r. ASSUME NEW r \in Callers, pc[r] \in {"reclaimingExpired", "reclaiming"}, CanReclaim(r)
      PROVE  overrun \/ Active = {}
  BY <1>r, <1>m, <1>n DEF CanReclaim, Reclaimable
\* A fresh claim locks the row.
<1>c. ASSUME NEW r \in Callers
      PROVE  /\ CreateProcessing(r, payload[r], age[r]).status = "processing"
             /\ CreateProcessing(r, payload[r], age[r]).lock > 0
             /\ CreateProcessing(r, payload[r], age[r]).expires > 0
             /\ TryReclaim(row, age[r]).status = "processing"
             /\ TryReclaim(row, age[r]).lock > 0
             /\ TryReclaim(row, age[r]).expires > 0
  <2>1. After(Lease, age[r]) > 0 /\ After(TTL, age[r]) > 0
    BY <1>n, StoreAssumption, CoordinatorAssumption DEF After, Past
  <2> QED BY <1>n, <2>1 DEF CreateProcessing, TryReclaim, Rows
<1>2. ASSUME NEW r \in Callers, Start(r) PROVE Kept
  BY <1>1, <1>2, <1>a, <1>m, <1>n DEF Start, To, Active, ownVars
<1>3. ASSUME NEW r \in Callers, Create(r) PROVE Kept
  <2>1. CASE ~Absent(row)
    BY <1>1, <1>3, <1>a, <1>m, <1>n, <2>1 DEF Create, To, Active, ownVars
  <2>2. CASE Absent(row)
    <3>1. overrun \/ Active = {}
      BY <1>m, <2>2 DEF Absent
    <3>2. row' = CreateProcessing(r, payload[r], age[r]) /\ Begin(r, r)
      BY <1>3, <2>2 DEF Create
    <3> QED BY <1>b, <1>c, <3>1, <3>2
  <2> QED BY <2>1, <2>2
<1>4. ASSUME NEW r \in Callers, Read(r) \/ ReadLatest(r) PROVE Kept
  <2>1. /\ \/ \E p \in {"failed", "replayed"} : To(r, p) /\ found' = found
           \/ /\ To(r, "reclaiming") /\ row.status = "failed_retryable"
              /\ found' = [found EXCEPT ![r] = [id |-> row.id, status |-> row.status]]
           \/ /\ To(r, "reclaimingExpired") /\ row.expires <= -age[r]
              /\ found' = [found EXCEPT ![r] = [id |-> row.id, status |-> row.status]]
        /\ pc[r] \in {"reading", "rereading"}
        /\ UNCHANGED <<row, result, overrun>>
    BY <1>4 DEF Read, ReadLatest, Decide, ownVars
  <2>2. Active' = Active
    BY <1>n, <2>1 DEF Active, To
  <2>3. FailureWasRead'
    BY <1>m, <1>n, <2>1 DEF To
  <2>4. ResultIsKnown'
    BY <1>m, <1>n, <2>1 DEF To
  <2>5. ~overrun /\ Active # {} => row.expires > -age[r]
    BY <1>m, <1>n
  <2>6. ~overrun /\ Active' # {} /\ Locked => Locked'
    <3>1. \A q \in Callers : pc'[q] = "reclaimingExpired" => age'[q] = age[q]
      BY <1>a, <2>1
    <3> QED BY <1>n, <2>1, <2>2, <2>5, <3>1 DEF To
  <2> QED BY <1>1, <2>1, <2>2, <2>3, <2>4, <2>6
<1>5. ASSUME NEW r \in Callers, ReclaimExpired(r) \/ Reclaim(r) PROVE Kept
  <2>1. CASE ~CanReclaim(r)
    <3>1. /\ To(r, "rereading") \/ To(r, "failed")
          /\ found' = [found EXCEPT ![r] = NotFound(r)]
          /\ pc[r] \in {"reclaimingExpired", "reclaiming"}
          /\ UNCHANGED <<row, result, overrun>>
      BY <1>5, <2>1 DEF ReclaimExpired, Reclaim, Forget, ownVars
    <3>2. Active' = Active
      BY <1>n, <3>1 DEF Active, To
    <3>3. FailureWasRead' /\ ResultIsKnown'
      BY <1>m, <1>n, <3>1 DEF To
    <3>4. Locked => Locked'
      <4>1. \A q \in Callers : pc'[q] = "reclaimingExpired" => age'[q] = age[q]
        BY <1>a, <3>1
      <4> QED BY <1>n, <3>1, <4>1 DEF To
    <3> QED BY <1>1, <3>1, <3>2, <3>3, <3>4
  <2>2. CASE CanReclaim(r)
    <3>1. overrun \/ Active = {}
      BY <1>5, <1>r, <2>2 DEF ReclaimExpired, Reclaim
    <3>2. row' = TryReclaim(row, age[r]) /\ Begin(r, found[r].id)
      BY <1>5, <2>2 DEF ReclaimExpired, Reclaim
    <3>3. found[r].id \in Callers
      BY <1>n DEF Sights
    <3> QED BY <1>b, <1>c, <3>1, <3>2, <3>3
  <2> QED BY <2>1, <2>2
<1>6. ASSUME NEW r \in Callers, ClaimError(r) PROVE Kept
  <2>1. Active' = Active /\ overrun' = overrun
    BY <1>6, <1>n DEF ClaimError, To, Active, Claiming, ClaimPlaces
  <2>2. FailureWasRead' /\ ResultIsKnown'
    BY <1>6, <1>m, <1>n DEF ClaimError, To, Forget, ownVars
  <2>3. \/ row' = row
        \/ Absent(row)
        \/ pc[r] \in {"reclaimingExpired", "reclaiming"} /\ CanReclaim(r)
    BY <1>6 DEF ClaimError
  <2>4. ~overrun /\ Active # {} /\ Locked => row' = row
    BY <1>r, <2>3 DEF Absent
  <2>5. \A q \in Callers :
          pc'[q] = "reclaimingExpired" => pc[q] = "reclaimingExpired" /\ age'[q] = age[q]
    BY <1>6, <1>a, <1>n DEF ClaimError, To
  <2>6. ~overrun /\ Active' # {} /\ Locked => Locked'
    BY <2>1, <2>4, <2>5
  <2> QED BY <1>1, <2>1, <2>2, <2>6
<1>7. ASSUME NEW r \in Callers, Renew(r) \/ RenewError(r) PROVE Kept
  <2>1. UNCHANGED <<pc, age, found, result, overrun>>
    BY <1>7 DEF Renew, RenewError, claimVars
  <2>2. Active' = Active
    BY <2>1 DEF Active
  <2>3. row' = row \/ row' = ExtendProcessingLock(row)
    BY <1>7 DEF Renew, RenewError
  <2>4. ExtendProcessingLock(row).status = row.status
        /\ ExtendProcessingLock(row).lock = Lease /\ ExtendProcessingLock(row).expires = TTL
    BY <1>n DEF ExtendProcessingLock, Rows
  <2>5. Locked => Locked'
    BY <1>n, <2>1, <2>3, <2>4, StoreAssumption
  <2> QED BY <1>1, <1>m, <2>1, <2>2, <2>5
<1>o. ASSUME NEW r \in Callers, TimeOut(r) PROVE Kept
  BY <1>o, <1>m DEF TimeOut, claimVars, Active
<1>8. ASSUME NEW r \in Callers, Return(r) PROVE Kept
  <2>1. /\ pc[r] = "executing" /\ To(r, "persisting") /\ UNCHANGED <<row, found, overrun>>
        /\ \E x \in Results \ {"none"} : result' = [result EXCEPT ![r] = x]
    BY <1>8 DEF Return
  <2>2. Active' = Active
    BY <1>n, <2>1 DEF Active, To
  <2>3. FailureWasRead' /\ (Locked => Locked')
    BY <1>a, <1>m, <1>n, <2>1 DEF To
  <2>4. ResultIsKnown'
    <3>1. result \in [Callers -> Results]
      BY DEF CoordinatorInvariant, TypeOK
    <3> QED BY <1>m, <1>n, <2>1, <3>1 DEF To
  <2> QED BY <1>1, <2>1, <2>2, <2>3, <2>4
<1>9. ASSUME NEW r \in Callers, Persist(r) \/ PersistError(r) \/ Crash(r) PROVE Kept
  <2>1. /\ To(r, "done") \/ To(r, "failed")
        /\ overrun' = overrun
        /\ \E x \in Results : result' = [result EXCEPT ![r] = x]
        /\ found' = [found EXCEPT ![r] = NotFound(r)]
        /\ row' = row \/ r \in Active
    BY <1>9 DEF Persist, PersistError, Crash, End, Forget, Active, Results
  <2>2. Active' = Active \ {r}
    BY <1>n, <2>1 DEF Active, To
  <2>3. FailureWasRead' /\ ResultIsKnown'
    <3>1. result \in [Callers -> Results]
      BY DEF CoordinatorInvariant, TypeOK
    <3> QED BY <1>m, <1>n, <2>1, <3>1 DEF To
  <2>4. ~overrun /\ Active' # {} => row' = row
    BY <1>m, <2>1, <2>2
  <2>5. \A q \in Callers :
          pc'[q] = "reclaimingExpired" => pc[q] = "reclaimingExpired" /\ age'[q] = age[q]
    BY <1>a, <1>n, <2>1 DEF To
  <2>6. ~overrun /\ Active' # {} /\ Locked => Locked'
    BY <2>1, <2>4, <2>5
  <2> QED BY <1>1, <2>1, <2>2, <2>3, <2>6
<1>10. ASSUME Cleanup PROVE Kept
  <2>1. UNCHANGED <<pc, age, found, result, overrun>>
    BY <1>10 DEF Cleanup, claimVars, ownVars
  <2>2. Active' = Active
    BY <2>1 DEF Active
  <2>3. ~Locked
    BY <1>10, <1>n DEF Cleanup, Deletable
  <2> QED BY <1>1, <1>m, <2>1, <2>2, <2>3
<1>11. ASSUME Tick PROVE Kept
  <2>1. UNCHANGED <<pc, found, result>> /\ row' = Aged(row)
    BY <1>11 DEF Tick
  <2>2. Active' = Active
    BY <2>1 DEF Active
  <2>3. row'.status = row.status /\ row'.lock = Earlier(row.lock) /\ row'.expires \in Int
    <3>1. row' \in Rows
      BY <1>t DEF TypeOK
    <3>2. row'.status = row.status /\ row'.lock = Earlier(row.lock)
      BY <1>n, <2>1 DEF Aged, Rows
    <3>3. row'.expires \in Int
      BY <3>1, StoreAssumption DEF Rows, Times, Past
    <3> QED BY <3>2, <3>3
  <2>4. ~overrun' => ~overrun /\ (Active = {} \/ row'.expires > 0)
    <3>1. overrun' <=> (overrun \/ (Active # {} /\ row'.expires <= 0))
      BY <1>11, Zenon DEF Tick
    <3>2. ~(row'.expires <= 0) <=> row'.expires > 0
      BY <2>3
    <3> QED BY <3>1, <3>2, Zenon
  <2>5. ASSUME NEW r \in Callers, pc[r] = "reclaimingExpired", row.lock > -age[r]
        PROVE  row'.lock > -(age'[r])
    <3>1. age'[r] = age[r] + 1
      BY <1>11, <1>n, <2>5 DEF Tick, Claiming, ClaimPlaces
    <3>2. row'.lock = row.lock - 1
      BY <1>n, <2>3, <2>5 DEF Earlier, Past
    <3> QED BY <1>n, <2>5, <3>1, <3>2
  <2>6. FailureWasRead' /\ ResultIsKnown' /\ OneExecution'
    BY <1>m, <2>1, <2>2, <2>4
  <2>7. ActiveHasRow'
    BY <1>m, <2>2, <2>3, <2>4
  <2>8. ExpiredReadIsTooEarly'
    BY <1>m, <2>1, <2>2, <2>4, <2>5
  <2> QED BY <2>6, <2>7, <2>8
<1>12. ASSUME UNCHANGED vars PROVE Kept
  BY <1>12, <1>m DEF vars, claimVars, ownVars, Active
<1>13. Kept
  BY <1>2, <1>3, <1>4, <1>5, <1>6, <1>7, <1>o, <1>8, <1>9, <1>10, <1>11, <1>12
     DEF Next, Claim, Renewal, Conclude
<1> QED BY <1>t, <1>13 DEF CoordinatorInvariant

\* The inductive invariant holds.
THEOREM CoordinatorInvariantHolds == Spec => []CoordinatorInvariant
BY InitInvariant, InvariantStep, PTL DEF Spec

\* Type correctness of the coordinator.
THEOREM TypeCorrect == Spec => []TypeOK
<1>1. CoordinatorInvariant => TypeOK
  BY DEF CoordinatorInvariant
<1> QED BY CoordinatorInvariantHolds, <1>1, PTL

\* Two requests with one key are inside their business operation at the same
\* time only after the row of one of them expired under it.
THEOREM ExecutionsDoNotOverlap == Spec => []OneExecution
<1>1. CoordinatorInvariant => OneExecution
  BY DEF CoordinatorInvariant
<1> QED BY CoordinatorInvariantHolds, <1>1, PTL

\* Every step keeps the payload of a row and of the requests that claim it, and
\* the responses that were stored.
LEMMA ResponseStep ==
  CoordinatorInvariant /\ ResponseInvariant /\ [Next]_vars => ResponseInvariant'
<1> SUFFICES ASSUME CoordinatorInvariant, ResponseInvariant, [Next]_vars PROVE ResponseInvariant'
  OBVIOUS
<1>t. /\ row \in Rows /\ row.id \in Callers /\ row.by \in Callers
      /\ pc \in [Callers -> Places] /\ found \in [Callers -> Sights]
      /\ record \in [Callers -> Callers] /\ result \in [Callers -> Results]
      /\ answer \in [Callers -> Callers]
  BY DEF CoordinatorInvariant, TypeOK, Rows
<1>m. RowHasPayload /\ ClaimsOwnPayload /\ RowIsGenuine /\ ReplayWasStored
  BY DEF ResponseInvariant
<1>p. payload' = payload
  BY DEF Next, Tick, Cleanup, Start, Claim, Create, Begin, Read, ReclaimExpired, ReadLatest, Reclaim,
         ClaimError, Renewal, Renew, RenewError, TimeOut, Return, Conclude, Persist, PersistError,
         Crash, End, vars
<1> DEFINE Done(q) == pc'[q] = "done" /\ result'[q] = result[q]
\* Steps that lose no response, leave the row its payload and replay nothing.
<1>0. ASSUME \A q \in Callers : pc[q] = "done" => Done(q),
             \A q \in Callers : pc'[q] = "replayed" => pc[q] = "replayed" /\ answer'[q] = answer[q],
             ClaimsOwnPayload',
             \/ SameStory(row', row) /\ (row'.status = "succeeded" => row.status = "succeeded")
                  /\ (Absent(row) => Absent(row'))
             \/ row'.status = "processing" /\ row'.fingerprint = payload[row'.id]
             \/ Absent(row')
      PROVE  ResponseInvariant'
  <2>1. ReplayWasStored'
    BY <1>0, <1>m, <1>p, <1>t DEF ReplayWasStored, Stored
  <2>2. RowHasPayload'
    BY <1>0, <1>m, <1>p DEF RowHasPayload, SameStory, Absent
  <2>3. RowIsGenuine'
    BY <1>0, <1>m, <1>p, <1>t DEF RowIsGenuine, SameStory, Absent, Stored
  <2> QED BY <1>0, <2>1, <2>2, <2>3 DEF ResponseInvariant
<1>s. SameStory(row, row)
  BY DEF SameStory
<1>b. ASSUME NEW r \in Callers, NEW id \in Callers, Begin(r, id), pc[r] \in ClaimPlaces,
             payload[id] = payload[r]
      PROVE  /\ \A q \in Callers : pc[q] = "done" => Done(q)
             /\ \A q \in Callers : pc'[q] = "replayed" => pc[q] = "replayed" /\ answer'[q] = answer[q]
             /\ ClaimsOwnPayload'
  <2>1. ClaimsOwnPayload'
    <3>1. /\ record' = [record EXCEPT ![r] = id]
          /\ found' = [found EXCEPT ![r] = [id |-> r, status |-> "absent"]]
      BY <1>b DEF Begin, Forget, NotFound
    <3>2. pc' = [pc EXCEPT ![r] = "executing"]
      BY <1>b DEF Begin, To
    <3> QED BY <1>b, <1>m, <1>p, <1>t, <3>1, <3>2 DEF ClaimsOwnPayload
  <2> QED BY <1>b, <1>t, <2>1 DEF Begin, To, ClaimPlaces
<1>1. ASSUME NEW r \in Callers, Start(r) PROVE ResponseInvariant'
  BY <1>0, <1>1, <1>m, <1>p, <1>s, <1>t DEF Start, To, ownVars, ClaimsOwnPayload
<1>2. ASSUME NEW r \in Callers, Create(r) PROVE ResponseInvariant'
  <2>1. CASE ~Absent(row)
    BY <1>0, <1>2, <1>m, <1>p, <1>s, <1>t, <2>1 DEF Create, To, ownVars, ClaimsOwnPayload
  <2>2. CASE Absent(row)
    <3>1. row' = CreateProcessing(r, payload[r], age[r]) /\ Begin(r, r) /\ pc[r] \in ClaimPlaces
      BY <1>2, <2>2 DEF Create, ClaimPlaces
    <3>2. row'.status = "processing" /\ row'.fingerprint = payload[row'.id]
      BY <3>1 DEF CreateProcessing
    <3> QED BY <1>0, <1>b, <3>1, <3>2
  <2> QED BY <2>1, <2>2
<1>3. ASSUME NEW r \in Callers, Read(r) \/ ReadLatest(r) PROVE ResponseInvariant'
  <2>1. /\ pc[r] \in {"reading", "rereading"}
        /\ UNCHANGED <<row, record, result>>
    BY <1>3 DEF Read, ReadLatest, ownVars
  <2>2. \/ \E q \in {"failed", "reclaiming", "reclaimingExpired"} : To(r, q) /\ answer' = answer
        \/ /\ To(r, "replayed") /\ answer' = [answer EXCEPT ![r] = row.by]
           /\ row.status = "succeeded" /\ row.body = "stored"
           /\ row.fingerprint = payload[r]
    BY <1>3 DEF Read, ReadLatest, Decide, SameFingerprint
  <2>3. \/ found' = found /\ pc'[r] # "reclaimingExpired"
        \/ /\ found' = [found EXCEPT ![r] = [id |-> row.id, status |-> row.status]]
           /\ row.fingerprint = payload[r] /\ ~Absent(row)
    BY <1>3, <1>t DEF Read, ReadLatest, Decide, SameFingerprint, To
  <2>4. ClaimsOwnPayload'
    <3>1. CASE found' = found /\ pc'[r] # "reclaimingExpired"
      BY <1>m, <1>p, <1>t, <2>1, <2>2, <3>1 DEF ClaimsOwnPayload, To
    <3>2. CASE /\ found' = [found EXCEPT ![r] = [id |-> row.id, status |-> row.status]]
               /\ row.fingerprint = payload[r] /\ ~Absent(row)
      <4>1. \A q \in Callers \ {r} : found'[q] = found[q] /\ pc'[q] = pc[q]
        BY <1>t, <2>2, <3>2 DEF To
      <4>2. found'[r].id = row.id /\ found'[r].status = row.status
        BY <1>t, <3>2
      <4>3. payload[row.id] = payload[r] /\ row.status # "absent"
        BY <1>m, <3>2 DEF RowHasPayload, Absent
      <4> QED BY <1>m, <1>p, <2>1, <4>1, <4>2, <4>3 DEF ClaimsOwnPayload
    <3> QED BY <2>3, <3>1, <3>2
  <2>5. \A q \in Callers : pc[q] = "done" => Done(q)
    BY <1>t, <2>1, <2>2 DEF To
  <2>6. ReplayWasStored'
    <3>1. CASE \E q \in {"failed", "reclaiming", "reclaimingExpired"} : To(r, q) /\ answer' = answer
      <4>1. \A q \in Callers : pc'[q] = "replayed" => pc[q] = "replayed" /\ answer'[q] = answer[q]
        BY <1>t, <3>1 DEF To
      <4> QED BY <1>m, <1>p, <1>t, <2>5, <4>1 DEF ReplayWasStored, Stored
    <3>2. CASE /\ To(r, "replayed") /\ answer' = [answer EXCEPT ![r] = row.by]
               /\ row.status = "succeeded" /\ row.body = "stored"
               /\ row.fingerprint = payload[r]
      <4>1. Stored(row.id, row.by) /\ payload[row.id] = payload[r]
        BY <1>m, <3>2 DEF RowIsGenuine, RowHasPayload, Absent
      <4>2. /\ pc'[answer'[r]] = "done" /\ result'[answer'[r]] = "stored"
            /\ payload'[answer'[r]] = payload'[r]
        BY <1>p, <1>t, <2>5, <3>2, <4>1 DEF Stored
      <4>3. \A q \in Callers \ {r} :
              pc'[q] = "replayed" => pc[q] = "replayed" /\ answer'[q] = answer[q]
        BY <1>t, <3>2 DEF To
      <4> QED BY <1>m, <1>p, <1>t, <2>5, <4>2, <4>3 DEF ReplayWasStored, Stored
    <3> QED BY <2>2, <3>1, <3>2
  <2>7. RowHasPayload' /\ RowIsGenuine'
    BY <1>m, <1>p, <1>t, <2>1, <2>5 DEF RowHasPayload, RowIsGenuine, Absent, Stored
  <2> QED BY <2>4, <2>6, <2>7 DEF ResponseInvariant
<1> DEFINE Quiet == /\ \A q \in Callers : pc[q] = "done" => Done(q)
                    /\ \A q \in Callers :
                         pc'[q] = "replayed" => pc[q] = "replayed" /\ answer'[q] = answer[q]
                    /\ ClaimsOwnPayload'
<1>r. ASSUME NEW r \in Callers, CanReclaim(r), row' = TryReclaim(row, age[r]),
             pc[r] \in {"reclaimingExpired", "reclaiming"}
      PROVE  row'.status = "processing" /\ row'.fingerprint = payload[row'.id]
  <2>1. ~Absent(row)
    BY <1>m, <1>r DEF CanReclaim, Reclaimable, ClaimsOwnPayload, CoordinatorInvariant,
                      FailureWasRead, Absent
  <2>2. SameStory(TryReclaim(row, age[r]), row) /\ TryReclaim(row, age[r]).status = "processing"
    BY <1>t, RowFields
  <2> QED BY <1>r, <1>m, <2>1, <2>2 DEF RowHasPayload, SameStory
<1>4. ASSUME NEW r \in Callers, ReclaimExpired(r) \/ Reclaim(r) PROVE ResponseInvariant'
  <2>1. CASE ~CanReclaim(r)
    <3>1. /\ To(r, "rereading") \/ To(r, "failed")
          /\ pc[r] \in {"reclaimingExpired", "reclaiming"}
          /\ found' = [found EXCEPT ![r] = [id |-> r, status |-> "absent"]]
          /\ UNCHANGED <<row, record, result, answer>>
      BY <1>4, <2>1 DEF ReclaimExpired, Reclaim, Forget, NotFound, ownVars
    <3>2. Quiet
      BY <1>m, <1>p, <1>t, <3>1 DEF ClaimsOwnPayload, To
    <3> QED BY <1>0, <1>s, <3>1, <3>2
  <2>2. CASE CanReclaim(r)
    <3>1. /\ row' = TryReclaim(row, age[r]) /\ Begin(r, found[r].id)
          /\ pc[r] \in {"reclaimingExpired", "reclaiming"}
      BY <1>4, <2>2 DEF ReclaimExpired, Reclaim
    <3>2. found[r].id \in Callers /\ payload[found[r].id] = payload[r] /\ pc[r] \in ClaimPlaces
      BY <1>m, <1>t, <3>1 DEF Sights, ClaimsOwnPayload, ClaimPlaces
    <3> QED BY <1>0, <1>b, <1>r, <2>2, <3>1, <3>2
  <2> QED BY <2>1, <2>2
<1>5. ASSUME NEW r \in Callers, ClaimError(r) PROVE ResponseInvariant'
  <2>1. /\ To(r, "failed") /\ pc[r] \in ClaimPlaces
        /\ found' = [found EXCEPT ![r] = [id |-> r, status |-> "absent"]]
        /\ UNCHANGED <<record, result, answer>>
    BY <1>5 DEF ClaimError, Forget, NotFound, ownVars, Claiming
  <2>2. Quiet
    BY <1>m, <1>p, <1>t, <2>1 DEF ClaimsOwnPayload, To, ClaimPlaces
  <2>3. \/ row' = row
        \/ row' = CreateProcessing(r, payload[r], age[r])
        \/ /\ pc[r] \in {"reclaimingExpired", "reclaiming"} /\ CanReclaim(r)
           /\ row' = TryReclaim(row, age[r])
    BY <1>5 DEF ClaimError
  <2>4. \/ row' = row
        \/ row'.status = "processing" /\ row'.fingerprint = payload[row'.id]
    BY <1>r, <2>3 DEF CreateProcessing
  <2> QED BY <1>0, <1>s, <2>2, <2>4
<1>6. ASSUME NEW r \in Callers, Renew(r) \/ RenewError(r) PROVE ResponseInvariant'
  <2>1. UNCHANGED <<pc, found, record, result, answer>>
        /\ row' \in {row, ExtendProcessingLock(row)}
    BY <1>6 DEF Renew, RenewError, claimVars
  <2>2. Quiet
    BY <1>m, <1>p, <2>1 DEF ClaimsOwnPayload
  <2>3. SameStory(row', row) /\ row'.status = row.status
    BY <1>s, <1>t, <2>1, RowFields
  <2> QED BY <1>0, <2>2, <2>3 DEF Absent
<1>7. ASSUME NEW r \in Callers, TimeOut(r) \/ Return(r) PROVE ResponseInvariant'
  <2>1. /\ UNCHANGED <<row, found, record, answer>> /\ pc[r] = "executing"
        /\ \/ UNCHANGED <<pc, result>>
           \/ To(r, "persisting") /\ \E x \in Results : result' = [result EXCEPT ![r] = x]
    BY <1>7 DEF TimeOut, Return, claimVars
  <2>2. Quiet
    BY <1>m, <1>p, <1>t, <2>1 DEF ClaimsOwnPayload, To
  <2> QED BY <1>0, <1>s, <2>1, <2>2
<1>8. ASSUME NEW r \in Callers, Persist(r) \/ PersistError(r) \/ Crash(r) PROVE ResponseInvariant'
  <2>1. /\ To(r, "done") \/ To(r, "failed")
        /\ pc[r] \notin {"done", "replayed"}
        /\ found' = [found EXCEPT ![r] = [id |-> r, status |-> "absent"]]
        /\ record' = [record EXCEPT ![r] = r]
        /\ \E x \in Results : result' = [result EXCEPT ![r] = x]
        /\ UNCHANGED answer
    BY <1>8 DEF Persist, PersistError, Crash, End, Forget, NotFound, Active, Claiming, ClaimPlaces,
                Results
  <2>2. Quiet
    BY <1>m, <1>p, <1>t, <2>1 DEF ClaimsOwnPayload, To
  <2>3. CASE row' = row
    BY <1>0, <1>s, <2>2, <2>3
  <2>4. CASE row' # row
    <3>1. /\ row' = Marked(r) /\ Marks(row, record[r]) /\ pc[r] = "persisting"
          /\ To(r, "done")
          /\ result[r] = "stored" => result'[r] = "stored"
      BY <1>8, <1>t, <2>4 DEF Persist, PersistError, Crash, Marked, End
    <3>2. CASE result[r] = "failed"
      <4>1. SameStory(row', row) /\ row'.status = "failed_retryable"
        BY <1>t, <3>1, <3>2, RowFields DEF Marked
      <4> QED BY <1>0, <2>2, <3>1, <4>1 DEF Marks
    <3>3. CASE result[r] # "failed"
      <4>1. /\ row'.id = row.id /\ row'.fingerprint = row.fingerprint
            /\ row'.body = result[r] /\ row'.by = r
        BY <1>t, <3>1, <3>3, RowFields DEF Marked
      <4>2. payload[row.id] = payload[r]
        BY <1>m, <3>1 DEF ClaimsOwnPayload, Marks
      <4>3. RowIsGenuine'
        BY <1>p, <1>t, <3>1, <4>1, <4>2 DEF RowIsGenuine, Stored, To
      <4>4. RowHasPayload'
        BY <1>m, <1>p, <3>1, <4>1 DEF RowHasPayload, Marks
      <4>5. ReplayWasStored'
        BY <1>m, <1>p, <1>t, <2>2 DEF ReplayWasStored, Stored
      <4> QED BY <2>2, <4>3, <4>4, <4>5 DEF ResponseInvariant
    <3> QED BY <3>2, <3>3
  <2> QED BY <2>3, <2>4
<1>9. CASE Cleanup \/ Tick
  <2>1. UNCHANGED <<pc, found, record, result, answer>>
    BY <1>9 DEF Cleanup, Tick, claimVars, ownVars
  <2>2. Quiet
    BY <1>m, <1>p, <2>1 DEF ClaimsOwnPayload
  <2>3. row' = NoRow \/ (SameStory(row', row) /\ row'.status = row.status)
    BY <1>9, <1>t, RowFields DEF Cleanup, Tick, DeleteExpired
  <2>4. NoRow.status = "absent"
    BY DEF NoRow
  <2> QED BY <1>0, <2>2, <2>3, <2>4 DEF Absent
<1>10. CASE UNCHANGED vars
  <2>1. UNCHANGED <<row, pc, found, record, result, answer>>
    BY <1>10 DEF vars, claimVars, ownVars
  <2>2. Quiet
    BY <1>m, <1>p, <2>1 DEF ClaimsOwnPayload
  <2> QED BY <1>0, <1>s, <2>1, <2>2
<1> QED BY <1>1, <1>2, <1>3, <1>4, <1>5, <1>6, <1>7, <1>8, <1>9, <1>10
        DEF Next, Claim, Renewal, Conclude

\* Initially nothing is stored and nothing replayed.
LEMMA ResponseInit == Init => ResponseInvariant
BY DEF Init, ResponseInvariant, RowHasPayload, ClaimsOwnPayload, RowIsGenuine, ReplayWasStored,
       NoRow, Absent, NotFound

\* The history of the responses holds.
THEOREM ResponseInvariantHolds == Spec => []ResponseInvariant
BY ResponseInit, ResponseStep, CoordinatorInvariantHolds, PTL DEF Spec

\* A replayed response was stored whole by a request with the same payload,
\* whatever was reclaimed, deleted or persisted late in between.
THEOREM ReplaysAreGenuine == Spec => []ReplayIsGenuine
<1>1. ResponseInvariant => ReplayIsGenuine
  BY DEF ResponseInvariant, ReplayWasStored, Stored, ReplayIsGenuine
<1> QED BY <1>1, ResponseInvariantHolds, PTL

\* A success that has not expired is only taken over by a request that has read
\* an expired row before.
THEOREM StoredSuccessIsFinal == Spec => SuccessIsFinal
<1>1. ASSUME CoordinatorInvariant, [Next]_vars, ~overrun, row.status = "succeeded",
             row.expires > 0, row'.status # "succeeded",
             \A q \in Callers : pc[q] # "reclaimingExpired"
      PROVE  FALSE
  <2>t. row \in Rows /\ row.expires \in Int
    BY <1>1, StoreAssumption DEF CoordinatorInvariant, TypeOK, Rows, Times, Past
  \* Nobody executes, ...
  <2>a. Active = {}
    BY <1>1 DEF CoordinatorInvariant, ActiveHasRow
  \* ... and nobody can take the row over.
  <2>c. \A r \in Callers : pc[r] \in {"reclaiming", "reclaimingExpired"} => ~CanReclaim(r)
    BY <1>1 DEF CanReclaim, Reclaimable, CoordinatorInvariant, FailureWasRead
  <2>1. ASSUME NEW r \in Callers, Start(r) \/ Claim(r) PROVE row' = row
    BY <1>1, <2>1, <2>c DEF Start, Claim, Create, Read, ReclaimExpired, ReadLatest, Reclaim, ClaimError,
                            Absent
  <2>2. ASSUME NEW r \in Callers, Renewal(r) \/ TimeOut(r) \/ Return(r) \/ Conclude(r) PROVE FALSE
    BY <2>2, <2>a DEF Renewal, Renew, RenewError, TimeOut, Return, Conclude, Persist, PersistError,
                      Active
  <2>3. ASSUME NEW r \in Callers, Crash(r) PROVE row' = row
    BY <2>3 DEF Crash
  <2>4. ~Cleanup
    BY <1>1, <2>t DEF Cleanup, Deletable
  <2>5. CASE Tick
    BY <1>1, <2>5, <2>t, RowFields DEF Tick
  <2>6. CASE UNCHANGED vars
    BY <1>1, <2>6 DEF vars
  <2> QED BY <1>1, <2>1, <2>2, <2>3, <2>4, <2>5, <2>6 DEF Next
<1>2. CoordinatorInvariant /\ [Next]_vars
      => [~overrun /\ row.status = "succeeded" /\ row.expires > 0 /\ row'.status # "succeeded"
            => \E r \in Callers : pc[r] = "reclaimingExpired"]_vars
  BY <1>1
<1> QED BY <1>2, CoordinatorInvariantHolds, PTL DEF Spec, SuccessIsFinal

\* Every step that no failure and no expired claim precedes leaves the row to the
\* execution, and a detached one the time for its next renewal.
LEMMA RenewalStep ==
  CoordinatorInvariant /\ ResponseInvariant /\ RenewedInTime /\ [Next]_vars => RenewedInTime'
<1> SUFFICES ASSUME CoordinatorInvariant, ResponseInvariant, RenewedInTime, [Next]_vars,
                    faults' = 0, ~overrun', NEW p \in Active'
             PROVE  /\ record'[p] = row'.id
                    /\ p \in Detached \ timedOut' => 0 < due'[p] /\ due'[p] <= row'.expires
  BY DEF RenewedInTime
<1> DEFINE Good == /\ record'[p] = row'.id
                   /\ p \in Detached \ timedOut' => 0 < due'[p] /\ due'[p] <= row'.expires
<1>t. /\ row \in Rows /\ row.expires \in Times
      /\ pc \in [Callers -> Places] /\ found \in [Callers -> Sights]
      /\ record \in [Callers -> Callers] /\ due \in [Callers -> 0..RenewWithin + 1]
      /\ faults \in Nat /\ \A r \in Callers : age[r] \in 0..Slack
  BY CoordinatorAssumption DEF CoordinatorInvariant, TypeOK, Rows
<1>u. p \in Callers
  BY DEF Active
<1>z. /\ row.expires \in Int /\ due[p] \in Int /\ Slack \in Nat
      /\ RenewWithin \in Nat /\ TTL \in Nat /\ TTL > RenewWithin + Slack
  BY <1>t, <1>u, StoreAssumption, CoordinatorAssumption DEF Times, Past
<1>v. faults = 0 /\ ~overrun
  <2>1. faults' = faults \/ faults' = faults + 1
    BY DEF Next, Tick, Cleanup, Start, Claim, Create, Begin, Read, ReclaimExpired, ReadLatest, Reclaim,
           ClaimError, Renewal, Renew, RenewError, TimeOut, Return, Conclude, Persist, PersistError,
           Crash, vars, Fault
  <2>2. overrun' = overrun \/ Tick
    BY DEF Next, Cleanup, Start, Claim, Create, Begin, Read, ReclaimExpired, ReadLatest, Reclaim,
           ClaimError, Renewal, Renew, RenewError, TimeOut, Return, Conclude, Persist, PersistError,
           Crash, End, vars
  <2>3. Tick => (overrun => overrun')
    BY Zenon DEF Tick
  <2> QED BY <1>t, <2>1, <2>2, <2>3
<1>w. ~Fault
  BY <1>v DEF Fault
<1>i. \A r \in Active : /\ record[r] = row.id
                        /\ r \in Detached \ timedOut => 0 < due[r] /\ due[r] <= row.expires
  BY <1>v DEF RenewedInTime
<1>o. /\ \A r, q \in Active : r = q
      /\ Active # {} => row.status = "processing" /\ row.expires > 0
  BY <1>v DEF CoordinatorInvariant, OneExecution, ActiveHasRow
\* Steps that touch neither the row nor the execution.
<1>0. ASSUME row' = row, p \in Active, record'[p] = record[p], due'[p] = due[p],
             p \in timedOut => p \in timedOut'
      PROVE  Good
  BY <1>0, <1>i
\* A claim gives the request the row for its TTL, while nobody executes.
<1>b. ASSUME NEW r \in Callers, NEW id \in Callers, Begin(r, id), row'.id = id,
             row'.expires = After(TTL, age[r]), Active = {}
      PROVE  Good
  <2>1. p = r
    BY <1>b, <1>t, <1>u DEF Begin, To, Active
  <2>2. record'[r] = id /\ (r \in Detached => due'[r] = RenewWithin + 1)
    BY <1>b, <1>t DEF Begin
  <2>3. row'.expires >= RenewWithin + 1
    BY <1>b, <1>t, <1>z DEF After, Past
  <2> QED BY <1>b, <1>z, <2>1, <2>2, <2>3
<1>1. ASSUME NEW r \in Callers, Start(r) \/ Read(r) \/ ReadLatest(r) PROVE Good
  <2>1. UNCHANGED <<row, record, due, timedOut>>
    BY <1>1 DEF Start, Read, ReadLatest, ownVars
  <2>2. p \in Active
    BY <1>1, <1>t, <1>u DEF Start, Read, ReadLatest, Decide, To, Active
  <2> QED BY <1>0, <2>1, <2>2
<1>2. ASSUME NEW r \in Callers, Create(r) PROVE Good
  <2>1. CASE ~Absent(row)
    <3>1. UNCHANGED <<row, record, due, timedOut>> /\ p \in Active
      BY <1>2, <2>1, <1>t, <1>u DEF Create, To, Active, ownVars
    <3> QED BY <1>0, <3>1
  <2>2. CASE Absent(row)
    <3>1. row' = CreateProcessing(r, payload[r], age[r]) /\ Begin(r, r) /\ Active = {}
      BY <1>2, <1>o, <2>2 DEF Create, Absent
    <3>2. row'.id = r /\ row'.expires = After(TTL, age[r])
      BY <3>1 DEF CreateProcessing
    <3> QED BY <1>b, <3>1, <3>2
  <2> QED BY <2>1, <2>2
<1>3. ASSUME NEW r \in Callers, ReclaimExpired(r) \/ Reclaim(r) PROVE Good
  <2>1. CASE ~CanReclaim(r)
    <3>1. UNCHANGED <<row, record, due, timedOut>> /\ p \in Active
      BY <1>3, <2>1, <1>t, <1>u DEF ReclaimExpired, Reclaim, To, Active, ownVars
    <3> QED BY <1>0, <3>1
  <2>2. CASE CanReclaim(r)
    <3>1. /\ row' = TryReclaim(row, age[r]) /\ Begin(r, found[r].id) /\ row.id = found[r].id
          /\ pc[r] \in {"reclaimingExpired", "reclaiming"}
          /\ row.status = found[r].status /\ row.lock <= -age[r]
      BY <1>3, <2>2 DEF ReclaimExpired, Reclaim, CanReclaim, Reclaimable
    <3>2. Active = {}
      <4>1. row.lock \in Int /\ age[r] \in Int
        BY <1>t, StoreAssumption DEF Rows, Times, Past
      <4> QED BY <1>v, <1>o, <3>1, <4>1 DEF CoordinatorInvariant, FailureWasRead, ExpiredReadIsTooEarly
    <3>3. row'.id = row.id /\ row'.expires = After(TTL, age[r]) /\ row.id \in Callers
      BY <1>t, <3>1, RowFields DEF SameStory, Rows
    <3> QED BY <1>b, <3>1, <3>2, <3>3
  <2> QED BY <2>1, <2>2
<1>4. ASSUME NEW r \in Callers, Renew(r) PROVE Good
  <2>1. p \in Active /\ r \in Active /\ record' = record /\ timedOut' = timedOut
    BY <1>4 DEF Renew, Active
  <2>2. CanExtend(r)
    BY <1>i, <1>o, <2>1 DEF CanExtend, Extendable, ResponseInvariant, RowHasPayload, ClaimsOwnPayload,
                            Absent, Active
  <2>3. row' = ExtendProcessingLock(row) /\ due' = [due EXCEPT ![r] = RenewWithin + 1]
    BY <1>4, <2>2 DEF Renew
  <2>4. row'.id = row.id /\ row'.expires = TTL
    BY <1>t, <2>3, RowFields DEF SameStory
  <2>5. p = r
    BY <1>o, <2>1
  <2> QED BY <1>i, <1>t, <1>u, <1>z, <2>1, <2>3, <2>4, <2>5
<1>5. ASSUME NEW r \in Callers, TimeOut(r) PROVE Good
  <2>1. p \in Active /\ r \in Active /\ UNCHANGED <<row, record>> /\ timedOut' = timedOut \cup {r}
    BY <1>5 DEF TimeOut, Active
  <2>2. p = r
    BY <1>o, <2>1
  <2> QED BY <1>i, <2>1, <2>2
<1>6. ASSUME NEW r \in Callers, Return(r) PROVE Good
  <2>1. p \in Active /\ UNCHANGED <<row, record, due, timedOut>>
    BY <1>6, <1>t, <1>u DEF Return, To, Active
  <2> QED BY <1>0, <2>1
<1>7. ASSUME NEW r \in Callers, Persist(r) PROVE Good
  <2>1. p \in Active /\ r \in Active /\ p # r
    BY <1>7, <1>t, <1>u DEF Persist, End, To, Active
  <2> QED BY <1>o, <2>1
<1>8. ASSUME NEW r \in Callers, Crash(r) PROVE Good
  <2>1. p \in Active /\ p # r
    BY <1>8, <1>t, <1>u DEF Crash, End, To, Active
  <2>2. /\ row' = row /\ record' = [record EXCEPT ![r] = r]
        /\ due' = [due EXCEPT ![r] = 0] /\ timedOut' = timedOut \ {r}
    BY <1>8 DEF Crash, End
  <2> QED BY <1>0, <1>t, <1>u, <2>1, <2>2
<1>9. ASSUME NEW r \in Callers, ClaimError(r) \/ RenewError(r) \/ PersistError(r) PROVE Good
  BY <1>9, <1>w DEF ClaimError, RenewError, PersistError
<1>10. CASE Cleanup
  <2>1. p \in Active
    BY <1>10 DEF Cleanup, Active
  <2> QED BY <1>10, <1>o, <1>z, <2>1 DEF Cleanup, Deletable
<1>11. CASE Tick
  <2>1. p \in Active /\ UNCHANGED <<record, timedOut>> /\ row' = Aged(row)
    BY <1>11 DEF Tick, Active
  <2>2. row'.id = row.id /\ row'.expires = Earlier(row.expires)
    BY <1>t, <2>1, RowFields DEF SameStory
  <2>3. row'.expires = row.expires - 1
    BY <1>o, <1>z, <2>1, <2>2 DEF Earlier, Past
  <2>4. due[p] > 0 => due[p] > 1 /\ due'[p] = due[p] - 1
    BY <1>11, <1>t, <1>u, <1>z DEF Tick
  <2> QED BY <1>i, <1>z, <2>1, <2>2, <2>3, <2>4
<1>12. CASE UNCHANGED vars
  <2>1. p \in Active
    BY <1>12 DEF vars, Active
  <2> QED BY <1>0, <1>12, <2>1 DEF vars, ownVars
<1> QED BY <1>1, <1>2, <1>3, <1>4, <1>5, <1>6, <1>7, <1>8, <1>9, <1>10, <1>11, <1>12
        DEF Next, Claim, Renewal, Conclude

\* As long as the store answers, the row of detached executions does not expire
\* before their ExecutionTimeout.
THEOREM DetachedRowsAreKept == Spec => DetachedKeepsRow
<1>1. Init => RenewedInTime
  BY DEF Init, RenewedInTime, Active
<1>2. ASSUME CoordinatorInvariant, RenewedInTime, [Next]_vars, faults = 0, ~overrun, overrun'
      PROVE  ~(Active \subseteq Detached \ timedOut)
  <2>1. Tick
    BY <1>2 DEF Next, Cleanup, Start, Claim, Create, Begin, Read, ReclaimExpired, ReadLatest, Reclaim,
                ClaimError, Renewal, Renew, RenewError, TimeOut, Return, Conclude, Persist,
                PersistError, Crash, End, vars
  <2>2. Active # {} /\ row'.expires <= 0
    BY <1>2, <2>1, Zenon DEF Tick
  <2>3. /\ row \in Rows /\ row.expires \in Int /\ Slack \in Nat
        /\ due \in [Callers -> 0..RenewWithin + 1] /\ RenewWithin \in Nat
    BY StoreAssumption, CoordinatorAssumption, <1>2
       DEF CoordinatorInvariant, TypeOK, Rows, Times, Past
  <2>4. row'.expires = Earlier(row.expires)
    BY <2>1, <2>3, RowFields DEF Tick
  <2>5. \A r \in Active : r \in Detached \ timedOut => 1 < row.expires
    <3>1. \A r \in Active : due[r] # 1 /\ due[r] \in Int
      BY <2>1, <2>3 DEF Tick, Active
    <3> QED BY <1>2, <2>3, <3>1 DEF RenewedInTime
  <2>6. ~(1 < row.expires)
    BY <2>2, <2>3, <2>4 DEF Earlier, Past
  <2> QED BY <2>2, <2>5, <2>6
<1>3. CoordinatorInvariant /\ RenewedInTime /\ [Next]_vars
      => [faults = 0 /\ ~overrun /\ overrun' => ~(Active \subseteq Detached \ timedOut)]_vars
  BY <1>2
<1>4. Spec => []RenewedInTime
  BY <1>1, RenewalStep, CoordinatorInvariantHolds, ResponseInvariantHolds, PTL DEF Spec
<1> QED BY <1>3, <1>4, CoordinatorInvariantHolds, PTL DEF Spec, DetachedKeepsRow
=============================================================================

--------------------- MODULE InflightReservationProofs ---------------------
(***************************************************************************)
(* In-flight reservations for any number of requests and any amounts: what *)
(* is held beside each other stays within the balance, and a grant stays   *)
(* registered until its request is settled.                                *)
(***************************************************************************)
EXTENDS InflightReservation, FiniteSetTheorems, TLAPS

\* The constants, without the finiteness of Requests.
LEMMA Numbers ==
  /\ Amounts \subseteq Nat /\ 0 \notin Amounts /\ \A n \in Amounts \cup {0} : n \in Nat
  /\ StartBalance \in Nat /\ TTL \in Nat /\ RenewWithin \in Nat /\ MaxFaults \in Nat
  /\ RenewWithin < TTL /\ TTL > 0
BY ReservationAssumption

\* One tick less.
LEMMA LessFact == \A n \in Nat : Less(n) \in 0..n /\ (n > 0 => Less(n) = n - 1)
BY DEF Less

\* The registrations are amounts, and exactly the live ones have time left.
RedisOK ==
  /\ hold \in [Requests -> Amounts \cup {0}] /\ life \in [Requests -> 0..TTL]
  /\ \A r \in Requests : hold[r] > 0 <=> life[r] > 0

\* A script leaves the registration of its request, changed to an amount or not.
LEMMA ScriptEffect ==
  ASSUME TypeOK, NEW r \in Requests, NEW c \in Commands, Script(r, c)
  PROVE  UNCHANGED <<hold, life>> \/ \E n \in Amounts \cup {0} : Put(r, n)
BY DEF Script, Commands, ReserveScript, UpdateScript, RenewScript, ReleaseScript, TypeOK

LEMMA ScriptTypes ==
  ASSUME TypeOK, NEW r \in Requests, NEW c \in Commands, Script(r, c)
  PROVE  RedisOK'
<1>1. CASE UNCHANGED <<hold, life>>
  BY <1>1 DEF TypeOK, RedisOK
<1>2. ASSUME NEW n \in Amounts \cup {0}, Put(r, n) PROVE RedisOK'
  <2>1. /\ hold' = [hold EXCEPT ![r] = n]
        /\ life' = [life EXCEPT ![r] = IF n > 0 THEN TTL ELSE 0]
    BY <1>2 DEF Put
  <2>2. (IF n > 0 THEN TTL ELSE 0) \in 0..TTL /\ (n > 0 <=> (IF n > 0 THEN TTL ELSE 0) > 0)
    BY Numbers
  <2>3. hold' \in [Requests -> Amounts \cup {0}] /\ life' \in [Requests -> 0..TTL]
    BY <2>1, <2>2 DEF TypeOK
  <2> QED BY <2>1, <2>2, <2>3 DEF TypeOK, RedisOK
<1> QED BY <1>1, <1>2, ScriptEffect

\* The scripts by their names.
LEMMA Scripts ==
  ASSUME NEW r
  PROVE  /\ ReserveScript(r) => Script(r, "reserve")
         /\ UpdateScript(r) => Script(r, "update")
         /\ RenewScript(r) => Script(r, "renew")
         /\ ReleaseScript(r) => Script(r, "release")
BY DEF Script

\* A command that fails is executed, or stays with Redis.
LEMMA FailsTypes ==
  ASSUME TypeOK, NEW r \in Requests, NEW c \in Commands, Fails(r, c)
  PROVE  RedisOK' /\ late' \in [Requests -> SUBSET Commands] /\ faults' \in 0..MaxFaults
<1>1. RedisOK'
  <2>1. CASE UNCHANGED <<hold, life>>
    BY <2>1 DEF TypeOK, RedisOK
  <2> QED BY <2>1, ScriptTypes DEF Fails
<1>2. late' \in [Requests -> SUBSET Commands]
  BY DEF Fails, TypeOK
<1>3. faults' \in 0..MaxFaults
  BY Numbers DEF Fails, Fault, TypeOK
<1> QED BY <1>1, <1>2, <1>3

\* Every step keeps the types.
LEMMA TypeStep ==
  TypeOK /\ (\A r \in Requests : HandleIsCounted(r)) /\ [Next]_vars => TypeOK'
<1> SUFFICES ASSUME TypeOK, \A r \in Requests : HandleIsCounted(r), [Next]_vars PROVE TypeOK'
  OBVIOUS
<1> DEFINE
      Phases == {"idle", "reserving", "running", "raising", "refused", "over"}
      Tasks == {"none", "queued", "charged", "exhausted", "synced", "done"}
      MoneyOK == /\ db \in Int /\ cache \in Int /\ hit \in BOOLEAN
                 /\ writes \subseteq {"set", "deduct"} \X Requests \X Int
      HandleOK == /\ handle \in [Requests -> BOOLEAN] /\ refs \in [Requests -> 0..2]
                  /\ amount \in [Requests -> Amounts \cup {0}] /\ owed \subseteq Requests
      CallOK == goal \in [Requests -> Amounts \cup {0}] /\ seen \in [Requests -> Int]
      RenewOK == renewing \in [Requests -> BOOLEAN] /\ due \in [Requests -> 0..RenewWithin]
      TaskOK == task \in [Requests -> Tasks] /\ cost \in [Requests -> Amounts \cup {0}]
      PhaseOK == phase \in [Requests -> Phases]
      LateOK == late \in [Requests -> SUBSET Commands]
      HistoryOK == faults \in 0..MaxFaults /\ lapsed \subseteq Requests
<1>t. /\ MoneyOK /\ RedisOK /\ HandleOK /\ CallOK /\ RenewOK /\ TaskOK /\ PhaseOK /\ LateOK
      /\ HistoryOK
  BY DEF TypeOK, RedisOK
<1>q. ASSUME MoneyOK', RedisOK', HandleOK', CallOK', RenewOK', TaskOK', PhaseOK', LateOK', HistoryOK'
      PROVE  TypeOK'
  BY <1>q DEF TypeOK, RedisOK
<1>m. UNCHANGED moneyVars => MoneyOK'
  BY <1>t DEF moneyVars
<1>r. (UNCHANGED <<hold, life>> => RedisOK') /\ (UNCHANGED redisVars => RedisOK' /\ LateOK')
  BY <1>t DEF redisVars, RedisOK
<1>h. UNCHANGED handleVars => HandleOK'
  BY <1>t DEF handleVars
<1>c. UNCHANGED callVars => CallOK'
  BY <1>t DEF callVars
<1>n. UNCHANGED renewVars => RenewOK'
  BY <1>t DEF renewVars
<1>k. UNCHANGED taskVars => TaskOK'
  BY <1>t DEF taskVars
<1>p. /\ UNCHANGED phase => PhaseOK'
      /\ \A r \in Requests, x \in Phases : phase' = [phase EXCEPT ![r] = x] => PhaseOK'
  BY <1>t
<1>y. /\ UNCHANGED <<faults, lapsed>> => HistoryOK'
      /\ Fault /\ UNCHANGED lapsed => HistoryOK'
  BY <1>t, Numbers DEF Fault
<1>l. UNCHANGED late => LateOK'
  BY <1>t
<1>f. ASSUME NEW r \in Requests, NEW c \in Commands, Fails(r, c), UNCHANGED lapsed
      PROVE  RedisOK' /\ LateOK' /\ HistoryOK'
  BY <1>f, <1>t, FailsTypes
<1>d. ASSUME NEW r \in Requests, handle[r], Serving(r) \/ Billed(r), DecRef(r),
             UNCHANGED <<handle, amount>>
      PROVE  HandleOK'
  <2>1. refs[r] \in 1..2
    BY <1>d, <1>t DEF HandleIsCounted, Count
  <2> QED BY <1>d, <1>t, <2>1 DEF DecRef
<1>b. ASSUME NEW r \in Requests, GetUserBalance(r), UNCHANGED lapsed
      PROVE  MoneyOK' /\ seen' \in [Requests -> Int] /\ HistoryOK'
  <2>1. CASE hit /\ seen' = [seen EXCEPT ![r] = cache] /\ UNCHANGED <<moneyVars, faults>>
    BY <1>b, <1>m, <1>t, <1>y, <2>1
  <2>2. CASE /\ IF hit THEN Fault ELSE UNCHANGED faults
             /\ seen' = [seen EXCEPT ![r] = db]
             /\ writes' \in {writes, writes \cup {<<"set", r, db>>}}
             /\ UNCHANGED <<db, hit, cache>>
    <3>1. HistoryOK'
      BY <1>b, <1>y, <2>2
    <3>2. <<"set", r, db>> \in {"set", "deduct"} \X Requests \X Int
      BY <1>t
    <3>3. MoneyOK'
      BY <1>t, <2>2, <3>2
    <3> QED BY <1>t, <2>2, <3>1, <3>3
  <2> QED BY <1>b, <2>1, <2>2 DEF GetUserBalance
<1>g. ASSUME NEW r \in Requests, NEW a \in Amounts \cup {0}, goal' = [goal EXCEPT ![r] = a]
      PROVE  goal' \in [Requests -> Amounts \cup {0}]
  BY <1>g, <1>t
<1>i. \A r \in Requests : cost[r] \in Nat
  <2>1. \A r \in Requests : cost[r] \in Amounts \cup {0}
    BY <1>t
  <2> QED BY <2>1, Numbers
<1>s. ASSUME NEW hitNext \in BOOLEAN, hit' = hitNext, cache' \in Int, UNCHANGED db,
             writes' \subseteq {"set", "deduct"} \X Requests \X Int
      PROVE  MoneyOK'
  BY <1>s, <1>t
<1>1. ASSUME NEW r \in Requests, ReadBalance(r) PROVE TypeOK'
  <2>1. CallOK' /\ MoneyOK' /\ HistoryOK'
    BY <1>1, <1>b, <1>g DEF ReadBalance
  <2>2. PhaseOK'
    BY <1>1, <1>p DEF ReadBalance
  <2> QED BY <1>1, <1>q, <1>r, <1>h, <1>n, <1>k, <2>1, <2>2 DEF ReadBalance
<1>2. ASSUME NEW r \in Requests, GoUnreserved(r) PROVE TypeOK'
  <2>2. PhaseOK'
    BY <1>2, <1>p DEF GoUnreserved
  <2> QED BY <1>2, <1>q, <1>m, <1>r, <1>h, <1>c, <1>n, <1>k, <1>y, <2>2 DEF GoUnreserved
<1>3. ASSUME NEW r \in Requests, Reserve(r) PROVE TypeOK'
  <2>1. RedisOK'
    BY <1>3, ScriptTypes, Scripts DEF Reserve, Commands
  <2>2. PhaseOK'
    BY <1>3, <1>p DEF Reserve
  <2>3. HandleOK' /\ RenewOK'
    <3>1. CASE ~Grants(r)
      BY <1>3, <1>n, <1>t, <3>1 DEF Reserve
    <3>2. CASE Grants(r)
      <4>1. /\ handle' = [handle EXCEPT ![r] = TRUE] /\ refs' = [refs EXCEPT ![r] = 1]
            /\ amount' = [amount EXCEPT ![r] = goal[r]] /\ owed' = owed
            /\ renewing' = [renewing EXCEPT ![r] = TRUE]
            /\ due' = [due EXCEPT ![r] = RenewWithin]
        BY <1>3, <3>2 DEF Reserve
      <4>2. due' \in [Requests -> 0..RenewWithin]
        BY <1>t, <4>1, Numbers
      <4>3. goal[r] \in Amounts \cup {0}
        BY <1>t
      <4>4. refs' \in [Requests -> 0..2] /\ amount' \in [Requests -> Amounts \cup {0}]
        BY <1>t, <4>1, <4>3
      <4>5. handle' \in [Requests -> BOOLEAN] /\ renewing' \in [Requests -> BOOLEAN]
        BY <1>t, <4>1
      <4> QED BY <1>t, <4>1, <4>2, <4>4, <4>5
    <3> QED BY <3>1, <3>2
  <2> QED BY <1>3, <1>q, <1>m, <1>l, <1>c, <1>k, <1>y, <2>1, <2>2, <2>3 DEF Reserve
<1>4. ASSUME NEW r \in Requests, ReserveError(r) PROVE TypeOK'
  <2>1. RedisOK' /\ LateOK' /\ HistoryOK'
    BY <1>4, <1>f DEF ReserveError, Commands
  <2>2. PhaseOK'
    BY <1>4, <1>p DEF ReserveError
  <2> QED BY <1>4, <1>q, <1>m, <1>h, <1>c, <1>n, <1>k, <2>1, <2>2 DEF ReserveError
<1>5. ASSUME NEW r \in Requests, BeginIncrease(r) PROVE TypeOK'
  <2>1. \A a \in Amounts : Larger(a, amount[r]) \in Amounts \cup {0}
    BY <1>t DEF Larger
  <2>2. CallOK' /\ MoneyOK' /\ HistoryOK'
    BY <1>5, <1>b, <1>g, <2>1 DEF BeginIncrease
  <2>3. PhaseOK'
    BY <1>5, <1>p DEF BeginIncrease
  <2> QED BY <1>5, <1>q, <1>r, <1>h, <1>n, <1>k, <2>2, <2>3 DEF BeginIncrease
<1>6. ASSUME NEW r \in Requests, Increase(r) PROVE TypeOK'
  <2>1. RedisOK'
    BY <1>6, ScriptTypes, Scripts DEF Increase, Commands
  <2>2. PhaseOK'
    BY <1>6, <1>p DEF Increase
  <2>3. HandleOK'
    BY <1>6, <1>t DEF Increase
  <2> QED BY <1>6, <1>q, <1>m, <1>l, <1>c, <1>n, <1>k, <1>y, <2>1, <2>2, <2>3 DEF Increase
<1>7. ASSUME NEW r \in Requests, IncreaseError(r) PROVE TypeOK'
  <2>1. RedisOK' /\ LateOK' /\ HistoryOK'
    BY <1>7, <1>f DEF IncreaseError, Commands
  <2>2. PhaseOK'
    BY <1>7, <1>p DEF IncreaseError
  <2> QED BY <1>7, <1>q, <1>m, <1>h, <1>c, <1>n, <1>k, <2>1, <2>2 DEF IncreaseError
<1>8. ASSUME NEW r \in Requests, Renew(r) PROVE TypeOK'
  <2>1. RedisOK'
    BY <1>8, ScriptTypes, Scripts DEF Renew, Commands
  <2>2. (r \in Live) \in BOOLEAN
    BY DEF Live
  <2>3. RenewOK'
    BY <1>8, <1>t, <2>2, Numbers DEF Renew
  <2> QED BY <1>8, <1>q, <1>m, <1>l, <1>h, <1>c, <1>k, <1>p, <1>y, <2>1, <2>3 DEF Renew
<1>9. ASSUME NEW r \in Requests, RenewError(r) PROVE TypeOK'
  <2>1. RedisOK' /\ LateOK' /\ HistoryOK'
    BY <1>9, <1>f DEF RenewError, Commands
  <2>2. RenewOK'
    BY <1>9, <1>t, Numbers DEF RenewError
  <2> QED BY <1>9, <1>q, <1>m, <1>h, <1>c, <1>k, <1>p, <2>1, <2>2 DEF RenewError
<1>10. ASSUME NEW r \in Requests, Submit(r) PROVE TypeOK'
  <2>1. refs[r] \in 0..1
    BY <1>10, <1>t DEF Submit, HandleIsCounted, Count, Billed
  <2>2. HandleOK'
    BY <1>10, <1>t, <2>1 DEF Submit
  <2>3. TaskOK'
    BY <1>10, <1>t DEF Submit
  <2> QED BY <1>10, <1>q, <1>m, <1>r, <1>c, <1>n, <1>p, <1>y, <2>2, <2>3 DEF Submit
<1>11. ASSUME NEW r \in Requests, HandlerDone(r) PROVE TypeOK'
  <2>1. HandleOK'
    <3>1. Serving(r)
      BY <1>11 DEF HandlerDone, Serving
    <3> QED BY <1>11, <1>d, <1>t, <3>1 DEF HandlerDone
  <2>2. RenewOK'
    BY <1>11, <1>t, Numbers DEF HandlerDone
  <2>3. PhaseOK'
    BY <1>11, <1>p DEF HandlerDone
  <2> QED BY <1>11, <1>q, <1>m, <1>r, <1>c, <1>k, <1>y, <2>1, <2>2, <2>3 DEF HandlerDone
<1>12. ASSUME NEW r \in Requests, Release(r) PROVE TypeOK'
  <2>1. RedisOK'
    BY <1>12, ScriptTypes, Scripts DEF Release, Commands
  <2>2. HandleOK'
    BY <1>12, <1>t DEF Release
  <2> QED BY <1>12, <1>q, <1>m, <1>l, <1>c, <1>n, <1>k, <1>p, <1>y, <2>1, <2>2 DEF Release
<1>13. ASSUME NEW r \in Requests, ReleaseError(r) PROVE TypeOK'
  <2>1. RedisOK' /\ LateOK' /\ HistoryOK'
    BY <1>13, <1>f DEF ReleaseError, Commands
  <2>2. HandleOK'
    BY <1>13, <1>t DEF ReleaseError
  <2> QED BY <1>13, <1>q, <1>m, <1>c, <1>n, <1>k, <1>p, <2>1, <2>2 DEF ReleaseError
<1>14. ASSUME NEW r \in Requests, Charge(r) PROVE TypeOK'
  <2>1. TaskOK'
    BY <1>14, <1>t DEF Charge
  <2>2. MoneyOK'
    BY <1>14, <1>t, Numbers DEF Charge
  <2> QED BY <1>14, <1>q, <1>r, <1>h, <1>c, <1>n, <1>p, <1>y, <2>1, <2>2 DEF Charge
<1>15. ASSUME NEW r \in Requests, NotCharged(r) PROVE TypeOK'
  <2>1. TaskOK'
    BY <1>15, <1>t DEF NotCharged
  <2> QED BY <1>15, <1>q, <1>m, <1>r, <1>h, <1>c, <1>n, <1>p, <1>y, <2>1 DEF NotCharged
<1>16. ASSUME NEW r \in Requests, Sync(r) PROVE TypeOK'
  <2>1. TaskOK'
    BY <1>16, <1>t DEF Sync
  <2>2. cost[r] \in Int
    BY <1>i
  <2>3. hit' \in BOOLEAN
    BY <1>16, <1>t DEF Sync
  <2>4. MoneyOK'
    BY <1>16, <1>t, <2>2, <2>3 DEF Sync
  <2> QED BY <1>16, <1>q, <1>r, <1>h, <1>c, <1>n, <1>p, <1>y, <2>1, <2>4 DEF Sync
<1>17. ASSUME NEW r \in Requests, SyncError(r) PROVE TypeOK'
  <2>1. TaskOK'
    BY <1>17, <1>t DEF SyncError
  <2>2. cost[r] \in Int
    BY <1>i
  <2>3. MoneyOK'
    <3>1. \A n \in 0..2 : cache - n * cost[r] \in Int
      BY <1>t, <2>2
    <3>2. cache' \in Int
      <4>1. cache \in Int
        BY <1>t
      <4>2. cache' \in {0, cache} \/ \E n \in 0..2 : cache' = cache - n * cost[r]
        BY <1>17 DEF SyncError
      <4> QED BY <3>1, <4>1, <4>2
    <3>3. <<"deduct", r, cost[r]>> \in {"set", "deduct"} \X Requests \X Int
      BY <2>2
    <3>4. writes' \subseteq {"set", "deduct"} \X Requests \X Int
      BY <1>17, <1>t, <3>3 DEF SyncError
    <3>5. hit' \in BOOLEAN /\ db' = db
      BY <1>17, <1>t DEF SyncError
    <3> QED BY <1>t, <3>2, <3>4, <3>5
  <2> QED BY <1>17, <1>q, <1>r, <1>h, <1>c, <1>n, <1>p, <1>y, <2>1, <2>3 DEF SyncError
<1>18. ASSUME NEW r \in Requests, TaskDone(r) PROVE TypeOK'
  <2>1. HandleOK'
    <3>1. Billed(r)
      BY <1>18 DEF TaskDone, Billed
    <3> QED BY <1>18, <1>d, <1>t, <3>1 DEF TaskDone
  <2>2. TaskOK'
    BY <1>18, <1>t DEF TaskDone
  <2> QED BY <1>18, <1>q, <1>m, <1>r, <1>c, <1>n, <1>p, <1>y, <2>1, <2>2 DEF TaskDone
<1>19. ASSUME NEW r \in Requests, NEW c \in Commands, DeliverLate(r, c) \/ DropLate(r, c)
       PROVE  TypeOK'
  <2>1. LateOK'
    BY <1>19, <1>t DEF DeliverLate, DropLate
  <2>2. RedisOK'
    BY <1>19, <1>r, ScriptTypes DEF DeliverLate, DropLate
  <2> QED BY <1>19, <1>q, <1>m, <1>h, <1>c, <1>n, <1>k, <1>p, <1>y, <2>1, <2>2
          DEF DeliverLate, DropLate
<1>20. ASSUME NEW w \in writes, CacheWrite(w) PROVE TypeOK'
  <2>1. writes \subseteq {"set", "deduct"} \X Requests \X Int /\ cache \in Int
    BY <1>t
  <2>2. w[3] \in Int
    BY <2>1
  <2>3. cache' \in Int /\ writes' \subseteq {"set", "deduct"} \X Requests \X Int
    BY <1>20, <2>1, <2>2 DEF CacheWrite
  <2>4. \E b \in BOOLEAN : hit' = b
    BY <1>20, <1>t DEF CacheWrite
  <2>5. MoneyOK'
    BY <1>20, <1>s, <2>3, <2>4 DEF CacheWrite
  <2> QED BY <1>20, <1>q, <1>r, <1>h, <1>c, <1>n, <1>k, <1>p, <1>y, <2>5 DEF CacheWrite
<1>21. CASE Evict
  <2>1. writes' = writes /\ db' = db /\ hit' = FALSE /\ cache' = 0
    BY <1>21 DEF Evict
  <2>3. hit' \in BOOLEAN
    BY <2>1, Zenon
  <2>5. cache' \in Int
    BY <1>21 DEF Evict
  <2>4. db' \in Int /\ writes' \subseteq {"set", "deduct"} \X Requests \X Int
    BY <1>t, <2>1
  <2>2. MoneyOK'
    BY <2>3, <2>4, <2>5
  <2> QED BY <1>21, <1>q, <1>r, <1>h, <1>c, <1>n, <1>k, <1>p, <1>y, <2>2 DEF Evict
<1>22. CASE Tick
  <2>1. RedisOK'
    <3>1. \A r \in Requests : life[r] \in Nat /\ Less(life[r]) \in 0..TTL
      BY <1>t, Numbers DEF Less, RedisOK
    <3> QED BY <1>22, <1>t, <3>1, Numbers DEF Tick, RedisOK, Less
  <2>2. RenewOK'
    BY <1>22, <1>t, Numbers DEF Tick, Less
  <2>3. HistoryOK'
    BY <1>22, <1>t DEF Tick
  <2> QED BY <1>22, <1>q, <1>m, <1>l, <1>h, <1>c, <1>k, <1>p, <2>1, <2>2, <2>3 DEF Tick
<1>23. CASE UNCHANGED vars
  BY <1>23, <1>q, <1>m, <1>r, <1>h, <1>c, <1>n, <1>k, <1>p, <1>y DEF vars
<1> QED BY <1>1, <1>2, <1>3, <1>4, <1>5, <1>6, <1>7, <1>8, <1>9, <1>10, <1>11, <1>12, <1>13, <1>14,
           <1>15, <1>16, <1>17, <1>18, <1>19, <1>20, <1>21, <1>22, <1>23
        DEF Next, Handler, Renewer, Releaser, Billing, Network

\* A step of another request.
Same(q) ==
  /\ hold'[q] = hold[q] /\ life'[q] = life[q] /\ late'[q] = late[q]
  /\ phase'[q] = phase[q] /\ handle'[q] = handle[q] /\ refs'[q] = refs[q]
  /\ amount'[q] = amount[q] /\ goal'[q] = goal[q] /\ task'[q] = task[q]
  /\ renewing'[q] = renewing[q] /\ due'[q] = due[q]
  /\ q \in owed' <=> q \in owed
  /\ q \in lapsed' <=> q \in lapsed
LEMMA Untouched ==
  ASSUME NEW q \in Requests, RequestInvariant(q), Same(q), faults' = 0 => faults = 0
  PROVE  RequestInvariant(q)'
BY DEF RequestInvariant, HandleIsCounted, NothingBeforeReserve, KeptUntilSettled, RenewedInTime, Same,
       Serving, Billed, Unsettled, Count

\* What a script does to the registration of its request, and to no other.
LEMMA ScriptAt ==
  ASSUME TypeOK, NEW r \in Requests, NEW c \in Commands, Script(r, c)
  PROVE  /\ \A q \in Requests \ {r} : hold'[q] = hold[q] /\ life'[q] = life[q]
         /\ \/ hold'[r] = hold[r] /\ life'[r] = life[r]
            \/ c = "reserve" /\ Grants(r) /\ hold'[r] = goal[r]
                 /\ (goal[r] > 0 => life'[r] = TTL)
            \/ c = "update" /\ Raises(r) /\ hold[r] > 0 /\ goal[r] > hold[r]
                 /\ hold'[r] = goal[r] /\ life'[r] = TTL
            \/ c = "renew" /\ hold[r] > 0 /\ hold'[r] = hold[r] /\ life'[r] = TTL
            \/ c = "release" /\ hold'[r] = 0
<1>t. hold \in [Requests -> Amounts \cup {0}] /\ life \in [Requests -> 0..TTL]
  BY DEF TypeOK
<1>n. goal[r] \in Nat /\ hold[r] \in Nat
  <2>1. goal[r] \in Amounts \cup {0} /\ hold[r] \in Amounts \cup {0}
    BY DEF TypeOK
  <2> QED BY <2>1, Numbers
<1>1. \A q \in Requests \ {r} : hold'[q] = hold[q] /\ life'[q] = life[q]
  BY <1>t, ScriptEffect DEF Put
<1>p. ASSUME NEW n \in Nat, Put(r, n)
      PROVE  hold'[r] = n /\ (n > 0 => life'[r] = TTL)
  BY <1>p, <1>t DEF Put
<1>2. CASE c = "reserve"
  BY <1>1, <1>2, <1>n, <1>p DEF Script, ReserveScript
<1>3. CASE c = "update"
  BY <1>1, <1>3, <1>n, <1>p DEF Script, UpdateScript, Raises, Live
<1>4. CASE c = "renew"
  BY <1>1, <1>4, <1>n, <1>p DEF Script, RenewScript, Live
<1>5. CASE c = "release"
  BY <1>1, <1>5, <1>n, <1>p DEF Script, ReleaseScript
<1> QED BY <1>2, <1>3, <1>4, <1>5 DEF Commands

\* A command that fails is one of these scripts, or waits in Redis.
LEMMA FailsAt ==
  ASSUME TypeOK, NEW r \in Requests, NEW c \in Commands, Fails(r, c)
  PROVE  /\ faults' # 0
         /\ \A q \in Requests \ {r} : hold'[q] = hold[q] /\ life'[q] = life[q] /\ late'[q] = late[q]
         /\ \/ Script(r, c) /\ late'[r] = late[r]
            \/ hold'[r] = hold[r] /\ life'[r] = life[r] /\ late'[r] = late[r] \cup {c}
<1>1. late \in [Requests -> SUBSET Commands] /\ faults \in Nat
  BY Numbers DEF TypeOK
<1>2. faults' # 0
  BY <1>1 DEF Fails, Fault
<1>3. CASE Script(r, c) /\ UNCHANGED late
  BY <1>2, <1>3, ScriptAt
<1>4. CASE UNCHANGED <<hold, life>> /\ late' = [late EXCEPT ![r] = @ \cup {c}]
  BY <1>1, <1>2, <1>4
<1> QED BY <1>3, <1>4 DEF Fails

\* Every step keeps every request in order.
LEMMA RequestStep ==
  ASSUME ReservationInvariant, [Next]_vars
  PROVE  \A q \in Requests : RequestInvariant(q)'
<1> DEFINE All == \A q \in Requests : RequestInvariant(q)'
<1>t. TypeOK /\ \A q \in Requests : RequestInvariant(q)
  BY DEF ReservationInvariant
<1>u. TypeOK'
  BY <1>t, TypeStep DEF RequestInvariant
<1>f. /\ phase \in [Requests -> {"idle", "reserving", "running", "raising", "refused", "over"}]
      /\ task \in [Requests -> {"none", "queued", "charged", "exhausted", "synced", "done"}]
      /\ handle \in [Requests -> BOOLEAN] /\ renewing \in [Requests -> BOOLEAN]
      /\ refs \in [Requests -> 0..2] /\ due \in [Requests -> 0..RenewWithin]
      /\ life \in [Requests -> 0..TTL] /\ late \in [Requests -> SUBSET Commands]
      /\ amount \in [Requests -> Amounts \cup {0}] /\ goal \in [Requests -> Amounts \cup {0}]
  BY <1>t DEF TypeOK
<1>n. \A q \in Requests : /\ hold[q] \in Nat /\ hold'[q] \in Nat /\ amount[q] \in Nat /\ goal[q] \in Nat
                          /\ life[q] \in Nat /\ life'[q] \in Nat /\ due[q] \in 0..RenewWithin
                          /\ refs[q] \in 0..2 /\ (hold[q] > 0 <=> life[q] > 0)
                          /\ (hold'[q] > 0 <=> life'[q] > 0)
  <2>1. \A q \in Requests : /\ hold[q] \in Amounts \cup {0} /\ hold'[q] \in Amounts \cup {0}
                            /\ amount[q] \in Amounts \cup {0} /\ goal[q] \in Amounts \cup {0}
    BY <1>t, <1>u DEF TypeOK
  <2>2. \A q \in Requests : hold[q] \in Nat /\ hold'[q] \in Nat /\ amount[q] \in Nat /\ goal[q] \in Nat
    BY <2>1, Numbers
  <2>3. \A q \in Requests : /\ life[q] \in Nat /\ life'[q] \in Nat /\ due[q] \in 0..RenewWithin
                            /\ refs[q] \in 0..2 /\ (hold[q] > 0 <=> life[q] > 0)
                            /\ (hold'[q] > 0 <=> life'[q] > 0)
    BY <1>t, <1>u, Numbers DEF TypeOK
  <2> QED BY <2>2, <2>3
<1>z. faults' = 0 => faults = 0
  <2>1. faults \in Nat
    BY <1>t, Numbers DEF TypeOK
  <2>2. faults' = faults \/ Fault
    BY DEF Next, Handler, Renewer, Releaser, Billing, Network, ReadBalance, GetUserBalance, GoUnreserved,
           Reserve, ReserveError, BeginIncrease, Increase, IncreaseError, Submit, HandlerDone, Renew,
           RenewError, Release, ReleaseError, Charge, NotCharged, Sync, SyncError, TaskDone, DeliverLate,
           DropLate, CacheWrite, Evict, Tick, Fails, vars
  <2> QED BY <2>1, <2>2 DEF Fault
\* The step of a request leaves the others alone.
<1>o. ASSUME NEW r \in Requests, \A q \in Requests \ {r} : Same(q), RequestInvariant(r)' PROVE All
  BY <1>o, <1>t, <1>z, Untouched
<1>e. ASSUME NEW r \in Requests PROVE RequestInvariant(r)
  BY <1>t
<1> USE DEF RequestInvariant, HandleIsCounted, NothingBeforeReserve, KeptUntilSettled, RenewedInTime,
            Serving, Billed, Unsettled, Count
<1>1. ASSUME NEW r \in Requests, ReadBalance(r) PROVE All
  <2>1. \A q \in Requests : q # r => Same(q)
    BY <1>1, <1>f DEF ReadBalance, Same, redisVars, handleVars, renewVars, taskVars
  <2>2. /\ phase'[r] = "reserving" /\ goal'[r] # 0 /\ late'[r] = late[r] /\ hold'[r] = hold[r]
        /\ handle'[r] = handle[r] /\ refs'[r] = refs[r] /\ renewing'[r] = renewing[r]
        /\ task'[r] = task[r] /\ (r \in owed' <=> r \in owed) /\ (r \in lapsed' <=> r \in lapsed)
        /\ phase[r] = "idle" \/ (~handle[r] /\ task[r] = "none" /\ goal[r] = 0)
    BY <1>1, <1>f, Numbers DEF ReadBalance, redisVars, handleVars, renewVars, taskVars
  <2>3. RequestInvariant(r)'
    BY <1>e, <1>n, <1>z, <2>2
  <2> QED BY <1>o, <2>1, <2>3
<1>2. ASSUME NEW r \in Requests, GoUnreserved(r) PROVE All
  <2>1. \A q \in Requests : q # r => Same(q)
    BY <1>2, <1>f DEF GoUnreserved, Same, redisVars, handleVars, callVars, renewVars, taskVars
  <2>2. /\ phase[r] = "idle" /\ phase'[r] = "running"
        /\ UNCHANGED <<hold, life, late, handle, refs, renewing, task, owed, goal, lapsed, amount>>
    BY <1>2, <1>f DEF GoUnreserved, redisVars, handleVars, callVars, renewVars, taskVars
  <2>3. RequestInvariant(r)'
    BY <1>e, <1>n, <1>z, <2>2
  <2> QED BY <1>o, <2>1, <2>3
<1>3. ASSUME NEW r \in Requests, Reserve(r) PROVE All
  <2>1. Script(r, "reserve") /\ "reserve" \in Commands
    BY <1>3, Scripts DEF Reserve, Commands
  <2>2. \A q \in Requests : q # r => Same(q)
    <3>1. \A q \in Requests : q # r => hold'[q] = hold[q] /\ life'[q] = life[q]
      BY <1>t, <2>1, ScriptAt
    <3> QED BY <1>3, <1>f, <3>1 DEF Reserve, Same, callVars, renewVars, taskVars
  <2>3. CASE Grants(r)
    <3>1. /\ phase[r] = "reserving" /\ phase'[r] = "running" /\ handle'[r] /\ refs'[r] = 1
          /\ amount'[r] = goal[r] /\ renewing'[r] /\ due'[r] = RenewWithin
          /\ UNCHANGED <<late, owed, goal, task, faults, lapsed>>
      BY <1>3, <1>f, <2>3 DEF Reserve, callVars, taskVars
    <3>2. hold'[r] = goal[r] /\ life'[r] = TTL
      <4>1. goal[r] > 0
        BY <1>e, <1>n, <3>1
      <4>2. hold' = [hold EXCEPT ![r] = goal[r]] /\ life' = [life EXCEPT ![r] = TTL]
        BY <1>3, <2>3, <4>1 DEF Reserve, ReserveScript, Put
      <4>3. hold \in [Requests -> Amounts \cup {0}]
        BY <1>t DEF TypeOK
      <4> QED BY <1>f, <4>2, <4>3
    <3>3. r \notin lapsed \/ faults # 0
      BY <1>e, <3>1
    <3>4. RequestInvariant(r)'
      BY <1>e, <1>n, <1>z, <3>1, <3>2, <3>3, Numbers
    <3> QED BY <1>o, <2>2, <3>4
  <2>4. CASE ~Grants(r)
    <3>1. /\ phase[r] = "reserving" /\ phase'[r] = "over"
          /\ UNCHANGED <<hold, life, handle, refs, amount, renewing, late, owed, goal, task, lapsed>>
      BY <1>3, <1>f, <2>4 DEF Reserve, ReserveScript, callVars, renewVars, taskVars
    <3>2. RequestInvariant(r)'
      BY <1>e, <1>n, <1>z, <3>1
    <3> QED BY <1>o, <2>2, <3>2
  <2> QED BY <2>3, <2>4
<1>4. ASSUME NEW r \in Requests, ReserveError(r) PROVE All
  <2>1. Fails(r, "reserve") /\ "reserve" \in Commands
    BY <1>4 DEF ReserveError, Commands
  <2>2. \A q \in Requests : q # r => Same(q)
    BY <1>4, <1>f, <1>t, <2>1, FailsAt DEF ReserveError, Same, handleVars, callVars, renewVars, taskVars
  <2>3. /\ phase[r] = "reserving" /\ phase'[r] = "running" /\ faults' # 0
        /\ UNCHANGED <<handle, refs, amount, renewing, owed, goal, task, lapsed>>
    BY <1>4, <1>f, <1>t, <2>1, FailsAt DEF ReserveError, handleVars, callVars, renewVars, taskVars
  <2>4. late'[r] \subseteq {"reserve"} /\ ("reserve" \in late'[r] => hold'[r] = 0)
    BY <1>e, <1>t, <2>1, <2>3, FailsAt
  <2>5. RequestInvariant(r)'
    BY <1>e, <1>n, <2>3, <2>4
  <2> QED BY <1>o, <2>2, <2>5
<1>5. ASSUME NEW r \in Requests, BeginIncrease(r) PROVE All
  <2>1. \A q \in Requests : q # r => Same(q)
    BY <1>5, <1>f DEF BeginIncrease, Same, redisVars, handleVars, renewVars, taskVars
  <2>2. /\ phase[r] = "running" /\ phase'[r] = "raising" /\ handle[r] /\ task[r] = "none"
        /\ UNCHANGED <<hold, life, late, handle, refs, amount, owed, renewing, due, task, lapsed>>
    BY <1>5, <1>f DEF BeginIncrease, redisVars, handleVars, renewVars, taskVars
  <2>3. goal'[r] # 0
    <3>1. ASSUME NEW a \in Amounts PROVE Larger(a, amount[r]) # 0
      <4>1. a \in Nat /\ a # 0
        BY Numbers
      <4>2. amount[r] \in Nat
        BY <1>n
      <4> QED BY <4>1, <4>2 DEF Larger
    <3> QED BY <1>5, <1>f, <3>1 DEF BeginIncrease
  <2>4. RequestInvariant(r)'
    BY <1>e, <1>n, <1>z, <2>2, <2>3
  <2> QED BY <1>o, <2>1, <2>4
<1>6. ASSUME NEW r \in Requests, Increase(r) PROVE All
  <2>1. Script(r, "update") /\ "update" \in Commands
    BY <1>6, Scripts DEF Increase, Commands
  <2>2. \A q \in Requests : q # r => Same(q)
    <3>1. \A q \in Requests : q # r => hold'[q] = hold[q] /\ life'[q] = life[q]
      BY <1>t, <2>1, ScriptAt
    <3> QED BY <1>6, <1>f, <3>1 DEF Increase, Same, callVars, renewVars, taskVars
  <2>3. /\ phase[r] = "raising" /\ phase'[r] \in {"running", "refused"}
        /\ UNCHANGED <<late, handle, refs, owed, goal, renewing, due, task, faults, lapsed>>
    BY <1>6, <1>f DEF Increase, callVars, renewVars, taskVars
  <2>4. hold'[r] >= hold[r] /\ (life'[r] = life[r] \/ life'[r] = TTL)
    BY <1>n, <1>t, <2>1, ScriptAt
  <2>5. hold'[r] >= amount'[r] \/ (hold[r] < amount[r] /\ amount'[r] = amount[r])
    <3>1. CASE Raises(r)
      <4>1. amount'[r] = goal[r]
        BY <1>6, <1>f, <3>1 DEF Increase
      <4>2. goal[r] > hold[r] => hold'[r] = goal[r]
        <5>1. goal[r] > hold[r] => hold' = [hold EXCEPT ![r] = goal[r]]
          BY <1>6, <3>1 DEF Increase, UpdateScript, Put
        <5>2. hold \in [Requests -> Amounts \cup {0}]
          BY <1>t DEF TypeOK
        <5> QED BY <5>1, <5>2
      <4> QED BY <1>n, <2>4, <4>1, <4>2
    <3>2. CASE ~Raises(r)
      <4>1. amount'[r] = amount[r]
        BY <1>6, <3>2 DEF Increase
      <4> QED BY <1>n, <2>4, <4>1
    <3> QED BY <3>1, <3>2
  <2>6. RequestInvariant(r)'
    BY <1>e, <1>n, <2>3, <2>4, <2>5, Numbers
  <2> QED BY <1>o, <2>2, <2>6
<1>7. ASSUME NEW r \in Requests, IncreaseError(r) PROVE All
  <2>1. Fails(r, "update") /\ "update" \in Commands
    BY <1>7 DEF IncreaseError, Commands
  <2>2. \A q \in Requests : q # r => Same(q)
    BY <1>7, <1>f, <1>t, <2>1, FailsAt DEF IncreaseError, Same, handleVars, callVars, renewVars, taskVars
  <2>3. /\ phase[r] = "raising" /\ phase'[r] = "running" /\ faults' # 0
        /\ UNCHANGED <<handle, refs, amount, renewing, owed, goal, task, lapsed>>
    BY <1>7, <1>f, <1>t, <2>1, FailsAt DEF IncreaseError, handleVars, callVars, renewVars, taskVars
  <2>4. late'[r] \subseteq late[r] \cup {"update"} /\ hold'[r] >= hold[r]
    BY <1>n, <1>t, <2>1, FailsAt, ScriptAt
  <2>5. RequestInvariant(r)'
    BY <1>e, <1>n, <2>3, <2>4
  <2> QED BY <1>o, <2>2, <2>5
<1>8. ASSUME NEW r \in Requests, Renew(r) PROVE All
  <2>1. Script(r, "renew") /\ "renew" \in Commands
    BY <1>8, Scripts DEF Renew, Commands
  <2>2. \A q \in Requests : q # r => Same(q)
    <3>1. \A q \in Requests : q # r => hold'[q] = hold[q] /\ life'[q] = life[q]
      BY <1>t, <2>1, ScriptAt
    <3> QED BY <1>8, <1>f, <3>1 DEF Renew, Same, handleVars, callVars, taskVars
  <2>3. /\ renewing[r] /\ hold'[r] = hold[r]
        /\ UNCHANGED <<late, handle, refs, amount, owed, goal, phase, task, faults, lapsed>>
    BY <1>8, <1>t, <2>1, ScriptAt DEF Renew, handleVars, callVars, taskVars
  <2>4. hold[r] > 0 => renewing'[r] /\ due'[r] = RenewWithin /\ life'[r] = TTL
    <3>1. hold[r] > 0 => r \in Live
      BY DEF Live
    <3> QED BY <1>8, <1>f, <1>n, <3>1 DEF Renew, RenewScript, Put
  <2>5. RequestInvariant(r)'
    BY <1>e, <1>n, <2>3, <2>4, Numbers
  <2> QED BY <1>o, <2>2, <2>5
<1>9. ASSUME NEW r \in Requests, RenewError(r) PROVE All
  <2>1. Fails(r, "renew") /\ "renew" \in Commands
    BY <1>9 DEF RenewError, Commands
  <2>2. \A q \in Requests : q # r => Same(q)
    BY <1>9, <1>f, <1>t, <2>1, FailsAt DEF RenewError, Same, handleVars, callVars, taskVars
  <2>3. /\ renewing[r] /\ faults' # 0
        /\ UNCHANGED <<handle, refs, amount, renewing, owed, goal, phase, task, lapsed>>
    BY <1>9, <1>t, <2>1, FailsAt DEF RenewError, handleVars, callVars, taskVars
  <2>4. late'[r] \subseteq late[r] \cup {"renew"} /\ hold'[r] = hold[r]
    BY <1>n, <1>t, <2>1, FailsAt, ScriptAt
  <2>5. RequestInvariant(r)'
    BY <1>e, <1>n, <2>3, <2>4
  <2> QED BY <1>o, <2>2, <2>5
<1>10. ASSUME NEW r \in Requests, Submit(r) PROVE All
  <2>1. \A q \in Requests : q # r => Same(q)
    BY <1>10, <1>f DEF Submit, Same, redisVars, callVars, renewVars
  <2>2. /\ phase[r] = "running" /\ task[r] = "none" /\ task'[r] = "queued"
        /\ refs'[r] = IF refs[r] > 0 THEN refs[r] + 1 ELSE refs[r]
        /\ UNCHANGED <<hold, life, late, handle, amount, owed, goal, renewing, due, phase, lapsed>>
    BY <1>10, <1>f DEF Submit, redisVars, callVars, renewVars
  <2>3. RequestInvariant(r)'
    BY <1>e, <1>n, <1>z, <2>2
  <2> QED BY <1>o, <2>1, <2>3
<1>11. ASSUME NEW r \in Requests, HandlerDone(r) PROVE All
  <2>1. \A q \in Requests : q # r => Same(q)
    BY <1>11, <1>f DEF HandlerDone, DecRef, Same, redisVars, callVars, taskVars
  <2>2. /\ phase[r] \in {"running", "refused"} /\ phase'[r] = "over" /\ ~renewing'[r]
        /\ UNCHANGED <<hold, life, late, handle, amount, goal, task, lapsed>>
    BY <1>11, <1>f DEF HandlerDone, redisVars, callVars, taskVars
  <2>3. CASE ~handle[r]
    <3>1. UNCHANGED <<refs, owed>>
      BY <1>11, <2>3 DEF HandlerDone
    <3>2. RequestInvariant(r)'
      BY <1>e, <1>n, <1>z, <2>2, <2>3, <3>1
    <3> QED BY <1>o, <2>1, <3>2
  <2>4. CASE handle[r]
    <3>1. refs'[r] = refs[r] - 1 /\ (r \in owed' => r \in owed \/ refs[r] = 1)
      BY <1>11, <1>f, <2>4 DEF HandlerDone, DecRef
    <3>2. RequestInvariant(r)'
      BY <1>e, <1>n, <1>z, <2>2, <2>4, <3>1
    <3> QED BY <1>o, <2>1, <3>2
  <2> QED BY <2>3, <2>4
<1>12. ASSUME NEW r \in Requests, Release(r) PROVE All
  <2>1. Script(r, "release") /\ "release" \in Commands
    BY <1>12, Scripts DEF Release, Commands
  <2>2. \A q \in Requests : q # r => Same(q)
    <3>1. \A q \in Requests : q # r => hold'[q] = hold[q] /\ life'[q] = life[q]
      BY <1>t, <2>1, ScriptAt
    <3> QED BY <1>12, <3>1 DEF Release, Same, callVars, renewVars, taskVars
  <2>3. /\ r \in owed /\ owed' = owed \ {r}
        /\ UNCHANGED <<late, handle, refs, amount, goal, renewing, due, phase, task, faults, lapsed>>
    BY <1>12 DEF Release, callVars, renewVars, taskVars
  <2>4. RequestInvariant(r)'
    BY <1>e, <1>n, <2>3
  <2> QED BY <1>o, <2>2, <2>4
<1>13. ASSUME NEW r \in Requests, ReleaseError(r) PROVE All
  <2>1. Fails(r, "release") /\ "release" \in Commands
    BY <1>13 DEF ReleaseError, Commands
  <2>2. \A q \in Requests : q # r => Same(q)
    BY <1>13, <1>f, <1>t, <2>1, FailsAt DEF ReleaseError, Same, callVars, renewVars, taskVars
  <2>3. /\ r \in owed /\ owed' = owed \ {r} /\ faults' # 0
        /\ UNCHANGED <<handle, refs, amount, goal, renewing, phase, task, lapsed>>
    BY <1>13, <1>t, <2>1, FailsAt DEF ReleaseError, callVars, renewVars, taskVars
  <2>4. late'[r] \subseteq late[r] \cup {"release"}
    BY <1>t, <2>1, FailsAt
  <2>5. RequestInvariant(r)'
    BY <1>e, <1>n, <2>3, <2>4
  <2> QED BY <1>o, <2>2, <2>5
<1>14. ASSUME NEW r \in Requests, Charge(r) \/ NotCharged(r) \/ Sync(r) \/ SyncError(r) PROVE All
  <2>1. UNCHANGED <<hold, life, late, handle, refs, amount, owed, goal, renewing, due, phase, lapsed>>
    BY <1>14 DEF Charge, NotCharged, Sync, SyncError, redisVars, handleVars, callVars, renewVars
  <2>2. /\ \A q \in Requests : q # r => task'[q] = task[q]
        /\ task[r] \in {"queued", "charged", "exhausted"}
        /\ task'[r] \in {"charged", "exhausted", "synced"}
    BY <1>14, <1>f DEF Charge, NotCharged, Sync, SyncError
  <2>3. \A q \in Requests : q # r => Same(q)
    BY <2>1, <2>2 DEF Same
  <2>4. RequestInvariant(r)'
    BY <1>e, <1>n, <1>z, <2>1, <2>2
  <2> QED BY <1>o, <2>3, <2>4
<1>15. ASSUME NEW r \in Requests, TaskDone(r) PROVE All
  <2>1. \A q \in Requests : q # r => Same(q)
    BY <1>15, <1>f DEF TaskDone, DecRef, Same, redisVars, callVars, renewVars
  <2>2. /\ phase[r] # "raising" /\ task[r] = "synced" /\ task'[r] = "done"
        /\ UNCHANGED <<hold, life, late, handle, amount, goal, renewing, due, phase, lapsed>>
    BY <1>15, <1>f DEF TaskDone, redisVars, callVars, renewVars
  <2>3. CASE ~handle[r]
    <3>1. UNCHANGED <<refs, owed>>
      BY <1>15, <2>3 DEF TaskDone
    <3>2. RequestInvariant(r)'
      BY <1>e, <1>n, <1>z, <2>2, <2>3, <3>1
    <3> QED BY <1>o, <2>1, <3>2
  <2>4. CASE handle[r]
    <3>1. refs'[r] = refs[r] - 1 /\ (r \in owed' => r \in owed \/ refs[r] = 1)
      BY <1>15, <1>f, <2>4 DEF TaskDone, DecRef
    <3>2. RequestInvariant(r)'
      BY <1>e, <1>n, <1>z, <2>2, <2>4, <3>1
    <3> QED BY <1>o, <2>1, <3>2
  <2> QED BY <2>3, <2>4
<1>16. ASSUME NEW r \in Requests, NEW c \in Commands, DeliverLate(r, c) PROVE All
  <2>1. /\ c \in late[r] /\ late'[r] = late[r] \ {c} /\ Script(r, c)
        /\ \A q \in Requests : q # r => late'[q] = late[q]
    BY <1>16, <1>f DEF DeliverLate
  <2>2. UNCHANGED <<handle, refs, amount, owed, goal, renewing, due, phase, task, faults, lapsed>>
    BY <1>16 DEF DeliverLate, handleVars, callVars, renewVars, taskVars
  <2>3. \A q \in Requests : q # r => Same(q)
    BY <1>t, <2>1, <2>2, ScriptAt DEF Same
  <2>4. faults # 0
    BY <1>e, <2>1
  <2>5. \/ hold'[r] >= hold[r] /\ (hold[r] > 0 \/ hold'[r] = hold[r])
        \/ "reserve" \in late[r] /\ "reserve" \notin late'[r]
        \/ "release" \in late[r]
    BY <1>n, <1>t, <2>1, ScriptAt
  <2>6. RequestInvariant(r)'
    BY <1>e, <1>n, <2>1, <2>2, <2>4, <2>5
  <2> QED BY <1>o, <2>3, <2>6
<1>17. ASSUME NEW r \in Requests, NEW c \in Commands, DropLate(r, c) PROVE All
  <2>1. /\ late'[r] = late[r] \ {c} /\ c \in late[r]
        /\ \A q \in Requests : q # r => late'[q] = late[q]
    BY <1>17, <1>f DEF DropLate
  <2>2. /\ UNCHANGED <<hold, life, handle, refs, amount, owed, goal, renewing, due, phase, task>>
        /\ UNCHANGED <<faults, lapsed>>
    BY <1>17 DEF DropLate, handleVars, callVars, renewVars, taskVars
  <2>3. \A q \in Requests : q # r => Same(q)
    BY <2>1, <2>2 DEF Same
  <2>4. RequestInvariant(r)'
    BY <1>e, <1>n, <2>1, <2>2
  <2> QED BY <1>o, <2>3, <2>4
<1>18. CASE \/ \E w \in writes : CacheWrite(w)
            \/ Evict
            \/ UNCHANGED vars
  <2>1. /\ UNCHANGED <<hold, life, late, handle, refs, amount, owed, goal, renewing, due, phase, task>>
        /\ UNCHANGED <<faults, lapsed>>
    BY <1>18 DEF CacheWrite, Evict, vars, redisVars, handleVars, callVars, renewVars, taskVars
  <2>2. \A q \in Requests : Same(q)
    BY <2>1 DEF Same
  <2> QED BY <1>t, <1>z, <2>2, Untouched
<1>19. ASSUME Tick, NEW q \in Requests PROVE RequestInvariant(q)'
  <2>1. UNCHANGED <<late, handle, refs, amount, owed, goal, renewing, phase, task, faults>>
    BY <1>19 DEF Tick, handleVars, callVars, taskVars
  <2>2. /\ life'[q] = Less(life[q]) /\ hold'[q] = (IF life[q] > 1 THEN hold[q] ELSE 0)
        /\ due'[q] = Less(due[q])
        /\ (q \in lapsed' <=> q \in lapsed \/ life[q] = 1)
        /\ (renewing[q] => due[q] > 0)
    BY <1>19 DEF Tick
  <2>3. /\ life[q] > 0 => life'[q] = life[q] - 1
        /\ due[q] > 0 => due'[q] = due[q] - 1
    BY <1>n, <2>2, Numbers DEF Less
  <2>4. hold'[q] = hold[q] \/ (hold'[q] = 0 /\ q \in lapsed')
    BY <1>n, <2>2
  <2>5. HandleIsCounted(q)' /\ NothingBeforeReserve(q)'
    BY <1>e, <1>n, <2>1, <2>2, <2>4
  <2>6. KeptUntilSettled(q)'
    BY <1>e, <1>n, <2>1, <2>2, <2>4
  <2>7. RenewedInTime(q)'
    BY <1>e, <1>n, <2>1, <2>2, <2>3, Numbers
  <2> QED BY <2>5, <2>6, <2>7
<1> QED
  BY <1>1, <1>2, <1>3, <1>4, <1>5, <1>6, <1>7, <1>8, <1>9, <1>10, <1>11, <1>12, <1>13, <1>14, <1>15,
     <1>16, <1>17, <1>18, <1>19
  DEF Next, Handler, Renewer, Releaser, Billing, Network

\* Initially nothing is held and no request has started.
LEMMA InitInvariant == Init => ReservationInvariant
<1> SUFFICES ASSUME Init PROVE ReservationInvariant
  OBVIOUS
<1>1. TypeOK
  <2>1. db \in Int /\ cache \in Int
    BY Numbers DEF Init
  <2>2. hit \in BOOLEAN /\ writes \subseteq {"set", "deduct"} \X Requests \X Int
    BY DEF Init
  <2>3. /\ hold \in [Requests -> Amounts \cup {0}] /\ life \in [Requests -> 0..TTL]
        /\ \A r \in Requests : hold[r] > 0 <=> life[r] > 0
    BY Numbers DEF Init
  <2>4. /\ refs \in [Requests -> 0..2] /\ due \in [Requests -> 0..RenewWithin]
        /\ seen \in [Requests -> Int] /\ faults \in 0..MaxFaults
    BY Numbers DEF Init
  <2>5. /\ amount \in [Requests -> Amounts \cup {0}] /\ goal \in [Requests -> Amounts \cup {0}]
        /\ cost \in [Requests -> Amounts \cup {0}]
    BY DEF Init
  <2>6. handle \in [Requests -> BOOLEAN] /\ renewing \in [Requests -> BOOLEAN]
    BY DEF Init
  <2>7. /\ phase \in [Requests -> {"idle", "reserving", "running", "raising", "refused", "over"}]
        /\ task \in [Requests -> {"none", "queued", "charged", "exhausted", "synced", "done"}]
    BY DEF Init
  <2>8. owed \subseteq Requests /\ lapsed \subseteq Requests /\ late \in [Requests -> SUBSET Commands]
    BY DEF Init
  <2> QED BY <2>1, <2>2, <2>3, <2>4, <2>5, <2>6, <2>7, <2>8 DEF TypeOK
<1>2. ASSUME NEW r \in Requests PROVE RequestInvariant(r)
  BY DEF Init, RequestInvariant, HandleIsCounted, NothingBeforeReserve, KeptUntilSettled, RenewedInTime,
         Serving, Billed, Unsettled, Count
<1> QED BY <1>1, <1>2 DEF ReservationInvariant

\* The inductive invariant holds.
THEOREM ReservationInvariantHolds == Spec => []ReservationInvariant
<1>1. ReservationInvariant /\ [Next]_vars => ReservationInvariant'
  <2> SUFFICES ASSUME ReservationInvariant, [Next]_vars PROVE ReservationInvariant'
    OBVIOUS
  <2>1. TypeOK'
    BY TypeStep DEF ReservationInvariant, RequestInvariant
  <2>2. (\A r \in Requests : RequestInvariant(r))'
    BY RequestStep
  <2> QED BY <2>1, <2>2 DEF ReservationInvariant
<1> QED BY <1>1, InitInvariant, PTL DEF Spec

\* Type correctness of the balances, the reservations and the handles.
THEOREM TypeCorrect == Spec => []TypeOK
<1>1. ReservationInvariant => TypeOK
  BY DEF ReservationInvariant
<1> QED BY <1>1, ReservationInvariantHolds, PTL

\* A granted amount stays registered, in full, until the handler has returned and
\* the billing task has made its deduction, unless its TTL passed.
THEOREM GrantsAreKept == Spec => []HeldUntilSettled
<1>1. ReservationInvariant => HeldUntilSettled
  BY DEF ReservationInvariant, RequestInvariant, HeldUntilSettled
<1> QED BY <1>1, ReservationInvariantHolds, PTL

\* While no command fails, the TTL of a request whose handler runs does not pass.
THEOREM ServedRequestsDoNotLapse == Spec => []NoLapseWhileServed
<1>1. ReservationInvariant => NoLapseWhileServed
  BY DEF ReservationInvariant, RequestInvariant, RenewedInTime, NoLapseWhileServed, Serving
<1> QED BY <1>1, ReservationInvariantHolds, PTL

\* The registered amounts only fall, by releases and expiry, or one of them is set
\* by the reserve script of a request that holds nothing or raised by the update
\* script of one that holds less.
HoldStep ==
  \/ \A q \in Requests : hold'[q] \in {0, hold[q]}
  \/ \E r \in Requests :
       /\ hold' = [hold EXCEPT ![r] = goal[r]]
       /\ \/ Grants(r) /\ hold[r] = 0 /\ (phase[r] = "reserving" \/ "reserve" \in late[r])
          \/ Raises(r) /\ hold[r] > 0 /\ goal[r] > hold[r]
LEMMA HoldSteps == ASSUME ReservationInvariant, [Next]_vars PROVE HoldStep
<1>t. TypeOK /\ hold \in [Requests -> Amounts \cup {0}]
  BY DEF ReservationInvariant, TypeOK
<1>0. ASSUME UNCHANGED hold PROVE HoldStep
  BY <1>0 DEF HoldStep
<1>s. ASSUME NEW r \in Requests, NEW c \in Commands, Script(r, c),
             c = "reserve" => phase[r] = "reserving" \/ "reserve" \in late[r]
      PROVE  HoldStep
  <2>1. CASE c = "reserve"
    <3>1. CASE Grants(r)
      <4>1. hold' = [hold EXCEPT ![r] = goal[r]]
        BY <1>s, <2>1, <3>1 DEF Script, ReserveScript, Put
      <4>2. hold[r] = 0
        BY <1>s, <2>1 DEF ReservationInvariant, RequestInvariant, NothingBeforeReserve
      <4> QED BY <1>s, <2>1, <3>1, <4>1, <4>2 DEF HoldStep
    <3> QED BY <1>0, <1>s, <2>1, <3>1 DEF Script, ReserveScript
  <2>2. CASE c = "update"
    <3>1. CASE Raises(r) /\ goal[r] > hold[r]
      <4>1. hold' = [hold EXCEPT ![r] = goal[r]]
        BY <1>s, <2>2, <3>1 DEF Script, UpdateScript, Put
      <4> QED BY <3>1, <4>1 DEF HoldStep, Raises, Live
    <3> QED BY <1>0, <1>s, <2>2, <3>1 DEF Script, UpdateScript
  <2>3. CASE c \in {"renew", "release"}
    <3>1. UNCHANGED hold \/ hold' = [hold EXCEPT ![r] = hold[r]] \/ hold' = [hold EXCEPT ![r] = 0]
      BY <1>s, <2>3 DEF Script, RenewScript, ReleaseScript, Put
    <3> QED BY <1>t, <3>1 DEF HoldStep
  <2> QED BY <2>1, <2>2, <2>3 DEF Commands
<1>f. ASSUME NEW r \in Requests, NEW c \in Commands, Fails(r, c),
             c = "reserve" => phase[r] = "reserving" \/ "reserve" \in late[r]
      PROVE  HoldStep
  BY <1>0, <1>f, <1>s DEF Fails
<1>1. ASSUME NEW r \in Requests, Handler(r) PROVE HoldStep
  <2>1. CASE Reserve(r) \/ Increase(r)
    <3>1. \/ Script(r, "reserve") /\ phase[r] = "reserving"
          \/ Script(r, "update")
      BY <2>1, Scripts DEF Reserve, Increase
    <3> QED BY <1>s, <3>1 DEF Commands
  <2>2. CASE ReserveError(r) \/ IncreaseError(r)
    BY <1>f, <2>2 DEF ReserveError, IncreaseError, Commands
  <2>3. CASE \/ ReadBalance(r) \/ GoUnreserved(r) \/ BeginIncrease(r) \/ Submit(r) \/ HandlerDone(r)
    BY <1>0, <2>3 DEF ReadBalance, GoUnreserved, BeginIncrease, Submit, HandlerDone, redisVars
  <2> QED BY <1>1, <2>1, <2>2, <2>3 DEF Handler
<1>2. ASSUME NEW r \in Requests, Renewer(r) \/ Releaser(r) PROVE HoldStep
  <2>1. CASE Renew(r) \/ Release(r)
    <3>1. Script(r, "renew") \/ Script(r, "release")
      BY <2>1, Scripts DEF Renew, Release
    <3> QED BY <1>s, <3>1 DEF Commands
  <2>2. CASE RenewError(r) \/ ReleaseError(r)
    BY <1>f, <2>2 DEF RenewError, ReleaseError, Commands
  <2> QED BY <1>2, <2>1, <2>2 DEF Renewer, Releaser
<1>3. ASSUME NEW r \in Requests, Billing(r) PROVE HoldStep
  BY <1>0, <1>3 DEF Billing, Charge, NotCharged, Sync, SyncError, TaskDone, redisVars
<1>4. ASSUME NEW r \in Requests, NEW c \in Commands, DeliverLate(r, c) \/ DropLate(r, c) PROVE HoldStep
  BY <1>0, <1>4, <1>s DEF DeliverLate, DropLate
<1>5. CASE \/ \E w \in writes : CacheWrite(w)
           \/ Evict
           \/ UNCHANGED vars
  BY <1>0, <1>5 DEF CacheWrite, Evict, vars, redisVars
<1>6. CASE Tick
  BY <1>6 DEF Tick, HoldStep
<1> QED BY <1>1, <1>2, <1>3, <1>4, <1>5, <1>6 DEF Next, Network

\* A registration comes only from a reserve script and its amount does not go down
\* before it ends, whatever is executed late.
THEOREM ReleasedCapacityStaysReleased == Spec => HoldOnlyGrowsOrEnds
<1>1. ASSUME ReservationInvariant, [Next]_vars, NEW r \in Requests
      PROVE  /\ hold'[r] \in {0} \cup {n \in Amounts : n >= hold[r]}
             /\ hold[r] = 0 /\ hold'[r] > 0 => phase[r] = "reserving" \/ "reserve" \in late[r]
  <2>1. /\ hold \in [Requests -> Amounts \cup {0}] /\ goal[r] \in Amounts \cup {0}
        /\ hold[r] \in Amounts \cup {0}
    BY <1>1 DEF ReservationInvariant, TypeOK
  <2>2. hold[r] \in Nat /\ goal[r] \in Nat
    BY <2>1, Numbers
  <2>3. CASE \A q \in Requests : hold'[q] \in {0, hold[q]}
    BY <1>1, <2>1, <2>2, <2>3
  <2>4. ASSUME NEW q \in Requests, hold' = [hold EXCEPT ![q] = goal[q]],
               \/ hold[q] = 0 /\ (phase[q] = "reserving" \/ "reserve" \in late[q])
               \/ hold[q] > 0 /\ goal[q] > hold[q]
        PROVE  /\ hold'[r] \in {0} \cup {n \in Amounts : n >= hold[r]}
               /\ hold[r] = 0 /\ hold'[r] > 0 => phase[r] = "reserving" \/ "reserve" \in late[r]
    <3>1. CASE q # r
      BY <2>1, <2>2, <2>4, <3>1
    <3>2. CASE q = r
      <4>1. hold'[r] = goal[r]
        BY <2>1, <2>4, <3>2
      <4> QED BY <2>1, <2>2, <2>4, <3>2, <4>1
    <3> QED BY <3>1, <3>2
  <2> QED BY <1>1, <2>3, <2>4, HoldSteps DEF HoldStep
<1>2. ReservationInvariant /\ [Next]_vars
      => [\A r \in Requests :
            /\ hold'[r] \in {0} \cup {n \in Amounts : n >= hold[r]}
            /\ hold[r] = 0 /\ hold'[r] > 0 => phase[r] = "reserving" \/ "reserve" \in late[r]]_vars
  BY <1>1
<1> QED BY <1>2, ReservationInvariantHolds, PTL DEF Spec, HoldOnlyGrowsOrEnds

-----------------------------------------------------------------------------
(* What is held together, as a set of units.                               *)

Stack(f, S) == UNION {{r} \X (1..f[r]) : r \in S}

\* The units of finitely many requests are finitely many.
LEMMA StackFinite ==
  ASSUME NEW f, NEW S \in SUBSET Requests, \A r \in S : f[r] \in Nat
  PROVE  IsFiniteSet(Stack(f, S))
<1> DEFINE piles == {{r} \X (1..f[r]) : r \in S}
           pile == [r \in S |-> {r} \X (1..f[r])]
<1>1. IsFiniteSet(S)
  BY FS_Subset, ReservationAssumption
<1>2. pile \in Surjection(S, piles)
  BY DEF Surjection
<1>3. IsFiniteSet(piles)
  BY <1>1, <1>2, FS_Surjection
<1>4. ASSUME NEW P \in piles PROVE IsFiniteSet(P)
  <2>1. PICK r \in S : P = {r} \X (1..f[r])
    OBVIOUS
  <2>2. IsFiniteSet({r})
    BY FS_Singleton
  <2>3. f[r] \in Int /\ 1 \in Int
    OBVIOUS
  <2>4. IsFiniteSet(1..f[r])
    BY <2>3, FS_Interval
  <2>5. IsFiniteSet({r} \X (1..f[r]))
    BY <2>2, <2>4, FS_Product
  <2> QED BY <2>1, <2>5
<1> QED BY <1>3, <1>4, FS_UNION DEF Stack

\* Fewer requests with smaller amounts have fewer units.
LEMMA StackShrinks ==
  ASSUME NEW f, NEW S \in SUBSET Requests, \A r \in S : f[r] \in Nat,
         NEW g, NEW T \in SUBSET S, \A r \in T : g[r] \in Nat /\ g[r] <= f[r]
  PROVE  Cardinality(Stack(g, T)) <= Cardinality(Stack(f, S))
<1>1. Stack(g, T) \subseteq Stack(f, S)
  <2> SUFFICES ASSUME NEW u \in Stack(g, T) PROVE u \in Stack(f, S)
    OBVIOUS
  <2>1. PICK r \in T : u \in {r} \X (1..g[r])
    BY DEF Stack
  <2>2. 1..g[r] \subseteq 1..f[r] /\ r \in S
    OBVIOUS
  <2>3. u \in {r} \X (1..f[r])
    BY <2>1, <2>2
  <2> QED BY <2>2, <2>3 DEF Stack
<1> QED BY <1>1, StackFinite, FS_Subset

\* A request that is given n units adds at most n.
LEMMA StackGrows ==
  ASSUME NEW f, NEW S \in SUBSET Requests, \A q \in S : f[q] \in Nat,
         NEW g, NEW T \in SUBSET Requests, NEW r \in Requests, T \subseteq S \cup {r},
         \A q \in T \ {r} : g[q] = f[q], g[r] \in Nat
  PROVE  Cardinality(Stack(g, T)) <= Cardinality(Stack(f, S)) + g[r]
<1> DEFINE pile == {r} \X (1..g[r])
<1>1. IsFiniteSet(pile) /\ Cardinality(pile) = g[r]
  <2>1. IsFiniteSet({r}) /\ Cardinality({r}) = 1
    BY FS_Singleton
  <2>2. IsFiniteSet(1..g[r]) /\ Cardinality(1..g[r]) = g[r]
    BY FS_Interval
  <2>3. IsFiniteSet(pile) /\ Cardinality(pile) = Cardinality({r}) * Cardinality(1..g[r])
    BY <2>1, <2>2, FS_Product
  <2>4. Cardinality(pile) = 1 * g[r]
    BY <2>1, <2>2, <2>3
  <2>5. 1 * g[r] = g[r]
    OBVIOUS
  <2> QED BY <2>3, <2>4, <2>5
<1>2. IsFiniteSet(Stack(f, S))
  BY StackFinite
<1>3. Stack(g, T) \subseteq Stack(f, S) \cup pile
  <2> SUFFICES ASSUME NEW u \in Stack(g, T), u \notin pile PROVE u \in Stack(f, S)
    OBVIOUS
  <2>1. PICK q \in T : u \in {q} \X (1..g[q])
    BY DEF Stack
  <2>2. q # r /\ q \in S /\ g[q] = f[q]
    BY <2>1
  <2> QED BY <2>1, <2>2 DEF Stack
<1>4. /\ IsFiniteSet(Stack(f, S) \cup pile)
      /\ Cardinality(Stack(f, S) \cup pile)
           = Cardinality(Stack(f, S)) + Cardinality(pile) - Cardinality(Stack(f, S) \cap pile)
  BY <1>1, <1>2, FS_Union
<1>5. Cardinality(Stack(g, T)) <= Cardinality(Stack(f, S) \cup pile)
  BY <1>3, <1>4, FS_Subset
<1>6. Cardinality(Stack(f, S) \cap pile) \in Nat /\ Cardinality(Stack(f, S)) \in Nat
  <2>1. IsFiniteSet(Stack(f, S) \cap pile)
    BY <1>2, FS_Subset
  <2> QED BY <1>2, <2>1, FS_CardinalityType
<1>7. Cardinality(Stack(g, T)) \in Nat
  <2>1. IsFiniteSet(Stack(g, T))
    BY <1>3, <1>4, FS_Subset
  <2> QED BY <2>1, FS_CardinalityType
<1>8. g[r] \in Nat
  OBVIOUS
<1> QED BY <1>1, <1>4, <1>5, <1>6, <1>7, <1>8

\* What the scripts add up is the number of units.
LEMMA HeldIsStack == ASSUME NEW S PROVE Held(S) = Cardinality(Stack(hold, S))
BY DEF Held, Units, Stack

\* No step raises a balance above the one at the start.
LEMMA BalanceStep ==
  TypeOK /\ BalanceOnlyFalls /\ [Next]_vars => BalanceOnlyFalls'
<1> SUFFICES ASSUME TypeOK, BalanceOnlyFalls, [Next]_vars PROVE BalanceOnlyFalls'
  OBVIOUS
<1>t. /\ db \in Int /\ cache \in Int /\ seen \in [Requests -> Int] /\ StartBalance \in Nat
      /\ writes \subseteq {"set", "deduct"} \X Requests \X Int
  BY Numbers DEF TypeOK
<1>c. \A r \in Requests : cost[r] \in Nat
  <2>1. \A r \in Requests : cost[r] \in Amounts \cup {0}
    BY DEF TypeOK
  <2> QED BY <2>1, Numbers
<1> DEFINE Bound(w) == IF w[1] = "set" THEN w[3] <= StartBalance ELSE w[3] >= 0
<1>i. /\ db <= StartBalance /\ cache <= StartBalance
      /\ \A r \in Requests : seen[r] <= StartBalance
      /\ \A w \in writes : Bound(w)
  BY DEF BalanceOnlyFalls
<1>q. ASSUME db' <= StartBalance, cache' <= StartBalance,
             \A r \in Requests : seen'[r] <= StartBalance, \A w \in writes' : Bound(w)
      PROVE  BalanceOnlyFalls'
  BY <1>q DEF BalanceOnlyFalls
<1>0. ASSUME UNCHANGED <<moneyVars, seen>> PROVE BalanceOnlyFalls'
  BY <1>0, <1>i, <1>q DEF moneyVars
<1>1. ASSUME NEW r \in Requests, ReadBalance(r) \/ BeginIncrease(r) PROVE BalanceOnlyFalls'
  <2>1. GetUserBalance(r)
    BY <1>1 DEF ReadBalance, BeginIncrease
  <2>2. /\ seen' = [seen EXCEPT ![r] = cache] \/ seen' = [seen EXCEPT ![r] = db]
        /\ writes' = writes \/ writes' = writes \cup {<<"set", r, db>>}
        /\ UNCHANGED <<db, cache>>
    BY <2>1 DEF GetUserBalance, moneyVars
  <2>3. \A q \in Requests : seen'[q] <= StartBalance
    BY <1>i, <1>t, <2>2
  <2>4. Bound(<<"set", r, db>>)
    BY <1>i
  <2>5. \A w \in writes' : Bound(w)
    BY <1>i, <2>2, <2>4
  <2> QED BY <1>i, <1>q, <2>2, <2>3, <2>5
<1>2. ASSUME NEW r \in Requests, Handler(r), ~ReadBalance(r), ~BeginIncrease(r) PROVE BalanceOnlyFalls'
  BY <1>0, <1>2 DEF Handler, GoUnreserved, Reserve, ReserveError, Increase, IncreaseError, Submit,
                    HandlerDone, callVars
<1>3. ASSUME NEW r \in Requests, Renewer(r) \/ Releaser(r) PROVE BalanceOnlyFalls'
  BY <1>0, <1>3 DEF Renewer, Releaser, Renew, RenewError, Release, ReleaseError, callVars
<1>4. ASSUME NEW r \in Requests, Charge(r) PROVE BalanceOnlyFalls'
  <2>1. \E c \in Amounts : db' = db - c
    BY <1>4 DEF Charge
  <2>2. db' <= StartBalance
    BY <1>i, <1>t, <2>1, Numbers
  <2> QED BY <1>4, <1>i, <1>q, <2>2 DEF Charge, callVars
<1>5. ASSUME NEW r \in Requests, NotCharged(r) \/ TaskDone(r) PROVE BalanceOnlyFalls'
  BY <1>0, <1>5 DEF NotCharged, TaskDone, callVars
<1>6. ASSUME NEW r \in Requests, Sync(r) PROVE BalanceOnlyFalls'
  <2>1. cache' = cache - cost[r] \/ cache' = 0
    BY <1>6 DEF Sync
  <2>2. cache' <= StartBalance
    BY <1>c, <1>i, <1>t, <2>1
  <2> QED BY <1>6, <1>i, <1>q, <2>2 DEF Sync, callVars
<1>7. ASSUME NEW r \in Requests, SyncError(r) PROVE BalanceOnlyFalls'
  <2>1. /\ cache' \in {0, cache} \/ \E n \in 0..2 : cache' = cache - n * cost[r]
        /\ writes' = writes \/ writes' = writes \cup {<<"deduct", r, cost[r]>>}
        /\ UNCHANGED <<db, seen>>
    BY <1>7 DEF SyncError, callVars
  <2>2. \A n \in 0..2 : n * cost[r] >= 0 /\ n * cost[r] \in Int
    BY <1>c
  <2>3. cache' <= StartBalance
    BY <1>i, <1>t, <2>1, <2>2
  <2>4. Bound(<<"deduct", r, cost[r]>>)
    BY <1>c
  <2> QED BY <1>i, <1>q, <2>1, <2>3, <2>4
<1>8. ASSUME NEW r \in Requests, Network(r) PROVE BalanceOnlyFalls'
  BY <1>0, <1>8 DEF Network, DeliverLate, DropLate, callVars
<1>9. ASSUME NEW w \in writes, CacheWrite(w) PROVE BalanceOnlyFalls'
  <2>1. w[3] \in Int /\ Bound(w)
    BY <1>i, <1>t
  <2>2. cache' <= StartBalance
    BY <1>9, <1>i, <1>t, <2>1 DEF CacheWrite
  <2> QED BY <1>9, <1>i, <1>q, <2>2 DEF CacheWrite, callVars
<1>10. CASE Evict
  BY <1>10, <1>i, <1>q, <1>t DEF Evict, callVars
<1>11. CASE Tick \/ UNCHANGED vars
  BY <1>0, <1>11 DEF Tick, vars, callVars
<1> QED BY <1>1, <1>2, <1>3, <1>4, <1>5, <1>6, <1>7, <1>8, <1>9, <1>10, <1>11 DEF Next, Billing

\* No step takes the reservations that run side by side beyond the balance: a
\* script that adds to them was given a balance that covers all of them.
LEMMA WithinBalanceStep ==
  ReservationInvariant /\ BalanceOnlyFalls /\ HeldWithinBalance /\ [Next]_vars => HeldWithinBalance'
<1> SUFFICES ASSUME ReservationInvariant, BalanceOnlyFalls, HeldWithinBalance, [Next]_vars
             PROVE  HeldWithinBalance'
  OBVIOUS
<1> DEFINE live == {q \in Requests : hold'[q] > 0}
<1>t. /\ TypeOK /\ hold \in [Requests -> Amounts \cup {0}]
      /\ \A q \in Requests : hold[q] \in Nat /\ goal[q] \in Nat /\ seen[q] \in Int
  <2>1. TypeOK
    BY DEF ReservationInvariant
  <2>2. \A q \in Requests : /\ hold[q] \in Amounts \cup {0} /\ goal[q] \in Amounts \cup {0}
                            /\ seen[q] \in Int
    BY <2>1 DEF TypeOK
  <2>3. hold \in [Requests -> Amounts \cup {0}]
    BY <2>1 DEF TypeOK
  <2> QED BY <2>1, <2>2, <2>3, Numbers
<1>b. StartBalance \in Nat /\ \A q \in Requests : seen[q] <= StartBalance
  BY Numbers DEF BalanceOnlyFalls
<1>l. Live \in SUBSET Requests /\ live \in SUBSET Requests /\ IsFiniteSet(Live) /\ IsFiniteSet(live)
  <2>1. Live \in SUBSET Requests /\ live \in SUBSET Requests
    BY DEF Live
  <2> QED BY <2>1, FS_Subset, ReservationAssumption
<1>h. \A S \in SUBSET Requests : Cardinality(Stack(hold, S)) \in Nat
  <2> SUFFICES ASSUME NEW S \in SUBSET Requests PROVE Cardinality(Stack(hold, S)) \in Nat
    OBVIOUS
  <2>1. \A q \in S : hold[q] \in Nat
    BY <1>t
  <2>2. IsFiniteSet(Stack(hold, S))
    BY <2>1, StackFinite
  <2> QED BY <2>2, FS_CardinalityType
<1>q. ASSUME Cardinality(live) <= 1 \/ Cardinality(Stack(hold', live)) <= StartBalance
      PROVE  HeldWithinBalance'
  BY <1>q DEF HeldWithinBalance, Live, Held, Units, Stack
<1>1. CASE \A q \in Requests : hold'[q] \in {0, hold[q]}
  <2>1. live \in SUBSET Live /\ \A q \in live : hold'[q] \in Nat /\ hold'[q] <= hold[q]
    BY <1>1, <1>t DEF Live
  <2>2. CASE Cardinality(Live) <= 1
    <3>1. Cardinality(live) <= Cardinality(Live)
      BY <1>l, <2>1, FS_Subset
    <3>2. Cardinality(live) \in Nat /\ Cardinality(Live) \in Nat
      BY <1>l, FS_CardinalityType
    <3>3. Cardinality(live) <= 1
      BY <2>2, <3>1, <3>2
    <3> QED BY <1>q, <3>3
  <2>3. CASE Held(Live) <= StartBalance
    <3>1. \A q \in Live : hold[q] \in Nat
      BY <1>t, <1>l
    <3>2. Cardinality(Stack(hold', live)) <= Cardinality(Stack(hold, Live))
      BY <1>l, <2>1, <3>1, StackShrinks
    <3>3. Cardinality(Stack(hold, Live)) <= StartBalance
      BY <2>3, HeldIsStack
    <3>4. IsFiniteSet(Stack(hold', live))
      BY <1>l, <2>1, StackFinite
    <3>5. Cardinality(Stack(hold', live)) \in Nat
      BY <3>4, FS_CardinalityType
    <3>6. Cardinality(Stack(hold', live)) <= StartBalance
      BY <1>b, <1>h, <1>l, <3>2, <3>3, <3>5
    <3> QED BY <1>q, <3>6
  <2> QED BY <2>2, <2>3 DEF HeldWithinBalance
<1>2. ASSUME NEW r \in Requests, hold' = [hold EXCEPT ![r] = goal[r]],
             NEW S \in SUBSET Requests, live \subseteq S \cup {r},
             S = {} \/ seen[r] - Held(S) >= goal[r]
      PROVE  HeldWithinBalance'
  <2>1. CASE S = {}
    <3>1. IsFiniteSet({r}) /\ Cardinality({r}) = 1
      BY FS_Singleton
    <3>2. live \in SUBSET {r}
      BY <1>2, <2>1
    <3>3. Cardinality(live) <= 1
      BY <3>1, <3>2, FS_Subset
    <3> QED BY <1>q, <3>3
  <2>2. CASE seen[r] - Held(S) >= goal[r]
    <3>1. /\ hold'[r] = goal[r] /\ hold'[r] \in Nat
          /\ \A q \in live \ {r} : hold'[q] = hold[q]
      BY <1>2, <1>t
    <3>2. \A q \in S : hold[q] \in Nat
      BY <1>t
    <3>3. Cardinality(Stack(hold', live)) <= Cardinality(Stack(hold, S)) + hold'[r]
      BY <1>2, <1>l, <3>1, <3>2, StackGrows
    <3>4. seen[r] - Cardinality(Stack(hold, S)) >= goal[r]
      BY <2>2, HeldIsStack
    <3>5. \A q \in live : hold'[q] \in Nat
      BY <1>t, <3>1
    <3>6. IsFiniteSet(Stack(hold', live))
      BY <1>l, <3>5, StackFinite
    <3>7. Cardinality(Stack(hold', live)) \in Nat
      BY <3>6, FS_CardinalityType
    <3>8. Cardinality(Stack(hold', live)) <= StartBalance
      BY <1>b, <1>h, <1>t, <3>1, <3>3, <3>4, <3>7
    <3> QED BY <1>q, <3>8
  <2> QED BY <1>2, <2>1, <2>2
<1>3. ASSUME NEW r \in Requests, hold' = [hold EXCEPT ![r] = goal[r]],
             Grants(r) \/ (Raises(r) /\ goal[r] > hold[r])
      PROVE  HeldWithinBalance'
  <2>1. live \subseteq Live \cup {r} /\ live \subseteq (Live \ {r}) \cup {r}
    BY <1>3, <1>t DEF Live
  <2>2. CASE Grants(r)
    BY <1>2, <1>3, <1>l, <2>1, <2>2 DEF Grants
  <2>3. CASE Raises(r) /\ goal[r] > hold[r]
    <3>1. Live \ {r} = {} \/ seen[r] - Held(Live \ {r}) >= goal[r]
      BY <1>t, <2>3 DEF Raises
    <3>2. Live \ {r} \in SUBSET Requests
      BY <1>l
    <3> QED BY <1>2, <1>3, <2>1, <3>1, <3>2
  <2> QED BY <1>3, <2>2, <2>3
<1>4. HoldStep
  BY HoldSteps
<1>5. CASE \E r \in Requests : /\ hold' = [hold EXCEPT ![r] = goal[r]]
                               /\ Grants(r) \/ (Raises(r) /\ goal[r] > hold[r])
  BY <1>3, <1>5
<1> HIDE DEF live
<1> QED BY <1>1, <1>4, <1>5 DEF HoldStep

\* Requests that run side by side never hold more than the largest balance the
\* user had, for every number of requests, every price and whatever fails.
THEOREM HeldStaysWithinBalance == Spec => []HeldWithinBalance
<1>1. Init => BalanceOnlyFalls /\ HeldWithinBalance
  <2> SUFFICES ASSUME Init PROVE BalanceOnlyFalls /\ HeldWithinBalance
    OBVIOUS
  <2>1. BalanceOnlyFalls
    BY Numbers DEF Init, BalanceOnlyFalls
  <2>2. Live = {}
    BY DEF Init, Live
  <2>3. Cardinality(Live) <= 1
    BY <2>2, FS_EmptySet
  <2> QED BY <2>1, <2>3 DEF HeldWithinBalance
<1>2. ReservationInvariant => TypeOK
  BY DEF ReservationInvariant
<1> QED BY <1>1, <1>2, BalanceStep, WithinBalanceStep, ReservationInvariantHolds, PTL DEF Spec
=============================================================================

------------------------ MODULE InflightReservation ------------------------
(***************************************************************************)
(* In-flight reservations of one user's balance.  A request registers an   *)
(* estimate of its price in Redis before it calls upstream; the estimate   *)
(* counts against the balance of later admissions until the handler has    *)
(* returned and the asynchronous billing task has deducted the price from  *)
(* the cached balance.  The handle is reference counted.                   *)
(*                                                                         *)
(* life[r] counts down to the expiry of r's reservation; an expired one is *)
(* purged by every script before it looks at the others, so hold[r] is 0   *)
(* from then on.  due[r] is the time the next renewal may take.            *)
(***************************************************************************)
EXTENDS Integers, FiniteSets, FiniteSetsExt

CONSTANTS
  Requests,      \* requests of the user, each with its own reservation ID
  Amounts,       \* estimates and prices
  StartBalance,  \* balance before the first request
  TTL,           \* reservation TTL, in ticks
  RenewWithin,   \* renewal interval (TTL/3) plus renewal timeout
  MaxFaults      \* bound: failed Redis or database commands in one behaviour

ASSUME ReservationAssumption ==
  /\ IsFiniteSet(Requests)
  /\ Amounts \subseteq Nat \ {0} /\ StartBalance \in Nat
  /\ TTL \in Nat /\ RenewWithin \in Nat /\ RenewWithin < TTL
  /\ MaxFaults \in Nat

VARIABLES
  db,        \* the balance in PostgreSQL
  hit,       \* the balance key is in Redis ...
  cache,     \* ... with this value (0 when it is not)
  writes,    \* queued cache writes: <<"set" or "deduct", request, value>>
  hold,      \* hold[r]: amount registered in Redis, 0 if there is none
  life,      \* life[r]: ticks until the registration expires
  phase,     \* phase[r]: where the handler of r is
  handle,    \* handle[r]: the handler has a reservation handle
  refs,      \* refs[r]: references to the handle
  amount,    \* amount[r]: the amount of the handle
  goal,      \* goal[r]: the amount a script under way asks for
  seen,      \* seen[r]: the balance that script is given
  renewing,  \* renewing[r]: the renewal goroutine is running
  due,       \* due[r]: ticks until its next renewal must be over
  task,      \* task[r]: the billing task of r
  cost,      \* cost[r]: the price it has deducted
  owed,      \* the handles without references whose Release has not run
  late,      \* late[r]: r's commands Redis may still execute though the client gave up
  faults,    \* number of failed commands
  lapsed     \* history: reservations that expired by their TTL

moneyVars == <<db, hit, cache, writes>>
redisVars == <<hold, life, late>>
handleVars == <<handle, refs, amount, owed>>
callVars == <<goal, seen>>
renewVars == <<renewing, due>>
taskVars == <<task, cost>>
vars == <<moneyVars, redisVars, handleVars, callVars, renewVars, taskVars, phase, faults, lapsed>>

Commands == {"reserve", "update", "renew", "release"}
Fault == faults < MaxFaults /\ faults' = faults + 1

Live == {r \in Requests : hold[r] > 0}
\* What the requests of S hold together, in units of the currency.
Units(r) == {r} \X (1..hold[r])
Held(S) == Cardinality(UNION {Units(r) : r \in S})
Larger(m, n) == IF m > n THEN m ELSE n
----------------------------------------------------------------------------
(* The Redis scripts.                                                      *)

\* reserveInflightBalanceScript: the first reservation is always granted, a
\* further one only while the balance covers it beside the others.
GrantsIgnoringOthers(r) == Live = {} \/ seen[r] >= goal[r]
Grants(r) == Live = {} \/ seen[r] - Held(Live) >= goal[r]
\* updateInflightBalanceScript: the same without the owner's own amount, for a
\* live owner only; a smaller amount changes nothing.
RaisesDead(r) ==
  \/ hold[r] >= goal[r]
  \/ Live \ {r} = {}
  \/ seen[r] - Held(Live \ {r}) >= goal[r]
Raises(r) ==
  /\ r \in Live
  /\ \/ hold[r] >= goal[r]
     \/ Live \ {r} = {}
     \/ seen[r] - Held(Live \ {r}) >= goal[r]

Put(r, n) == hold' = [hold EXCEPT ![r] = n] /\ life' = [life EXCEPT ![r] = IF n > 0 THEN TTL ELSE 0]
ReserveScript(r) == IF Grants(r) THEN Put(r, goal[r]) ELSE UNCHANGED <<hold, life>>
UpdateScriptLowers(r) == IF Raises(r) THEN Put(r, goal[r]) ELSE UNCHANGED <<hold, life>>
UpdateScript(r) ==
  IF Raises(r) /\ goal[r] > hold[r] THEN Put(r, goal[r]) ELSE UNCHANGED <<hold, life>>
RenewNothing(r) == UNCHANGED <<hold, life>>
RenewScript(r) == IF r \in Live THEN Put(r, hold[r]) ELSE UNCHANGED <<hold, life>>
ReleaseScript(r) == Put(r, 0)
Script(r, c) ==
  CASE c = "reserve" -> ReserveScript(r)
    [] c = "update" -> UpdateScript(r)
    [] c = "renew" -> RenewScript(r)
    [] c = "release" -> ReleaseScript(r)

\* Command c of r fails: Redis has executed it, or may still do so.
Fails(r, c) ==
  /\ Fault
  /\ \/ Script(r, c) /\ UNCHANGED late
     \/ UNCHANGED <<hold, life>> /\ late' = [late EXCEPT ![r] = @ \cup {c}]
----------------------------------------------------------------------------
(* The handle.                                                             *)

\* decRef: the last reference gone, Release is called.
DecRefReleasesAlways(r) ==
  /\ refs' = [refs EXCEPT ![r] = @ - 1]
  /\ owed' = owed \cup {r}
DecRef(r) ==
  /\ refs' = [refs EXCEPT ![r] = @ - 1]
  /\ owed' = IF refs[r] = 1 THEN owed \cup {r} ELSE owed

\* GetUserBalance: the cached value or, when the key is missing or cannot be
\* read, the one in the database, which a worker will write to the cache unless
\* its queue is full.
GetUserBalance(r) ==
  \/ hit /\ seen' = [seen EXCEPT ![r] = cache] /\ UNCHANGED <<moneyVars, faults>>
  \/ /\ IF hit THEN Fault ELSE UNCHANGED faults
     /\ seen' = [seen EXCEPT ![r] = db]
     /\ writes' \in {writes, writes \cup {<<"set", r, db>>}}
     /\ UNCHANGED <<db, hit, cache>>

\* reserveInflight, first half: an estimate is known and the balance is read;
\* at admission, or for the selected account when nothing was tried before (a
\* second try has a new reservation ID and is another member of Requests).
ReadBalance(r) ==
  /\ phase[r] = "idle" \/ (phase[r] = "running" /\ ~handle[r] /\ task[r] = "none" /\ goal[r] = 0)
  /\ phase' = [phase EXCEPT ![r] = "reserving"]
  /\ \E a \in Amounts : goal' = [goal EXCEPT ![r] = a]
  /\ GetUserBalance(r)
  /\ UNCHANGED <<redisVars, handleVars, renewVars, taskVars, lapsed>>

\* Nothing is reserved: the quote is free or unavailable, or the balance
\* cannot be read.
GoUnreserved(r) ==
  /\ phase[r] = "idle"
  /\ phase' = [phase EXCEPT ![r] = "running"]
  /\ UNCHANGED <<moneyVars, redisVars, handleVars, callVars, renewVars, taskVars, faults, lapsed>>

\* reserveInflight, second half: rejected, or granted with a handle and a
\* renewal goroutine.
Reserve(r) ==
  /\ phase[r] = "reserving"
  /\ ReserveScript(r)
  /\ IF Grants(r)
     THEN /\ phase' = [phase EXCEPT ![r] = "running"]
          /\ handle' = [handle EXCEPT ![r] = TRUE]
          /\ refs' = [refs EXCEPT ![r] = 1]
          /\ amount' = [amount EXCEPT ![r] = goal[r]]
          /\ renewing' = [renewing EXCEPT ![r] = TRUE]
          /\ due' = [due EXCEPT ![r] = RenewWithin]
     ELSE /\ phase' = [phase EXCEPT ![r] = "over"]
          /\ UNCHANGED <<handle, refs, amount, renewVars>>
  /\ UNCHANGED <<moneyVars, late, owed, callVars, taskVars, faults, lapsed>>

\* The command fails: the request goes on without a handle (fail-open).
ReserveError(r) ==
  /\ phase[r] = "reserving"
  /\ Fails(r, "reserve")
  /\ phase' = [phase EXCEPT ![r] = "running"]
  /\ UNCHANGED <<moneyVars, handleVars, callVars, renewVars, taskVars, lapsed>>

\* IncreaseInflightReservation, first half, under the mutex of the handle: the
\* amount never goes down.
BeginIncrease(r) ==
  /\ phase[r] = "running" /\ handle[r] /\ task[r] = "none"
  /\ refs[r] > 0
  /\ phase' = [phase EXCEPT ![r] = "raising"]
  /\ \E a \in Amounts : goal' = [goal EXCEPT ![r] = Larger(a, amount[r])]
  /\ GetUserBalance(r)
  /\ UNCHANGED <<redisVars, handleVars, renewVars, taskVars, lapsed>>

\* ... second half: a refusal keeps the amount held so far and ends the request.
Increase(r) ==
  /\ phase[r] = "raising"
  /\ UpdateScript(r)
  /\ amount' = IF Raises(r) THEN [amount EXCEPT ![r] = goal[r]] ELSE amount
  /\ phase' = [phase EXCEPT ![r] = IF Raises(r) THEN "running" ELSE "refused"]
  /\ UNCHANGED <<moneyVars, late, handle, refs, owed, callVars, renewVars, taskVars, faults, lapsed>>
IncreaseError(r) ==
  /\ phase[r] = "raising"
  /\ Fails(r, "update")
  /\ phase' = [phase EXCEPT ![r] = "running"]
  /\ UNCHANGED <<moneyVars, handleVars, callVars, renewVars, taskVars, lapsed>>

\* startRenewal: renewed, or gone and not renewed any more, or failed.
Renew(r) ==
  /\ renewing[r]
  /\ RenewScript(r)
  /\ renewing' = [renewing EXCEPT ![r] = r \in Live]
  /\ due' = [due EXCEPT ![r] = IF r \in Live THEN RenewWithin ELSE 0]
  /\ UNCHANGED <<moneyVars, late, handleVars, callVars, taskVars, phase, faults, lapsed>>
RenewError(r) ==
  /\ renewing[r]
  /\ Fails(r, "renew")
  /\ due' = [due EXCEPT ![r] = RenewWithin]
  /\ UNCHANGED <<moneyVars, handleVars, callVars, renewing, taskVars, phase, lapsed>>

\* wrapUsageRecordTaskContext: the billing task takes a reference.
SubmitWithoutReference(r) ==
  /\ phase[r] = "running" /\ task[r] = "none"
  /\ task' = [task EXCEPT ![r] = "queued"]
  /\ UNCHANGED <<moneyVars, redisVars, handleVars, callVars, renewVars, cost, phase, faults, lapsed>>
Submit(r) ==
  /\ phase[r] = "running" /\ task[r] = "none"
  /\ task' = [task EXCEPT ![r] = "queued"]
  /\ refs' = IF refs[r] > 0 THEN [refs EXCEPT ![r] = @ + 1] ELSE refs
  /\ UNCHANGED <<moneyVars, redisVars, handle, amount, owed, callVars, renewVars, cost, phase, faults, lapsed>>

\* HandlerDone: no more renewals, the handler's reference is given back.
RenewalNotStopped(r) ==
  /\ phase[r] \in {"running", "refused"}
  /\ phase' = [phase EXCEPT ![r] = "over"]
  /\ IF handle[r] THEN DecRef(r) ELSE UNCHANGED <<refs, owed>>
  /\ UNCHANGED <<moneyVars, redisVars, handle, amount, callVars, renewVars, taskVars, faults, lapsed>>
HandlerDone(r) ==
  /\ phase[r] \in {"running", "refused"}
  /\ phase' = [phase EXCEPT ![r] = "over"]
  /\ renewing' = [renewing EXCEPT ![r] = FALSE]
  /\ due' = [due EXCEPT ![r] = 0]
  /\ IF handle[r] THEN DecRef(r) ELSE UNCHANGED <<refs, owed>>
  /\ UNCHANGED <<moneyVars, redisVars, handle, amount, callVars, taskVars, faults, lapsed>>

\* Release: once, with a failure left to the TTL.
Release(r) ==
  /\ r \in owed
  /\ owed' = owed \ {r}
  /\ ReleaseScript(r)
  /\ UNCHANGED <<moneyVars, late, handle, refs, amount, callVars, renewVars, taskVars, phase, faults, lapsed>>
ReleaseError(r) ==
  /\ r \in owed
  /\ owed' = owed \ {r}
  /\ Fails(r, "release")
  /\ UNCHANGED <<moneyVars, handle, refs, amount, callVars, renewVars, taskVars, phase, lapsed>>
----------------------------------------------------------------------------
(* The billing task and the cached balance.                                *)

\* The price is deducted in PostgreSQL, which returns the new balance; it may
\* be more than the estimate, and leave the balance exhausted ...
Charge(r) ==
  /\ task[r] = "queued"
  /\ \E c \in Amounts :
       /\ cost' = [cost EXCEPT ![r] = c]
       /\ db' = db - c
       /\ task' = [task EXCEPT ![r] = IF db - c > 0 THEN "charged" ELSE "exhausted"]
  /\ UNCHANGED <<hit, cache, writes, redisVars, handleVars, callVars, renewVars, phase, faults, lapsed>>

\* ... or not at all: the task is dropped, or the transaction fails.
NotCharged(r) ==
  /\ task[r] = "queued"
  /\ task' = [task EXCEPT ![r] = "synced"]
  /\ UNCHANGED <<moneyVars, redisVars, handleVars, callVars, renewVars, cost, phase, faults, lapsed>>

\* syncBalanceCacheAfterDeduction: an exhausted balance is invalidated, else
\* the cached value, if there is one, is lowered before the task ends.
Sync(r) ==
  /\ task[r] \in {"charged", "exhausted"}
  /\ task' = [task EXCEPT ![r] = "synced"]
  /\ hit' = (hit /\ task[r] = "charged")
  /\ cache' = IF hit' THEN cache - cost[r] ELSE 0
  /\ UNCHANGED <<db, writes, redisVars, handleVars, callVars, renewVars, cost, phase, faults, lapsed>>

\* The command fails, executed or not.  A failed deduction is queued, or tried
\* once more when the queue is full; a failed invalidation is only logged.
SyncError(r) ==
  /\ task[r] \in {"charged", "exhausted"} /\ Fault
  /\ task' = [task EXCEPT ![r] = "synced"]
  /\ \/ /\ task[r] = "charged"
        /\ cache' \in (IF hit THEN {cache - n * cost[r] : n \in 0..2} ELSE {0})
        /\ writes' \in {writes, writes \cup {<<"deduct", r, cost[r]>>}}
        /\ UNCHANGED hit
     \/ /\ task[r] = "exhausted"
        /\ hit' \in {hit, FALSE} /\ cache' = (IF hit' THEN cache ELSE 0)
        /\ UNCHANGED writes
  /\ UNCHANGED <<db, redisVars, handleVars, callVars, renewVars, cost, phase, lapsed>>

\* The task ends and gives its reference back, not before the handle's mutex
\* is free.
TaskDoneEarly(r) ==
  /\ task[r] = "queued" /\ phase[r] # "raising"
  /\ task' = [task EXCEPT ![r] = "synced"]
  /\ IF handle[r] THEN DecRef(r) ELSE UNCHANGED <<refs, owed>>
  /\ UNCHANGED <<moneyVars, redisVars, handle, amount, callVars, renewVars, cost, phase, faults, lapsed>>
TaskDone(r) ==
  /\ task[r] = "synced" /\ phase[r] # "raising"
  /\ task' = [task EXCEPT ![r] = "done"]
  /\ IF handle[r] THEN DecRef(r) ELSE UNCHANGED <<refs, owed>>
  /\ UNCHANGED <<moneyVars, redisVars, handle, amount, callVars, renewVars, cost, phase, faults, lapsed>>

\* cacheWriteWorker: queued writes in any order; one that fails is lost.
CacheWrite(w) ==
  /\ w \in writes
  /\ writes' = writes \ {w}
  /\ IF w[1] = "set"
     THEN hit' = TRUE /\ cache' = w[3]
     ELSE cache' = (IF hit THEN cache - w[3] ELSE 0) /\ UNCHANGED hit
  /\ UNCHANGED <<db, redisVars, handleVars, callVars, renewVars, taskVars, phase, faults, lapsed>>

\* The balance key expires or is invalidated by another part of the system.
Evict ==
  /\ hit
  /\ hit' = FALSE /\ cache' = 0
  /\ UNCHANGED <<db, writes, redisVars, handleVars, callVars, renewVars, taskVars, phase, faults, lapsed>>
----------------------------------------------------------------------------
\* Redis executes a command whose client has given up, or it is lost.
DeliverLate(r, c) ==
  /\ c \in late[r]
  /\ late' = [late EXCEPT ![r] = @ \ {c}]
  /\ Script(r, c)
  /\ UNCHANGED <<moneyVars, handleVars, callVars, renewVars, taskVars, phase, faults, lapsed>>
DropLate(r, c) ==
  /\ c \in late[r]
  /\ late' = [late EXCEPT ![r] = @ \ {c}]
  /\ UNCHANGED <<moneyVars, hold, life, handleVars, callVars, renewVars, taskVars, phase, faults, lapsed>>

Less(n) == IF n > 0 THEN n - 1 ELSE 0
Tick ==
  /\ Live # {}
  /\ \A r \in Requests : renewing[r] => due[r] > 0
  /\ life' = [r \in Requests |-> Less(life[r])]
  /\ hold' = [r \in Requests |-> IF life[r] > 1 THEN hold[r] ELSE 0]
  /\ lapsed' = lapsed \cup {r \in Requests : life[r] = 1}
  /\ due' = [r \in Requests |-> Less(due[r])]
  /\ UNCHANGED <<moneyVars, late, handleVars, callVars, renewing, taskVars, phase, faults>>
----------------------------------------------------------------------------
Init ==
  /\ db = StartBalance /\ writes = {}
  /\ hit \in BOOLEAN /\ cache = (IF hit THEN StartBalance ELSE 0)
  /\ hold = [r \in Requests |-> 0] /\ life = [r \in Requests |-> 0]
  /\ late = [r \in Requests |-> {}]
  /\ phase = [r \in Requests |-> "idle"]
  /\ handle = [r \in Requests |-> FALSE] /\ refs = [r \in Requests |-> 0]
  /\ amount = [r \in Requests |-> 0] /\ owed = {}
  /\ goal = [r \in Requests |-> 0] /\ seen = [r \in Requests |-> 0]
  /\ renewing = [r \in Requests |-> FALSE] /\ due = [r \in Requests |-> 0]
  /\ task = [r \in Requests |-> "none"] /\ cost = [r \in Requests |-> 0]
  /\ faults = 0 /\ lapsed = {}

Handler(r) ==
  \/ ReadBalance(r) \/ GoUnreserved(r) \/ Reserve(r) \/ ReserveError(r)
  \/ BeginIncrease(r) \/ Increase(r) \/ IncreaseError(r)
  \/ Submit(r) \/ HandlerDone(r)
Renewer(r) == Renew(r) \/ RenewError(r)
Releaser(r) == Release(r) \/ ReleaseError(r)
Billing(r) == Charge(r) \/ NotCharged(r) \/ Sync(r) \/ SyncError(r) \/ TaskDone(r)
Network(r) == \E c \in Commands : DeliverLate(r, c) \/ DropLate(r, c)

Next ==
  \/ \E r \in Requests : Handler(r) \/ Renewer(r) \/ Releaser(r) \/ Billing(r) \/ Network(r)
  \/ \E w \in writes : CacheWrite(w)
  \/ Evict
  \/ Tick
Spec == Init /\ [][Next]_vars

\* Scripts, goroutines, timers and the billing pool make progress; handlers
\* need not return.
Fairness ==
  /\ \A r \in Requests :
       /\ WF_vars(Reserve(r) \/ ReserveError(r))
       /\ WF_vars(Increase(r) \/ IncreaseError(r))
       /\ WF_vars(Renewer(r)) /\ WF_vars(Releaser(r)) /\ WF_vars(Billing(r))
       /\ \A c \in Commands : WF_vars(DeliverLate(r, c) \/ DropLate(r, c))
  /\ WF_vars(Tick)
FairSpec == Spec /\ Fairness
----------------------------------------------------------------------------
\* Type correctness of the balances, the reservations and the handles.
TypeOK ==
  /\ db \in Int /\ cache \in Int /\ hit \in BOOLEAN
  /\ writes \subseteq {"set", "deduct"} \X Requests \X Int
  /\ hold \in [Requests -> Amounts \cup {0}] /\ life \in [Requests -> 0..TTL]
  /\ \A r \in Requests : hold[r] > 0 <=> life[r] > 0
  /\ phase \in [Requests -> {"idle", "reserving", "running", "raising", "refused", "over"}]
  /\ handle \in [Requests -> BOOLEAN] /\ refs \in [Requests -> 0..2]
  /\ amount \in [Requests -> Amounts \cup {0}] /\ goal \in [Requests -> Amounts \cup {0}]
  /\ seen \in [Requests -> Int]
  /\ renewing \in [Requests -> BOOLEAN] /\ due \in [Requests -> 0..RenewWithin]
  /\ task \in [Requests -> {"none", "queued", "charged", "exhausted", "synced", "done"}]
  /\ cost \in [Requests -> Amounts \cup {0}]
  /\ owed \subseteq Requests /\ lapsed \subseteq Requests
  /\ late \in [Requests -> SUBSET Commands] /\ faults \in 0..MaxFaults

\* The reservations of requests that run side by side never exceed the largest
\* balance the user had, whatever expires, fails or is executed late; only a
\* request alone may hold more (the grace of the first request).
HeldWithinBalance == Cardinality(Live) <= 1 \/ Held(Live) <= StartBalance

\* "The reservation is kept until the handler has ended and all billing tasks
\* have made their deduction": a granted amount stays registered, in full,
\* unless its TTL passed.
Unsettled(r) ==
  handle[r] /\ (phase[r] \in {"running", "raising", "refused"} \/ task[r] \in {"queued", "charged", "exhausted", "synced"})
KeptUntilSettled(r) == Unsettled(r) => hold[r] >= amount[r] \/ r \in lapsed
HeldUntilSettled == \A r \in Requests : KeptUntilSettled(r)

\* The TTL passes only when a renewal failed or the handler is gone.
NoLapseWhileServed ==
  faults = 0 => \A r \in Requests : phase[r] \in {"running", "raising"} => r \notin lapsed

\* A registration comes only from the reserve script of a request that has no
\* handle, and its amount never goes down before it ends: neither an increase
\* nor a renewal brings released capacity back.
HoldOnlyGrowsOrEnds ==
  [][\A r \in Requests :
       /\ hold'[r] \in {0} \cup {n \in Amounts : n >= hold[r]}
       /\ hold[r] = 0 /\ hold'[r] > 0 => phase[r] = "reserving" \/ "reserve" \in late[r]]_vars

\* Whatever failed, no reservation outlives its request for ever.
ReservationsEnd ==
  \A r \in Requests :
    (phase[r] = "over" /\ task[r] \in {"none", "done"}) ~> [](hold[r] = 0)

\* Refuted by TLC, see the README:
\* "The cached balance that admissions read must already reflect the deduction"
\* when a reservation is given back, "otherwise there is still a window with
\* nothing in flight and nothing deducted" (syncBalanceCacheAfterDeduction): the
\* prices of settled requests are gone from the cached balance.
Settled == {r \in Requests : handle[r] /\ task[r] = "done" /\ r \notin Live}
ReleasedWorkIsDeducted ==
  hit => cache <= StartBalance - MapThenSumSet(LAMBDA r : cost[r], Settled)
----------------------------------------------------------------------------
(* The parts of the inductive invariant.                                   *)

Serving(r) == phase[r] \in {"running", "raising", "refused"}
Billed(r) == task[r] \in {"queued", "charged", "exhausted", "synced"}
Count(b) == IF b THEN 1 ELSE 0

\* The references of a handle are the handler's and the billing task's; only a
\* handle is renewed, and only one without references is released.
HandleIsCounted(r) ==
  /\ refs[r] = IF handle[r] THEN Count(Serving(r)) + Count(Billed(r)) ELSE 0
  /\ phase[r] \in {"raising", "refused"} \/ renewing[r] => handle[r]
  /\ phase[r] = "raising" => task[r] = "none"
  /\ r \in owed \/ "release" \in late[r] => handle[r] /\ refs[r] = 0
\* A request that has not been granted anything holds nothing, unless its reserve
\* command was executed although the client gave up.
NothingBeforeReserve(r) ==
  /\ phase[r] \in {"idle", "reserving"} => task[r] = "none"
  /\ phase[r] \in {"idle", "reserving"} \/ goal[r] = 0 =>
       ~handle[r] /\ hold[r] = 0 /\ late[r] = {}
  /\ phase[r] = "reserving" => goal[r] # 0
  /\ "reserve" \in late[r] => ~handle[r] /\ hold[r] = 0
\* While no command fails, the registration of a request that is served outlives
\* the next renewal.
RenewedInTime(r) ==
  faults = 0 =>
    /\ late[r] = {}
    /\ ~handle[r] => hold[r] = 0 /\ r \notin lapsed
    /\ handle[r] /\ Serving(r) => renewing[r] /\ due[r] < life[r] /\ r \notin lapsed
RequestInvariant(r) ==
  HandleIsCounted(r) /\ NothingBeforeReserve(r) /\ KeptUntilSettled(r) /\ RenewedInTime(r)
ReservationInvariant == TypeOK /\ \A r \in Requests : RequestInvariant(r)

\* No balance a script is given, or will be given, is above the one at the start.
BalanceOnlyFalls ==
  /\ db <= StartBalance /\ cache <= StartBalance
  /\ \A r \in Requests : seen[r] <= StartBalance
  /\ \A w \in writes : IF w[1] = "set" THEN w[3] <= StartBalance ELSE w[3] >= 0
=============================================================================

--------------------------- MODULE WSIngressLease ---------------------------
(***************************************************************************)
(* The lease that bounds the client WebSocket sessions of one API key.     *)
(* Unlike a request slot, a session survives failed renewals: it is        *)
(* cancelled when Redis says the member is gone, or when a renewal fails   *)
(* and the last confirmed one is at least LeaseTTL ago.                    *)
(*                                                                         *)
(* lease[s] counts down to the expiry of the Redis member of s, since[s]   *)
(* counts up from lastConfirmedAt, ticker[s] counts down to the next tick  *)
(* of the renewal ticker and call[s] is the Redis command under way.       *)
(***************************************************************************)
EXTENDS Naturals, FiniteSets

CONSTANTS
  Sessions,        \* WebSocket sessions of one API key, over all instances
  MaxConnections,  \* configured cap
  LeaseTTL,        \* openAIWSIngressLeaseTTL
  Interval,        \* openAIWSIngressLeaseRefreshInterval
  OpTimeout        \* openAIWSIngressLeaseOperationTO

ASSUME IngressAssumption ==
  /\ IsFiniteSet(Sessions)
  /\ MaxConnections \in Nat \ {0}
  /\ LeaseTTL \in Nat /\ Interval \in Nat /\ OpTimeout \in Nat
  /\ OpTimeout < Interval /\ Interval + OpTimeout < LeaseTTL

VARIABLES
  state,     \* state[s]: "idle", "acquiring", "open", "closing", "closed"
  lease,     \* lease[s]: ticks until the member of s expires, 0 if it has none
  since,     \* since[s]: ticks since lastConfirmedAt
  ticker,    \* ticker[s]: ticks until the renewal ticker fires
  call,      \* call[s]: "none", "sent", "yes" or "no" (executed, with its answer)
  callLeft,  \* callLeft[s]: ticks until the command under way times out
  late       \* late[s]: commands Redis may still execute though the client gave up

vars == <<state, lease, since, ticker, call, callLeft, late>>

Commands == {"acquire", "refresh", "release"}

MaxSince == LeaseTTL + Interval + OpTimeout
Members == {s \in Sessions : lease[s] > 0}
Open == {s \in Sessions : state[s] = "open"}
----------------------------------------------------------------------------
\* A command of s is sent; it is executed and answered, or fails, in OpTimeout.
Send(s) ==
  /\ call' = [call EXCEPT ![s] = "sent"]
  /\ callLeft' = [callLeft EXCEPT ![s] = OpTimeout]
Settle(s) ==
  /\ call' = [call EXCEPT ![s] = "none"]
  /\ callLeft' = [callLeft EXCEPT ![s] = 0]

\* The client gives up on command c; unless Redis has executed it, it may still.
GiveUp(s, c) ==
  /\ late' = [late EXCEPT ![s] = IF call[s] = "sent" THEN @ \cup {c} ELSE @]
  /\ Settle(s)

\* AcquireOpenAIWSIngressLease of the service
Acquire(s) ==
  /\ state[s] = "idle"
  /\ state' = [state EXCEPT ![s] = "acquiring"]
  /\ Send(s)
  /\ UNCHANGED <<lease, since, ticker, late>>

\* acquireOpenAIWSIngressLeaseScript
CapacityIgnored(s) == TRUE
HasCapacity(s) == lease[s] > 0 \/ Cardinality(Members) < MaxConnections
ExecAcquire(s) ==
  /\ state[s] = "acquiring" /\ call[s] = "sent"
  /\ lease' = IF HasCapacity(s) THEN [lease EXCEPT ![s] = LeaseTTL] ELSE lease
  /\ call' = [call EXCEPT ![s] = IF HasCapacity(s) THEN "yes" ELSE "no"]
  /\ UNCHANGED <<state, since, ticker, callLeft, late>>

\* The answer arrives: the session opens and its refreshLoop starts, or it is
\* refused.
ReplyAcquire(s) ==
  /\ state[s] = "acquiring" /\ call[s] \in {"yes", "no"}
  /\ IF call[s] = "yes"
     THEN /\ state' = [state EXCEPT ![s] = "open"]
          /\ since' = [since EXCEPT ![s] = 0]
          /\ ticker' = [ticker EXCEPT ![s] = Interval]
     ELSE /\ state' = [state EXCEPT ![s] = "closed"]
          /\ UNCHANGED <<since, ticker>>
  /\ Settle(s)
  /\ UNCHANGED <<lease, late>>

\* The command fails, executed or not.  The session is refused and nothing
\* removes a member the command may have written.
AcquireError(s) ==
  /\ state[s] = "acquiring" /\ call[s] # "none"
  /\ state' = [state EXCEPT ![s] = "closed"]
  /\ GiveUp(s, "acquire")
  /\ UNCHANGED <<lease, since, ticker>>
----------------------------------------------------------------------------
\* refreshLoop: the ticker fires and a renewal is sent.
\* RefreshLoopGoesOn: nothing stops the loop of a session that was open, and
\* nobody waits for the renewals it still sends.
RefreshLoopGoesOn(s) ==
  /\ \/ state[s] = "open" /\ call[s] = "none" /\ ticker[s] = 0
        /\ Send(s) /\ UNCHANGED late
     \/ state[s] = "closed" /\ ticker[s] = 1
        /\ late' = [late EXCEPT ![s] = @ \cup {"refresh"}]
        /\ UNCHANGED <<call, callLeft>>
  /\ ticker' = [ticker EXCEPT ![s] = Interval]
  /\ UNCHANGED <<state, lease, since>>
SendRefresh(s) ==
  /\ state[s] = "open" /\ call[s] = "none" /\ ticker[s] = 0
  /\ ticker' = [ticker EXCEPT ![s] = Interval]
  /\ Send(s)
  /\ UNCHANGED <<state, lease, since, late>>

\* refreshOpenAIWSIngressLeaseScript: a missing member is not recreated.
RefreshRecreates(s) == [lease EXCEPT ![s] = LeaseTTL]
Refreshed(s) == IF lease[s] > 0 THEN [lease EXCEPT ![s] = LeaseTTL] ELSE lease
ExecRefresh(s) ==
  /\ state[s] \in {"open", "closing"} /\ call[s] = "sent"
  /\ lease' = Refreshed(s)
  /\ call' = [call EXCEPT ![s] = IF lease'[s] > 0 THEN "yes" ELSE "no"]
  /\ UNCHANGED <<state, since, ticker, callLeft, late>>

\* refresh, with an answer: confirmed, or lost at once.
RefreshMissTolerated(s) ==
  /\ state[s] \in {"open", "closing"} /\ call[s] \in {"yes", "no"}
  /\ since' = [since EXCEPT ![s] = 0]
  /\ Settle(s)
  /\ UNCHANGED <<state, lease, ticker, late>>
ReplyRefresh(s) ==
  /\ state[s] \in {"open", "closing"} /\ call[s] \in {"yes", "no"}
  /\ IF call[s] = "yes"
     THEN since' = [since EXCEPT ![s] = 0] /\ UNCHANGED state
     ELSE state' = [state EXCEPT ![s] = "closing"] /\ UNCHANGED since
  /\ Settle(s)
  /\ UNCHANGED <<lease, ticker, late>>

\* refresh, failed: tolerated while the last confirmation is younger than
\* LeaseTTL, lost otherwise.
ErrorAlwaysTolerated(s) == FALSE
TooLong(s) == since[s] >= LeaseTTL
RefreshError(s) ==
  /\ state[s] \in {"open", "closing"} /\ call[s] # "none"
  /\ state' = [state EXCEPT ![s] = IF TooLong(s) THEN "closing" ELSE @]
  /\ GiveUp(s, "refresh")
  /\ UNCHANGED <<lease, since, ticker>>

\* The handler returns; Release stops the loop ...
Leave(s) ==
  /\ state[s] = "open"
  /\ state' = [state EXCEPT ![s] = "closing"]
  /\ UNCHANGED <<lease, since, ticker, call, callLeft, late>>

\* ... waits for the renewal under way and removes the member.  A failure is
\* only logged, with the command executed or not; a dead process never gets there.
Release(s) ==
  /\ state[s] = "closing" /\ call[s] = "none"
  /\ state' = [state EXCEPT ![s] = "closed"]
  /\ lease' = [lease EXCEPT ![s] = 0]
  /\ UNCHANGED <<since, ticker, call, callLeft, late>>
ReleaseError(s) ==
  /\ state[s] = "closing" /\ call[s] = "none"
  /\ state' = [state EXCEPT ![s] = "closed"]
  /\ \/ lease' = [lease EXCEPT ![s] = 0] /\ UNCHANGED late
     \/ late' = [late EXCEPT ![s] = @ \cup {"release"}] /\ UNCHANGED lease
  /\ UNCHANGED <<since, ticker, call, callLeft>>
Crash(s) ==
  /\ state[s] \in {"acquiring", "open", "closing"}
  /\ state' = [state EXCEPT ![s] = "closed"]
  /\ GiveUp(s, IF state[s] = "acquiring" THEN "acquire" ELSE "refresh")
  /\ UNCHANGED <<lease, since, ticker>>

\* Redis executes a command whose client has given up, or it is lost.
DeliverLate(s, c) ==
  /\ c \in late[s]
  /\ late' = [late EXCEPT ![s] = @ \ {c}]
  /\ lease' = CASE c = "acquire" ->
                     IF HasCapacity(s) THEN [lease EXCEPT ![s] = LeaseTTL] ELSE lease
                [] c = "refresh" -> Refreshed(s)
                [] c = "release" -> [lease EXCEPT ![s] = 0]
  /\ UNCHANGED <<state, since, ticker, call, callLeft>>
DropLate(s, c) ==
  /\ c \in late[s]
  /\ late' = [late EXCEPT ![s] = @ \ {c}]
  /\ UNCHANGED <<state, lease, since, ticker, call, callLeft>>
----------------------------------------------------------------------------
\* Time passes.  Commands end within their timeout and the ticker is served at
\* once; the clocks of a session that is not open do not matter.
Less(n) == IF n > 0 THEN n - 1 ELSE 0
Tick ==
  /\ \A s \in Sessions :
       /\ call[s] # "none" => callLeft[s] > 0
       /\ state[s] = "open" => ticker[s] > 0
  /\ lease' = [s \in Sessions |-> Less(lease[s])]
  /\ since' = [s \in Sessions |->
       IF state[s] = "open" THEN since[s] + 1 ELSE 0]
  /\ ticker' = [s \in Sessions |-> Less(ticker[s])]
  /\ callLeft' = [s \in Sessions |-> Less(callLeft[s])]
  /\ UNCHANGED <<state, call, late>>

Init ==
  /\ state = [s \in Sessions |-> "idle"]
  /\ lease = [s \in Sessions |-> 0]
  /\ since = [s \in Sessions |-> 0]
  /\ ticker = [s \in Sessions |-> 0]
  /\ call = [s \in Sessions |-> "none"]
  /\ callLeft = [s \in Sessions |-> 0]
  /\ late = [s \in Sessions |-> {}]

Session(s) ==
  \/ Acquire(s) \/ ExecAcquire(s) \/ ReplyAcquire(s) \/ AcquireError(s)
  \/ SendRefresh(s) \/ ExecRefresh(s) \/ ReplyRefresh(s) \/ RefreshError(s)
  \/ Leave(s) \/ Release(s) \/ ReleaseError(s) \/ Crash(s)
  \/ \E c \in Commands : DeliverLate(s, c) \/ DropLate(s, c)
Next == Tick \/ \E s \in Sessions : Session(s)
Spec == Init /\ [][Next]_vars

\* Timers, goroutines and Redis make progress; sessions need not end.
Fairness ==
  /\ WF_vars(Tick)
  /\ \A s \in Sessions :
       /\ WF_vars(ReplyAcquire(s) \/ AcquireError(s))
       /\ WF_vars(SendRefresh(s))
       /\ WF_vars(ReplyRefresh(s) \/ RefreshError(s))
       /\ WF_vars(Release(s) \/ ReleaseError(s))
       /\ \A c \in Commands : WF_vars(DeliverLate(s, c) \/ DropLate(s, c))
FairSpec == Spec /\ Fairness
----------------------------------------------------------------------------
\* Type correctness; an open session is never unconfirmed for longer than
\* LeaseTTL plus one interval and one timeout (the elapsed time is compared only
\* after a failed renewal, so LeaseTTL itself is not the bound).
TypeOK ==
  /\ state \in [Sessions -> {"idle", "acquiring", "open", "closing", "closed"}]
  /\ lease \in [Sessions -> 0..LeaseTTL]
  /\ since \in [Sessions -> 0..MaxSince]
  /\ ticker \in [Sessions -> 0..Interval]
  /\ call \in [Sessions -> {"none", "sent", "yes", "no"}]
  /\ callLeft \in [Sessions -> 0..OpTimeout]
  /\ late \in [Sessions -> SUBSET Commands]

\* While the last confirmation is fresh the member is in Redis, so over all
\* instances the sessions that were confirmed in time stay within the cap.
Confirmed == {s \in Open : since[s] + OpTimeout < LeaseTTL}
ConfirmedWithinCap ==
  Confirmed \subseteq Members /\ Cardinality(Confirmed) <= MaxConnections

\* A session that lost its member does not get it back by a renewal that
\* arrives after another session took the place.
NoResurrection ==
  [][\A s \in Sessions : lease[s] = 0 /\ lease'[s] > 0
       => state[s] = "acquiring" \/ "acquire" \in late[s]]_vars

\* A session without a member is closed eventually, by an answer of Redis or
\* by the failed renewals themselves.
LostSessionsClose ==
  \A s \in Sessions : (state[s] = "open" /\ lease[s] = 0) ~> state[s] # "open"

\* A member left behind by a failed acquire, a failed release or a crash goes
\* away by itself.
LeakedLeasesVanish ==
  \A s \in Sessions : state[s] = "closed" ~> [](lease[s] = 0)
=============================================================================

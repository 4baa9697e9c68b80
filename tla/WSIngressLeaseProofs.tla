------------------------ MODULE WSIngressLeaseProofs ------------------------
(***************************************************************************)
(* Proofs about the WebSocket leases of an API key, for every number of    *)
(* sessions, every cap and every TTL, interval and timeout with            *)
(* OpTimeout < Interval and Interval + OpTimeout < LeaseTTL.               *)
(***************************************************************************)
EXTENDS WSIngressLease, FiniteSetTheorems, TLAPS

\* Types without the bound on since, which needs the renewal schedule.
Types ==
  /\ state \in [Sessions -> {"idle", "acquiring", "open", "closing", "closed"}]
  /\ lease \in [Sessions -> 0..LeaseTTL]
  /\ since \in [Sessions -> Nat]
  /\ ticker \in [Sessions -> 0..Interval]
  /\ call \in [Sessions -> {"none", "sent", "yes", "no"}]
  /\ callLeft \in [Sessions -> 0..OpTimeout]
  /\ late \in [Sessions -> SUBSET Commands]

\* The member of a session outlives its last confirmation by LeaseTTL, less
\* the time the confirming reply was on its way; a release comes last.
Confirmation ==
  \A s \in Sessions :
    /\ call[s] = "yes" => lease[s] + OpTimeout >= LeaseTTL + callLeft[s]
    /\ state[s] = "open" => lease[s] + since[s] + OpTimeout >= LeaseTTL
    /\ "release" \in late[s] => state[s] = "closed"
    /\ state[s] = "closed" => call[s] = "none"

\* The ticker bounds the time between two attempts to confirm.
Schedule ==
  \A s \in Sessions :
    /\ since[s] <= MaxSince
    /\ state[s] = "open" /\ call[s] = "none" => since[s] + ticker[s] < LeaseTTL + Interval
    /\ state[s] = "open" /\ call[s] # "none" => since[s] + callLeft[s] < MaxSince

\* No more members than the cap.
MembersWithinCap == Cardinality(Members) <= MaxConnections

IngressInvariant == Types /\ Confirmation /\ Schedule /\ MembersWithinCap

\* What Less computes.
LEMMA LessFact ==
  ASSUME NEW n \in Nat
  PROVE  Less(n) \in Nat /\ Less(n) <= n /\ Less(n) + 1 >= n /\ (n > 0 => Less(n) = n - 1)
BY DEF Less

\* A late command leaves the types alone.
LEMMA GiveUpFact ==
  ASSUME Types, NEW s \in Sessions, NEW c \in Commands, GiveUp(s, c)
  PROVE  /\ late' \in [Sessions -> SUBSET Commands]
         /\ call' = [call EXCEPT ![s] = "none"] /\ callLeft' = [callLeft EXCEPT ![s] = 0]
         /\ \A q \in Sessions : late[q] \subseteq late'[q]
         /\ \A q \in Sessions : late'[q] \subseteq late[q] \cup {c}
         /\ \A q \in Sessions : q # s => late'[q] = late[q]
BY DEF Types, GiveUp, Settle

\* Every step keeps the types.
LEMMA TypesInductive == Types /\ [Next]_vars => Types'
<1> SUFFICES ASSUME Types, [Next]_vars PROVE Types'
  OBVIOUS
<1> USE IngressAssumption
<1>1. ASSUME NEW s \in Sessions, Acquire(s) PROVE Types'
  BY <1>1 DEF Acquire, Send, Types
<1>2. ASSUME NEW s \in Sessions, ExecAcquire(s) PROVE Types'
  BY <1>2 DEF ExecAcquire, Types
<1>3. ASSUME NEW s \in Sessions, ReplyAcquire(s) PROVE Types'
  BY <1>3 DEF ReplyAcquire, Settle, Types
<1>4. ASSUME NEW s \in Sessions, AcquireError(s) PROVE Types'
  BY <1>4, GiveUpFact DEF AcquireError, Types, Commands
<1>5. ASSUME NEW s \in Sessions, SendRefresh(s) PROVE Types'
  BY <1>5 DEF SendRefresh, Send, Types
<1>6. ASSUME NEW s \in Sessions, ExecRefresh(s) PROVE Types'
  BY <1>6 DEF ExecRefresh, Refreshed, Types
<1>7. ASSUME NEW s \in Sessions, ReplyRefresh(s) PROVE Types'
  BY <1>7 DEF ReplyRefresh, Settle, Types
<1>8. ASSUME NEW s \in Sessions, RefreshError(s) PROVE Types'
  BY <1>8, GiveUpFact DEF RefreshError, Types, Commands
<1>9. ASSUME NEW s \in Sessions, Leave(s) PROVE Types'
  BY <1>9 DEF Leave, Types
<1>10. ASSUME NEW s \in Sessions, Release(s) PROVE Types'
  BY <1>10 DEF Release, Types
<1>11. ASSUME NEW s \in Sessions, ReleaseError(s) PROVE Types'
  BY <1>11 DEF ReleaseError, Types, Commands
<1>12. ASSUME NEW s \in Sessions, Crash(s) PROVE Types'
  BY <1>12, GiveUpFact DEF Crash, Types, Commands
<1>13. ASSUME NEW s \in Sessions, NEW c \in Commands, DeliverLate(s, c) PROVE Types'
  BY <1>13 DEF DeliverLate, Refreshed, Types, Commands
<1>14. ASSUME NEW s \in Sessions, NEW c \in Commands, DropLate(s, c) PROVE Types'
  BY <1>14 DEF DropLate, Types
<1>15. CASE Tick
  BY <1>15, LessFact DEF Tick, Types
<1>16. CASE UNCHANGED vars
  BY <1>16 DEF vars, Types
<1> QED
  BY <1>1, <1>2, <1>3, <1>4, <1>5, <1>6, <1>7, <1>8, <1>9, <1>10, <1>11, <1>12,
     <1>13, <1>14, <1>15, <1>16 DEF Next, Session

\* Every step keeps the member ahead of the last confirmation.
LEMMA ConfirmationInductive == Types /\ Confirmation /\ [Next]_vars => Confirmation'
<1> SUFFICES ASSUME Types, Confirmation, [Next]_vars PROVE Confirmation'
  OBVIOUS
<1> USE IngressAssumption
<1>0. Types'
  BY TypesInductive
<1>1. ASSUME NEW s \in Sessions, Acquire(s) PROVE Confirmation'
  BY <1>1 DEF Acquire, Send, Types, Confirmation
<1>2. ASSUME NEW s \in Sessions, ExecAcquire(s) PROVE Confirmation'
  BY <1>2 DEF ExecAcquire, Types, Confirmation
<1>3. ASSUME NEW s \in Sessions, ReplyAcquire(s) PROVE Confirmation'
  BY <1>3 DEF ReplyAcquire, Settle, Types, Confirmation
<1>4. ASSUME NEW s \in Sessions, AcquireError(s) PROVE Confirmation'
  BY <1>4, GiveUpFact DEF AcquireError, Types, Confirmation, Commands
<1>5. ASSUME NEW s \in Sessions, SendRefresh(s) PROVE Confirmation'
  BY <1>5 DEF SendRefresh, Send, Types, Confirmation
<1>6. ASSUME NEW s \in Sessions, ExecRefresh(s) PROVE Confirmation'
  BY <1>6 DEF ExecRefresh, Refreshed, Types, Confirmation
<1>7. ASSUME NEW s \in Sessions, ReplyRefresh(s) PROVE Confirmation'
  BY <1>7 DEF ReplyRefresh, Settle, Types, Confirmation
<1>8. ASSUME NEW s \in Sessions, RefreshError(s) PROVE Confirmation'
  BY <1>8, GiveUpFact DEF RefreshError, Types, Confirmation, Commands
<1>9. ASSUME NEW s \in Sessions, Leave(s) PROVE Confirmation'
  BY <1>9 DEF Leave, Types, Confirmation
<1>10. ASSUME NEW s \in Sessions, Release(s) PROVE Confirmation'
  BY <1>10 DEF Release, Types, Confirmation
<1>11. ASSUME NEW s \in Sessions, ReleaseError(s) PROVE Confirmation'
  BY <1>11 DEF ReleaseError, Types, Confirmation
<1>12. ASSUME NEW s \in Sessions, Crash(s) PROVE Confirmation'
  BY <1>12, GiveUpFact DEF Crash, Types, Confirmation, Commands
<1>13. ASSUME NEW s \in Sessions, NEW c \in Commands, DeliverLate(s, c) PROVE Confirmation'
  <2>1. /\ UNCHANGED <<state, since, call, callLeft>> /\ c \in late[s]
        /\ \A q \in Sessions : late'[q] \subseteq late[q]
    BY <1>13 DEF DeliverLate, Types
  <2>2. CASE c = "release"
    <3>1. lease' = [lease EXCEPT ![s] = 0]
      BY <1>13, <2>2 DEF DeliverLate
    <3> QED BY <2>1, <2>2, <3>1 DEF Types, Confirmation
  <2>3. CASE c # "release"
    <3>1. \A q \in Sessions : lease'[q] = lease[q] \/ lease'[q] = LeaseTTL
      BY <1>13, <2>3 DEF DeliverLate, Refreshed, Types, Commands
    <3>2. \A q \in Sessions : lease'[q] >= lease[q] /\ lease'[q] \in Nat /\ lease[q] \in Nat
      BY <3>1 DEF Types
    <3> QED BY <2>1, <3>2 DEF Types, Confirmation
  <2> QED BY <2>2, <2>3
<1>14. ASSUME NEW s \in Sessions, NEW c \in Commands, DropLate(s, c) PROVE Confirmation'
  BY <1>14 DEF DropLate, Types, Confirmation
<1>15. CASE Tick
  BY <1>15, <1>0 DEF Tick, Less, Types, Confirmation
<1>16. CASE UNCHANGED vars
  BY <1>16 DEF vars, Confirmation
<1> QED
  BY <1>1, <1>2, <1>3, <1>4, <1>5, <1>6, <1>7, <1>8, <1>9, <1>10, <1>11, <1>12,
     <1>13, <1>14, <1>15, <1>16 DEF Next, Session

\* Every step keeps to the schedule: a renewal that fails after LeaseTTL ends
\* the session.
LEMMA ScheduleInductive == Types /\ Schedule /\ [Next]_vars => Schedule'
<1> SUFFICES ASSUME Types, Schedule, [Next]_vars PROVE Schedule'
  OBVIOUS
<1> USE IngressAssumption DEF MaxSince
<1>1. ASSUME NEW s \in Sessions, Acquire(s) PROVE Schedule'
  BY <1>1 DEF Acquire, Send, Types, Schedule
<1>2. ASSUME NEW s \in Sessions, ExecAcquire(s) PROVE Schedule'
  BY <1>2 DEF ExecAcquire, Types, Schedule
<1>3. ASSUME NEW s \in Sessions, ReplyAcquire(s) PROVE Schedule'
  BY <1>3 DEF ReplyAcquire, Settle, Types, Schedule
<1>4. ASSUME NEW s \in Sessions, AcquireError(s) PROVE Schedule'
  BY <1>4 DEF AcquireError, GiveUp, Settle, Types, Schedule
<1>5. ASSUME NEW s \in Sessions, SendRefresh(s) PROVE Schedule'
  BY <1>5 DEF SendRefresh, Send, Types, Schedule
<1>6. ASSUME NEW s \in Sessions, ExecRefresh(s) PROVE Schedule'
  BY <1>6 DEF ExecRefresh, Types, Schedule
<1>7. ASSUME NEW s \in Sessions, ReplyRefresh(s) PROVE Schedule'
  BY <1>7 DEF ReplyRefresh, Settle, Types, Schedule
<1>8. ASSUME NEW s \in Sessions, RefreshError(s) PROVE Schedule'
  BY <1>8 DEF RefreshError, GiveUp, Settle, TooLong, Types, Schedule
<1>9. ASSUME NEW s \in Sessions, Leave(s) PROVE Schedule'
  BY <1>9 DEF Leave, Types, Schedule
<1>10. ASSUME NEW s \in Sessions, Release(s) PROVE Schedule'
  BY <1>10 DEF Release, Types, Schedule
<1>11. ASSUME NEW s \in Sessions, ReleaseError(s) PROVE Schedule'
  BY <1>11 DEF ReleaseError, Types, Schedule
<1>12. ASSUME NEW s \in Sessions, Crash(s) PROVE Schedule'
  BY <1>12 DEF Crash, GiveUp, Settle, Types, Schedule
<1>13. ASSUME NEW s \in Sessions, NEW c \in Commands, DeliverLate(s, c) \/ DropLate(s, c)
       PROVE  Schedule'
  BY <1>13 DEF DeliverLate, DropLate, Schedule
<1>14. CASE Tick
  BY <1>14 DEF Tick, Less, Types, Schedule
<1>15. CASE UNCHANGED vars
  BY <1>15 DEF vars, Schedule
<1> QED
  BY <1>1, <1>2, <1>3, <1>4, <1>5, <1>6, <1>7, <1>8, <1>9, <1>10, <1>11, <1>12,
     <1>13, <1>14, <1>15 DEF Next, Session

\* The member of q does not grow, is renewed while it exists, or is added by an
\* acquire script that found room, alone among all members.
Added(q) ==
  /\ lease[q] = 0 /\ HasCapacity(q)
  /\ state[q] = "acquiring" \/ "acquire" \in late[q]
  /\ \A o \in Sessions : o # q => lease'[o] = lease[o]
MemberStep(q) == lease'[q] = 0 \/ lease[q] > 0 \/ Added(q)

\* Every step is one of these for every member.
LEMMA MemberSteps ==
  ASSUME Types, [Next]_vars
  PROVE  \A q \in Sessions : MemberStep(q)
<1> DEFINE Goal == \A q \in Sessions : MemberStep(q)
<1> USE IngressAssumption
<1>1. ASSUME UNCHANGED lease PROVE Goal
  BY <1>1 DEF MemberStep, Types
<1>2. ASSUME NEW s \in Sessions, state[s] = "acquiring" \/ "acquire" \in late[s],
             lease' = IF HasCapacity(s) THEN [lease EXCEPT ![s] = LeaseTTL] ELSE lease
      PROVE  Goal
  <2>1. CASE HasCapacity(s)
    BY <1>2, <2>1 DEF MemberStep, Added, Types
  <2>2. CASE ~HasCapacity(s)
    BY <1>2, <2>2, <1>1
  <2> QED BY <2>1, <2>2
<1>3. ASSUME NEW s \in Sessions, lease' = Refreshed(s) PROVE Goal
  BY <1>3 DEF Refreshed, MemberStep, Types
<1>4. ASSUME NEW s \in Sessions, lease' = [lease EXCEPT ![s] = 0] PROVE Goal
  BY <1>4 DEF MemberStep, Types
<1>5. ASSUME Tick PROVE Goal
  BY <1>5, LessFact DEF Tick, Less, MemberStep, Types
<1> HIDE DEF Goal
<1>6. ASSUME NEW s \in Sessions, Session(s) PROVE Goal
  <2>1. CASE \/ Acquire(s) \/ ReplyAcquire(s) \/ AcquireError(s) \/ SendRefresh(s)
             \/ ReplyRefresh(s) \/ RefreshError(s) \/ Leave(s) \/ Crash(s)
             \/ \E c \in Commands : DropLate(s, c)
    BY <2>1, <1>1 DEF Acquire, ReplyAcquire, AcquireError, SendRefresh, ReplyRefresh,
                      RefreshError, Leave, Crash, DropLate
  <2>2. CASE ExecAcquire(s)
    BY <2>2, <1>2 DEF ExecAcquire
  <2>3. CASE ExecRefresh(s)
    BY <2>3, <1>3 DEF ExecRefresh
  <2>4. CASE Release(s)
    BY <2>4, <1>4 DEF Release
  <2>5. CASE ReleaseError(s)
    BY <2>5, <1>1, <1>4 DEF ReleaseError
  <2>6. ASSUME NEW c \in Commands, DeliverLate(s, c) PROVE Goal
    BY <2>6, <1>2, <1>3, <1>4 DEF DeliverLate, Commands
  <2> QED BY <1>6, <2>1, <2>2, <2>3, <2>4, <2>5, <2>6 DEF Session
<1>7. Goal
  BY <1>1, <1>5, <1>6 DEF Next, vars
<1> QED BY <1>7 DEF Goal

\* The members are finitely many.
LEMMA MembersFinite ==
  IsFiniteSet(Members) /\ Cardinality(Members) \in Nat
<1>1. IsFiniteSet(Members)
  BY FS_Subset, IngressAssumption DEF Members
<1> QED BY <1>1, FS_CardinalityType

\* acquireOpenAIWSIngressLeaseScript adds a member below the cap only.
LEMMA CapInductive == Types /\ MembersWithinCap /\ [Next]_vars => MembersWithinCap'
<1> SUFFICES ASSUME Types, MembersWithinCap, [Next]_vars PROVE MembersWithinCap'
  OBVIOUS
<1>1. \A q \in Sessions : MemberStep(q)
  BY MemberSteps
<1>2. IsFiniteSet(Members) /\ Cardinality(Members) \in Nat /\ MaxConnections \in Nat
  BY MembersFinite, IngressAssumption
<1>3. \A q \in Sessions : lease'[q] \in Nat /\ lease[q] \in Nat
  BY TypesInductive DEF Types
<1>4. CASE \E q \in Sessions : Added(q)
  <2>1. PICK q \in Sessions : Added(q)
    BY <1>4
  <2>2. Cardinality(Members) < MaxConnections
    BY <2>1 DEF Added, HasCapacity
  <2>3. Members' \subseteq Members \cup {q}
    BY <2>1, <1>3 DEF Added, Members
  <2>4. q \notin Members
    BY <2>1 DEF Added, Members
  <2>5. IsFiniteSet(Members \cup {q}) /\ Cardinality(Members \cup {q}) = Cardinality(Members) + 1
    BY <2>4, <1>2, FS_AddElement
  <2>6. Cardinality(Members') <= Cardinality(Members) + 1 /\ IsFiniteSet(Members')
    BY <2>3, <2>5, FS_Subset
  <2> QED BY <2>2, <2>6, <1>2, FS_CardinalityType DEF MembersWithinCap
<1>5. CASE ~ \E q \in Sessions : Added(q)
  <2>1. Members' \subseteq Members
    BY <1>1, <1>3, <1>5 DEF MemberStep, Members
  <2>2. Cardinality(Members') <= Cardinality(Members) /\ IsFiniteSet(Members')
    BY <2>1, <1>2, FS_Subset
  <2> QED BY <2>2, <1>2, FS_CardinalityType DEF MembersWithinCap
<1> QED BY <1>4, <1>5

\* The invariant of acquire, renewal, release and time.
THEOREM IngressInvariantHolds == Spec => []IngressInvariant
<1>1. Init => IngressInvariant
  <2> SUFFICES ASSUME Init PROVE IngressInvariant
    OBVIOUS
  <2>1. Types /\ Confirmation /\ Schedule
    BY IngressAssumption DEF Init, Types, Confirmation, Schedule, MaxSince
  <2>2. Members = {}
    BY DEF Init, Members
  <2> QED BY <2>1, <2>2, FS_EmptySet, IngressAssumption DEF IngressInvariant, MembersWithinCap
<1>2. IngressInvariant /\ [Next]_vars => IngressInvariant'
  BY TypesInductive, ConfirmationInductive, ScheduleInductive, CapInductive
     DEF IngressInvariant
<1> QED BY <1>1, <1>2, PTL DEF Spec

\* The types, and the bound on the time a session stays open unconfirmed.
THEOREM TypeCorrect == Spec => []TypeOK
<1>1. IngressInvariant => TypeOK
  BY IngressAssumption DEF IngressInvariant, Types, Schedule, TypeOK, MaxSince
<1> QED BY <1>1, IngressInvariantHolds, PTL

\* While a session's last confirmation is fresh its member is in Redis, so the
\* confirmed sessions of all instances stay within the configured cap.
THEOREM ConfirmedSessionsWithinCap == Spec => []ConfirmedWithinCap
<1>1. IngressInvariant => ConfirmedWithinCap
  <2> SUFFICES ASSUME IngressInvariant PROVE ConfirmedWithinCap
    OBVIOUS
  <2>1. Confirmed \subseteq Members
    BY IngressAssumption DEF IngressInvariant, Types, Confirmation, Confirmed, Open, Members
  <2>2. IsFiniteSet(Members) /\ Cardinality(Members) \in Nat /\ MaxConnections \in Nat
    BY MembersFinite, IngressAssumption
  <2>3. Cardinality(Confirmed) <= Cardinality(Members) /\ IsFiniteSet(Confirmed)
    BY <2>1, <2>2, FS_Subset
  <2>4. Cardinality(Confirmed) \in Nat
    BY <2>3, FS_CardinalityType
  <2> QED BY <2>1, <2>2, <2>3, <2>4 DEF IngressInvariant, MembersWithinCap, ConfirmedWithinCap
<1> QED BY <1>1, IngressInvariantHolds, PTL

\* A renewal never brings a lost member back.
THEOREM LostMembersStayLost == Spec => NoResurrection
<1>1. IngressInvariant /\ IngressInvariant' /\ [Next]_vars =>
        [\A s \in Sessions : lease[s] = 0 /\ lease'[s] > 0
           => state[s] = "acquiring" \/ "acquire" \in late[s]]_vars
  <2> SUFFICES ASSUME IngressInvariant, IngressInvariant', [Next]_vars,
                      NEW s \in Sessions, lease[s] = 0, lease'[s] > 0
               PROVE  state[s] = "acquiring" \/ "acquire" \in late[s]
    OBVIOUS
  <2>1. MemberStep(s)
    BY MemberSteps DEF IngressInvariant
  <2> QED BY <2>1 DEF MemberStep, Added
<1> QED BY <1>1, IngressInvariantHolds, PTL DEF Spec, NoResurrection
=============================================================================

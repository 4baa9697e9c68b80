--------------------------- MODULE PaymentProofs ---------------------------
(***************************************************************************)
(* A recharge order implements the recharge contract for every number of   *)
(* handlers and every pattern of faults, also while it is refunded, and    *)
(* the books of its refunds agree.                                         *)
(*                                                                         *)
(* The inductive invariant of the recharge ties the control state of the   *)
(* handlers to the tables: whoever may redeem works for a recorded         *)
(* payment, the code is used exactly when the balance was credited,        *)
(* whoever books the rebate saw the code used, whoever completes has       *)
(* booked the rebate, and a settled row and an acknowledged webhook have   *)
(* both behind them.  The one of the refund says what cash and credit fit  *)
(* the order at every step of the one refund that REFUNDING lets through.  *)
(***************************************************************************)
EXTENDS PaymentRefund, TLAPS

Fulfilling ==
  {"lease", "version", "refused", "lookup", "create", "redeem", "rebate", "complete",
   "lost", "fail"}

(* The strengthening that makes the contract inductive. *)
PayInv ==
  /\ PayTypeOK
  /\ order.status \in Unsettled \cup Settled => order.paid
  /\ \A h \in Handlers : handler[h].pc \in Fulfilling => order.paid
  /\ credits = IF code = "used" THEN 1 ELSE 0
  /\ rebates \in {0, 1} /\ (rebates = 1 => credits = 1)
  /\ \A h \in Handlers : handler[h].pc = "rebate" => credits = 1
  /\ \A h \in Handlers : handler[h].pc = "complete" => rebates = 1
  /\ order.status \in Settled => rebates = 1
  /\ credits = 1 => order.paid
  /\ order.status \in {"pending", "cancelled", "expired"} => ~order.paid
  /\ \A h \in Handlers : handler[h].pc \in {"query", "cancel"} => handler[h].kind # "notify"
  /\ \A h \in Handlers : handler[h].pc = "reload" => order.status \notin {"pending", "cancelled"}
  /\ AckedIsSettled

(* The invariant holds initially: nothing is paid and nobody is at work. *)
LEMMA PayInvInit == PayInit => PayInv
BY PaymentAssumption DEF PayInit, TradeNos, PayInv, PayTypeOK, IdleHandler, HandlerPcs, Kinds, Statuses,
     Unsettled, Settled, RefundStatuses, Fulfilling, AckedIsSettled

RowType == [status : Statuses, aged : BOOLEAN, paid : BOOLEAN, tradeNo : TradeNos]

(* What a write of the row does: the status is the new one, and a payment  *)
(* stays recorded.                                                         *)
LEMMA WriteRowEffect ==
  ASSUME PayTypeOK, NEW status \in Statuses, NEW no \in TradeNos, WriteTradeNo(status, no)
  PROVE  /\ order' \in RowType
         /\ order'.status = status
         /\ order.paid => order'.paid
         /\ status = "paid" => order'.paid
         /\ order'.paid => order.paid \/ status = "paid"
         /\ holders' = {}
<1>1. order \in RowType
  BY DEF PayTypeOK, RowType
<1>2. order' = [order EXCEPT !.status = status, !.aged = FALSE,
                             !.paid = @ \/ status = "paid", !.tradeNo = no]
  BY DEF WriteTradeNo
<1>3. (order.paid \/ status = "paid") \in BOOLEAN
  OBVIOUS
<1>4. order'.status = status /\ order'.aged = FALSE
  BY <1>1, <1>2 DEF RowType
<1>5. order'.paid = (order.paid \/ status = "paid")
  BY <1>1, <1>2 DEF RowType
<1>6. order' \in RowType
  BY <1>1, <1>2, <1>3 DEF RowType
<1> QED
  BY <1>4, <1>5, <1>6, Zenon DEF WriteTradeNo

LEMMA WriteEffect ==
  ASSUME PayTypeOK, NEW status \in Statuses, Write(status)
  PROVE  /\ order' \in RowType
         /\ order'.status = status
         /\ order.paid => order'.paid
         /\ status = "paid" => order'.paid
         /\ order'.paid => order.paid \/ status = "paid"
         /\ holders' = {}
<1>1. order.tradeNo \in TradeNos
  BY DEF PayTypeOK
<1> QED BY <1>1, WriteRowEffect, Zenon DEF Write

(* Every step preserves the invariant. *)
LEMMA PayInvNext == PayInv /\ [PayNext]_payVars => PayInv'
<1> SUFFICES ASSUME PayInv, [PayNext]_payVars PROVE PayInv'
  OBVIOUS
<1> USE PaymentAssumption DEF PayInv, PayTypeOK, HandlerPcs, Kinds, Statuses, Unsettled, Settled,
   RefundStatuses,
     Fulfilling, AckedIsSettled, IdleHandler, Fault, NoFault, NoWrite, To, Finish, Unpaid, RowType
<1>1. CASE UserPays
  BY <1>1 DEF UserPays
<1>2. CASE Age
  <2>1. /\ order' \in RowType
        /\ order'.status = order.status /\ order'.paid = order.paid
    BY <1>2 DEF Age
  <2>2. UNCHANGED <<holders, code, credits, rebates, upstream, notice, handler>>
        /\ faults' \in 0 .. MaxFaults
    BY <1>2 DEF Age
  <2> QED
    BY <2>1, <2>2
<1>3. ASSUME NEW h \in Handlers, Notify(h) PROVE PayInv'
  BY <1>3 DEF Notify
<1>4. ASSUME NEW h \in Handlers, Retry(h) PROVE PayInv'
  BY <1>4 DEF Retry
<1>5. ASSUME NEW h \in Handlers, NEW kind \in Kinds, Ask(h, kind) PROVE PayInv'
  BY <1>5 DEF Ask
<1>6. ASSUME NEW h \in Handlers, Query(h) PROVE PayInv'
  BY <1>6 DEF Query
<1>w. "stored" \in TradeNos
  BY DEF TradeNos
<1>7. ASSUME NEW h \in Handlers, SaveTradeNo(h) PROVE PayInv'
  BY <1>7, <1>w, WriteRowEffect DEF SaveTradeNo
<1>8. ASSUME NEW h \in Handlers, Cancel(h) PROVE PayInv'
  BY <1>8, WriteEffect DEF Cancel
<1>9. ASSUME NEW h \in Handlers, Confirm(h) PROVE PayInv'
  BY <1>9, <1>w, WriteRowEffect DEF Confirm, CanPay
<1>10. ASSUME NEW h \in Handlers, Reload(h) PROVE PayInv'
  BY <1>10 DEF Reload
<1>11. ASSUME NEW h \in Handlers, Check(h) PROVE PayInv'
  BY <1>11 DEF Check
<1>12. ASSUME NEW h \in Handlers, Lease(h) PROVE PayInv'
  BY <1>12, WriteEffect DEF Lease, CanLease
<1>13. ASSUME NEW h \in Handlers, Version(h) PROVE PayInv'
  BY <1>13 DEF Version
<1>14. ASSUME NEW h \in Handlers, Lookup(h) PROVE PayInv'
  BY <1>14 DEF Lookup
<1>15. ASSUME NEW h \in Handlers, Create(h) PROVE PayInv'
  BY <1>15 DEF Create
<1>16. ASSUME NEW h \in Handlers, Redeem(h) PROVE PayInv'
  BY <1>16 DEF Redeem, RedeemCode
<1>17. ASSUME NEW h \in Handlers, ApplyRebate(h) PROVE PayInv'
  BY <1>17 DEF ApplyRebate, Rebated
<1>18. ASSUME NEW h \in Handlers, Complete(h) PROVE PayInv'
  BY <1>18, WriteEffect DEF Complete, OwnsLease
<1>19. ASSUME NEW h \in Handlers, Recheck(h) PROVE PayInv'
  BY <1>19 DEF Recheck
<1>20. ASSUME NEW h \in Handlers, MarkFailed(h) PROVE PayInv'
  BY <1>20, WriteEffect DEF MarkFailed, OwnsLease
<1>21. ASSUME NEW h \in Handlers, Crash(h) PROVE PayInv'
  BY <1>21 DEF Crash
<1>22. CASE UNCHANGED payVars
  BY <1>22 DEF payVars
<1> HIDE DEF PayInv
<1>23. ASSUME NEW h \in Handlers, Handle(h) PROVE PayInv'
  BY <1>23, <1>6, <1>7, <1>8, <1>9, <1>10, <1>11, <1>12, <1>13, <1>14, <1>15, <1>16, <1>17,
     <1>18, <1>19, <1>20, Zenon DEF Handle
<1> QED
  BY <1>1, <1>2, <1>3, <1>4, <1>5, <1>21, <1>22, <1>23, Zenon DEF PayNext

-----------------------------------------------------------------------------
(* The invariant holds in every state of a recharge order. *)
LEMMA PayInvariance == PaySpec => []PayInv
BY PayInvInit, PayInvNext, PTL DEF PaySpec

(* Every variable of a recharge order keeps its type. *)
THEOREM PayTypeCorrect == PaySpec => []PayTypeOK
<1>1. PayInv => PayTypeOK
  BY DEF PayInv
<1> QED
  BY <1>1, PayInvariance, PTL

(* Whatever handlers run, crash or stall: a webhook that was answered with *)
(* success belongs to a credited order, or was answered so by one of the   *)
(* two paths that the model names, a late payment and a failed read.       *)
THEOREM AcknowledgedIsCredited == PaySpec => []AckedIsSettled
<1>1. PayInv => AckedIsSettled
  BY DEF PayInv
<1> QED
  BY <1>1, PayInvariance, PTL

-----------------------------------------------------------------------------
(* A step that leaves the row, the credits and the rebates alone is none   *)
(* of the contract's.                                                      *)
LEMMA QuietStep ==
  UNCHANGED <<order, credits, rebates>> => UNCHANGED Contract!contractVars
BY DEF Contract!contractVars

(* So is one that changes neither the record of the payment nor whether    *)
(* the order is settled.                                                   *)
LEMMA NeutralStep ==
  ASSUME PayInv, PayInv', UNCHANGED <<credits, rebates>>,
         order.paid <=> order'.paid,
         order.status \in Settled <=> order'.status \in Settled
  PROVE  UNCHANGED Contract!contractVars
<1>1. order.paid \in BOOLEAN /\ order'.paid \in BOOLEAN
  BY DEF PayInv, PayTypeOK
<1>2. order'.paid = order.paid
  BY <1>1, SMT
<1>3. (order'.status \in Settled) = (order.status \in Settled)
  BY SMT
<1> QED
  BY <1>2, <1>3, Zenon DEF Contract!contractVars

(* Every step of a handler is a step of the contract or changes nothing    *)
(* that the contract speaks of.                                            *)
LEMMA ContractStep ==
  PayInv /\ PayInv' /\ [PayNext]_payVars => [Contract!Next]_(Contract!contractVars)
<1> SUFFICES ASSUME PayInv, PayInv', [PayNext]_payVars
             PROVE  Contract!Next \/ UNCHANGED Contract!contractVars
  BY Zenon
<1>1. CASE UserPays
  BY <1>1, QuietStep DEF UserPays
<1>2. CASE Age
  <2>1. /\ order'.status = order.status /\ order'.paid = order.paid
        /\ UNCHANGED <<credits, rebates>>
    BY <1>2 DEF Age, PayInv, PayTypeOK
  <2> QED
    BY <2>1, NeutralStep
<1>3. ASSUME NEW h \in Handlers,
             \/ Notify(h) \/ Retry(h) \/ \E kind \in Kinds : Ask(h, kind)
             \/ Query(h) \/ Reload(h) \/ Check(h) \/ Version(h) \/ Lookup(h)
             \/ Create(h) \/ Recheck(h) \/ Crash(h)
      PROVE  UNCHANGED Contract!contractVars
  <2>1. UNCHANGED <<order, credits, rebates>>
    BY <1>3 DEF Notify, Retry, Ask, Query, Reload, Check, Version, Lookup, Create, Recheck, Crash
  <2> QED
    BY <2>1, QuietStep
<1>4. ASSUME NEW h \in Handlers, SaveTradeNo(h) \/ Cancel(h) \/ Lease(h) \/ MarkFailed(h)
      PROVE  UNCHANGED Contract!contractVars
  <2>1. UNCHANGED <<credits, rebates>>
    BY <1>4 DEF SaveTradeNo, Cancel, Lease, MarkFailed
  <2>2. CASE NoWrite
    BY <2>1, <2>2, QuietStep DEF NoWrite
  <2>3. ASSUME NEW status \in Statuses, Write(status), status # "paid",
               order.status \in Settled <=> status \in Settled
        PROVE  UNCHANGED Contract!contractVars
    BY <2>1, <2>3, WriteEffect, NeutralStep DEF PayInv
  <2>4. CASE WriteTradeNo(order.status, "stored")
    <3>1. order.status \in Statuses /\ (order.status = "paid" => order.paid)
      BY DEF PayInv, PayTypeOK, Unsettled
    <3> QED
      BY <2>1, <2>4, <3>1, WriteRowEffect, NeutralStep DEF PayInv, TradeNos
  <2>5. \/ NoWrite \/ WriteTradeNo(order.status, "stored")
        \/ \E status \in {"expired", "cancelled"} : order.status = "pending" /\ Write(status)
        \/ order.status \in Unsettled /\ (Write("recharging") \/ Write("failed"))
    BY <1>4 DEF SaveTradeNo, Cancel, Lease, MarkFailed, CanLease, OwnsLease, Unsettled
  <2> QED
    BY <2>2, <2>3, <2>4, <2>5 DEF Settled, RefundStatuses, Unsettled, Statuses
<1>5. ASSUME NEW h \in Handlers, Confirm(h)
      PROVE  Contract!Next \/ UNCHANGED Contract!contractVars
  <2>1. UNCHANGED <<credits, rebates>>
    BY <1>5 DEF Confirm
  <2>2. CASE NoWrite
    BY <2>1, <2>2, QuietStep DEF NoWrite
  <2>3. ASSUME CanPay, NEW no \in TradeNos, WriteTradeNo("paid", no)
        PROVE  Contract!Next \/ UNCHANGED Contract!contractVars
    <3>1. ~order.paid /\ order.paid \in BOOLEAN /\ order'.paid \in BOOLEAN
      BY <2>3 DEF PayInv, PayTypeOK, CanPay
    <3>2. order'.paid /\ order'.status = "paid"
      BY <2>3, WriteRowEffect DEF PayInv, Statuses, Unsettled
    <3>3. order.status \notin Settled /\ order'.status \notin Settled
      BY <2>3, <3>2 DEF CanPay, Settled, RefundStatuses
    <3>4. order'.paid = TRUE
      BY <3>1, <3>2, Zenon
    <3>5. (order'.status \in Settled) = (order.status \in Settled)
      BY <3>3, SMT
    <3> QED
      BY <2>1, <3>1, <3>4, <3>5, Zenon DEF Contract!Next, Contract!Pay
  <2> QED
    BY <1>5, <2>2, <2>3 DEF Confirm
<1>6. ASSUME NEW h \in Handlers, Redeem(h)
      PROVE  Contract!Next \/ UNCHANGED Contract!contractVars
  <2>1. UNCHANGED <<order, rebates>>
    BY <1>6 DEF Redeem
  <2>2. CASE UNCHANGED credits
    BY <2>1, <2>2, QuietStep
  <2>3. CASE RedeemCode
    <3>1. order.paid /\ credits = 0 /\ credits' = 1
      BY <1>6, <2>3 DEF Redeem, RedeemCode, PayInv, Fulfilling
    <3> QED
      BY <2>1, <3>1 DEF Contract!Next, Contract!Credit
  <2> QED
    BY <1>6, <2>2, <2>3 DEF Redeem
<1>7. ASSUME NEW h \in Handlers, ApplyRebate(h)
      PROVE  Contract!Next \/ UNCHANGED Contract!contractVars
  <2>1. UNCHANGED <<order, credits>> /\ credits = 1
    BY <1>7 DEF ApplyRebate, PayInv
  <2>2. CASE UNCHANGED rebates
    BY <2>1, <2>2, QuietStep
  <2>3. CASE rebates = 0 /\ rebates' = 1
    BY <2>1, <2>3 DEF Contract!Next, Contract!Rebate
  <2> QED
    BY <1>7, <2>2, <2>3 DEF ApplyRebate, Rebated
<1>8. ASSUME NEW h \in Handlers, Complete(h)
      PROVE  Contract!Next \/ UNCHANGED Contract!contractVars
  <2>1. UNCHANGED <<credits, rebates>> /\ rebates = 1
    BY <1>8 DEF Complete, PayInv
  <2>2. CASE NoWrite
    BY <2>1, <2>2, QuietStep DEF NoWrite
  <2>3. CASE OwnsLease(h) /\ Write("completed")
    <3>1. order.status = "recharging" /\ order.paid /\ order.paid \in BOOLEAN
          /\ order'.paid \in BOOLEAN
      BY <2>3 DEF OwnsLease, PayInv, PayTypeOK, Unsettled
    <3>2. order'.paid /\ order'.status = "completed"
      BY <2>3, <3>1, WriteEffect DEF PayInv, Statuses, Settled
    <3>3. order.status \notin Settled /\ order'.status \in Settled
      BY <3>1, <3>2 DEF Settled, RefundStatuses
    <3>4. order'.paid = order.paid
      BY <3>1, <3>2, Zenon
    <3>5. (order'.status \in Settled) = TRUE
      BY <3>3, Zenon
    <3> QED
      BY <2>1, <3>3, <3>4, <3>5, Zenon DEF Contract!Next, Contract!Complete
  <2> QED
    BY <1>8, <2>2, <2>3 DEF Complete
<1>9. CASE UNCHANGED payVars
  BY <1>9, QuietStep DEF payVars
<1> QED
  BY <1>1, <1>2, <1>3, <1>4, <1>5, <1>6, <1>7, <1>8, <1>9 DEF PayNext, Handle

(* A recharge order implements the recharge contract: for any number of    *)
(* handlers and any faults, one payment is recorded, credited and rebated  *)
(* once each, in this order, before the order is reported as completed.    *)
THEOREM RefinesContract == PaySpec => ImplementsContract
<1>1. PayInit => Contract!Init
  BY DEF PayInit, Contract!Init, Settled, RefundStatuses
<1> QED
  BY <1>1, ContractStep, PayInvariance, PTL DEF PaySpec, ImplementsContract, Contract!Spec

-----------------------------------------------------------------------------
(* The refund of an order: what the writes do.                             *)

PlanType == [pc : AdminPcs, amt : 0 .. Amount, cum : 0 .. Amount, seen : Refundable,
             tradeNo : TradeNos, taken : 0 .. Amount]
GatewayType == [keyed : BOOLEAN, keys : SUBSET ((1 .. Amount) \X {"ok", "pending"}),
                amt : 0 .. Amount, state : {"none", "pending", "success", "failed"}]
HeldType == [amt : 0 .. Amount, cum : 0 .. Amount, taken : 0 .. Amount]
QueryType == {"idle", "pending", "success", "failed"}
AuditType == {"PENDING", "SUCCESS", "FAILED", "ROLLBACK_FAILED"}

\* Type correctness, variable by variable.
LEMMA RefundTypes ==
  /\ RefundTypeOK <=>
       /\ refunded \in 0 .. Amount /\ clawed \in Int /\ cash \in Nat /\ gateway \in GatewayType
       /\ audits \subseteq AuditType /\ held \in HeldType /\ query \in [Queriers -> QueryType]
       /\ astray \in BOOLEAN /\ skipped \in Nat /\ repeated \in Nat /\ untold \in Nat
  /\ RefundTypeOK' <=>
       /\ refunded' \in 0 .. Amount /\ clawed' \in Int /\ cash' \in Nat /\ gateway' \in GatewayType
       /\ audits' \subseteq AuditType /\ held' \in HeldType /\ query' \in [Queriers -> QueryType]
       /\ astray' \in BOOLEAN /\ skipped' \in Nat /\ repeated' \in Nat /\ untold' \in Nat
BY DEF RefundTypeOK, GatewayType, AuditType, HeldType, QueryType

LEMMA PlanTypes ==
  /\ Plans <=> /\ admin \in [Admins -> PlanType] /\ held.amt <= held.cum
               /\ \A a \in Admins : /\ admin[a].amt <= admin[a].cum
                                    /\ admin[a].pc # "idle" => admin[a].amt > 0
  /\ Plans' <=> /\ admin' \in [Admins -> PlanType] /\ held'.amt <= held'.cum
                /\ \A a \in Admins : /\ admin'[a].amt <= admin'[a].cum
                                     /\ admin'[a].pc # "idle" => admin'[a].amt > 0
BY DEF Plans, PlanType

\* The plan of a goes on to another step, with this deduction; the others stay.
OtherPlans(a) == admin' \in [Admins -> PlanType] /\ \A b \in Admins \ {a} : admin'[b] = admin[b]
PlanAt(a, pc, n) ==
  /\ OtherPlans(a)
  /\ admin'[a].pc = pc /\ admin'[a].taken = n
  /\ admin'[a].amt = admin[a].amt /\ admin'[a].cum = admin[a].cum /\ admin'[a].seen = admin[a].seen
PlanOver(a) == OtherPlans(a) /\ admin'[a].pc = "idle" /\ admin'[a].amt = 0 /\ admin'[a].cum = 0

LEMMA PlanEffect ==
  ASSUME admin \in [Admins -> PlanType], NEW a \in Admins
  PROVE  /\ \A pc \in AdminPcs : AdminTo(a, pc) => PlanAt(a, pc, admin[a].taken)
         /\ \A n \in 0 .. Amount :
              admin' = [admin EXCEPT ![a].pc = "gateway", ![a].taken = n] => PlanAt(a, "gateway", n)
         /\ AdminDone(a) => PlanOver(a)
<1>1. ASSUME NEW pc \in AdminPcs, AdminTo(a, pc) PROVE PlanAt(a, pc, admin[a].taken)
  <2>1. admin' = [admin EXCEPT ![a] = [admin[a] EXCEPT !.pc = pc]]
    BY <1>1 DEF AdminTo
  <2>2. [admin[a] EXCEPT !.pc = pc] \in PlanType
    BY DEF PlanType
  <2> QED BY <2>1, <2>2 DEF PlanAt, OtherPlans, PlanType
<1>2. ASSUME NEW n \in 0 .. Amount, admin' = [admin EXCEPT ![a].pc = "gateway", ![a].taken = n]
      PROVE  PlanAt(a, "gateway", n)
  <2>1. admin' = [admin EXCEPT ![a] = [[admin[a] EXCEPT !.pc = "gateway"] EXCEPT !.taken = n]]
    BY <1>2
  <2>2. [[admin[a] EXCEPT !.pc = "gateway"] EXCEPT !.taken = n] \in PlanType
    BY DEF PlanType, AdminPcs
  <2> QED BY <2>1, <2>2 DEF PlanAt, OtherPlans, PlanType
<1>3. ASSUME AdminDone(a) PROVE PlanOver(a)
  <2>1. 0 \in 0 .. Amount
    BY RefundAssumption
  <2>2. NoPlan \in PlanType /\ NoPlan.pc = "idle" /\ NoPlan.amt = 0 /\ NoPlan.cum = 0
    BY <2>1 DEF NoPlan, PlanType, TradeNos, AdminPcs, Refundable
  <2> QED BY <1>3, <2>2 DEF AdminDone, PlanOver, OtherPlans
<1> QED BY <1>1, <1>2, <1>3

\* What the gateway remembers of a refund.
LEMMA RememberEffect ==
  ASSUME gateway \in GatewayType, NEW amt \in 1 .. Amount, NEW answer \in {"ok", "pending"},
         NEW keys, keys = IF gateway.keyed THEN gateway.keys \cup {<<amt, answer>>} ELSE gateway.keys
  PROVE  /\ gateway' = Remember(amt, answer) =>
              /\ gateway' \in GatewayType /\ gateway'.keyed = gateway.keyed /\ gateway'.keys = keys
              /\ gateway'.amt = gateway.amt /\ gateway'.state = gateway.state
         /\ gateway' = [Remember(amt, answer) EXCEPT !.amt = amt, !.state = "pending"] =>
              /\ gateway' \in GatewayType /\ gateway'.keyed = gateway.keyed /\ gateway'.keys = keys
              /\ gateway'.amt = amt /\ gateway'.state = "pending"
<1>1. keys \in SUBSET ((1 .. Amount) \X {"ok", "pending"})
  BY DEF GatewayType
<1>2. Remember(amt, answer) = [gateway EXCEPT !.keys = keys]
  BY DEF Remember, GatewayType
<1>3. amt \in 0 .. Amount
  BY RefundAssumption
<1>4. ASSUME gateway' = Remember(amt, answer)
      PROVE  /\ gateway' \in GatewayType /\ gateway'.keyed = gateway.keyed /\ gateway'.keys = keys
             /\ gateway'.amt = gateway.amt /\ gateway'.state = gateway.state
  BY <1>1, <1>2, <1>4 DEF GatewayType
<1>5. ASSUME gateway' = [Remember(amt, answer) EXCEPT !.amt = amt, !.state = "pending"]
      PROVE  /\ gateway' \in GatewayType /\ gateway'.keyed = gateway.keyed /\ gateway'.keys = keys
             /\ gateway'.amt = amt /\ gateway'.state = "pending"
  <2>1. gateway' = [[[gateway EXCEPT !.keys = keys] EXCEPT !.amt = amt] EXCEPT !.state = "pending"]
    BY <1>2, <1>5
  <2> QED BY <1>1, <1>3, <2>1 DEF GatewayType
<1> QED BY <1>4, <1>5

LEMMA RememberKeys ==
  ASSUME gateway \in GatewayType, NEW amt \in 1 .. Amount, NEW answer \in {"ok", "pending"},
         \/ gateway' = Remember(amt, answer)
         \/ gateway' = [Remember(amt, answer) EXCEPT !.amt = amt, !.state = "pending"]
  PROVE  /\ gateway'.keyed = gateway.keyed
         /\ gateway'.keys \subseteq gateway.keys \cup {<<amt, answer>>}
         /\ ~gateway.keyed => gateway'.keys = gateway.keys
<1>1. PICK keys : keys = IF gateway.keyed THEN gateway.keys \cup {<<amt, answer>>} ELSE gateway.keys
  OBVIOUS
<1>2. Remember(amt, answer) = [gateway EXCEPT !.keys = keys]
  BY <1>1 DEF Remember, GatewayType
<1>3. CASE gateway' = [gateway EXCEPT !.keys = keys]
  <2>1. gateway'.keyed = gateway.keyed /\ gateway'.keys = keys
    BY <1>3 DEF GatewayType
  <2> QED BY <1>1, <2>1
<1>4. CASE gateway' = [[[gateway EXCEPT !.keys = keys] EXCEPT !.amt = amt] EXCEPT !.state = "pending"]
  <2>1. gateway'.keyed = gateway.keyed /\ gateway'.keys = keys
    BY <1>4 DEF GatewayType
  <2> QED BY <1>1, <2>1
<1> QED BY <1>2, <1>3, <1>4

LEMMA DecideEffect ==
  ASSUME gateway \in GatewayType, NEW s \in {"success", "failed"},
         gateway' = [gateway EXCEPT !.state = s]
  PROVE  /\ gateway' \in GatewayType /\ gateway'.keyed = gateway.keyed /\ gateway'.keys = gateway.keys
         /\ gateway'.amt = gateway.amt /\ gateway'.state = s
BY DEF GatewayType

\* The amounts of a plan.
LEMMA PlanAmounts ==
  ASSUME admin \in [Admins -> PlanType], NEW a \in Admins
  PROVE  /\ admin[a].amt \in Nat /\ admin[a].cum \in Nat /\ admin[a].taken \in Nat /\ Amount \in Nat
         /\ admin[a].amt <= Amount /\ admin[a].cum <= Amount /\ admin[a].taken <= Amount
BY RefundAssumption DEF PlanType

-----------------------------------------------------------------------------
(* A refund leaves the recharge alone, and a recharge leaves the refund.   *)

\* The row changes only from one settled status to another.
LEMMA SettledRow ==
  ASSUME PayInv, UNCHANGED Recharge, faults' \in 0 .. MaxFaults,
         NoWrite \/ (order.status \in Settled /\ \E s \in Settled : Write(s))
  PROVE  PayInv'
<1> USE DEF PayInv, PayTypeOK, RowType, HandlerPcs, Kinds, Statuses, Unsettled, Settled, RefundStatuses,
     Fulfilling, AckedIsSettled, Recharge
<1>1. CASE NoWrite
  BY <1>1 DEF NoWrite
<1>2. ASSUME NEW s \in Settled, Write(s), order.status \in Settled PROVE PayInv'
  BY <1>2, WriteEffect
<1> QED BY <1>1, <1>2

\* A fault is one of the faults still to come.
LEMMA PayFaultEffect ==
  ASSUME faults \in 0 .. MaxFaults, Fault \/ NoFault
  PROVE  faults' \in 0 .. MaxFaults
BY PaymentAssumption DEF Fault, NoFault

\* Fulfilment never moves a settled order, and settles one only as completed.
LEMMA PayStatus ==
  ASSUME PayInv, PayNext
  PROVE  /\ order.status \in Settled => order'.status = order.status
         /\ order'.status \in Settled => order.status \in Settled \/ order'.status = "completed"
<1>t. /\ PayTypeOK /\ order.status \in Statuses /\ "stored" \in TradeNos
      /\ \A s \in Statuses : Write(s) => order'.status = s
      /\ \A s \in Statuses : \A no \in TradeNos : WriteTradeNo(s, no) => order'.status = s
      /\ NoWrite => order'.status = order.status
  BY WriteEffect, WriteRowEffect DEF PayInv, PayTypeOK, NoWrite, TradeNos
<1>1. CASE UserPays \/ Age
  BY <1>1, <1>t DEF UserPays, Age, PayTypeOK
<1>2. ASSUME NEW h \in Handlers, \/ Notify(h) \/ Retry(h) \/ Crash(h) \/ \E kind \in Kinds : Ask(h, kind)
                                 \/ Query(h) \/ Reload(h) \/ Check(h) \/ Version(h) \/ Lookup(h)
                                 \/ Create(h) \/ Redeem(h) \/ ApplyRebate(h) \/ Recheck(h)
      PROVE  UNCHANGED order
  BY <1>2 DEF Notify, Retry, Crash, Ask, Query, Reload, Check, Version, Lookup, Create, Redeem,
     ApplyRebate, Recheck
<1>3. ASSUME NEW h \in Handlers, \/ SaveTradeNo(h) \/ Cancel(h) \/ Confirm(h) \/ Lease(h)
                                 \/ Complete(h) \/ MarkFailed(h)
      PROVE  \/ order'.status = order.status
             \/ /\ order.status \notin Settled
                /\ order'.status \notin Settled \/ order'.status = "completed"
  BY <1>3, <1>t DEF SaveTradeNo, Cancel, Confirm, CanPay, Lease, CanLease, Complete, MarkFailed,
     OwnsLease, Statuses, Settled, Unsettled, RefundStatuses
<1> QED BY <1>1, <1>2, <1>3 DEF PayNext, Handle

-----------------------------------------------------------------------------
(* The invariant of the refund, for any number of requests.                *)

\* What a step of a refund does to the row and to the plans.
LEMMA StepEffects ==
  ASSUME PayInv, Plans
  PROVE  /\ \A s \in Settled : Write(s) => order'.status = s
         /\ NoWrite => order'.status = order.status
         /\ \A a \in Admins :
              /\ \A pc \in AdminPcs : AdminTo(a, pc) => PlanAt(a, pc, admin[a].taken)
              /\ \A n \in 0 .. Amount :
                   admin' = [admin EXCEPT ![a].pc = "gateway", ![a].taken = n] => PlanAt(a, "gateway", n)
              /\ AdminDone(a) => PlanOver(a)
<1>1. \A s \in Settled : Write(s) => order'.status = s
  BY WriteEffect DEF PayInv, Statuses
<1>2. NoWrite => order'.status = order.status
  BY DEF NoWrite
<1> QED BY <1>1, <1>2, PlanTypes, PlanEffect

\* Steps of a refund, by what they may write.
Planned(a) == \E amt \in 1 .. Amount : Prepare(a, amt)
RefundStep(a) == Execute(a) \/ AdminCrash(a) \/ Planned(a)

\* A plan keeps its place among the plans.
LEMMA PlansKept ==
  ASSUME Plans, RefundTypeOK, UNCHANGED held, NEW a \in Admins,
         PlanOver(a) \/ (admin[a].pc # "idle" /\ \E pc, n : PlanAt(a, pc, n))
  PROVE  Plans'
<1>1. admin' \in [Admins -> PlanType] /\ \A b \in Admins \ {a} : admin'[b] = admin[b]
  BY DEF PlanOver, PlanAt, OtherPlans
<1>2. /\ admin'[a].amt <= admin'[a].cum
      /\ admin'[a].pc # "idle" => admin'[a].amt > 0
  BY PlanTypes DEF PlanOver, PlanAt
<1> QED BY <1>1, <1>2, PlanTypes

\* The types, and the row as the recharge sees it.
LEMMA AdminTypes ==
  ASSUME PayInv, RefundTypeOK, Plans, OneRefund, NEW a \in Admins, RefundStep(a)
  PROVE  PayInv' /\ RefundTypeOK' /\ Plans'
<1>t. /\ refunded \in 0 .. Amount /\ clawed \in Int /\ cash \in Nat /\ gateway \in GatewayType
      /\ audits \subseteq AuditType /\ held \in HeldType /\ query \in [Queriers -> QueryType]
      /\ astray \in BOOLEAN /\ faults \in 0 .. MaxFaults
      /\ skipped \in Nat /\ repeated \in Nat /\ untold \in Nat
  BY RefundTypes DEF slips, PayInv, PayTypeOK
<1>p. /\ admin[a].amt \in Nat /\ admin[a].cum \in Nat /\ admin[a].taken \in Nat /\ Amount \in Nat
      /\ admin[a].amt <= Amount /\ admin[a].cum <= Amount /\ admin[a].taken <= Amount
      /\ admin[a].pc # "idle" => admin[a].amt > 0
      /\ admin[a].seen \in Refundable /\ admin[a].amt <= admin[a].cum
  BY PlanTypes, PlanAmounts DEF PlanType
<1>r. /\ Executing(a) => order.status = "refunding"
      /\ Refundable \subseteq Settled /\ "refunding" \in Settled /\ "refund_pending" \in Settled
      /\ "refunded" \in Settled /\ "refund_failed" \in Settled /\ \A c : FinalStatus(c) \in Settled
      /\ "completed" \in Settled
  BY DEF OneRefund, Refundable, Settled, RefundStatuses, FinalStatus
<1>y. ASSUME UNCHANGED Recharge, Fault \/ NoFault,
             NoWrite \/ (order.status \in Settled /\ \E s \in Settled : Write(s))
      PROVE  PayInv'
  BY <1>t, <1>y, SettledRow, PayFaultEffect
<1>1. CASE Planned(a)
  <2>1. PICK amt \in 1 .. Amount : Prepare(a, amt)
    BY <1>1 DEF Planned
  <2>2. UNCHANGED <<payVars, refunded, clawed, cash, gateway, audits, held, query, astray, slips>>
    BY <2>1 DEF Prepare
  <2>3. PayInv'
    BY <2>2, <1>y DEF payVars, Recharge, NoFault, NoWrite
  <2>4. RefundTypeOK'
    BY <1>t, <2>2, RefundTypes DEF slips
  <2>5. refunded + amt \in 0 .. Amount /\ amt <= refunded + amt /\ amt > 0 /\ amt \in 0 .. Amount
        /\ 0 \in 0 .. Amount
    BY <1>p, <1>t, <2>1 DEF Prepare
  <2> DEFINE plan == [pc |-> "lock", amt |-> amt, cum |-> refunded + amt,
                      seen |-> order.status, tradeNo |-> order.tradeNo, taken |-> 0]
  <2>r. order.tradeNo \in TradeNos
    BY DEF PayInv, PayTypeOK
  <2>6. plan \in PlanType
    BY <2>1, <2>5, <2>r DEF Prepare, PlanType, AdminPcs
  <2>7. admin' = [admin EXCEPT ![a] = plan] /\ admin \in [Admins -> PlanType]
    BY <2>1, PlanTypes DEF Prepare
  <2>8. /\ admin' \in [Admins -> PlanType] /\ admin'[a] = plan
        /\ \A b \in Admins \ {a} : admin'[b] = admin[b]
    BY <2>6, <2>7, Zenon
  <2>9. plan.amt = amt /\ plan.cum = refunded + amt
    OBVIOUS
  <2>10. admin'[a].amt <= admin'[a].cum /\ admin'[a].amt > 0
    BY <2>5, <2>8, <2>9
  <2> QED BY <2>2, <2>3, <2>4, <2>8, <2>10, PlanTypes
<1>2. CASE Lock(a)
  <2>1. PayInv'
    BY <1>2, <1>r, <1>y DEF Lock
  <2>2. RefundTypeOK'
    BY <1>2, <1>t, RefundTypes DEF slips, Lock
  <2>3. Plans'
    BY <1>2, StepEffects, PlansKept DEF Lock, AdminPcs
  <2> QED BY <2>1, <2>2, <2>3
<1>3. CASE Deduct(a)
  <2>1. PayInv'
    BY <1>3, <1>y DEF Deduct, NoWrite
  <2>2. /\ \E n \in 0 .. Amount : Taken(a, n) \/ (AdminTo(a, "restore") /\ clawed' \in {clawed, clawed + n})
        /\ astray' \in BOOLEAN
    <3>1. astray' \in {astray, TRUE}
      BY <1>3 DEF Deduct
    <3>2. 0 \in 0 .. Amount /\ admin[a].amt \in 0 .. Amount /\ 0 .. admin[a].amt \subseteq 0 .. Amount
      BY <1>p
    <3>3. \E n \in {0, admin[a].amt} \cup 0 .. admin[a].amt :
             Taken(a, n) \/ (AdminTo(a, "restore") /\ clawed' \in {clawed, clawed + n})
      BY <1>3 DEF Deduct
    <3> QED BY <1>t, <3>1, <3>2, <3>3
  <2>3. RefundTypeOK'
    <3>1. clawed' \in Int
      BY <1>t, <2>2 DEF Taken
    <3> QED BY <1>3, <1>t, <2>2, <3>1, RefundTypes DEF slips, Deduct
  <2>4. Plans'
    BY <1>3, <2>2, StepEffects, PlansKept DEF Deduct, Taken, AdminPcs
  <2> QED BY <2>1, <2>3, <2>4
<1>4. CASE Gateway(a)
  <2>1. PayInv'
    BY <1>4, <1>y DEF Gateway, Skip, Repeat, Refund, NoWrite
  <2>2. admin[a].amt \in 1 .. Amount
    BY <1>4, <1>p DEF Gateway, Skip, Repeat, Refund
  <2>3. gateway' \in GatewayType
    BY <1>4, <1>t, <2>2, RememberEffect DEF Gateway, Skip, Repeat, Refund
  <2>4. cash' \in {cash, cash + admin[a].amt} /\ astray' \in {astray, TRUE}
    BY <1>4 DEF Gateway, Skip, Repeat, Refund
  <2>s. /\ skipped' \in {skipped, skipped + admin[a].amt} /\ repeated' \in {repeated, repeated + admin[a].amt}
        /\ untold' = untold
    BY <1>4 DEF Gateway, Skip, Repeat, Refund
  <2>5. cash' \in Nat /\ skipped' \in Nat /\ repeated' \in Nat /\ untold' \in Nat
    BY <1>p, <1>t, <2>4, <2>s
  <2>6. RefundTypeOK'
    BY <1>4, <1>t, <2>3, <2>4, <2>5, RefundTypes DEF slips, Gateway, Skip, Repeat, Refund
  <2>7. Plans'
    BY <1>4, StepEffects, PlansKept DEF Gateway, Skip, Repeat, Refund, AdminPcs
  <2> QED BY <2>1, <2>6, <2>7
<1>5. CASE MarkRefundOk(a)
  <2>1. PayInv'
    BY <1>5, <1>r, <1>y DEF MarkRefundOk, Executing, WriteAudit
  <2>2. refunded' \in 0 .. Amount /\ audits' \subseteq AuditType
    <3>1. refunded' \in {refunded, admin[a].cum} /\ audits' \subseteq audits \cup {"SUCCESS"}
      BY <1>5 DEF MarkRefundOk, WriteAudit
    <3>2. refunded' \in 0 .. Amount
      BY <1>p, <1>t, <3>1
    <3> QED BY <1>t, <3>1, <3>2 DEF AuditType
  <2>3. RefundTypeOK'
    BY <1>5, <1>t, <2>2, RefundTypes DEF slips, MarkRefundOk, WriteAudit
  <2>4. Plans'
    BY <1>5, StepEffects, PlansKept DEF MarkRefundOk, WriteAudit
  <2> QED BY <2>1, <2>3, <2>4
<1>6. CASE MarkRefundPending(a)
  <2>1. PayInv'
    BY <1>6, <1>r, <1>y DEF MarkRefundPending, Executing
  <2>2. refunded' \in 0 .. Amount /\ audits' \subseteq AuditType
    <3>1. refunded' \in {refunded, admin[a].cum} /\ audits' \subseteq audits \cup {"PENDING"}
      BY <1>6 DEF MarkRefundPending
    <3>2. refunded' \in 0 .. Amount
      BY <1>p, <1>t, <3>1
    <3> QED BY <1>t, <3>1, <3>2 DEF AuditType
  <2>3. UNCHANGED held \/ held' = [amt |-> admin[a].amt, cum |-> admin[a].cum, taken |-> admin[a].taken]
    BY <1>6 DEF MarkRefundPending
  <2>4. held' \in HeldType /\ held'.amt <= held'.cum
    BY <1>p, <1>t, <2>3, PlanTypes DEF HeldType
  <2>5. RefundTypeOK'
    BY <1>6, <1>t, <2>2, <2>4, RefundTypes DEF slips, MarkRefundPending
  <2>6. /\ admin' \in [Admins -> PlanType] /\ \A b \in Admins \ {a} : admin'[b] = admin[b]
        /\ admin'[a].pc = "idle" /\ admin'[a].amt = 0 /\ admin'[a].cum = 0
    BY <1>6, StepEffects DEF MarkRefundPending, PlanOver, OtherPlans
  <2>7. Plans'
    BY <2>4, <2>6, PlanTypes
  <2> QED BY <2>1, <2>5, <2>7
<1>7. CASE Rollback(a)
  <2>1. PayInv'
    BY <1>7, <1>y DEF Rollback, NoWrite
  <2>2. audits' \subseteq AuditType /\ astray' \in BOOLEAN
    BY <1>7, <1>t DEF Rollback, AuditType
  <2>3. /\ clawed' \in {clawed, clawed - admin[a].taken} /\ untold' \in {untold, untold + admin[a].taken}
        /\ UNCHANGED <<skipped, repeated>>
    BY <1>7 DEF Rollback
  <2>4. clawed' \in Int /\ untold' \in Nat
    BY <1>p, <1>t, <2>3
  <2>5. RefundTypeOK'
    BY <1>7, <1>t, <2>2, <2>3, <2>4, RefundTypes DEF Rollback
  <2>6. Plans'
    BY <1>7, StepEffects, PlansKept DEF Rollback, AdminPcs
  <2> QED BY <2>1, <2>5, <2>6
<1>8. CASE Restore(a) \/ RefundFailed(a)
  <2>1. PayInv'
    BY <1>8, <1>p, <1>r, <1>y DEF Restore, RefundFailed, Executing, Refundable, WriteAudit
  <2>2. audits' \subseteq AuditType
    BY <1>8, <1>t DEF Restore, RefundFailed, AuditType, WriteAudit
  <2>3. RefundTypeOK'
    BY <1>8, <1>t, <2>2, RefundTypes DEF slips, Restore, RefundFailed, WriteAudit
  <2>4. Plans'
    BY <1>8, StepEffects, PlansKept DEF Restore, RefundFailed, WriteAudit
  <2> QED BY <2>1, <2>3, <2>4
<1>9. CASE AdminCrash(a)
  <2>1. PayInv'
    BY <1>9, <1>y DEF AdminCrash, NoWrite
  <2>2. RefundTypeOK'
    BY <1>9, <1>t, RefundTypes DEF slips, AdminCrash
  <2>3. Plans'
    BY <1>9, StepEffects, PlansKept DEF AdminCrash
  <2> QED BY <2>1, <2>2, <2>3
<1> QED BY <1>1, <1>2, <1>3, <1>4, <1>5, <1>6, <1>7, <1>8, <1>9 DEF RefundStep, Execute

\* A query goes to another step.
LEMMA QueryEffect ==
  ASSUME query \in [Queriers -> QueryType], NEW q \in Queriers, NEW to \in QueryType, QueryTo(q, to)
  PROVE  /\ query' \in [Queriers -> QueryType] /\ query'[q] = to
         /\ \A p \in Queriers \ {q} : query'[p] = query[p]
BY DEF QueryTo

LEMMA OtherTypes ==
  ASSUME PayInv, RefundTypeOK, Plans, PendingStage,
         \/ PayNext /\ UNCHANGED refundVars
         \/ RequestRefund \/ GatewayDecides \/ \E q \in Queriers : Finalize(q)
         \/ UNCHANGED vars
  PROVE  PayInv' /\ RefundTypeOK' /\ Plans'
<1>t. /\ refunded \in 0 .. Amount /\ clawed \in Int /\ cash \in Nat /\ gateway \in GatewayType
      /\ audits \subseteq AuditType /\ held \in HeldType /\ query \in [Queriers -> QueryType]
      /\ astray \in BOOLEAN /\ faults \in 0 .. MaxFaults
      /\ skipped \in Nat /\ repeated \in Nat /\ untold \in Nat
  BY RefundTypes DEF slips, PayInv, PayTypeOK
<1>k. UNCHANGED <<admin, held>> => Plans'
  BY DEF Plans
<1>y. ASSUME UNCHANGED Recharge, Fault \/ NoFault,
             NoWrite \/ (order.status \in Settled /\ \E s \in Settled : Write(s))
      PROVE  PayInv'
  BY <1>t, <1>y, SettledRow, PayFaultEffect
<1>1. CASE PayNext /\ UNCHANGED refundVars
  BY <1>1, <1>k, <1>t, PayInvNext, RefundTypes DEF slips, refundVars
<1>2. CASE RequestRefund
  <2>1. PayInv'
    BY <1>2, <1>y DEF RequestRefund, NoFault, Settled, RefundStatuses
  <2> QED BY <1>2, <1>k, <1>t, <2>1, RefundTypes DEF slips, RequestRefund, refundVars
<1>3. CASE GatewayDecides
  <2>1. PayInv'
    BY <1>3, <1>y DEF GatewayDecides, payVars, NoWrite, Recharge, NoFault
  <2>2. gateway' \in GatewayType
    BY <1>3, <1>t, DecideEffect DEF GatewayDecides
  <2>3. cash' \in {cash, cash + gateway.amt} /\ gateway.amt \in Nat
    BY <1>3, <1>t, RefundAssumption DEF GatewayDecides, GatewayType
  <2>4. cash' \in Nat
    BY <1>t, <2>3
  <2> QED BY <1>3, <1>k, <1>t, <2>1, <2>2, <2>4, RefundTypes DEF slips, GatewayDecides
<1>4. ASSUME NEW q \in Queriers, QueryRefund(q) \/ StillPending(q) PROVE PayInv' /\ RefundTypeOK' /\ Plans'
  <2>1. PayInv'
    BY <1>4, <1>y DEF QueryRefund, StillPending, payVars, NoWrite, Recharge, NoFault
  <2>2. query' \in [Queriers -> QueryType]
    <3>1. gateway.state \in QueryType \/ ~QueryRefund(q)
      BY <1>t DEF QueryRefund, PendingStage, GatewayType, QueryType
    <3> QED BY <1>4, <1>t, <3>1, QueryEffect DEF QueryRefund, StillPending, QueryType
  <2> QED BY <1>4, <1>k, <1>t, <2>1, <2>2, RefundTypes DEF slips, QueryRefund, StillPending
<1>5. ASSUME NEW q \in Queriers, FinalizeOk(q) \/ FinalizeFailed(q) PROVE PayInv' /\ RefundTypeOK' /\ Plans'
  <2>1. PayInv'
    BY <1>5, <1>y DEF FinalizeOk, FinalizeFailed, Failing, Settled, RefundStatuses, FinalStatus
  <2>2. query' \in [Queriers -> QueryType]
    BY <1>5, <1>t, QueryEffect DEF FinalizeOk, FinalizeFailed, QueryType
  <2>3. /\ refunded' \in {refunded, held.cum, held.cum - held.amt}
        /\ clawed' \in {clawed, clawed - held.taken, clawed - 0}
        /\ audits' \subseteq audits \cup {"SUCCESS", "FAILED", "ROLLBACK_FAILED"}
    BY <1>5 DEF FinalizeOk, FinalizeFailed, Failing
  <2>4. /\ held.cum \in 0 .. Amount /\ held.amt \in 0 .. Amount /\ held.taken \in 0 .. Amount
        /\ held.amt <= held.cum /\ Amount \in Nat
    BY <1>t, PlanTypes, RefundAssumption DEF HeldType
  <2>5. refunded' \in 0 .. Amount /\ clawed' \in Int
    BY <1>t, <2>3, <2>4
  <2>6. audits' \subseteq AuditType
    BY <1>t, <2>3 DEF AuditType
  <2> QED BY <1>5, <1>k, <1>t, <2>1, <2>2, <2>5, <2>6, RefundTypes DEF slips, FinalizeOk, FinalizeFailed
<1>6. CASE UNCHANGED vars
  <2>1. PayInv'
    BY <1>6, <1>y DEF vars, payVars, NoWrite, Recharge, NoFault
  <2> QED BY <1>6, <1>k, <1>t, <2>1, RefundTypes DEF slips, vars, refundVars
<1> QED BY <1>1, <1>2, <1>3, <1>4, <1>5, <1>6 DEF Finalize

\* Who takes a step.
LEMMA RefundActors ==
  ASSUME [Next]_vars
  PROVE  \/ \E a \in Admins : RefundStep(a)
         \/ PayNext /\ UNCHANGED refundVars
         \/ RequestRefund \/ GatewayDecides \/ \E q \in Queriers : Finalize(q)
         \/ UNCHANGED vars
BY DEF Next, RefundNext, RefundStep, Planned

\* A step that leaves the admins alone.
LEMMA OtherSteps ==
  ASSUME PayInv,
         \/ PayNext /\ UNCHANGED refundVars
         \/ RequestRefund \/ GatewayDecides \/ \E q \in Queriers : Finalize(q)
         \/ UNCHANGED vars
  PROVE  /\ UNCHANGED <<admin, held, astray>>
         /\ order.status = "refunding" => order'.status = "refunding"
         /\ order'.status \in {"refunding", "refund_pending"} => order'.status = order.status
         /\ order.status \in Refundable /\ order'.status # order.status => order'.status \in Refundable
<1>1. CASE PayNext /\ UNCHANGED refundVars
  BY <1>1, PayStatus DEF refundVars, Settled, RefundStatuses, Refundable
<1>2. \A s \in Settled : Write(s) => order'.status = s
  BY WriteEffect DEF PayInv, Statuses
<1>3. CASE RequestRefund
  BY <1>2, <1>3 DEF RequestRefund, refundVars, Settled, RefundStatuses, Refundable
<1>4. CASE GatewayDecides \/ UNCHANGED vars
  BY <1>4 DEF GatewayDecides, payVars, refundVars, vars
<1>5. ASSUME NEW q \in Queriers, Finalize(q)
      PROVE  /\ UNCHANGED <<admin, held, astray>>
             /\ UNCHANGED order \/ (order.status = "refund_pending" /\ order'.status \notin {"refunding", "refund_pending"})
  BY <1>2, <1>5 DEF Finalize, QueryRefund, StillPending, FinalizeOk, FinalizeFailed, Failing,
     FinalStatus,
     NoWrite, payVars, Settled, RefundStatuses
<1> QED BY <1>1, <1>3, <1>4, <1>5 DEF Refundable

\* An admin's step leaves the other plans alone.
LEMMA PlansApart ==
  ASSUME PayInv, RefundTypeOK, Plans, OneRefund, NEW a \in Admins, RefundStep(a)
  PROVE  OtherPlans(a)
<1>1. admin' \in [Admins -> PlanType] /\ admin \in [Admins -> PlanType]
  BY AdminTypes, PlanTypes
<1>2. /\ \A pc : AdminTo(a, pc) => OtherPlans(a)
      /\ AdminDone(a) => OtherPlans(a)
      /\ \A n : Taken(a, n) => OtherPlans(a)
      /\ \A amt : Prepare(a, amt) => OtherPlans(a)
  BY <1>1 DEF AdminTo, AdminDone, Taken, Prepare, OtherPlans
<1> QED BY <1>2 DEF RefundStep, Planned, Execute, Lock, Deduct, Gateway, Skip, Repeat, Refund,
   MarkRefundOk, MarkRefundPending, Rollback, Restore, RefundFailed, AdminCrash, WriteAudit

\* REFUNDING lets one request through at a time.
LEMMA OneRefundStep ==
  ASSUME PayInv, RefundTypeOK, Plans, OneRefund, [Next]_vars
  PROVE  OneRefund'
<1>1. ASSUME NEW a \in Admins, RefundStep(a) PROVE OneRefund'
  <2>e. /\ \A s \in Settled : Write(s) => order'.status = s
        /\ NoWrite => order'.status = order.status
        /\ \A pc \in AdminPcs : AdminTo(a, pc) => admin'[a].pc = pc
        /\ AdminDone(a) => admin'[a].pc = "idle"
    BY StepEffects DEF PlanAt, PlanOver
  <2>o. \A b \in Admins \ {a} : admin'[b] = admin[b]
    BY <1>1, PlansApart DEF OtherPlans
  <2>f. ASSUME \A b \in Admins \ {a} : ~Executing(b),
               admin'[a].pc \in {"idle", "lock"} \/ order'.status = "refunding"
        PROVE  OneRefund'
    BY <2>f, <2>o DEF OneRefund, Executing
  <2>1. CASE Planned(a)
    <3>1. order' = order /\ admin'[a].pc = "lock"
      BY <2>1, PlanTypes DEF Planned, Prepare, payVars
    <3> QED BY <2>o, <3>1 DEF OneRefund, Executing
  <2>2. CASE Lock(a)
    <3>1. CASE order.status \in Refundable
      <4>1. \A b \in Admins \ {a} : ~Executing(b)
        BY <3>1 DEF OneRefund, Refundable
      <4>2. admin'[a].pc = "idle" \/ order'.status = "refunding"
        BY <2>2, <2>e DEF Lock, Settled, RefundStatuses
      <4> QED BY <2>f, <4>1, <4>2
    <3>2. CASE order.status \notin Refundable
      <4>1. order'.status = order.status /\ admin'[a].pc = "idle"
        BY <2>2, <2>e, <3>2 DEF Lock
      <4> QED BY <2>o, <4>1 DEF OneRefund, Executing
    <3> QED BY <3>1, <3>2
  <2>3. CASE Deduct(a) \/ Gateway(a) \/ Rollback(a)
    <3>1. Executing(a) /\ order' = order
      BY <2>3 DEF Deduct, Gateway, Skip, Repeat, Refund, Rollback, Executing
    <3> QED BY <2>f, <3>1 DEF OneRefund
  <2>4. CASE \/ MarkRefundOk(a) \/ MarkRefundPending(a) \/ Restore(a) \/ RefundFailed(a) \/ AdminCrash(a)
    <3>1. Executing(a) /\ admin'[a].pc = "idle"
      BY <2>4, <2>e DEF MarkRefundOk, MarkRefundPending, Restore, RefundFailed, AdminCrash,
         Executing, WriteAudit
    <3> QED BY <2>f, <3>1 DEF OneRefund
  <2> QED BY <1>1, <2>1, <2>2, <2>3, <2>4 DEF RefundStep, Execute
<1>2. CASE UNCHANGED admin /\ (order.status = "refunding" => order'.status = "refunding")
  BY <1>2 DEF OneRefund, Executing
<1> QED BY <1>1, <1>2, RefundActors, OtherSteps

\* What went astray stays so.
LEMMA AstrayStays == ASSUME PayInv, [Next]_vars PROVE astray => astray'
<1>1. ASSUME NEW a \in Admins, RefundStep(a), astray PROVE astray'
  BY <1>1 DEF RefundStep, Planned, Prepare, Execute, Lock, Deduct, Gateway, Skip, Repeat, Refund,
     MarkRefundOk, MarkRefundPending, Rollback, Restore, RefundFailed, AdminCrash, WriteAudit
<1> QED BY <1>1, RefundActors, OtherSteps

\* A gateway that has accepted a pending refund does not forget it.
LEMMA GatewayMoves ==
  ASSUME RefundTypeOK, Plans, [Next]_vars
  PROVE  \/ UNCHANGED gateway
         \/ /\ gateway.state = "pending" /\ gateway'.state \in {"success", "failed"}
            /\ gateway'.keys = gateway.keys /\ gateway'.amt = gateway.amt /\ gateway'.keyed = gateway.keyed
         \/ \E a \in Admins : Gateway(a) /\ admin[a].amt \in 1 .. Amount
<1>t. gateway \in GatewayType
  BY RefundTypes
<1>1. CASE GatewayDecides
  BY <1>1, <1>t, DecideEffect DEF GatewayDecides
<1>2. ASSUME NEW a \in Admins, Gateway(a) PROVE admin[a].amt \in 1 .. Amount
  <2>1. admin[a].amt > 0 /\ admin[a].amt \in Nat /\ admin[a].amt <= Amount /\ Amount \in Nat
    BY <1>2, PlanTypes, PlanAmounts DEF Gateway, Skip, Repeat, Refund
  <2> QED BY <2>1
<1>3. ASSUME NEW a \in Admins, RefundStep(a), ~Gateway(a) PROVE UNCHANGED gateway
  BY <1>3 DEF RefundStep, Planned, Prepare, Execute, Lock, Deduct, MarkRefundOk, MarkRefundPending,
     Rollback, Restore, RefundFailed, AdminCrash, WriteAudit
<1>4. ASSUME NEW q \in Queriers, Finalize(q) PROVE UNCHANGED gateway
  BY <1>4 DEF Finalize, QueryRefund, StillPending, FinalizeOk, FinalizeFailed
<1>5. CASE (PayNext /\ UNCHANGED refundVars) \/ RequestRefund \/ UNCHANGED vars
  BY <1>5 DEF RequestRefund, refundVars, vars
<1> QED BY <1>1, <1>2, <1>3, <1>4, <1>5, RefundActors

\* A refund is pending once, after the gateway has accepted it.
LEMMA PendingStep ==
  ASSUME PayInv, RefundTypeOK, Plans, OneRefund, PendingStage, DeductionStage, [Next]_vars
  PROVE  PendingStage'
<1>t. /\ gateway \in GatewayType /\ query \in [Queriers -> QueryType] /\ admin \in [Admins -> PlanType]
      /\ held \in HeldType
  BY RefundTypes, PlanTypes
<1>1. gateway'.state = "none" =>
        /\ \A x \in 1 .. Amount : <<x, "pending">> \notin gateway'.keys
        /\ \A a \in Admins : admin'[a].pc # "pending"
        /\ order'.status # "refund_pending"
  <2> SUFFICES ASSUME gateway'.state = "none"
               PROVE  /\ \A x \in 1 .. Amount : <<x, "pending">> \notin gateway'.keys
                      /\ \A a \in Admins : admin'[a].pc # "pending"
                      /\ order'.status # "refund_pending"
    OBVIOUS
  <2>1. CASE \E a \in Admins : Gateway(a) /\ admin[a].amt \in 1 .. Amount
    <3>1. PICK a \in Admins : Gateway(a) /\ admin[a].amt \in 1 .. Amount
      BY <2>1
    <3>2. gateway.state = "none" /\ admin'[a].pc # "pending" /\ gateway'.keys \subseteq gateway.keys \cup {<<admin[a].amt, "ok">>}
      <4>e. \A pc \in AdminPcs : AdminTo(a, pc) => admin'[a].pc = pc
        BY StepEffects DEF PlanAt
      <4>1. CASE UNCHANGED gateway
        <5>1. ~ <<admin[a].amt, "pending">> \in gateway.keys
          BY <3>1, <4>1 DEF PendingStage
        <5>2. gateway' # [Remember(admin[a].amt, "pending") EXCEPT !.amt = admin[a].amt, !.state = "pending"]
          BY <1>t, <3>1, RememberEffect
        <5> QED BY <3>1, <4>1, <4>e, <5>1, <5>2 DEF Gateway, Skip, Repeat, Refund, AdminPcs
      <4>2. CASE gateway' = Remember(admin[a].amt, "ok") /\ (AdminTo(a, "ok") \/ AdminTo(a, "rollback"))
        BY <1>t, <3>1, <4>2, <4>e, RememberEffect DEF AdminPcs
      <4>3. gateway' # [Remember(admin[a].amt, "pending") EXCEPT !.amt = admin[a].amt, !.state = "pending"]
        BY <1>t, <3>1, RememberEffect
      <4> QED BY <3>1, <4>1, <4>2, <4>3 DEF Gateway, Skip, Repeat, Refund
    <3>3. OtherPlans(a) /\ order' = order
      BY <3>1, PlansApart DEF Gateway, Skip, Repeat, Refund, RefundStep, Execute
    <3> QED BY <3>2, <3>3 DEF PendingStage, OtherPlans
  <2>2. CASE UNCHANGED gateway
    <3>n. /\ \A x \in 1 .. Amount : <<x, "pending">> \notin gateway.keys
          /\ \A a \in Admins : admin[a].pc # "pending"
          /\ order.status # "refund_pending"
      BY <2>2 DEF PendingStage
    <3>1. ASSUME NEW a \in Admins, RefundStep(a), ~(Gateway(a) /\ admin[a].amt \in 1 .. Amount)
          PROVE  admin'[a].pc # "pending" /\ order'.status # "refund_pending"
      <4>e. /\ \A s \in Settled : Write(s) => order'.status = s
            /\ NoWrite => order'.status = order.status
            /\ \A pc \in AdminPcs : AdminTo(a, pc) => admin'[a].pc = pc
            /\ AdminDone(a) => admin'[a].pc = "idle"
        BY StepEffects DEF PlanAt, PlanOver
      <4>1. CASE Planned(a)
        BY <3>n, <4>1, <1>t DEF Planned, Prepare, payVars
      <4>2. CASE Lock(a)
        BY <3>n, <4>2, <4>e DEF Lock, AdminPcs, Settled, RefundStatuses
      <4>3. CASE Deduct(a)
        <5>1. \A n : Taken(a, n) => admin'[a].pc = "gateway"
          BY <1>t DEF Taken, PlanType
        <5>2. order' = order /\ ((\E n : Taken(a, n)) \/ AdminTo(a, "restore"))
          BY <4>3 DEF Deduct
        <5> QED BY <3>n, <4>e, <5>1, <5>2 DEF AdminPcs
      <4>4. CASE Rollback(a)
        BY <3>n, <4>4, <4>e DEF Rollback, AdminPcs
      <4>5. CASE MarkRefundOk(a) \/ RefundFailed(a) \/ AdminCrash(a)
        BY <3>n, <4>5, <4>e DEF MarkRefundOk, RefundFailed, AdminCrash, FinalStatus, Settled,
           RefundStatuses, WriteAudit
      <4>6. CASE Restore(a)
        BY <3>n, <4>6, <4>e DEF Restore, Settled, RefundStatuses
      <4>7. ~MarkRefundPending(a)
        BY <3>n DEF MarkRefundPending
      <4>8. ~Gateway(a)
        BY <3>1, PlanTypes, PlanAmounts DEF Gateway, Skip, Repeat, Refund
      <4> QED BY <3>1, <4>1, <4>2, <4>3, <4>4, <4>5, <4>6, <4>7, <4>8 DEF RefundStep, Execute
    <3>2. ASSUME NEW a \in Admins, RefundStep(a), ~(Gateway(a) /\ admin[a].amt \in 1 .. Amount)
          PROVE  (\A b \in Admins : admin'[b].pc # "pending") /\ order'.status # "refund_pending"
      BY <3>n, <3>1, <3>2, PlansApart DEF OtherPlans
    <3> QED BY <2>1, <2>2, <3>n, <3>2, RefundActors, OtherSteps
  <2> QED BY <2>1, <2>2, GatewayMoves
<1>2. "PENDING" \notin audits' => \A q \in Queriers : query'[q] = "idle"
  <2>1. audits \subseteq audits'
    <3>1. ASSUME NEW a \in Admins, RefundStep(a) PROVE audits \subseteq audits'
      BY <3>1 DEF RefundStep, Planned, Prepare, Execute, Lock, Deduct, Gateway, Skip, Repeat,
         Refund, MarkRefundOk, MarkRefundPending, Rollback, Restore, RefundFailed, AdminCrash,
         WriteAudit
    <3>2. ASSUME NEW q \in Queriers, Finalize(q) PROVE audits \subseteq audits'
      BY <3>2 DEF Finalize, QueryRefund, StillPending, FinalizeOk, FinalizeFailed, Failing
    <3>3. CASE (PayNext /\ UNCHANGED refundVars) \/ RequestRefund \/ GatewayDecides \/ UNCHANGED vars
      BY <3>3 DEF RequestRefund, GatewayDecides, refundVars, vars
    <3> QED BY <3>1, <3>2, <3>3, RefundActors
  <2>2. \A q \in Queriers : Finalize(q) => "PENDING" \in audits
    <3>1. ASSUME NEW q \in Queriers, QueryRefund(q) PROVE "PENDING" \in audits
      BY <3>1 DEF QueryRefund, PendingStage, PendingKeepsDeduction
    <3>2. ASSUME NEW q \in Queriers, StillPending(q) \/ FinalizeOk(q) \/ FinalizeFailed(q)
          PROVE  "PENDING" \in audits
      BY <3>2 DEF StillPending, FinalizeOk, FinalizeFailed, PendingStage
    <3> QED BY <3>1, <3>2 DEF Finalize
  <2>3. \A a \in Admins : RefundStep(a) => query' = query
    BY DEF RefundStep, Planned, Prepare, Execute, Lock, Deduct, Gateway, Skip, Repeat, Refund,
       MarkRefundOk, MarkRefundPending, Rollback, Restore, RefundFailed, AdminCrash, WriteAudit
  <2>4. (PayNext /\ UNCHANGED refundVars) \/ RequestRefund \/ GatewayDecides \/ UNCHANGED vars => query' = query
    BY DEF RequestRefund, GatewayDecides, refundVars, vars
  <2> QED BY <2>1, <2>2, <2>3, <2>4, RefundActors DEF PendingStage
<1>3. PendingKeepsDeduction'
  <2> SUFFICES ASSUME order'.status = "refund_pending"
               PROVE  "PENDING" \in audits' /\ refunded' = held'.cum /\ (~astray' => clawed' >= held'.taken)
    BY DEF PendingKeepsDeduction
  <2>k. ASSUME order.status = "refund_pending", UNCHANGED <<audits, refunded, held, clawed, astray>>
        PROVE  "PENDING" \in audits' /\ refunded' = held'.cum /\ (~astray' => clawed' >= held'.taken)
    BY <2>k DEF PendingStage, PendingKeepsDeduction
  <2>1. ASSUME NEW a \in Admins, RefundStep(a)
        PROVE  "PENDING" \in audits' /\ refunded' = held'.cum /\ (~astray' => clawed' >= held'.taken)
    <3>e. /\ \A s \in Settled : Write(s) => order'.status = s
          /\ NoWrite => order'.status = order.status
      BY StepEffects
    <3>r. Executing(a) => order.status # "refund_pending"
      BY DEF OneRefund
    <3>1. CASE MarkRefundPending(a)
      <4>1. ~NoWrite
        BY <3>e, <3>r, <3>1 DEF MarkRefundPending, Executing
      <4>2. /\ "PENDING" \in audits' /\ refunded' = admin[a].cum /\ clawed' = clawed /\ astray' = astray
            /\ held' = [amt |-> admin[a].amt, cum |-> admin[a].cum, taken |-> admin[a].taken]
        BY <3>1, <4>1 DEF MarkRefundPending
      <4>3. held'.cum = admin[a].cum /\ held'.taken = admin[a].taken
        BY <4>2
      <4>4. ~astray => clawed >= admin[a].taken
        BY <3>1 DEF MarkRefundPending, DeductionStage
      <4> QED BY <4>2, <4>3, <4>4
    <3>2. CASE Planned(a) \/ Lock(a)
      <4>1. order.status = "refund_pending" /\ UNCHANGED <<audits, refunded, held, clawed, astray>>
        BY <3>2, <3>e DEF Planned, Prepare, Lock, payVars, Settled, RefundStatuses
      <4> QED BY <2>k, <4>1
    <3>3. CASE Deduct(a) \/ Gateway(a) \/ Rollback(a) \/ AdminCrash(a)
      BY <3>3, <3>r DEF Deduct, Gateway, Skip, Repeat, Refund, Rollback, AdminCrash, Executing
    <3>4. CASE MarkRefundOk(a) \/ RefundFailed(a)
      BY <3>4, <3>e, <3>r DEF MarkRefundOk, RefundFailed, Executing, FinalStatus, Settled,
         RefundStatuses, WriteAudit
    <3>5. CASE Restore(a)
      BY <3>5, <3>e, <3>r DEF Restore, Executing, Settled, RefundStatuses
    <3> QED BY <2>1, <3>1, <3>2, <3>3, <3>4, <3>5 DEF RefundStep, Execute
  <2>2. ASSUME NEW q \in Queriers, Finalize(q)
        PROVE  "PENDING" \in audits' /\ refunded' = held'.cum /\ (~astray' => clawed' >= held'.taken)
    <3>1. order.status = "refund_pending" /\ UNCHANGED <<held, astray>>
      BY <2>2, OtherSteps
    <3>2. \A s \in Settled : Write(s) => order'.status = s
      BY StepEffects
    <3>3. UNCHANGED <<audits, refunded, clawed>>
      BY <2>2, <3>2 DEF Finalize, QueryRefund, StillPending, FinalizeOk, FinalizeFailed, Failing,
         FinalStatus, Settled, RefundStatuses
    <3> QED BY <2>k, <3>1, <3>3
  <2>3. CASE (PayNext /\ UNCHANGED refundVars) \/ RequestRefund \/ GatewayDecides \/ UNCHANGED vars
    <3>1. order.status = "refund_pending" /\ UNCHANGED <<held, astray>>
      BY <2>3, OtherSteps
    <3>2. UNCHANGED <<audits, refunded, clawed>>
      BY <2>3 DEF RequestRefund, GatewayDecides, refundVars, vars
    <3> QED BY <2>k, <3>1, <3>2
  <2> QED BY <2>1, <2>2, <2>3, RefundActors
<1> QED BY <1>1, <1>2, <1>3 DEF PendingStage

Deducted == {"gateway", "ok", "pending", "rollback"}

\* A deduction is given back only by the refund that made it.
LEMMA DeductionStep ==
  ASSUME PayInv, RefundTypeOK, Plans, OneRefund, PendingStage, DeductionStage, [Next]_vars
  PROVE  DeductionStage'
<1> SUFFICES ASSUME ~astray' PROVE DeductionStage'
  BY DEF DeductionStage
<1>n. ~astray
  BY AstrayStays
<1>d. clawed >= 0 /\ \A a \in Admins : admin[a].pc \in Deducted => clawed >= admin[a].taken
  BY <1>n DEF DeductionStage, Deducted
<1>q. ASSUME clawed' >= 0, \A a \in Admins : admin'[a].pc \in Deducted => clawed' >= admin'[a].taken
      PROVE  DeductionStage'
  BY <1>q DEF DeductionStage, Deducted
<1>t. clawed \in Int /\ held \in HeldType
  BY RefundTypes
<1>1. ASSUME NEW a \in Admins, RefundStep(a) PROVE DeductionStage'
  <2>o. \A b \in Admins \ {a} : admin'[b] = admin[b]
    BY <1>1, PlansApart DEF OtherPlans
  <2>p. admin[a].amt \in Nat /\ admin[a].taken \in Nat /\ Amount \in Nat /\ admin[a].amt <= Amount
    BY PlanTypes, PlanAmounts
  <2>e. /\ \A pc \in AdminPcs : AdminTo(a, pc) => admin'[a].pc = pc /\ admin'[a].taken = admin[a].taken
        /\ AdminDone(a) => admin'[a].pc = "idle"
        /\ \A n \in 0 .. Amount : Taken(a, n) => admin'[a].taken = n /\ clawed' = clawed + n
    BY StepEffects DEF PlanAt, PlanOver, Taken
  <2>x. Executing(a) => \A b \in Admins \ {a} : admin[b].pc \notin Deducted
    BY DEF OneRefund, Executing, Deducted
  <2>1. CASE Planned(a) \/ Lock(a)
    <3>1. UNCHANGED clawed /\ admin'[a].pc \notin Deducted
      <4>1. CASE Planned(a)
        BY <4>1, PlanTypes DEF Planned, Prepare, Deducted
      <4>2. CASE Lock(a)
        BY <2>e, <4>2 DEF Lock, AdminPcs, Deducted
      <4> QED BY <2>1, <4>1, <4>2
    <3> QED BY <1>d, <1>q, <2>o, <3>1
  <2>2. CASE Deduct(a)
    <3>1. CASE \E n \in 0 .. Amount : Taken(a, n)
      <4>1. PICK n \in 0 .. Amount : Taken(a, n)
        BY <3>1
      <4>2. clawed' >= 0 /\ clawed' >= admin'[a].taken
        BY <1>d, <1>t, <2>e, <4>1, RefundAssumption
      <4> QED BY <1>q, <2>2, <2>o, <2>x, <4>2 DEF Deduct, Executing
    <3>2. CASE AdminTo(a, "restore") /\ UNCHANGED clawed
      <4>1. admin'[a].pc = "restore"
        BY <2>e, <3>2 DEF AdminPcs
      <4> QED BY <1>d, <1>q, <2>2, <2>o, <2>x, <3>2, <4>1 DEF Deduct, Executing, Deducted
    <3>3. 0 \in 0 .. Amount /\ 0 .. admin[a].amt \subseteq 0 .. Amount
      BY <2>p
    <3> QED BY <2>2, <3>1, <3>2, <3>3 DEF Deduct
  <2>3. CASE Gateway(a)
    <3>1. UNCHANGED clawed /\ admin'[a].taken = admin[a].taken /\ admin[a].pc \in Deducted
      BY <2>3, <2>e DEF Gateway, Skip, Repeat, Refund, AdminPcs, Deducted
    <3> QED BY <1>d, <1>q, <2>o, <3>1
  <2>4. CASE Rollback(a)
    <3>1. admin'[a].pc \notin Deducted /\ clawed' \in {clawed, clawed - admin[a].taken}
      BY <2>4, <2>e DEF Rollback, AdminPcs, Deducted
    <3>2. clawed >= admin[a].taken
      BY <1>d, <2>4 DEF Rollback, Deducted
    <3>3. clawed' >= 0
      BY <1>d, <1>t, <2>p, <3>1, <3>2
    <3> QED BY <1>q, <2>4, <2>o, <2>x, <3>1, <3>3 DEF Rollback, Executing
  <2>5. CASE \/ MarkRefundOk(a) \/ MarkRefundPending(a) \/ Restore(a) \/ RefundFailed(a) \/ AdminCrash(a)
    <3>1. UNCHANGED clawed /\ admin'[a].pc = "idle"
      BY <2>5, <2>e DEF MarkRefundOk, MarkRefundPending, Restore, RefundFailed, AdminCrash, WriteAudit
    <3> QED BY <1>d, <1>q, <2>o, <3>1 DEF Deducted
  <2> QED BY <1>1, <2>1, <2>2, <2>3, <2>4, <2>5 DEF RefundStep, Execute
<1>2. ASSUME NEW q \in Queriers, FinalizeFailed(q) PROVE DeductionStage'
  <2>1. CASE UNCHANGED clawed
    BY <1>2, <1>d, <1>q, <2>1 DEF FinalizeFailed
  <2>2. CASE order.status = "refund_pending" /\ clawed' \in {clawed - held.taken, clawed - 0}
    <3>1. clawed >= held.taken /\ held.taken \in Nat
      BY <1>n, <1>t, <2>2, RefundAssumption DEF PendingStage, PendingKeepsDeduction, HeldType
    <3>2. clawed' >= 0
      BY <1>d, <1>t, <2>2, <3>1
    <3>3. \A a \in Admins : admin[a].pc \notin Deducted
      BY <2>2 DEF OneRefund, Executing, Deducted
    <3> QED BY <1>2, <1>q, <3>2, <3>3 DEF FinalizeFailed
  <2> QED BY <1>2, <2>1, <2>2 DEF FinalizeFailed, Failing
<1>3. ASSUME UNCHANGED <<clawed, admin>> PROVE DeductionStage'
  BY <1>3, <1>d, <1>q
<1>4. ASSUME NEW q \in Queriers, Finalize(q), ~FinalizeFailed(q) PROVE UNCHANGED <<clawed, admin>>
  BY <1>4 DEF Finalize, QueryRefund, StillPending, FinalizeOk
<1>5. (PayNext /\ UNCHANGED refundVars) \/ RequestRefund \/ GatewayDecides \/ UNCHANGED vars =>
        UNCHANGED <<clawed, admin>>
  BY DEF RequestRefund, GatewayDecides, refundVars, vars
<1> QED BY <1>1, <1>2, <1>3, <1>4, <1>5, RefundActors

LEMMA RefundInvInit == Init => PayInv /\ RefundInvariant
<1> SUFFICES ASSUME Init PROVE PayInv /\ RefundInvariant
  OBVIOUS
<1>1. PayInv
  BY PayInvInit DEF Init
<1>2. 0 \in 0 .. Amount
  BY RefundAssumption
<1>3. NoPlan \in PlanType /\ NoPlan.pc = "idle" /\ NoPlan.amt <= NoPlan.cum
  BY <1>2 DEF NoPlan, PlanType, TradeNos, AdminPcs, Refundable
<1>4. Plans
  <2>1. admin \in [Admins -> PlanType] /\ \A a \in Admins : admin[a] = NoPlan
    BY <1>3 DEF Init
  <2> QED BY <1>3, <2>1, PlanTypes DEF Init
<1>5. RefundTypeOK
  <2>1. gateway \in GatewayType
    BY <1>2 DEF Init, GatewayType
  <2>2. refunded \in 0 .. Amount /\ clawed \in Int /\ cash \in Nat /\ held \in HeldType
    BY <1>2 DEF Init, HeldType
  <2>3. /\ audits \subseteq AuditType /\ query \in [Queriers -> QueryType] /\ astray \in BOOLEAN
        /\ skipped \in Nat /\ repeated \in Nat /\ untold \in Nat
    BY DEF Init, QueryType
  <2> QED BY <2>1, <2>2, <2>3, RefundTypes
<1>6. \A a \in Admins : admin[a].pc = "idle"
  BY DEF Init, NoPlan
<1>7. OneRefund /\ DeductionStage
  BY <1>6 DEF OneRefund, DeductionStage, Executing, Init
<1>8. PendingStage
  BY <1>6 DEF PendingStage, PendingKeepsDeduction, Init, PayInit
<1> QED BY <1>1, <1>4, <1>5, <1>7, <1>8 DEF RefundInvariant, TypeOK, PayInv

\* Every step preserves the invariant of recharge and refund.
LEMMA RefundInvNext ==
  ASSUME PayInv, RefundInvariant, [Next]_vars
  PROVE  PayInv' /\ RefundInvariant'
<1>0. RefundTypeOK /\ Plans /\ OneRefund /\ PendingStage /\ DeductionStage
  BY DEF RefundInvariant, TypeOK
<1>1. PayInv' /\ RefundTypeOK' /\ Plans'
  BY <1>0, RefundActors, AdminTypes, OtherTypes
<1>2. OneRefund' /\ PendingStage' /\ DeductionStage'
  BY <1>0, OneRefundStep, PendingStep, DeductionStep
<1> QED BY <1>1, <1>2 DEF RefundInvariant, TypeOK, PayInv

\* The invariant of recharge and refund, for any number of handlers, refunding
\* requests, queries and faults.
THEOREM RefundInvariantHolds == Spec => [](PayInv /\ RefundInvariant)
<1>1. (PayInv /\ RefundInvariant) /\ [Next]_vars => (PayInv /\ RefundInvariant)'
  BY RefundInvNext
<1> QED BY <1>1, RefundInvInit, PTL DEF Spec

\* A refund that the gateway still works on, or has decided and nobody has asked, keeps
\* the deduction that was made for it, whatever other requests and queries do.
THEOREM PendingDeductionsAreKept == Spec => []PendingKeepsDeduction
<1>1. PayInv /\ RefundInvariant => PendingKeepsDeduction
  BY DEF RefundInvariant, PendingStage
<1> QED BY <1>1, RefundInvariantHolds, PTL

\* Every variable of an order that is recharged and refunded keeps its type.
THEOREM RefundTypeCorrect == Spec => []TypeOK
<1>1. PayInv /\ RefundInvariant => TypeOK
  BY DEF RefundInvariant
<1> QED BY <1>1, RefundInvariantHolds, PTL

-----------------------------------------------------------------------------
(* The books of the refunds.  Two requests that plan at the same time       *)
(* count from the same refunded amount, and the second total overwrites    *)
(* the first, so the books are kept for one refunding request at a time.   *)

OneAdmin == \A a, b \in Admins : a = b

SettledBooks == CashFits(refunded) /\ ClawFits(Accounted, refunded) /\ NothingPends

Paid(a) == ClawFits(Accounted, admin[a].cum) /\ ClawFits(Accounted - admin[a].taken, refunded)

PendingBooks ==
  /\ CashPends(held.cum, held.amt)
  /\ ClawFits(Accounted, held.cum) /\ ClawFits(Accounted - held.taken, held.cum - held.amt)
  /\ \A q \in Queriers : query[q] \in {"success", "failed"} => query[q] = gateway.state

\* What the gateway remembers: nothing, if it tells equal amounts apart.
KeysBooks == ~gateway.keyed => gateway.keys = {}

\* A plan starts from the refunded amount.
StartBooks ==
  \A a \in Admins :
    /\ admin[a].pc = "lock" => order.status \in Refundable
    /\ admin[a].pc # "idle" => admin[a].cum = refunded + admin[a].amt

\* The books, part by part.
LEMMA BooksParts ==
  /\ RefundBooks <=>
       /\ KeysBooks /\ StartBooks
       /\ ~astray => /\ order.status \notin {"refunding", "refund_pending"} => SettledBooks
                     /\ \A a \in Admins : PlanBooks(a)
                     /\ order.status = "refund_pending" => PendingBooks
  /\ RefundBooks' <=>
       /\ KeysBooks' /\ StartBooks'
       /\ ~astray' => /\ order'.status \notin {"refunding", "refund_pending"} => SettledBooks'
                      /\ \A a \in Admins : PlanBooks(a)'
                      /\ order'.status = "refund_pending" => PendingBooks'
BY Zenon DEF RefundBooks, KeysBooks, StartBooks, SettledBooks, PendingBooks

\* The books of a plan, by where it stands.
LEMMA PlanBooksParts ==
  ASSUME NEW a \in Admins
  PROVE  /\ admin[a].pc \in {"idle", "lock"} => PlanBooks(a)
         /\ admin[a].pc \in {"deduct", "restore", "fail"} => (PlanBooks(a) <=> SettledBooks)
         /\ admin[a].pc \in {"gateway", "rollback"} =>
              (PlanBooks(a) <=> CashFits(refunded) /\ Paid(a) /\ NothingPends)
         /\ admin[a].pc = "ok" =>
              (PlanBooks(a) <=> CashFits(admin[a].cum) /\ ClawFits(Accounted, admin[a].cum) /\ NothingPends)
         /\ admin[a].pc = "pending" =>
              (PlanBooks(a) <=>
                 ("PENDING" \notin audits => CashPends(admin[a].cum, admin[a].amt) /\ Paid(a)))
BY DEF PlanBooks, SettledBooks, Paid

\* The same, one step later.
LEMMA NextPlanBooksParts ==
  ASSUME NEW a \in Admins
  PROVE  /\ admin'[a].pc \in {"idle", "lock"} => PlanBooks(a)'
         /\ admin'[a].pc \in {"deduct", "restore", "fail"} => (PlanBooks(a)' <=> SettledBooks')
         /\ admin'[a].pc \in {"gateway", "rollback"} =>
              (PlanBooks(a)' <=> CashFits(refunded)' /\ Paid(a)' /\ NothingPends')
         /\ admin'[a].pc = "ok" =>
              (PlanBooks(a)' <=> CashFits(admin[a].cum)' /\ ClawFits(Accounted, admin[a].cum)' /\ NothingPends')
         /\ admin'[a].pc = "pending" =>
              (PlanBooks(a)' <=>
                 ("PENDING" \notin audits' => CashPends(admin[a].cum, admin[a].amt)' /\ Paid(a)'))
BY DEF PlanBooks, SettledBooks, Paid

\* The books depend on nothing but the amounts, the gateway and the audit log.
LEMMA SettledBooksKept ==
  ASSUME SettledBooks, UNCHANGED <<cash, gateway, refunded, clawed, audits, slips>>
  PROVE  SettledBooks'
BY DEF SettledBooks, CashFits, ClawFits, NothingPends, Counted, Accounted, slips

\* A refunding request keeps the books.
LEMMA AdminBooks ==
  ASSUME OneAdmin, PayInv, RefundTypeOK, Plans, OneRefund, PendingStage, RefundBooks,
         NEW a \in Admins, RefundStep(a)
  PROVE  RefundBooks'
<1>t. /\ refunded \in 0 .. Amount /\ clawed \in Int /\ cash \in Nat /\ gateway \in GatewayType
      /\ held \in HeldType /\ admin \in [Admins -> PlanType]
      /\ skipped \in Nat /\ repeated \in Nat /\ untold \in Nat /\ Counted \in Nat /\ Accounted \in Int
  BY RefundTypes, PlanTypes DEF Counted, Accounted
<1>p. /\ admin[a].amt \in Nat /\ admin[a].cum \in Nat /\ admin[a].taken \in Nat /\ Amount \in Nat
      /\ admin[a].amt <= Amount /\ admin[a].cum <= Amount /\ admin[a].taken <= Amount
      /\ admin[a].pc # "idle" => admin[a].amt > 0
      /\ refunded \in Nat
  BY <1>t, PlanTypes, PlanAmounts DEF PlanType
<1>b. /\ KeysBooks
      /\ admin[a].pc = "lock" => order.status \in Refundable
      /\ admin[a].pc # "idle" => admin[a].cum = refunded + admin[a].amt
      /\ ~astray => /\ order.status \notin {"refunding", "refund_pending"} => SettledBooks
                    /\ PlanBooks(a)
  BY BooksParts DEF StartBooks
<1>r. Executing(a) => order.status = "refunding"
  BY DEF OneRefund
<1>e. /\ \A s \in Settled : Write(s) => order'.status = s
      /\ NoWrite => order'.status = order.status
      /\ \A pc \in AdminPcs : AdminTo(a, pc) =>
           /\ admin'[a].pc = pc /\ admin'[a].taken = admin[a].taken
           /\ admin'[a].amt = admin[a].amt /\ admin'[a].cum = admin[a].cum
      /\ AdminDone(a) => admin'[a].pc = "idle"
      /\ \A n \in 0 .. Amount : Taken(a, n) =>
           /\ admin'[a].pc = "gateway" /\ admin'[a].taken = n /\ clawed' = clawed + n
           /\ admin'[a].amt = admin[a].amt /\ admin'[a].cum = admin[a].cum
  BY StepEffects DEF PlanAt, PlanOver, Taken
<1>s. /\ "refunding" \in Settled /\ "refund_pending" \in Settled /\ "refund_failed" \in Settled
      /\ "completed" \in Settled /\ "partially_refunded" \in Settled /\ "refunded" \in Settled
      /\ "refund_requested" \in Settled
      /\ "refunding" \notin Refundable /\ "refund_pending" \notin Refundable
  BY DEF Settled, RefundStatuses, Refundable
<1>n. ~astray' => ~astray
  BY AstrayStays DEF RefundStep, Planned, Next, RefundNext
<1>q. ASSUME KeysBooks', admin'[a].pc = "lock" => order'.status \in Refundable,
             admin'[a].pc # "idle" => admin'[a].cum = refunded' + admin'[a].amt,
             ~astray' => /\ order'.status \notin {"refunding", "refund_pending"} => SettledBooks'
                         /\ PlanBooks(a)'
                         /\ order'.status = "refund_pending" => PendingBooks'
      PROVE  RefundBooks'
  <2>1. \A b \in Admins : b = a
    BY DEF OneAdmin
  <2>2. StartBooks'
    BY <1>q, <2>1 DEF StartBooks
  <2>3. ~astray' => \A b \in Admins : PlanBooks(b)'
    BY <1>q, <2>1
  <2> QED BY <1>q, <2>2, <2>3, BooksParts
<1>g. gateway' = gateway => KeysBooks'
  BY <1>b DEF KeysBooks
<1>1. CASE Planned(a)
  <2>1. PICK amt \in 1 .. Amount : Prepare(a, amt)
    BY <1>1 DEF Planned
  <2>2. UNCHANGED <<payVars, refunded, clawed, cash, gateway, audits, held, query, astray, slips>>
        /\ order.status \in Refundable
    BY <2>1 DEF Prepare
  <2>3. admin'[a].pc = "lock" /\ admin'[a].cum = refunded + admin'[a].amt
    BY <1>t, <2>1 DEF Prepare
  <2>4. order' = order
    BY <2>2 DEF payVars
  <2>5. ~astray' => SettledBooks'
    BY <1>b, <1>s, <2>2, SettledBooksKept
  <2> QED BY <1>q, <1>g, <1>s, <2>2, <2>3, <2>4, <2>5, NextPlanBooksParts
<1>2. CASE Lock(a)
  <2>1. UNCHANGED <<refunded, clawed, cash, gateway, audits, held, query, astray, slips>> /\ order.status \in Refundable
    BY <1>2, <1>b DEF Lock
  <2>2. ~astray' => SettledBooks'
    BY <1>b, <1>s, <2>1, SettledBooksKept
  <2>3. \/ admin'[a].pc = "idle"
        \/ admin'[a].pc = "deduct" /\ admin'[a].amt = admin[a].amt /\ admin'[a].cum = admin[a].cum
    BY <1>2, <1>e DEF Lock, AdminPcs
  <2>4. order'.status # "refund_pending"
    BY <1>2, <1>e, <1>s, <2>1 DEF Lock
  <2>5. admin'[a].pc # "idle" => admin'[a].cum = refunded' + admin'[a].amt
    BY <1>2, <1>b, <2>1, <2>3 DEF Lock
  <2> QED BY <1>q, <1>g, <2>1, <2>2, <2>3, <2>4, <2>5, NextPlanBooksParts
<1>3. CASE Deduct(a)
  <2>1. /\ UNCHANGED <<order, refunded, cash, gateway, audits, held, query, slips>> /\ admin[a].pc = "deduct"
        /\ order.status = "refunding"
    BY <1>3, <1>r DEF Deduct, Executing
  <2>2. ~astray => SettledBooks
    BY <1>b, <2>1, PlanBooksParts
  <2>3. ASSUME NEW n \in 0 .. Amount, Taken(a, n), n <= admin[a].amt, SkipsDeduction => n = 0, ~astray'
        PROVE  PlanBooks(a)'
    <3>1. SettledBooks
      BY <1>n, <2>2, <2>3
    <3>2. CashFits(refunded)' /\ NothingPends'
      BY <2>1, <3>1 DEF SettledBooks, CashFits, NothingPends, Counted, slips
    <3>3. Accounted <= Amount /\ (Accounted <= refunded \/ "ROLLBACK_FAILED" \in audits)
      BY <3>1 DEF SettledBooks, ClawFits
    <3>4. admin[a].cum = refunded + admin[a].amt
      BY <1>b, <2>1
    <3>5. /\ Accounted + n <= Amount /\ (Accounted + n <= admin[a].cum \/ "ROLLBACK_FAILED" \in audits)
          /\ (Accounted + n) - n = Accounted
      <4>1. CASE "ROLLBACK_FAILED" \in audits
        BY <1>t, <2>3, <3>3, <4>1 DEF SkipsDeduction
      <4>2. CASE Accounted <= refunded
        BY <1>p, <1>t, <2>3, <3>4, <4>2
      <4> QED BY <3>3, <4>1, <4>2
    <3>6. /\ admin'[a].pc = "gateway" /\ admin'[a].taken = n /\ clawed' = clawed + n
          /\ admin'[a].cum = admin[a].cum
      BY <1>e, <2>3
    <3>a. Accounted' = Accounted + n
      BY <1>t, <2>1, <3>6 DEF Accounted, slips
    <3>7. Paid(a)'
      BY <2>1, <3>3, <3>5, <3>6, <3>a DEF Paid, ClawFits
    <3> QED BY <3>2, <3>6, <3>7, NextPlanBooksParts
  <2>4. ASSUME AdminTo(a, "restore"), UNCHANGED clawed, ~astray' PROVE PlanBooks(a)'
    <3>1. SettledBooks'
      BY <1>n, <2>1, <2>2, <2>4, SettledBooksKept
    <3>2. admin'[a].pc = "restore"
      BY <1>e, <2>4 DEF AdminPcs
    <3> QED BY <3>1, <3>2, NextPlanBooksParts
  <2>5. 0 \in 0 .. Amount /\ 0 <= admin[a].amt /\ admin[a].amt \in 0 .. Amount
        /\ \A n \in 0 .. admin[a].amt : n \in 0 .. Amount /\ n <= admin[a].amt
    BY <1>p
  <2>6. ~astray' => PlanBooks(a)'
    <3> SUFFICES ASSUME ~astray' PROVE PlanBooks(a)'
      OBVIOUS
    <3>1. \/ SkipsDeduction /\ Taken(a, 0)
          \/ ~SkipsDeduction /\ \E n \in 0 .. admin[a].amt : Taken(a, n)
          \/ AdminTo(a, "restore") /\ UNCHANGED clawed
      BY <1>3 DEF Deduct
    <3> QED BY <2>3, <2>4, <2>5, <3>1
  <2>7. admin'[a].pc # "lock" /\ admin'[a].cum = admin[a].cum /\ admin'[a].amt = admin[a].amt
    <3>1. (\E n \in 0 .. Amount : Taken(a, n)) \/ AdminTo(a, "restore")
      BY <1>3, <2>5 DEF Deduct
    <3> QED BY <1>e, <3>1 DEF AdminPcs
  <2> QED BY <1>b, <1>q, <1>g, <2>1, <2>6, <2>7
<1>4. CASE Gateway(a)
  <2> DEFINE amt == admin[a].amt
             cum == admin[a].cum
  <2>1. /\ UNCHANGED <<order, refunded, clawed, audits, held, query, untold>> /\ admin[a].pc = "gateway"
        /\ order.status = "refunding" /\ amt \in 1 .. Amount
    BY <1>4, <1>p, <1>r DEF Gateway, Skip, Repeat, Refund, Executing
  <2>2. ~astray => CashFits(refunded) /\ Paid(a) /\ NothingPends
    BY <1>b, <2>1, PlanBooksParts
  <2>3. /\ cum = refunded + amt
        /\ admin'[a].pc \in {"ok", "pending", "rollback"} /\ admin'[a].taken = admin[a].taken
        /\ admin'[a].cum = cum /\ admin'[a].amt = amt
    BY <1>4, <1>b, <1>e, <2>1 DEF Gateway, Skip, Repeat, Refund, AdminPcs
  <2>c. ASSUME NEW answer \in {"ok", "pending"}, gateway' = Remember(amt, answer) \/
               gateway' = [Remember(amt, answer) EXCEPT !.amt = amt, !.state = "pending"]
        PROVE  /\ gateway'.keyed = gateway.keyed
               /\ gateway'.keys \subseteq gateway.keys \cup {<<amt, answer>>}
               /\ ~gateway.keyed => gateway'.keys = gateway.keys
    BY <1>t, <2>1, <2>c, RememberKeys
  <2>4. KeysBooks'
    <3>1. CASE UNCHANGED gateway
      BY <1>g, <3>1
    <3>2. CASE ~UNCHANGED gateway
      <4>1. gateway'.keyed = gateway.keyed /\ (~gateway.keyed => gateway'.keys = gateway.keys)
        BY <1>4, <2>c, <3>2 DEF Gateway, Skip, Repeat, Refund
      <4> QED BY <1>b, <4>1 DEF KeysBooks
    <3> QED BY <3>1, <3>2
  <2>5. ASSUME ~astray' PROVE PlanBooks(a)'
    <3>0. CashFits(refunded) /\ Paid(a) /\ NothingPends
      BY <1>n, <2>2, <2>5
    <3>1. Paid(a)'
      BY <2>1, <2>3, <3>0 DEF Paid, ClawFits, Accounted, slips
    <3>2. Counted = refunded /\ (~gateway.keyed => repeated = 0) /\ ClawFits(Accounted, cum)'
      BY <2>3, <3>0, <3>1 DEF CashFits, Paid
    <3>3. Counted + amt = cum /\ cum - amt = refunded
      BY <1>p, <1>t, <2>3, <3>2
    <3>c. /\ UNCHANGED <<cash, skipped, repeated>> => Counted' = Counted
          /\ cash' = cash + amt /\ UNCHANGED <<skipped, repeated>> => Counted' = Counted + amt
          /\ skipped' = skipped + amt /\ UNCHANGED <<cash, repeated>> => Counted' = Counted + amt
          /\ repeated' = repeated + amt /\ UNCHANGED <<cash, skipped>> => Counted' = Counted + amt
      BY <1>p, <1>t DEF Counted
    <3>k. UNCHANGED <<cash, gateway, repeated>> /\ skipped' = skipped + amt /\ AdminTo(a, "ok")
          => PlanBooks(a)'
      <4> SUFFICES ASSUME UNCHANGED <<cash, gateway, repeated>>, skipped' = skipped + amt, AdminTo(a, "ok")
                   PROVE  PlanBooks(a)'
        OBVIOUS
      <4>1. CashFits(admin[a].cum)'
        BY <2>3, <3>2, <3>3, <3>c DEF CashFits
      <4>2. NothingPends'
        BY <2>1, <3>0 DEF NothingPends
      <4>3. admin'[a].pc = "ok"
        BY <1>e DEF AdminPcs
      <4> QED BY <2>3, <3>2, <4>1, <4>2, <4>3, NextPlanBooksParts
    <3>4. CASE /\ <<amt, "ok">> \in gateway.keys /\ UNCHANGED <<cash, gateway, skipped>>
               /\ repeated' = repeated + amt /\ AdminTo(a, "ok")
      <4>1. gateway'.keyed
        BY <1>b, <3>4 DEF KeysBooks
      <4>2. CashFits(admin[a].cum)'
        BY <2>3, <3>3, <3>4, <3>c, <4>1 DEF CashFits
      <4>3. NothingPends'
        BY <2>1, <3>0, <3>4 DEF NothingPends
      <4>4. admin'[a].pc = "ok"
        BY <1>e, <3>4 DEF AdminPcs
      <4> QED BY <2>3, <3>2, <4>2, <4>3, <4>4, NextPlanBooksParts
    <3>5. CASE <<amt, "pending">> \in gateway.keys /\ AdminTo(a, "pending")
      <4>1. "PENDING" \in audits'
        BY <2>1, <3>0, <3>5 DEF NothingPends
      <4>2. admin'[a].pc = "pending"
        BY <1>e, <3>5 DEF AdminPcs
      <4> QED BY <4>1, <4>2, NextPlanBooksParts
    <3>6. CASE /\ cash' = cash + amt /\ gateway' = Remember(amt, "ok") /\ AdminTo(a, "ok")
               /\ UNCHANGED <<skipped, repeated>>
      <4>1. gateway'.keyed = gateway.keyed /\ gateway'.keys \subseteq gateway.keys \cup {<<amt, "ok">>}
        BY <2>c, <3>6
      <4>2. gateway'.state = gateway.state
        BY <1>t, <2>1, <3>6, RememberEffect
      <4>3. NothingPends'
        BY <2>1, <3>0, <4>1, <4>2 DEF NothingPends
      <4>4. CashFits(admin[a].cum)'
        BY <2>3, <3>2, <3>3, <3>6, <3>c, <4>1 DEF CashFits
      <4>5. admin'[a].pc = "ok"
        BY <1>e, <3>6 DEF AdminPcs
      <4> QED BY <2>3, <3>2, <4>3, <4>4, <4>5, NextPlanBooksParts
    <3>7. CASE /\ gateway' = [Remember(amt, "pending") EXCEPT !.amt = amt, !.state = "pending"]
               /\ UNCHANGED <<cash, skipped, repeated>> /\ AdminTo(a, "pending")
      <4>1. gateway'.keyed = gateway.keyed
        BY <2>c, <3>7
      <4>2. gateway'.state = "pending" /\ gateway'.amt = amt
        BY <1>t, <2>1, <3>7, RememberEffect
      <4>3. CashPends(admin[a].cum, admin[a].amt)'
        BY <2>3, <3>2, <3>3, <3>7, <3>c, <4>1, <4>2 DEF CashPends, CashFits
      <4>4. admin'[a].pc = "pending"
        BY <1>e, <3>7 DEF AdminPcs
      <4> QED BY <3>1, <4>3, <4>4, NextPlanBooksParts
    <3>8. CASE UNCHANGED <<cash, gateway, skipped, repeated>> /\ AdminTo(a, "rollback")
      <4>1. CashFits(refunded)' /\ NothingPends'
        BY <2>1, <3>0, <3>8, <3>c DEF CashFits, NothingPends
      <4>2. admin'[a].pc = "rollback"
        BY <1>e, <3>8 DEF AdminPcs
      <4> QED BY <3>1, <4>1, <4>2, NextPlanBooksParts
    <3>9. \/ Skip(a) \/ Repeat(a, "ok") \/ Repeat(a, "pending")
          \/ Refund(a) /\ UNCHANGED <<skipped, repeated>>
      BY <1>4 DEF Gateway
    <3>10. CASE Skip(a) \/ Repeat(a, "ok") \/ Repeat(a, "pending")
      BY <3>4, <3>5, <3>10, <3>k DEF Skip, Repeat
    <3>11. CASE Refund(a) /\ UNCHANGED <<skipped, repeated>>
      BY <2>5, <3>6, <3>7, <3>8, <3>11 DEF Refund
    <3> QED BY <3>9, <3>10, <3>11
  <2> QED BY <1>q, <2>1, <2>3, <2>4, <2>5
<1>5. CASE MarkRefundOk(a)
  <2>1. /\ UNCHANGED <<clawed, cash, gateway, held, query, astray, slips>> /\ admin[a].pc = "ok"
        /\ order.status = "refunding" /\ admin'[a].pc = "idle"
    BY <1>5, <1>e, <1>r DEF MarkRefundOk, Executing, WriteAudit
  <2>2. CASE NoWrite
    <3>1. order'.status = "refunding"
      BY <1>e, <2>1, <2>2
    <3> QED BY <1>q, <1>g, <2>1, <3>1, NextPlanBooksParts
  <2>3. CASE /\ Write(FinalStatus(admin[a].cum)) /\ refunded' = admin[a].cum
             /\ audits' = audits \/ audits' = audits \cup {"SUCCESS"}
    <3>1. order'.status # "refund_pending"
      BY <1>e, <1>s, <2>3 DEF FinalStatus
    <3>2. ASSUME ~astray PROVE SettledBooks'
      <4>1. CashFits(admin[a].cum) /\ ClawFits(Accounted, admin[a].cum) /\ NothingPends
        BY <1>b, <2>1, <3>2, PlanBooksParts
      <4> QED BY <2>1, <2>3, <4>1 DEF SettledBooks, CashFits, ClawFits, NothingPends, Counted,
         Accounted, slips
    <3> QED BY <1>q, <1>g, <2>1, <3>1, <3>2, NextPlanBooksParts
  <2> QED BY <1>5, <2>2, <2>3 DEF MarkRefundOk, WriteAudit
<1>6. CASE MarkRefundPending(a)
  <2>1. /\ UNCHANGED <<clawed, cash, gateway, query, astray, slips>> /\ admin[a].pc = "pending"
        /\ order.status = "refunding" /\ admin'[a].pc = "idle"
    BY <1>6, <1>e, <1>r DEF MarkRefundPending, Executing
  <2>2. CASE NoWrite
    <3>1. order'.status = "refunding"
      BY <1>e, <2>1, <2>2
    <3> QED BY <1>q, <1>g, <2>1, <3>1, NextPlanBooksParts
  <2>3. CASE /\ "PENDING" \notin audits /\ Write("refund_pending")
             /\ refunded' = admin[a].cum /\ audits' = audits \cup {"PENDING"}
             /\ held' = [amt |-> admin[a].amt, cum |-> admin[a].cum, taken |-> admin[a].taken]
    <3>1. order'.status = "refund_pending"
      BY <1>e, <1>s, <2>3
    <3>2. ASSUME ~astray PROVE PendingBooks'
      <4>1. CashPends(admin[a].cum, admin[a].amt) /\ Paid(a)
        BY <1>b, <2>1, <2>3, <3>2, PlanBooksParts
      <4>2. held'.amt = admin[a].amt /\ held'.cum = admin[a].cum /\ held'.taken = admin[a].taken
        BY <2>3
      <4>3. admin[a].cum - admin[a].amt = refunded
        BY <1>b, <1>p, <2>1
      <4>4. CashPends(held.cum, held.amt)'
        BY <2>1, <4>1, <4>2 DEF CashPends, CashFits, Counted, slips
      <4>5. ClawFits(Accounted, held.cum)' /\ ClawFits(Accounted - held.taken, held.cum - held.amt)'
        BY <2>1, <2>3, <4>1, <4>2, <4>3 DEF Paid, ClawFits, Accounted, slips
      <4>6. \A q \in Queriers : query'[q] = "idle"
        BY <2>1, <2>3 DEF PendingStage
      <4> QED BY <4>4, <4>5, <4>6 DEF PendingBooks
    <3> QED BY <1>q, <1>g, <2>1, <3>1, <3>2, NextPlanBooksParts
  <2> QED BY <1>6, <2>2, <2>3 DEF MarkRefundPending
<1>7. CASE Rollback(a)
  <2>1. /\ UNCHANGED <<order, refunded, cash, gateway, held, query, skipped, repeated>>
        /\ admin[a].pc = "rollback"
        /\ order.status = "refunding"
    BY <1>7, <1>r DEF Rollback, Executing
  <2>2. /\ admin'[a].pc \in {"restore", "fail"} /\ admin'[a].cum = admin[a].cum
        /\ admin'[a].amt = admin[a].amt
    BY <1>7, <1>e DEF Rollback, AdminPcs
  <2>3. ASSUME ~astray' PROVE SettledBooks'
    <3>1. CashFits(refunded) /\ Paid(a) /\ NothingPends
      BY <1>b, <1>n, <2>1, <2>3, PlanBooksParts
    <3>2. CashFits(refunded)' /\ NothingPends'
      <4>1. audits \subseteq audits'
        BY <1>7 DEF Rollback
      <4> QED BY <2>1, <3>1, <4>1 DEF CashFits, NothingPends, Counted, slips
    <3>3. \/ clawed' = clawed - admin[a].taken /\ UNCHANGED <<audits, untold>>
          \/ UNCHANGED <<clawed, untold>> /\ audits' = audits \cup {"ROLLBACK_FAILED"}
          \/ untold' = untold + admin[a].taken /\ UNCHANGED <<clawed, audits>>
      BY <1>7, <2>3 DEF Rollback
    <3>a. /\ UNCHANGED <<clawed, untold>> => Accounted' = Accounted
          /\ clawed' = clawed - admin[a].taken /\ UNCHANGED untold => Accounted' = Accounted - admin[a].taken
          /\ untold' = untold + admin[a].taken /\ UNCHANGED clawed => Accounted' = Accounted - admin[a].taken
      BY <1>p, <1>t DEF Accounted
    <3>4. ClawFits(Accounted, refunded)'
      BY <2>1, <3>1, <3>3, <3>a DEF Paid, ClawFits
    <3> QED BY <3>2, <3>4 DEF SettledBooks
  <2> QED BY <1>b, <1>q, <1>g, <2>1, <2>2, <2>3, NextPlanBooksParts
<1>8. CASE Restore(a) \/ RefundFailed(a)
  <2>1. /\ UNCHANGED <<refunded, clawed, cash, gateway, held, query, astray, slips>>
        /\ admin[a].pc \in {"restore", "fail"} /\ order.status = "refunding" /\ admin'[a].pc = "idle"
        /\ audits' = audits \/ audits' = audits \cup {"FAILED"}
    BY <1>8, <1>e, <1>r DEF Restore, RefundFailed, Executing, WriteAudit
  <2>2. order'.status # "refund_pending"
    BY <1>8, <1>e, <1>s, <2>1 DEF Restore, RefundFailed, WriteAudit
  <2>3. ASSUME ~astray PROVE SettledBooks'
    <3>1. SettledBooks
      BY <1>b, <2>1, <2>3, PlanBooksParts
    <3> QED BY <2>1, <3>1 DEF SettledBooks, CashFits, ClawFits, NothingPends, Counted, Accounted, slips
  <2> QED BY <1>q, <1>g, <2>1, <2>2, <2>3, NextPlanBooksParts
<1>9. CASE AdminCrash(a)
  <2>1. /\ UNCHANGED <<order, gateway>> /\ astray' = TRUE /\ admin'[a].pc = "idle"
    BY <1>9, <1>e DEF AdminCrash
  <2> QED BY <1>q, <1>g, <2>1
<1> QED BY <1>1, <1>2, <1>3, <1>4, <1>5, <1>6, <1>7, <1>8, <1>9 DEF RefundStep, Execute

\* A query keeps the books: it books what the gateway decided.
LEMMA QueryBooks ==
  ASSUME PayInv, RefundTypeOK, Plans, OneRefund, PendingStage, RefundBooks,
         NEW q \in Queriers, Finalize(q)
  PROVE  RefundBooks'
<1>t. /\ refunded \in 0 .. Amount /\ clawed \in Int /\ cash \in Nat /\ gateway \in GatewayType
      /\ held \in HeldType /\ query \in [Queriers -> QueryType]
      /\ skipped \in Nat /\ repeated \in Nat /\ untold \in Nat /\ Counted \in Nat /\ Accounted \in Int
  BY RefundTypes DEF Counted, Accounted
<1>0. UNCHANGED <<cash, gateway, held, admin, astray, slips>>
  BY DEF Finalize, QueryRefund, StillPending, FinalizeOk, FinalizeFailed
<1>b. /\ KeysBooks /\ StartBooks
      /\ ~astray => /\ order.status \notin {"refunding", "refund_pending"} => SettledBooks
                    /\ \A a \in Admins : PlanBooks(a)
                    /\ order.status = "refund_pending" => PendingBooks
  BY BooksParts
<1>k. KeysBooks'
  BY <1>0, <1>b DEF KeysBooks
<1>e. /\ \A s \in Settled : Write(s) => order'.status = s
      /\ NoWrite => order'.status = order.status
  BY StepEffects
<1>1. ASSUME order'.status = order.status, UNCHANGED <<refunded, clawed, audits>>,
             \/ QueryTo(q, "idle")
             \/ order.status = "refund_pending" /\ QueryTo(q, gateway.state)
      PROVE  RefundBooks'
  <2>1. StartBooks'
    BY <1>0, <1>b, <1>1 DEF StartBooks
  <2>2. SettledBooks => SettledBooks'
    BY <1>0, <1>1, SettledBooksKept
  <2>3. \A a \in Admins : PlanBooks(a) => PlanBooks(a)'
    BY <1>0, <1>1 DEF PlanBooks, CashFits, ClawFits, CashPends, NothingPends, Counted, Accounted, slips
  <2>4. PendingBooks => PendingBooks'
    <3>1. \A r \in Queriers : query'[r] \in {query[r], "idle", gateway.state}
      BY <1>1, <1>t DEF QueryTo
    <3>2. ASSUME PendingBooks PROVE PendingBooks'
      <4>1. /\ CashPends(held.cum, held.amt)'
            /\ ClawFits(Accounted, held.cum)' /\ ClawFits(Accounted - held.taken, held.cum - held.amt)'
        BY <1>0, <1>1, <3>2 DEF PendingBooks, CashPends, CashFits, ClawFits, Counted, Accounted, slips
      <4>2. \A r \in Queriers : query'[r] \in {"success", "failed"} => query'[r] = gateway'.state
        BY <1>0, <3>1, <3>2 DEF PendingBooks
      <4> QED BY <4>1, <4>2 DEF PendingBooks
    <3> QED BY <3>2
  <2> QED BY <1>0, <1>1, <1>b, <1>k, <2>1, <2>2, <2>3, <2>4, BooksParts
<1>s. "refund_failed" \in Settled /\ "partially_refunded" \in Settled /\ "refunded" \in Settled
  BY DEF Settled, RefundStatuses
<1>2. ASSUME order.status = "refund_pending", order'.status \notin {"refunding", "refund_pending"},
             ~astray => SettledBooks'
      PROVE  RefundBooks'
  <2>1. \A a \in Admins : admin[a].pc = "idle"
    BY <1>2, <1>b DEF StartBooks, OneRefund, Executing, Refundable
  <2>2. StartBooks'
    BY <1>0, <2>1 DEF StartBooks
  <2>3. \A a \in Admins : PlanBooks(a)'
    BY <1>0, <2>1, NextPlanBooksParts
  <2> QED BY <1>0, <1>2, <1>k, <2>2, <2>3, BooksParts
<1>h. held.amt \in Nat /\ held.cum \in Nat /\ held.taken \in Nat
  BY <1>t, RefundAssumption DEF HeldType
<1>3. CASE FinalizeOk(q)
  <2>1. CASE NoWrite /\ UNCHANGED <<refunded, audits>>
    BY <1>3, <1>1, <1>e, <2>1 DEF FinalizeOk
  <2>2. CASE /\ order.status = "refund_pending" /\ Write(FinalStatus(held.cum))
             /\ refunded' = held.cum /\ audits' = audits \cup {"SUCCESS"}
    <3>1. order'.status \notin {"refunding", "refund_pending"}
      BY <1>e, <1>s, <2>2 DEF FinalStatus
    <3>2. ASSUME ~astray PROVE SettledBooks'
      <4>1. PendingBooks /\ "PENDING" \in audits
        BY <1>b, <2>2, <3>2 DEF PendingStage, PendingKeepsDeduction
      <4>2. gateway.state = "success"
        BY <1>3, <4>1 DEF FinalizeOk, PendingBooks
      <4>3. CashFits(refunded)'
        BY <1>0, <2>2, <4>1, <4>2 DEF PendingBooks, CashPends, CashFits, Counted, slips
      <4>4. ClawFits(Accounted, refunded)'
        BY <1>3, <2>2, <4>1 DEF PendingBooks, ClawFits, FinalizeOk, Accounted, slips
      <4>5. NothingPends'
        BY <1>0, <2>2, <4>1, <4>2 DEF NothingPends
      <4> QED BY <4>3, <4>4, <4>5 DEF SettledBooks
    <3> QED BY <1>2, <2>2, <3>1, <3>2
  <2> QED BY <1>3, <2>1, <2>2 DEF FinalizeOk
<1>4. CASE FinalizeFailed(q)
  <2>1. CASE NoWrite /\ UNCHANGED <<refunded, clawed, audits>>
    BY <1>4, <1>1, <1>e, <2>1 DEF FinalizeFailed
  <2>2. CASE /\ order.status = "refund_pending" /\ Write("refund_failed")
             /\ refunded' = held.cum - held.amt
             /\ \/ clawed' = clawed - held.taken /\ audits' = audits \cup {"FAILED"}
                \/ clawed' = clawed - 0 /\ audits' = audits \cup {"FAILED", "ROLLBACK_FAILED"}
    <3>1. order'.status \notin {"refunding", "refund_pending"}
      BY <1>e, <1>s, <2>2
    <3>2. ASSUME ~astray PROVE SettledBooks'
      <4>1. PendingBooks /\ "PENDING" \in audits
        BY <1>b, <2>2, <3>2 DEF PendingStage, PendingKeepsDeduction
      <4>2. gateway.state = "failed"
        BY <1>4, <4>1 DEF FinalizeFailed, PendingBooks
      <4>3. CashFits(refunded)'
        BY <1>0, <2>2, <4>1, <4>2 DEF PendingBooks, CashPends, CashFits, Counted, slips
      <4>4. ClawFits(Accounted, refunded)'
        <5>1. /\ clawed' = clawed - held.taken => Accounted' = Accounted - held.taken
              /\ clawed' = clawed - 0 => Accounted' = Accounted
          BY <1>0, <1>h, <1>t DEF Accounted, slips
        <5>2. Accounted <= Amount /\ ClawFits(Accounted - held.taken, held.cum - held.amt)
          BY <4>1 DEF PendingBooks, ClawFits
        <5> QED BY <2>2, <5>1, <5>2 DEF ClawFits
      <4>5. NothingPends'
        BY <1>0, <2>2, <4>1, <4>2 DEF NothingPends
      <4> QED BY <4>3, <4>4, <4>5 DEF SettledBooks
    <3> QED BY <1>2, <2>2, <3>1, <3>2
  <2> QED BY <1>4, <2>1, <2>2 DEF FinalizeFailed, Failing
<1>5. CASE QueryRefund(q) \/ StillPending(q)
  BY <1>5, <1>1 DEF QueryRefund, StillPending, payVars
<1> QED BY <1>3, <1>4, <1>5 DEF Finalize

\* Whatever else happens keeps the books.
LEMMA OtherBooks ==
  ASSUME PayInv, RefundTypeOK, Plans, OneRefund, PendingStage, RefundBooks,
         (PayNext /\ UNCHANGED refundVars) \/ RequestRefund \/ GatewayDecides \/ UNCHANGED vars
  PROVE  RefundBooks'
<1>t. /\ refunded \in 0 .. Amount /\ clawed \in Int /\ cash \in Nat /\ gateway \in GatewayType
      /\ held \in HeldType /\ query \in [Queriers -> QueryType] /\ admin \in [Admins -> PlanType]
      /\ skipped \in Nat /\ repeated \in Nat /\ untold \in Nat /\ Counted \in Nat /\ Accounted \in Int
  BY RefundTypes, PlanTypes DEF Counted, Accounted
<1>b. /\ KeysBooks /\ StartBooks
      /\ ~astray => /\ order.status \notin {"refunding", "refund_pending"} => SettledBooks
                    /\ \A a \in Admins : PlanBooks(a)
                    /\ order.status = "refund_pending" => PendingBooks
  BY BooksParts
<1>1. ASSUME UNCHANGED refundVars,
             order.status \in Refundable => order'.status \in Refundable,
             order'.status \notin {"refunding", "refund_pending"} =>
               order.status \notin {"refunding", "refund_pending"},
             order'.status = "refund_pending" => order.status = "refund_pending"
      PROVE  RefundBooks'
  <2>1. KeysBooks' /\ StartBooks'
    BY <1>1, <1>b DEF KeysBooks, StartBooks, refundVars
  <2>2. /\ SettledBooks => SettledBooks'
        /\ PendingBooks => PendingBooks'
        /\ \A a \in Admins : PlanBooks(a) => PlanBooks(a)'
    BY <1>1 DEF SettledBooks, PendingBooks, PlanBooks, CashFits, ClawFits, CashPends, NothingPends,
       refundVars, Counted, Accounted, slips
  <2> QED BY <1>1, <1>b, <2>1, <2>2, BooksParts DEF refundVars
<1>2. CASE PayNext /\ UNCHANGED refundVars
  BY <1>1, <1>2, PayStatus DEF Settled, RefundStatuses, Refundable
<1>3. CASE RequestRefund
  <2>1. order'.status = "refund_requested" /\ order.status = "completed"
    BY <1>3, StepEffects DEF RequestRefund, Settled, RefundStatuses
  <2> QED BY <1>1, <1>3, <2>1 DEF RequestRefund, Refundable
<1>4. CASE UNCHANGED vars
  BY <1>1, <1>4 DEF vars, payVars
<1>5. CASE GatewayDecides
  <2>1. /\ UNCHANGED <<payVars, refunded, clawed, audits, held, admin, query, astray, slips>>
        /\ gateway.state = "pending" /\ order' = order
    BY <1>5 DEF GatewayDecides, payVars
  <2>2. PICK s \in {"success", "failed"} : /\ gateway' = [gateway EXCEPT !.state = s]
                                           /\ cash' = IF s = "success" THEN cash + gateway.amt ELSE cash
    BY <1>5 DEF GatewayDecides
  <2>3. gateway'.keyed = gateway.keyed /\ gateway'.keys = gateway.keys /\ gateway'.amt = gateway.amt
        /\ gateway'.state = s
    BY <1>t, <2>2, DecideEffect
  <2>4. KeysBooks' /\ StartBooks'
    BY <1>b, <2>1, <2>3 DEF KeysBooks, StartBooks
  <2>5. ~SettledBooks /\ ~NothingPends
    BY <2>1 DEF SettledBooks, NothingPends
  <2>c. ASSUME NEW cum \in Nat, NEW amt \in Nat, amt <= cum, CashPends(cum, amt)
        PROVE  /\ gateway'.state # "none" /\ gateway'.amt = amt
               /\ Counted' = IF gateway'.state = "success" THEN cum ELSE cum - amt
               /\ ~gateway'.keyed => repeated' = 0
    <3>1. gateway.amt = amt /\ Counted = cum - amt /\ (~gateway.keyed => repeated = 0)
      BY <2>1, <2>c DEF CashPends, CashFits
    <3>2. Counted + amt = cum
      BY <1>t, <3>1
    <3>3. Counted' = IF s = "success" THEN Counted + amt ELSE Counted
      BY <1>t, <2>1, <2>2, <3>1 DEF Counted, slips
    <3> QED BY <2>1, <2>2, <2>3, <3>1, <3>2, <3>3 DEF slips
  <2>6. ASSUME NEW a \in Admins, ~astray PROVE PlanBooks(a)'
    <3>1. CASE admin[a].pc \in {"idle", "lock"}
      BY <2>1, <3>1, NextPlanBooksParts
    <3>2. CASE admin[a].pc = "pending"
      <4>1. "PENDING" \notin audits => CashPends(admin[a].cum, admin[a].amt) /\ Paid(a)
        BY <1>b, <2>6, <3>2, PlanBooksParts
      <4>2. admin[a].cum \in Nat /\ admin[a].amt \in Nat /\ admin[a].amt <= admin[a].cum
        BY <1>t, PlanTypes, PlanAmounts
      <4>3. CashPends(admin[a].cum, admin[a].amt) => CashPends(admin[a].cum, admin[a].amt)'
        BY <2>1, <2>c, <4>2 DEF CashPends, CashFits
      <4>4. Paid(a) => Paid(a)'
        BY <2>1 DEF Paid, ClawFits, Accounted, slips
      <4> QED BY <2>1, <3>2, <4>1, <4>3, <4>4, NextPlanBooksParts
    <3>3. admin[a].pc \notin {"deduct", "restore", "fail", "gateway", "rollback", "ok"}
      BY <1>b, <2>5, <2>6, PlanBooksParts
    <3>4. admin[a].pc \in AdminPcs
      BY <1>t DEF PlanType
    <3> QED BY <3>1, <3>2, <3>3, <3>4 DEF AdminPcs
  <2>7. ASSUME PendingBooks PROVE PendingBooks'
    <3>1. held.cum \in Nat /\ held.amt \in Nat /\ held.amt <= held.cum
      BY <1>t, PlanTypes, RefundAssumption DEF HeldType
    <3>2. CashPends(held.cum, held.amt)'
      BY <2>1, <2>7, <2>c, <3>1 DEF PendingBooks, CashPends, CashFits
    <3>3. ClawFits(Accounted, held.cum)' /\ ClawFits(Accounted - held.taken, held.cum - held.amt)'
      BY <2>1, <2>7 DEF PendingBooks, ClawFits, Accounted, slips
    <3>4. \A q \in Queriers : query'[q] \notin {"success", "failed"}
      BY <2>1, <2>7 DEF PendingBooks
    <3> QED BY <3>2, <3>3, <3>4 DEF PendingBooks
  <2> QED BY <1>b, <2>1, <2>4, <2>5, <2>6, <2>7, BooksParts
<1> QED BY <1>2, <1>3, <1>4, <1>5

\* With one refunding request at a time the books agree between refunds: what the order
\* counts as refunded was paid back by the gateway, or never asked for because the plan
\* had no trade number, or taken by a keyed gateway for a repetition; and apart from a
\* deduction whose rollback and audit entry both failed, the user has lost no more credit.
\* This holds through any number of partial, refused and pending refunds, failed
\* rollbacks, queries and faults, until a reply or a process is lost between two stores.
THEOREM RefundBooksAreKept == ASSUME OneAdmin PROVE Spec => []RefundBooksAgree
<1>1. Init => RefundBooks
  <2> SUFFICES ASSUME Init PROVE RefundBooks
    OBVIOUS
  <2>1. \A a \in Admins : admin[a].pc = "idle"
    BY DEF Init, NoPlan
  <2>2. KeysBooks /\ StartBooks
    BY <2>1 DEF Init, KeysBooks, StartBooks
  <2>3. SettledBooks
    <3>1. /\ gateway.state = "none" /\ gateway.keys = {} /\ refunded = 0 /\ clawed = 0 /\ cash = 0
          /\ skipped = 0 /\ repeated = 0 /\ untold = 0
      BY DEF Init
    <3> QED BY <3>1, RefundAssumption DEF SettledBooks, CashFits, ClawFits, NothingPends, Counted,
       Accounted, slips
  <2>4. \A a \in Admins : PlanBooks(a)
    BY <2>1, PlanBooksParts
  <2> QED BY <2>2, <2>3, <2>4, BooksParts DEF Init, PayInit
<1>2. ASSUME PayInv, RefundInvariant, RefundBooks, [Next]_vars PROVE RefundBooks'
  <2>1. RefundTypeOK /\ Plans /\ OneRefund /\ PendingStage
    BY <1>2 DEF RefundInvariant, TypeOK
  <2> QED BY <1>2, <2>1, AdminBooks, QueryBooks, OtherBooks, RefundActors
<1>3. RefundBooks => RefundBooksAgree
  BY BooksParts DEF RefundBooksAgree, Quiet, SettledBooks, CashFits, ClawFits, Refundable, Counted,
     Accounted, slips
<1> QED BY <1>1, <1>2, <1>3, RefundInvariantHolds, PTL DEF Spec

-----------------------------------------------------------------------------
(* The recharge contract holds of an order that is refunded, too.          *)

\* A refund moves a settled row to a settled status, or leaves the row alone.
LEMMA RefundRow ==
  ASSUME PayInv, Plans, OneRefund,
         \/ RequestRefund \/ GatewayDecides
         \/ \E a \in Admins : RefundStep(a)
         \/ \E q \in Queriers : Finalize(q)
  PROVE  /\ UNCHANGED <<credits, rebates>>
         /\ NoWrite \/ (order.status \in Settled /\ \E s \in Settled : Write(s))
<1>r. /\ Refundable \subseteq Settled /\ "refunding" \in Settled /\ "refund_pending" \in Settled
      /\ "refund_failed" \in Settled /\ "completed" \in Settled /\ "refund_requested" \in Settled
      /\ \A c : FinalStatus(c) \in Settled
  BY DEF Refundable, Settled, RefundStatuses, FinalStatus
<1>1. ASSUME NEW a \in Admins, RefundStep(a)
      PROVE  /\ UNCHANGED <<credits, rebates>>
             /\ NoWrite \/ (order.status \in Settled /\ \E s \in Settled : Write(s))
  <2>1. Executing(a) => order.status \in Settled
    BY <1>r DEF OneRefund
  <2>2. admin[a].seen \in Refundable
    BY PlanTypes DEF PlanType
  <2>3. CASE Planned(a) \/ Deduct(a) \/ Gateway(a) \/ Rollback(a) \/ AdminCrash(a)
    BY <2>3 DEF Planned, Prepare, Deduct, Gateway, Skip, Repeat, Refund, Rollback, AdminCrash,
       payVars, NoWrite, Recharge
  <2>4. CASE Lock(a)
    BY <2>4, <1>r DEF Lock, Recharge
  <2>5. CASE MarkRefundOk(a) \/ MarkRefundPending(a) \/ RefundFailed(a)
    BY <2>5, <1>r, <2>1 DEF MarkRefundOk, MarkRefundPending, RefundFailed, Executing, Recharge,
       WriteAudit
  <2>6. CASE Restore(a)
    BY <2>6, <1>r, <2>1, <2>2 DEF Restore, Executing, Recharge
  <2> QED BY <1>1, <2>3, <2>4, <2>5, <2>6 DEF RefundStep, Execute
<1>2. ASSUME NEW q \in Queriers, Finalize(q)
      PROVE  /\ UNCHANGED <<credits, rebates>>
             /\ NoWrite \/ (order.status \in Settled /\ \E s \in Settled : Write(s))
  BY <1>2, <1>r DEF Finalize, QueryRefund, StillPending, FinalizeOk, FinalizeFailed, Failing,
     payVars, NoWrite, Recharge
<1>3. CASE RequestRefund \/ GatewayDecides
  BY <1>3, <1>r DEF RequestRefund, GatewayDecides, payVars, NoWrite, Recharge
<1> QED BY <1>1, <1>2, <1>3

\* An order that is recharged and refunded implements the recharge contract: no refund,
\* retry of a refund or query undoes, repeats or reopens what the fulfilment did, and no
\* late webhook or retry credits an order that was refunded.
THEOREM RefundsKeepContract == Spec => ImplementsContract
<1>1. Init => Contract!Init
  BY DEF Init, PayInit, Contract!Init, Settled, RefundStatuses
<1>2. ASSUME PayInv, RefundInvariant, PayInv', [Next]_vars
      PROVE  [Contract!Next]_(Contract!contractVars)
  <2>1. CASE (PayNext /\ UNCHANGED refundVars) \/ UNCHANGED vars
    <3>1. [PayNext]_payVars
      BY <2>1 DEF vars
    <3> QED BY <1>2, <3>1, ContractStep
  <2>2. CASE \/ RequestRefund \/ GatewayDecides
             \/ \E a \in Admins : RefundStep(a)
             \/ \E q \in Queriers : Finalize(q)
    <3>1. /\ UNCHANGED <<credits, rebates>>
          /\ NoWrite \/ (order.status \in Settled /\ \E s \in Settled : Write(s))
      BY <1>2, <2>2, RefundRow DEF RefundInvariant
    <3>2. CASE NoWrite
      BY <3>1, <3>2, QuietStep DEF NoWrite
    <3>3. ASSUME NEW s \in Settled, Write(s), order.status \in Settled
          PROVE  UNCHANGED Contract!contractVars
      <4>1. s \in Statuses /\ s # "paid"
        BY DEF Statuses, Settled, RefundStatuses
      <4>2. order'.status = s /\ (order.paid <=> order'.paid)
        BY <1>2, <3>3, <4>1, WriteEffect DEF PayInv
      <4> QED BY <1>2, <3>1, <3>3, <4>2, NeutralStep
    <3> QED BY <3>1, <3>2, <3>3
  <2> QED BY <1>2, <2>1, <2>2, RefundActors
<1> QED
  BY <1>1, <1>2, RefundInvariantHolds, PTL DEF Spec, ImplementsContract, Contract!Spec
=============================================================================

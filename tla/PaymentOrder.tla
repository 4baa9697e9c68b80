---------------------------- MODULE PaymentOrder ----------------------------
(***************************************************************************)
(* One balance recharge order from its creation to the credited balance.   *)
(* Handlers of all instances work on it at once: webhook deliveries, which *)
(* the payment provider repeats until one is answered with success; the    *)
(* user's verification and cancellation; the expiry job; and the admin's   *)
(* retry.  They share the order row, the redeem code that carries the      *)
(* credit and the audit log that carries the rebate; each statement or     *)
(* transaction is a step.                                                  *)
(*                                                                         *)
(* updated_at is both a clock and the version of the fulfilment lease.     *)
(* order.aged says that it lies paymentGraceMinutes, or equally            *)
(* paymentFulfillmentLeaseDuration, back; holders are the handlers whose   *)
(* lease version equals it.  Every write of the row refreshes it.          *)
(***************************************************************************)
EXTENDS Integers, FiniteSets

CONSTANTS
  Handlers,   \* requests and jobs that work on the order
  MaxFaults   \* bound: failed or lost statements, crashes and long stalls

ASSUME PaymentAssumption == IsFiniteSet(Handlers) /\ MaxFaults \in Nat

VARIABLES
  order,     \* row of payment_orders
  holders,   \* handlers whose lease version is the row's updated_at
  code,      \* the order's redeem code
  credits,   \* times the user's balance was credited
  rebates,   \* times the inviter's rebate was booked
  upstream,  \* the payment at the provider
  notice,    \* the provider's webhook delivery
  handler,   \* handler[h]: what it runs and where it stands
  faults     \* faults still to come

payVars == <<order, holders, code, credits, rebates, upstream, notice, handler, faults>>

-----------------------------------------------------------------------------
(* psIsRefundStatus *)
RefundStatuses ==
  {"refund_requested", "refunding", "refund_pending", "partially_refunded",
   "refunded", "refund_failed"}

Settled == {"completed"} \cup RefundStatuses

Unsettled == {"paid", "recharging", "failed"}

Statuses == Settled \cup Unsettled \cup {"pending", "cancelled", "expired"}

(* What a handler runs; from confirmPayment on, only webhooks ("notify")   *)
(* differ from the other callers ("call").                                 *)
Kinds == {"none", "notify", "call", "verify", "cancel", "expire"}

Fault == faults > 0 /\ faults' = faults - 1

NoFault == UNCHANGED faults

(* payment_trade_no: the provider's number of the payment, or still empty. *)
TradeNos == {"none", "stored"}

(* A write of the order row. *)
WriteTradeNo(status, no) ==
  /\ order' = [order EXCEPT !.status = status, !.aged = FALSE,
                            !.paid = @ \/ status = "paid", !.tradeNo = no]
  /\ holders' = {}

Write(status) == WriteTradeNo(status, order.tradeNo)

NoWrite == UNCHANGED <<order, holders>>

IdleHandler == [pc |-> "idle", kind |-> "none"]

To(h, pc) == handler' = [handler EXCEPT ![h].pc = pc] /\ UNCHANGED notice

(* The handler returns.  A webhook that reports success is not delivered   *)
(* again; one that reports an error is.                                    *)
Finish(h, ok) ==
  /\ handler' = [handler EXCEPT ![h] = IdleHandler]
  /\ notice' = IF ok /\ handler[h].kind = "notify" /\ notice = "due" THEN "acked" ELSE notice

(* Success is reported although nothing was credited: the payment came     *)
(* after the grace period, or a failed read was taken for nothing to do.   *)
Unpaid(h, why) ==
  /\ handler' = [handler EXCEPT ![h] = IdleHandler]
  /\ notice' = IF handler[h].kind = "notify" /\ notice = "due" THEN why ELSE notice

-----------------------------------------------------------------------------
(* Entry points. *)

(* External: the user pays, the provider starts to deliver the webhook. *)
UserPays ==
  /\ upstream = "open"
  /\ upstream' = "paid" /\ notice' = "due"
  /\ UNCHANGED <<order, holders, code, credits, rebates, handler, faults>>

Notify(h) ==
  /\ handler[h].pc = "idle"
  /\ upstream = "paid"
  /\ handler' = [handler EXCEPT ![h] = [pc |-> "confirm", kind |-> "notify"]]
  /\ UNCHANGED <<order, holders, code, credits, rebates, upstream, notice, faults>>

(* VerifyOrderByOutTradeNo and ReconcilePendingPaymentOrders ask the       *)
(* provider; CancelOrder and ExpireTimedOutOrders do so before they write. *)
Ask(h, kind) ==
  /\ handler[h].pc = "idle"
  /\ \/ kind = "verify" /\ order.status \in {"pending", "expired"}
     \/ kind \in {"cancel", "expire"} /\ order.status = "pending"
  /\ handler' = [handler EXCEPT ![h] = [pc |-> "query", kind |-> kind]]
  /\ UNCHANGED <<order, holders, code, credits, rebates, upstream, notice, faults>>

(* RetryFulfillment *)
Retry(h) ==
  /\ handler[h].pc = "idle"
  /\ order.paid /\ order.status \in Unsettled
  /\ handler' = [handler EXCEPT ![h] = [pc |-> "check", kind |-> "call"]]
  /\ UNCHANGED <<order, holders, code, credits, rebates, upstream, notice, faults>>

-----------------------------------------------------------------------------
(* checkPaid and cancelCore. *)

(* QueryOrder and, for an unpaid order that is to be closed, CancelPayment; *)
(* a failed query lets cancelCore go on.                                    *)
Query(h) ==
  /\ handler[h].pc = "query"
  /\ \/ upstream = "paid" /\ UNCHANGED upstream /\ NoFault /\ To(h, "tradeNo")
     \/ /\ upstream # "paid" /\ NoFault
        /\ IF handler[h].kind = "verify"
             THEN UNCHANGED upstream /\ Finish(h, FALSE)
             ELSE upstream' \in {upstream, "closed"} /\ To(h, "cancel")
     \/ /\ UNCHANGED upstream /\ Fault
        /\ IF handler[h].kind = "verify" THEN Finish(h, FALSE) ELSE To(h, "cancel")
  /\ UNCHANGED <<order, holders, code, credits, rebates>>

(* The provider's transaction number is stored if it answered with a new   *)
(* one, whatever the status is by now.                                     *)
SaveTradeNo(h) ==
  /\ handler[h].pc = "tradeNo"
  /\ WriteTradeNo(order.status, "stored") \/ NoWrite
  /\ handler' = [handler EXCEPT ![h] = [pc |-> "confirm", kind |-> "call"]]
  /\ UNCHANGED <<code, credits, rebates, upstream, notice, faults>>

Cancel(h) ==
  /\ handler[h].pc = "cancel"
  /\ \/ /\ order.status = "pending" /\ NoFault
        /\ Write(IF handler[h].kind = "expire" THEN "expired" ELSE "cancelled")
     \/ order.status # "pending" /\ NoWrite /\ NoFault
     \/ NoWrite /\ Fault
  /\ Finish(h, TRUE)
  /\ UNCHANGED <<code, credits, rebates, upstream>>

-----------------------------------------------------------------------------
(* confirmPayment, toPaid and alreadyProcessed. *)

CanPay ==
  \/ order.status \in {"pending", "cancelled"}
  \/ order.status = "expired" /\ ~order.aged

(* The check of the notification and the conditional update to PAID, with  *)
(* the number of the notification, which may be empty: EasyPay gives none  *)
(* at creation, and neither a webhook nor a query has to bring one.        *)
Confirm(h) ==
  /\ handler[h].pc = "confirm"
  /\ \/ /\ CanPay /\ NoFault /\ To(h, "check")
        /\ \E no \in TradeNos : WriteTradeNo("paid", no)
     \/ ~CanPay /\ NoWrite /\ NoFault /\ To(h, "reload")
     \/ NoWrite /\ Fault /\ (Finish(h, FALSE) \/ Unpaid(h, "dropped"))
  /\ UNCHANGED <<code, credits, rebates, upstream>>

ReloadAcksAll(h) ==
  /\ handler[h].pc = "reload"
  /\ NoFault /\ Finish(h, TRUE)
  /\ UNCHANGED <<order, holders, code, credits, rebates, upstream>>
Reload(h) ==
  /\ handler[h].pc = "reload"
  /\ \/ order.status \in Unsettled /\ NoFault /\ To(h, "check")
     \/ order.status \notin Unsettled \cup {"expired"} /\ NoFault /\ Finish(h, TRUE)
     \/ order.status = "expired" /\ NoFault /\ Unpaid(h, "late")
     \/ Fault /\ Unpaid(h, "dropped")
  /\ UNCHANGED <<order, holders, code, credits, rebates, upstream>>

-----------------------------------------------------------------------------
(* ExecuteBalanceFulfillment. *)

Check(h) ==
  /\ handler[h].pc = "check"
  /\ \/ order.status \in Unsettled /\ NoFault /\ To(h, "lease")
     \/ order.status \notin Unsettled /\ NoFault /\ Finish(h, order.status = "completed")
     \/ Fault /\ Finish(h, FALSE)
  /\ UNCHANGED <<order, holders, code, credits, rebates, upstream>>

LeaseNeverStale == order.status \in {"paid", "failed"}
CanLease ==
  \/ order.status \in {"paid", "failed"}
  \/ order.status = "recharging" /\ order.aged

(* acquirePaymentFulfillmentLease: the conditional update ... *)
Lease(h) ==
  /\ handler[h].pc = "lease"
  /\ \/ CanLease /\ Write("recharging") /\ NoFault /\ To(h, "version")
     \/ ~CanLease /\ NoWrite /\ NoFault /\ To(h, "refused")
     \/ Fault /\ (NoWrite \/ (CanLease /\ Write("recharging"))) /\ Finish(h, FALSE)
  /\ UNCHANGED <<code, credits, rebates, upstream>>

(* ... and the read of its timestamp. *)
Version(h) ==
  /\ handler[h].pc = "version"
  /\ \/ /\ order.status = "recharging" /\ NoFault
        /\ holders' = holders \cup {h} /\ To(h, "lookup")
     \/ order.status # "recharging" /\ NoFault /\ UNCHANGED holders /\ Finish(h, FALSE)
     \/ Fault /\ UNCHANGED holders /\ Finish(h, FALSE)
  /\ UNCHANGED <<order, code, credits, rebates, upstream>>

-----------------------------------------------------------------------------
(* doBalance. *)

(* resolveRedeemAction *)
Lookup(h) ==
  /\ handler[h].pc = "lookup"
  /\ \/ /\ NoFault
        /\ To(h, CASE code = "none"   -> "create"
                   [] code = "unused" -> "redeem"
                   [] OTHER           -> "rebate")
     \/ Fault /\ To(h, "fail")
  /\ UNCHANGED <<order, holders, code, credits, rebates, upstream>>

(* The code is unique. *)
Create(h) ==
  /\ handler[h].pc = "create"
  /\ \/ code = "none" /\ code' = "unused" /\ NoFault /\ To(h, "redeem")
     \/ code # "none" /\ UNCHANGED code /\ NoFault /\ To(h, "fail")
     \/ Fault /\ code' \in {code, IF code = "none" THEN "unused" ELSE code} /\ To(h, "fail")
  /\ UNCHANGED <<order, holders, credits, rebates, upstream>>

(* One transaction marks the code as used and credits the balance. *)
RedeemAnyCode == code' = "used" /\ credits' = credits + 1
RedeemCode == code = "unused" /\ code' = "used" /\ credits' = credits + 1

(* The Redis lock turns a concurrent redemption away. *)
RedeemLocked(h) == \E g \in Handlers \ {h} : handler[g].pc = "redeem"

Redeem(h) ==
  /\ handler[h].pc = "redeem"
  /\ \/ RedeemCode /\ NoFault /\ To(h, "rebate")
     \/ /\ code # "unused" \/ RedeemLocked(h)
        /\ UNCHANGED <<code, credits>> /\ NoFault /\ To(h, "fail")
     \/ Fault /\ (RedeemCode \/ UNCHANGED <<code, credits>>) /\ To(h, "fail")
  /\ UNCHANGED <<order, holders, rebates, upstream>>

(* applyAffiliateRebateForOrder: one transaction that claims a unique      *)
(* audit entry, books the rebate and records the outcome.                  *)
Rebated == rebates' = IF rebates = 0 THEN 1 ELSE rebates

ApplyRebate(h) ==
  /\ handler[h].pc = "rebate"
  /\ \/ Rebated /\ NoFault /\ To(h, "complete")
     \/ Fault /\ (Rebated \/ UNCHANGED rebates) /\ To(h, "fail")
  /\ UNCHANGED <<order, holders, code, credits, upstream>>

OwnsLease(h) == order.status = "recharging" /\ h \in holders

(* markCompleted *)
Complete(h) ==
  /\ handler[h].pc = "complete"
  /\ \/ OwnsLease(h) /\ Write("completed") /\ NoFault /\ Finish(h, TRUE)
     \/ ~OwnsLease(h) /\ NoWrite /\ NoFault /\ To(h, "lost")
     \/ Fault /\ (NoWrite \/ (OwnsLease(h) /\ Write("completed"))) /\ To(h, "fail")
  /\ UNCHANGED <<code, credits, rebates, upstream>>

(* A refused update is read again: somebody else may have completed it. *)
Recheck(h) ==
  /\ handler[h].pc \in {"refused", "lost"}
  /\ \/ order.status = "completed" /\ NoFault /\ Finish(h, TRUE)
     \/ /\ order.status # "completed" /\ NoFault
        /\ IF handler[h].pc = "lost" THEN To(h, "fail") ELSE Finish(h, FALSE)
     \/ Fault /\ IF handler[h].pc = "lost" THEN To(h, "fail") ELSE Finish(h, FALSE)
  /\ UNCHANGED <<order, holders, code, credits, rebates, upstream>>

(* markFailed *)
MarkFailed(h) ==
  /\ handler[h].pc = "fail"
  /\ \/ OwnsLease(h) /\ Write("failed") /\ NoFault
     \/ ~OwnsLease(h) /\ NoWrite /\ NoFault
     \/ NoWrite /\ Fault
  /\ Finish(h, FALSE)
  /\ UNCHANGED <<code, credits, rebates, upstream>>

-----------------------------------------------------------------------------
(* The process of a handler dies; its webhook is not answered. *)
Crash(h) ==
  /\ handler[h].pc # "idle"
  /\ Fault
  /\ handler' = [handler EXCEPT ![h] = IdleHandler]
  /\ UNCHANGED <<order, holders, code, credits, rebates, upstream, notice>>

(* Five minutes pass.  A handler with a lease that is still at work then   *)
(* has stalled.                                                            *)
Working(h) ==
  handler[h].pc \in {"version", "lookup", "create", "redeem", "rebate", "complete",
                     "lost", "fail"}

Age ==
  /\ order.status \in {"expired", "recharging"} /\ ~order.aged
  /\ IF \E h \in Handlers : Working(h) THEN Fault ELSE NoFault
  /\ order' = [order EXCEPT !.aged = TRUE]
  /\ UNCHANGED <<holders, code, credits, rebates, upstream, notice, handler>>

-----------------------------------------------------------------------------
PayInit ==
  /\ \E no \in TradeNos :
       order = [status |-> "pending", aged |-> FALSE, paid |-> FALSE, tradeNo |-> no]
  /\ holders = {}
  /\ code = "none" /\ credits = 0 /\ rebates = 0
  /\ upstream = "open" /\ notice = "none"
  /\ handler = [h \in Handlers |-> IdleHandler]
  /\ faults = MaxFaults

Handle(h) ==
  \/ Query(h) \/ SaveTradeNo(h) \/ Cancel(h) \/ Confirm(h) \/ Reload(h) \/ Check(h)
  \/ Lease(h) \/ Version(h) \/ Lookup(h) \/ Create(h) \/ Redeem(h) \/ ApplyRebate(h)
  \/ Complete(h) \/ Recheck(h) \/ MarkFailed(h)

PayNext ==
  \/ UserPays \/ Age
  \/ \E h \in Handlers :
       \/ Notify(h) \/ Retry(h) \/ \E kind \in Kinds : Ask(h, kind)
       \/ Handle(h) \/ Crash(h)

PaySpec == PayInit /\ [][PayNext]_payVars

(* Handlers run to their end, time passes, and the provider repeats a      *)
(* webhook that was not answered with success.                             *)
PayFairness ==
  /\ WF_payVars(Age)
  /\ \A h \in Handlers : WF_payVars(Handle(h)) /\ SF_payVars(notice = "due" /\ Notify(h))

PayFairSpec == PaySpec /\ PayFairness

-----------------------------------------------------------------------------
(* Properties. *)

HandlerPcs ==
  {"idle", "query", "tradeNo", "cancel", "confirm", "reload", "check", "lease", "version",
   "refused", "lookup", "create", "redeem", "rebate", "complete", "lost", "fail"}

(* Every variable has its type. *)
PayTypeOK ==
  /\ order \in [status : Statuses, aged : BOOLEAN, paid : BOOLEAN, tradeNo : TradeNos]
  /\ holders \subseteq Handlers
  /\ code \in {"none", "unused", "used"}
  /\ credits \in Nat /\ rebates \in Nat
  /\ upstream \in {"open", "paid", "closed"}
  /\ notice \in {"none", "due", "acked", "late", "dropped"}
  /\ handler \in [Handlers -> [pc : HandlerPcs, kind : Kinds]]
  /\ faults \in 0 .. MaxFaults

Contract == INSTANCE RechargeContract WITH
  paid <- order.paid, credits <- credits, rebates <- rebates,
  done <- order.status \in Settled

(* Duplicate and late webhooks, verification, cancellation, expiry, admin  *)
(* retries, stolen leases, crashes and lost replies together do what the   *)
(* contract says: one payment, one credit, one rebate, then completed.     *)
ImplementsContract == Contract!Spec

(* A webhook that was answered with success needs no repetition: unless a  *)
(* failed read or a payment after the grace period is the reason, the      *)
(* order is credited.                                                      *)
AckedIsSettled == notice = "acked" => credits = 1

(* A payment that was recorded is credited in the end, as long as the      *)
(* provider is told to repeat its webhook.                                 *)
PaidIsCredited == order.paid ~> (credits = 1 \/ notice \in {"late", "dropped"})

=============================================================================

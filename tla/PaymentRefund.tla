---------------------------- MODULE PaymentRefund ----------------------------
(***************************************************************************)
(* The refund of a recharge order, composed with PaymentOrder: the order   *)
(* row is shared, and webhooks and retries go on while it is refunded.     *)
(* An admin's request plans a refund from what it reads, takes the order,  *)
(* claws the credit back, asks the payment gateway for the cash and books  *)
(* the answer; a refund the gateway has not decided yet is finalized by a  *)
(* later query.                                                            *)
(*                                                                         *)
(* Credit and cash are counted in the same unit (pay_amount = amount);     *)
(* rounding is left out.  The audit log matters because some transactions  *)
(* write to it and its index on (order_id, action) is unique.              *)
(***************************************************************************)
EXTENDS PaymentOrder

CONSTANTS
  Admins,    \* requests that refund
  Queriers,  \* requests that finalize a pending refund
  Amount     \* credited amount of the order

ASSUME RefundAssumption ==
  /\ IsFiniteSet(Admins) /\ IsFiniteSet(Queriers)
  /\ Amount \in Nat \ {0}

VARIABLES
  refunded,  \* payment_orders.refund_amount
  clawed,    \* balance taken from the user and not given back
  cash,      \* money the gateway has paid back
  gateway,   \* its kind, the refunds it remembers and the one it works on
  audits,    \* actions in payment_audit_logs
  held,      \* detail of the REFUND_PENDING entry
  admin,     \* admin[a]: request and its plan
  query,     \* query[q]: request and the gateway's answer
  astray     \* a reply or a process was lost between two stores

(* Auxiliary: what the books do not show, amount by amount. *)
VARIABLES
  skipped,   \* counted as refunded without asking a gateway
  repeated,  \* counted as refunded on the answer to an earlier, equal refund
  untold     \* deduction neither given back nor on record

slips == <<skipped, repeated, untold>>

refundVars ==
  <<refunded, clawed, cash, gateway, audits, held, admin, query, astray, slips>>

vars == <<payVars, refundVars>>

-----------------------------------------------------------------------------
Refundable == {"completed", "refund_requested", "refund_failed", "partially_refunded"}

NoPlan == [pc |-> "idle", amt |-> 0, cum |-> 0, seen |-> "completed",
           tradeNo |-> "none", taken |-> 0]

AdminTo(a, pc) == admin' = [admin EXCEPT ![a].pc = pc]

AdminDone(a) == admin' = [admin EXCEPT ![a] = NoPlan]

(* What a refund leaves alone in PaymentOrder. *)
Recharge == <<code, credits, rebates, upstream, notice, handler>>

(* RequestRefund by the user. *)
RequestRefund ==
  /\ order.status = "completed"
  /\ Write("refund_requested")
  /\ UNCHANGED <<Recharge, faults, refundVars>>

(* PrepareRefund; amt is what the admin asks for.  Whether the balance is  *)
(* to be clawed back, and how much of it is there, shows when it is done.  *)
Prepare(a, amt) ==
  /\ admin[a].pc = "idle"
  /\ order.status \in Refundable
  /\ amt <= Amount - refunded
  /\ admin' = [admin EXCEPT ![a] = [pc |-> "lock", amt |-> amt, cum |-> refunded + amt,
                                    seen |-> order.status,
                                    tradeNo |-> order.tradeNo, taken |-> 0]]
  /\ UNCHANGED <<payVars, refunded, clawed, cash, gateway, audits, held, query, astray, slips>>

-----------------------------------------------------------------------------
(* ExecuteRefund. *)

Lock(a) ==
  /\ admin[a].pc = "lock"
  /\ \/ order.status \in Refundable /\ Write("refunding") /\ NoFault /\ AdminTo(a, "deduct")
     \/ order.status \notin Refundable /\ NoWrite /\ NoFault /\ AdminDone(a)
     \/ /\ NoWrite \/ (order.status \in Refundable /\ Write("refunding"))
        /\ Fault /\ AdminDone(a)
  /\ UNCHANGED <<Recharge, refunded, clawed, cash, gateway, audits, held, query, astray, slips>>

(* DeductAvailableBalance takes what is left of the amount, unless an      *)
(* earlier deduction could not be given back.  A failed look at the audit  *)
(* log counts as no entry.                                                 *)
SkipsDeduction == "ROLLBACK_FAILED" \in audits

Taken(a, n) ==
  /\ clawed' = clawed + n
  /\ admin' = [admin EXCEPT ![a].pc = "gateway", ![a].taken = n]

Deduct(a) ==
  /\ admin[a].pc = "deduct"
  /\ \/ SkipsDeduction /\ Taken(a, 0) /\ NoFault /\ UNCHANGED astray
     \/ /\ ~SkipsDeduction /\ NoFault /\ UNCHANGED astray
        /\ \E n \in 0 .. admin[a].amt : Taken(a, n)
     \/ SkipsDeduction /\ Fault /\ Taken(a, admin[a].amt) /\ astray' = TRUE
     \/ /\ ~SkipsDeduction /\ Fault /\ AdminTo(a, "restore")
        /\ \/ UNCHANGED <<clawed, astray>>
           \/ clawed' = clawed + admin[a].amt /\ astray' = TRUE
  /\ UNCHANGED <<order, holders, Recharge, refunded, cash, gateway, audits, held, query, slips>>

(* gwRefund.  Without a trade number in the plan no gateway is asked and   *)
(* the refund counts as made.  Stripe, WxPay and Airwallex are keyed: the  *)
(* adapters derive the idempotency key of a refund from the order and the  *)
(* amount, so the gateway takes an equal amount for the same refund and    *)
(* repeats its first answer.  An error may hide a refund that was made.    *)
Known(amt) == \E answer \in {"ok", "pending"} : <<amt, answer>> \in gateway.keys

Remember(amt, answer) ==
  [gateway EXCEPT !.keys = IF gateway.keyed THEN @ \cup {<<amt, answer>>} ELSE @]

Skip(a) ==
  /\ admin[a].tradeNo = "none"
  /\ skipped' = skipped + admin[a].amt
  /\ NoFault /\ UNCHANGED <<cash, gateway, astray, repeated>> /\ AdminTo(a, "ok")

Repeat(a, answer) ==
  /\ <<admin[a].amt, answer>> \in gateway.keys
  /\ repeated' = IF answer = "ok" THEN repeated + admin[a].amt ELSE repeated
  /\ NoFault /\ UNCHANGED <<cash, gateway, astray, skipped>> /\ AdminTo(a, answer)

Refund(a) ==
  LET amt == admin[a].amt
  IN \/ /\ ~Known(amt) /\ NoFault /\ UNCHANGED astray
        /\ cash' = cash + amt /\ gateway' = Remember(amt, "ok") /\ AdminTo(a, "ok")
     \/ /\ ~Known(amt) /\ NoFault /\ UNCHANGED <<cash, astray>>
        /\ gateway' = [Remember(amt, "pending") EXCEPT !.amt = amt, !.state = "pending"]
        /\ AdminTo(a, "pending")
     \/ NoFault /\ UNCHANGED <<cash, gateway, astray>> /\ AdminTo(a, "rollback")
     \/ /\ ~Known(amt) /\ Fault /\ astray' = TRUE
        /\ cash' = cash + amt /\ gateway' = Remember(amt, "ok") /\ AdminTo(a, "rollback")

Gateway(a) ==
  /\ admin[a].pc = "gateway"
  /\ \/ Skip(a)
     \/ admin[a].tradeNo = "stored" /\ \E answer \in {"ok", "pending"} : Repeat(a, answer)
     \/ admin[a].tradeNo = "stored" /\ Refund(a) /\ UNCHANGED <<skipped, repeated>>
  /\ UNCHANGED <<order, holders, Recharge, refunded, clawed, audits, held, query, untold>>

(* refundFinalStatus *)
FinalStatus(cum) == IF cum < Amount THEN "partially_refunded" ELSE "refunded"

(* writeAuditLog: a refused or failed entry is only logged. *)
WriteAudit(action) ==
  \/ audits' = audits \cup {action} /\ NoFault
  \/ UNCHANGED audits /\ Fault

(* markRefundOk: no condition on the row. *)
MarkRefundOk(a) ==
  /\ admin[a].pc = "ok"
  /\ \/ /\ Write(FinalStatus(admin[a].cum))
        /\ refunded' = admin[a].cum
        /\ WriteAudit("SUCCESS")
     \/ NoWrite /\ Fault /\ UNCHANGED <<refunded, audits>>
  /\ AdminDone(a)
  /\ UNCHANGED <<Recharge, clawed, cash, gateway, held, query, astray, slips>>

(* markRefundPending: one transaction for the row and its audit entry. *)
MarkPendingReturnsCredit(a) ==
  /\ admin[a].pc = "pending"
  /\ "PENDING" \notin audits /\ NoFault
  /\ Write("refund_pending")
  /\ refunded' = admin[a].cum
  /\ audits' = audits \cup {"PENDING"}
  /\ held' = [amt |-> admin[a].amt, cum |-> admin[a].cum, taken |-> admin[a].taken]
  /\ clawed' = clawed - admin[a].taken
  /\ AdminDone(a)
  /\ UNCHANGED <<Recharge, cash, gateway, query, astray, slips>>
MarkRefundPending(a) ==
  /\ admin[a].pc = "pending"
  /\ \/ /\ "PENDING" \notin audits /\ NoFault
        /\ Write("refund_pending")
        /\ refunded' = admin[a].cum
        /\ audits' = audits \cup {"PENDING"}
        /\ held' = [amt |-> admin[a].amt, cum |-> admin[a].cum, taken |-> admin[a].taken]
     \/ /\ \/ "PENDING" \in audits /\ NoFault
           \/ Fault
        /\ NoWrite /\ UNCHANGED <<refunded, audits, held>>
  /\ AdminDone(a)
  /\ UNCHANGED <<Recharge, clawed, cash, gateway, query, astray, slips>>

(* RollbackRefund: give the deduction back, or say that it was kept; the   *)
(* entry that says so may be lost with the deduction.                      *)
RollbackSilently(a) ==
  /\ admin[a].pc = "rollback"
  /\ \/ clawed' = clawed - admin[a].taken /\ NoFault
     \/ Fault /\ UNCHANGED clawed
  /\ AdminTo(a, "restore")
  /\ UNCHANGED <<order, holders, Recharge, refunded, cash, gateway, audits, held, query, astray,
                 slips>>
Rollback(a) ==
  /\ admin[a].pc = "rollback"
  /\ \/ /\ clawed' = clawed - admin[a].taken /\ NoFault
        /\ UNCHANGED <<audits, astray, untold>> /\ AdminTo(a, "restore")
     \/ /\ admin[a].taken > 0 /\ Fault /\ AdminTo(a, "fail")
        /\ \/ /\ audits' = audits \cup {"ROLLBACK_FAILED"}
              /\ UNCHANGED <<clawed, astray, untold>>
           \/ /\ untold' = untold + admin[a].taken
              /\ UNCHANGED <<clawed, astray, audits>>
           \/ /\ clawed' = clawed - admin[a].taken /\ astray' = TRUE
              /\ audits' \in {audits, audits \cup {"ROLLBACK_FAILED"}} /\ UNCHANGED untold
  /\ UNCHANGED <<order, holders, Recharge, refunded, cash, gateway, held, query, skipped, repeated>>

(* restoreStatus: no condition on the row, an error is ignored. *)
Restore(a) ==
  /\ admin[a].pc = "restore"
  /\ \/ /\ NoFault
        /\ Write(IF admin[a].seen \in {"refund_requested", "partially_refunded"}
                 THEN admin[a].seen ELSE "completed")
     \/ NoWrite /\ Fault
  /\ AdminDone(a)
  /\ UNCHANGED <<Recharge, refunded, clawed, cash, gateway, audits, held, query, astray, slips>>

(* handleGwFail after a failed rollback. *)
RefundFailed(a) ==
  /\ admin[a].pc = "fail"
  /\ \/ Write("refund_failed") /\ WriteAudit("FAILED")
     \/ NoWrite /\ Fault /\ audits' \in {audits, audits \cup {"FAILED"}}
  /\ AdminDone(a)
  /\ UNCHANGED <<Recharge, refunded, clawed, cash, gateway, held, query, astray, slips>>

AdminCrash(a) ==
  /\ admin[a].pc \notin {"idle", "lock"}
  /\ Fault
  /\ astray' = TRUE
  /\ AdminDone(a)
  /\ UNCHANGED <<order, holders, Recharge, refunded, clawed, cash, gateway, audits, held, query,
                 slips>>

-----------------------------------------------------------------------------
(* QueryAndFinalizeRefund. *)

QueryTo(q, to) == query' = [query EXCEPT ![q] = to]

(* The order is read, then the gateway is asked. *)
QueryRefund(q) ==
  /\ query[q] = "idle"
  /\ order.status = "refund_pending"
  /\ QueryTo(q, gateway.state)
  /\ UNCHANGED <<payVars, refunded, clawed, cash, gateway, audits, held, admin, astray, slips>>

StillPending(q) ==
  /\ query[q] = "pending"
  /\ QueryTo(q, "idle")
  /\ UNCHANGED <<payVars, refunded, clawed, cash, gateway, audits, held, admin, astray, slips>>

(* finalizePendingRefundSuccess: the claim of the row, the final status    *)
(* and the audit entry are one transaction; the deduction was kept.        *)
FinalizeClaimsRefunding(q) ==
  /\ query[q] = "success"
  /\ \/ order.status = "refunding" /\ Write(FinalStatus(held.cum))
     \/ order.status # "refunding" /\ NoWrite
  /\ QueryTo(q, "idle")
  /\ UNCHANGED <<Recharge, faults, refunded, audits, clawed, cash, gateway, held, admin, astray, slips>>
FinalizeOk(q) ==
  /\ query[q] = "success"
  /\ \/ /\ order.status = "refund_pending" /\ "SUCCESS" \notin audits /\ NoFault
        /\ Write(FinalStatus(held.cum))
        /\ refunded' = held.cum
        /\ audits' = audits \cup {"SUCCESS"}
     \/ /\ \/ order.status # "refund_pending" /\ NoFault
           \/ "SUCCESS" \in audits /\ NoFault
           \/ Fault
        /\ NoWrite /\ UNCHANGED <<refunded, audits>>
  /\ QueryTo(q, "idle")
  /\ UNCHANGED <<Recharge, clawed, cash, gateway, held, admin, astray, slips>>

(* finalizeRefundFailed: the claim, the returned deduction and the audit   *)
(* entry are one transaction; if the return fails, a second one records    *)
(* that the deduction was kept.                                            *)
Failing(returned, entries) ==
  /\ order.status = "refund_pending" /\ entries \cap audits = {}
  /\ Write("refund_failed")
  /\ refunded' = held.cum - held.amt
  /\ clawed' = clawed - returned
  /\ audits' = audits \cup entries

FinalizeFailed(q) ==
  /\ query[q] = "failed"
  /\ \/ Failing(held.taken, {"FAILED"}) /\ NoFault
     \/ Failing(0, {"FAILED", "ROLLBACK_FAILED"}) /\ Fault
     \/ /\ \/ order.status # "refund_pending" /\ NoFault
           \/ "FAILED" \in audits /\ NoFault
           \/ Fault
        /\ NoWrite /\ UNCHANGED <<refunded, clawed, audits>>
  /\ QueryTo(q, "idle")
  /\ UNCHANGED <<Recharge, cash, gateway, held, admin, astray, slips>>

(* External: the gateway decides a pending refund. *)
GatewayDecides ==
  /\ gateway.state = "pending"
  /\ \/ gateway' = [gateway EXCEPT !.state = "success"] /\ cash' = cash + gateway.amt
     \/ gateway' = [gateway EXCEPT !.state = "failed"] /\ UNCHANGED cash
  /\ UNCHANGED <<payVars, refunded, clawed, audits, held, admin, query, astray, slips>>

-----------------------------------------------------------------------------
Init ==
  /\ PayInit
  /\ refunded = 0 /\ clawed = 0 /\ cash = 0
  /\ \E keyed \in BOOLEAN :
       gateway = [keyed |-> keyed, keys |-> {}, amt |-> 0, state |-> "none"]
  /\ audits = {} /\ held = [amt |-> 0, cum |-> 0, taken |-> 0]
  /\ admin = [a \in Admins |-> NoPlan]
  /\ query = [q \in Queriers |-> "idle"]
  /\ astray = FALSE /\ skipped = 0 /\ repeated = 0 /\ untold = 0

Execute(a) ==
  \/ Lock(a) \/ Deduct(a) \/ Gateway(a) \/ MarkRefundOk(a) \/ MarkRefundPending(a)
  \/ Rollback(a) \/ Restore(a) \/ RefundFailed(a)

Finalize(q) == QueryRefund(q) \/ StillPending(q) \/ FinalizeOk(q) \/ FinalizeFailed(q)

RefundNext ==
  \/ RequestRefund \/ GatewayDecides
  \/ \E a \in Admins : Execute(a) \/ AdminCrash(a) \/ \E amt \in 1 .. Amount : Prepare(a, amt)
  \/ \E q \in Queriers : Finalize(q)

Next ==
  \/ PayNext /\ UNCHANGED refundVars
  \/ RefundNext

Spec == Init /\ [][Next]_vars

(* Refunds run to their end, the gateway decides what it accepted, and     *)
(* somebody asks for the outcome of a pending refund.                      *)
Fairness ==
  /\ \A a \in Admins : WF_vars(Execute(a))
  /\ \A q \in Queriers : WF_vars(Finalize(q))
  /\ WF_vars(GatewayDecides)

FairSpec == Spec /\ Fairness

-----------------------------------------------------------------------------
(* Properties. *)

(* Every variable has its type. *)
RefundTypeOK ==
  /\ refunded \in 0 .. Amount /\ clawed \in Int /\ cash \in Nat
  /\ gateway \in [keyed : BOOLEAN, keys : SUBSET ((1 .. Amount) \X {"ok", "pending"}),
                  amt : 0 .. Amount, state : {"none", "pending", "success", "failed"}]
  /\ audits \subseteq {"PENDING", "SUCCESS", "FAILED", "ROLLBACK_FAILED"}
  /\ held \in [amt : 0 .. Amount, cum : 0 .. Amount, taken : 0 .. Amount]
  /\ query \in [Queriers -> {"idle", "pending", "success", "failed"}]
  /\ astray \in BOOLEAN
  /\ skipped \in Nat /\ repeated \in Nat /\ untold \in Nat

TypeOK == PayTypeOK /\ RefundTypeOK

(* No refund is under way. *)
Quiet ==
  /\ order.status \in Refundable \cup {"refunded"}
  /\ \A a \in Admins : admin[a].pc \in {"idle", "lock"}

(* Refunds that the order counts, and credit that it accounts for. *)
Counted == cash + skipped + repeated

Accounted == clawed - untold

(* Between refunds the books agree: what the order counts as refunded is   *)
(* what the gateway has paid back, except for what was never asked for     *)
(* because the plan had no trade number and what a keyed gateway took for  *)
(* a repetition; and the user has lost no more credit than that, except    *)
(* for a deduction whose rollback and audit entry both failed.  Refused    *)
(* refunds, failed rollbacks, retries and partial refunds pay and take     *)
(* nothing twice; a deduction that could not be given back and is on       *)
(* record stands in for the next one.                                      *)
RefundBooksAgree ==
  Quiet /\ ~astray =>
     /\ Counted = refunded
     /\ ~gateway.keyed => repeated = 0
     /\ Accounted <= Amount
     /\ Accounted <= refunded \/ "ROLLBACK_FAILED" \in audits

(* A refund that the gateway still works on, or has decided and nobody has *)
(* asked, keeps the deduction that was made for it.                        *)
PendingKeepsDeduction ==
  order.status = "refund_pending" =>
     "PENDING" \in audits /\ refunded = held.cum /\ (~astray => clawed >= held.taken)

(* A refund the gateway left pending is decided once it is asked for, if   *)
(* the order has no earlier outcome in its audit log.                      *)
FirstPendingConverges ==
  (order.status = "refund_pending" /\ audits \cap {"SUCCESS", "FAILED"} = {})
     ~> order.status # "refund_pending"

(* payment_refund.go: REFUND_PENDING converges through                     *)
(* QueryAndFinalizeRefund.                                                 *)
PendingConverges == order.status = "refund_pending" ~> order.status # "refund_pending"

-----------------------------------------------------------------------------
(* The parts of the inductive invariant. *)

AdminPcs ==
  {"idle", "lock", "deduct", "gateway", "ok", "pending", "rollback", "restore", "fail"}

Plans ==
  /\ admin \in [Admins -> [pc : AdminPcs, amt : 0 .. Amount, cum : 0 .. Amount,
                           seen : Refundable, tradeNo : TradeNos, taken : 0 .. Amount]]
  /\ \A a \in Admins : /\ admin[a].amt <= admin[a].cum
                       /\ admin[a].pc # "idle" => admin[a].amt > 0
  /\ held.amt <= held.cum

Executing(a) == admin[a].pc \notin {"idle", "lock"}

(* REFUNDING is the lock of an order that is being refunded. *)
OneRefund ==
  /\ \A a \in Admins : Executing(a) => order.status = "refunding"
  /\ \A a, b \in Admins : Executing(a) /\ Executing(b) => a = b

(* A pending refund was accepted by the gateway, and it happens once. *)
PendingStage ==
  /\ gateway.state = "none" =>
       /\ \A x \in 1 .. Amount : <<x, "pending">> \notin gateway.keys
       /\ \A a \in Admins : admin[a].pc # "pending"
       /\ order.status # "refund_pending"
  /\ "PENDING" \notin audits => \A q \in Queriers : query[q] = "idle"
  /\ PendingKeepsDeduction

(* What was taken for the refund that is under way was taken. *)
DeductionStage ==
  ~astray =>
    /\ clawed >= 0
    /\ \A a \in Admins : admin[a].pc \in {"gateway", "ok", "pending", "rollback"} =>
                           clawed >= admin[a].taken

RefundInvariant == TypeOK /\ Plans /\ OneRefund /\ PendingStage /\ DeductionStage

(* Cash and credit that go with r as the refunded amount. *)
CashFits(r) == Counted = r /\ (~gateway.keyed => repeated = 0)

ClawFits(c, r) == c <= Amount /\ (c <= r \/ "ROLLBACK_FAILED" \in audits)

(* The gateway works on the last amt of cum, or has decided. *)
CashPends(cum, amt) ==
  /\ gateway.state # "none" /\ gateway.amt = amt
  /\ CashFits(IF gateway.state = "success" THEN cum ELSE cum - amt)

NothingPends ==
  /\ gateway.state # "pending"
  /\ \A x \in 1 .. Amount : <<x, "pending">> \in gateway.keys => "PENDING" \in audits

(* The books of a plan, step by step. *)
PlanBooks(a) ==
  LET cum == admin[a].cum
      paid == ClawFits(Accounted, cum) /\ ClawFits(Accounted - admin[a].taken, refunded)
  IN /\ admin[a].pc \in {"deduct", "restore", "fail"} =>
          CashFits(refunded) /\ ClawFits(Accounted, refunded) /\ NothingPends
     /\ admin[a].pc \in {"gateway", "rollback"} => CashFits(refunded) /\ paid /\ NothingPends
     /\ admin[a].pc = "ok" => CashFits(cum) /\ ClawFits(Accounted, cum) /\ NothingPends
     /\ admin[a].pc = "pending" /\ "PENDING" \notin audits => CashPends(cum, admin[a].amt) /\ paid

(* The books, if nobody plans a refund while another one is planned: then  *)
(* the plan still starts from the refunded amount when it is executed.     *)
RefundBooks ==
  /\ ~gateway.keyed => gateway.keys = {}
  /\ \A a \in Admins :
       /\ admin[a].pc = "lock" => order.status \in Refundable
       /\ admin[a].pc # "idle" => admin[a].cum = refunded + admin[a].amt
  /\ ~astray =>
       /\ order.status \notin {"refunding", "refund_pending"} =>
            CashFits(refunded) /\ ClawFits(Accounted, refunded) /\ NothingPends
       /\ \A a \in Admins : PlanBooks(a)
       /\ order.status = "refund_pending" =>
            /\ CashPends(held.cum, held.amt)
            /\ ClawFits(Accounted, held.cum) /\ ClawFits(Accounted - held.taken, held.cum - held.amt)
            /\ \A q \in Queriers : query[q] \in {"success", "failed"} => query[q] = gateway.state

=============================================================================

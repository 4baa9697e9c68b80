-------------------------- MODULE RechargeContract --------------------------
(***************************************************************************)
(* What a recharge order promises, whoever works on it and however often:  *)
(* the payment is recorded once, the balance is credited once and only for *)
(* a recorded payment, the inviter's rebate is booked once and only for a  *)
(* credited order, and an order that is reported as completed has both.    *)
(* Each promise is one atomic step here; PaymentOrder implements them with *)
(* statements on three tables.                                             *)
(***************************************************************************)
EXTENDS Naturals

VARIABLES
  paid,     \* the payment is recorded
  credits,  \* times the balance was credited
  rebates,  \* times the rebate was booked
  done      \* the order was reported as completed

contractVars == <<paid, credits, rebates, done>>

Init == paid = FALSE /\ credits = 0 /\ rebates = 0 /\ done = FALSE

Pay ==
  /\ ~paid /\ paid' = TRUE
  /\ UNCHANGED <<credits, rebates, done>>

Credit ==
  /\ paid /\ credits = 0 /\ credits' = 1
  /\ UNCHANGED <<paid, rebates, done>>

Rebate ==
  /\ credits = 1 /\ rebates = 0 /\ rebates' = 1
  /\ UNCHANGED <<paid, credits, done>>

Complete ==
  /\ rebates = 1 /\ ~done /\ done' = TRUE
  /\ UNCHANGED <<paid, credits, rebates>>

Next == Pay \/ Credit \/ Rebate \/ Complete

Spec == Init /\ [][Next]_contractVars

=============================================================================

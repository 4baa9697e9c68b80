--------------------------- MODULE MCPaymentRefund ---------------------------
(* One recharge order with a handler, a refunding admin and two queries. *)
EXTENDS PaymentRefund

=============================================================================

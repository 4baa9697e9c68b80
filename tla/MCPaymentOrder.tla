--------------------------- MODULE MCPaymentOrder ---------------------------
(* One recharge order and two handlers of any kind. *)
EXTENDS PaymentOrder

=============================================================================

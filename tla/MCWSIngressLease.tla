-------------------------- MODULE MCWSIngressLease --------------------------
(* Two sessions compete for the only connection an API key may have.        *)
EXTENDS WSIngressLease
=============================================================================

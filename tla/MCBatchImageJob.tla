--------------------------- MODULE MCBatchImageJob ---------------------------
(* A hold of two, another job's hold of the same size, and a result that    *)
(* costs less or more than the hold.                                        *)
EXTENDS BatchImageJob

MCCosts == {1, 3}
=============================================================================

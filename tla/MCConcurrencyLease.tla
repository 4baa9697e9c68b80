------------------------ MODULE MCConcurrencyLease ------------------------
(* Small instances of ConcurrencyLease: which instance serves a request and *)
(* which pool it draws from.                                                *)
EXTENDS ConcurrencyLease, TLC

CONSTANTS r1, r2, r3, i1, i2, u, a

\* Two instances, one user: r1 and r2 on i1, r3 on i2.
HomeTwo == [r \in Requests |-> IF r = r3 THEN i2 ELSE i1]
PoolOne == [r \in Requests |-> u]

\* One instance; two requests of a user and one of an account.
HomeOne == [r \in Requests |-> i1]
PoolTwo == [r \in Requests |-> IF r = r3 THEN a ELSE u]

\* Requests with the same instance and pool are interchangeable.
PairSymmetry == Permutations({r1, r2})
=============================================================================

---------------------- MODULE MCIdempotencyCoordinator ----------------------
(* Three requests with one key, one of them detached.                       *)
EXTENDS IdempotencyCoordinator

CONSTANTS r1, r2, r3, a, b

\* r3 comes with the payload of the others or with another one.
MCAssignments == {[r \in Callers |-> IF r = r3 THEN p ELSE a] : p \in {a, b}}
MCSamePayload == {[r \in Callers |-> a]}
=============================================================================

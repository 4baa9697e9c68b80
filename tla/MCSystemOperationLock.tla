----------------------- MODULE MCSystemOperationLock -----------------------
(* Three operations; the last one is a retry of the first with its key.     *)
EXTENDS SystemOperationLock

CONSTANTS o1, o2, o3, a, b

MCOperationID == [o \in {o1, o2, o3} |-> IF o = o2 THEN b ELSE a]
=============================================================================

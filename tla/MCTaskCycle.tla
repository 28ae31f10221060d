---------------------------- MODULE MCTaskCycle ----------------------------
(* TaskCycle over a goal of two dimensions, for TLC. *)
EXTENDS TaskCycle

CONSTANTS least, most

MCKind == [d \in Dims |-> IF d = least THEN "min" ELSE "max"]
=============================================================================

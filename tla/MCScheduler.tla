------------------------------ MODULE MCScheduler ------------------------------
(* Small instances of Scheduler: two filespaces of one workspace and a block source. *)
EXTENDS Scheduler, TLC

CONSTANTS a, b, c, t1, t2, t3

MCWorkspaceOf == [k \in Keys |-> IF k = c THEN "local" ELSE "w1"]
MCTargetOrder == [k \in Keys |-> IF k = a THEN 1 ELSE IF k = b THEN 2 ELSE Cardinality(Keys)]
ALast == {[k \in Keys |-> IF k = a THEN 1 ELSE 0]}
ThreadSymmetry == Permutations(Threads)
================================================================================

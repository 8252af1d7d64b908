----------------------------- MODULE MCRunQueue -----------------------------
(* Three CPUs and three tasks: enough for a queue of length 0, 1, 2 and 3, *)
(* and for two CPUs to wait while a third is inside.                       *)
EXTENDS RunQueue, TLC

CONSTANTS cpu0, cpu1, cpu2, t0, t1, t2

MCProcs == {cpu0, cpu1, cpu2}
MCTasks == {t0, t1, t2}
=============================================================================

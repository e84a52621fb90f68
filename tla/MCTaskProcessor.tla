-------------------------- MODULE MCTaskProcessor --------------------------
(* TaskProcessor with three tasks and two workers. *)
EXTENDS TaskProcessor, TLC

CONSTANTS none, t1, t2, t3, w1, w2

MCTasks == {t1, t2, t3}
MCWorkers == {w1, w2}
=============================================================================

---------------------------- MODULE MCScheduler ----------------------------
(* Scheduler instantiated for TLC: two workers, three tasks, local queues  *)
(* of capacity 2 (so that a third push overflows), checks every 2 ticks.   *)
EXTENDS Scheduler

CONSTANTS w1, w2, t1, t2, t3

MCWorkers == {w1, w2}
MCTasks   == {t1, t2, t3}
MCTasks2  == {t1, t2}
=============================================================================

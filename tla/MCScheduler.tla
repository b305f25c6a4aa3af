----------------------------- MODULE MCScheduler -----------------------------
(* Small instances of Scheduler for TLC: goroutines p1 and p2, ticker k1,  *)
(* AfterFunc timer m1, After channel a1.                                   *)
EXTENDS Scheduler

CONSTANTS p1, p2, k1, m1, a1
=============================================================================

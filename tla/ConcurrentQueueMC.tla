-------------------------- MODULE ConcurrentQueueMC --------------------------
(* Small instances of ConcurrentQueue.                                     *)
EXTENDS ConcurrentQueue, TLC

CONSTANTS p1, p2, c1, c2, a, b
=============================================================================

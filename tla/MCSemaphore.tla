---------------------------- MODULE MCSemaphore -----------------------------
(* Instances of Semaphore for TLC.                                          *)
EXTENDS Semaphore

CONSTANTS t1, t2, t3, t4, t5

AllThreads == {t1, t2, t3, t4, t5}
=============================================================================

------------------------------- MODULE MCKernel -------------------------------
(* Kernel for TLC: three tasks above the idle task, a queue an interrupt posts *)
(* to, and a mutex.                                                            *)
EXTENDS Kernel, TLC

CONSTANTS idle, low, mid, high, queue, mutex

MCTasks == {idle, low, mid, high}
MCBase == idle :> 0 @@ low :> 1 @@ mid :> 2 @@ high :> 3
MCLength == queue :> 1
===============================================================================

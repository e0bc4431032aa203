------------------------------ MODULE MCMutex -------------------------------
(* Six calls of lock(): four of them without a timeout, so that a holder   *)
(* has a queue behind it, and two that pass one at any moment between.     *)
EXTENDS Mutex

CONSTANTS k1, k2, k3, k4, t1, t2

MCKeys == {k1, k2, k3, k4, t1, t2}
MCTimedKeys == {t1, t2}
=============================================================================

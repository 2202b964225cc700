----------------------------- MODULE MCSpinLock -----------------------------
(* Three threads; liveness is checked with them, so they are not symmetric.  *)
EXTENDS SpinLock
=============================================================================

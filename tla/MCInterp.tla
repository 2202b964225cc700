------------------------------ MODULE MCInterp ------------------------------
EXTENDS Interp

\* What a popped slot holds is read by nothing when only one script runs.
InUse == <<SubSeq([s \in 1 .. MaxSlots |-> stack[s - 1]], 1, top), top, frames,
           open, heapvars, globals, line>>

(* Closures of functions, and closures that capture `this' in the methods of *)
(* one class.  For these fewer frames and upvalues are enough: once there is *)
(* a class, the method's and that of its caller, and one variable.           *)
Bounded ==
  classes # <<>> =>
    /\ Len(frames) <= 2 /\ Len(upvalues) <= 1 /\ DOMAIN globals = Native
    /\ \A c \in DOMAIN closures : closures[c].arity = 0 /\ Len(closures[c].upvalues) <= 1
=============================================================================

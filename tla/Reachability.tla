---------------------------- MODULE Reachability ----------------------------
(* What "reachable" means for a heap graph, independently of how the         *)
(* collector finds out.                                                      *)
CONSTANT Obj

(* S has no reference leading out of it.                                     *)
Closed(S, refs) == \A o \in S : refs[o] \subseteq S

(* The least closed set that holds the roots R.                              *)
Reach(R, refs) ==
  {o \in Obj : \A S \in SUBSET Obj : R \subseteq S /\ Closed(S, refs) => o \in S}
=============================================================================

------------------------------ MODULE MCIntern ------------------------------
(* Strings of four contents, two addresses each.  In the same run, but not   *)
(* in the same behaviours, the heap graphs of Rooting: with two classes, and *)
(* with captured variables and methods four slots deep.                      *)
EXTENDS Intern, Rooting, TLC

\* "a" and "b" have the same hash; all share slots in a table of two.
MCStrings == [chars : Chars, id : {1, 2}]
MCHashString(c) == CASE c = "a" -> 3 [] c = "b" -> 3 [] c = "c" -> 4 [] OTHER -> 1
MCHash(s) == MCHashString(s.chars)

Code == ("string" :> 1) @@ ("function" :> 2) @@ ("closure" :> 2)
MCLimits ==
  {[supply |-> Code @@ ("class" :> 2) @@ ("instance" :> 1) @@ ("bound" :> 1), stack |-> 3],
   [supply |-> Code @@ ("class" :> 1) @@ ("instance" :> 1) @@ ("upvalue" :> 1), stack |-> 4]}

VARIABLE part

memoryVars == <<part, internVars, rootingVars>>

MemoryInit ==
  /\ InternInit /\ RootingInit
  /\ \/ part = "strings" /\ limits = CHOOSE l \in Limits : TRUE
     \/ part = "objects"

MemoryNext ==
  \/ part = "strings" /\ InternNext /\ UNCHANGED <<part, rootingVars>>
  \/ part = "objects" /\ RootingNext /\ UNCHANGED <<part, internVars>>

MemorySpec == MemoryInit /\ [][MemoryNext]_memoryVars
=============================================================================

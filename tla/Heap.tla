-------------------------------- MODULE Heap --------------------------------
(* What the garbage-collected heap promises the compiler and the             *)
(* interpreter: an object stays where it is until nothing reachable refers   *)
(* to it; an interned string may disappear with its entry in vm.strings, but *)
(* never before.  Collector is the detailed specification (memory.cc).       *)
CONSTANTS Obj, RootSet

VARIABLES heap,     \* the allocated objects
          refs,     \* [Obj -> SUBSET Obj] the references an object holds
          roots,    \* [RootSet -> SUBSET Obj]
          strings   \* the keys of vm.strings: references that keep nothing alive

vars == <<heap, refs, roots, strings>>

INSTANCE Reachability

Roots == UNION {roots[r] : r \in RootSet}
Reachable == Reach(Roots, refs)

Init == /\ heap = {}
        /\ refs = [o \in Obj |-> {}]
        /\ roots = [r \in RootSet |-> {}]
        /\ strings = {}

(* Only a reachable or an interned object can be handed to the program.      *)
Known == Reachable \union strings

Allocate(o, r) ==
  /\ o \in Obj \ heap
  /\ heap' = heap \union {o}
  /\ roots' = [roots EXCEPT ![r] = @ \union {o}]
  /\ UNCHANGED <<refs, strings>>

ChangeRoots(r, S) ==
  /\ S \subseteq Known
  /\ roots' = [roots EXCEPT ![r] = S]
  /\ UNCHANGED <<heap, refs, strings>>

Write(p, S) ==
  /\ p \in Reachable
  /\ S \subseteq Known
  /\ refs' = [refs EXCEPT ![p] = S]
  /\ UNCHANGED <<heap, roots, strings>>

Intern(o) ==
  /\ o \in Reachable
  /\ strings' = strings \union {o}
  /\ UNCHANGED <<heap, refs, roots>>

Collect ==
  /\ Reachable \subseteq heap' /\ heap' \subseteq heap
  /\ Reachable \intersect strings \subseteq strings' /\ strings' \subseteq strings
  /\ strings' \subseteq heap'
  /\ refs' = [o \in Obj |-> IF o \in heap' THEN refs[o] ELSE {}]
  /\ UNCHANGED roots

Next ==
  \/ \E r \in RootSet : \/ \E o \in Obj : Allocate(o, r)
                        \/ \E S \in SUBSET Obj : ChangeRoots(r, S)
  \/ \E p \in Obj : Intern(p) \/ \E S \in SUBSET Obj : Write(p, S)
  \/ Collect

Spec == Init /\ [][Next]_vars
=============================================================================

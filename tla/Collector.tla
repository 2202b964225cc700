------------------------------ MODULE Collector ------------------------------
(* src/common/memory.cc: reallocate, the accounting of allocated bytes, and  *)
(* the stop-the-world mark-sweep collection that any growing reallocation    *)
(* may run.  The collection is modelled step by step (markRoots, one         *)
(* blackened object at a time, tableRemoveWhite, one swept object at a time) *)
(* and the program between collections by what it does to the heap graph:    *)
(* an object's kind is only the set of objects blackenObject marks from it.  *)
(* The gray stack and the list vm.objects are sets: any order is allowed.    *)
EXTENDS Integers, FiniteSetsExt

CONSTANTS Obj,          \* heap addresses
          RootSet,      \* stack, frames, openUpvalues, globals, compiler, initString
          VM,           \* owner of the arrays that belong to no object
          None,
          Block,        \* the sizes of blocks the program asks for
          FirstGC,      \* initVM's nextGC
          ForceGC,      \* built with ENABLE_FORCE_GC
          MaxSize       \* bound: [Obj \union {VM} -> Nat], the most bytes of an owner

ASSUME CollectorAssumption ==
  /\ VM \notin Obj /\ None \notin Obj \union {VM}
  /\ Block \subseteq Nat \ {0}
  /\ FirstGC \in Nat /\ MaxSize \in [Obj \union {VM} -> Nat]
  /\ ForceGC \in BOOLEAN

INSTANCE Reachability

VARIABLES
  heap,      \* vm.objects
  refs,      \* [Obj -> SUBSET Obj], what blackenObject marks
  roots,     \* [RootSet -> SUBSET Obj], what markRoots marks
  strings,   \* the keys of vm.strings
  marked,    \* the objects whose isMarked is set
  gray,      \* vm.grayStack
  unswept,   \* the rest of vm.objects, while sweep walks it
  phase,     \* where control is: program, markRoots, trace, sweep, realloc
  owner,     \* whose block reallocate is growing, None outside reallocate
  delta,     \* by how much
  size,      \* [Obj \union {VM} -> Nat], the bytes each owner's blocks occupy
  bytes,     \* vm.bytesAllocated
  nextGC     \* vm.nextGC

graph == <<heap, refs, roots, strings>>
gcvars == <<marked, gray, unswept>>
request == <<owner, delta>>
account == <<size, bytes, nextGC>>
vars == <<graph, gcvars, phase, request, account>>

Roots == UNION {roots[r] : r \in RootSet}
Reachable == Reach(Roots, refs)
Known == Reachable \union strings

Init ==
  /\ heap = {} /\ strings = {}
  /\ refs = [o \in Obj |-> {}]
  /\ roots = [r \in RootSet |-> {}]
  /\ marked = {} /\ gray = {} /\ unswept = {}
  /\ phase = "program" /\ owner = None /\ delta = 0
  /\ size = [x \in Obj \union {VM} |-> 0]
  /\ bytes = 0 /\ nextGC = FirstGC

-----------------------------------------------------------------------------
(* The program, between two reallocations.                                   *)

(* push, a local variable, defineGlobal, a new frame, initCompiler.  The     *)
(* object is reachable, or was found by tableFindString.                     *)
Root(r, o) ==
  /\ phase = "program" /\ o \in Known
  /\ roots' = [roots EXCEPT ![r] = @ \union {o}]
  /\ UNCHANGED <<heap, refs, strings, gcvars, phase, request, account>>

(* pop, an overwritten slot, a frame that returns, endCompiler.              *)
Unroot(r, o) ==
  /\ phase = "program" /\ o \in roots[r]
  /\ roots' = [roots EXCEPT ![r] = @ \ {o}]
  /\ UNCHANGED <<heap, refs, strings, gcvars, phase, request, account>>

(* A field, method, constant, upvalue or name of p set to q ...              *)
Link(p, q) ==
  /\ phase = "program" /\ p \in Reachable /\ q \in Known
  /\ refs' = [refs EXCEPT ![p] = @ \union {q}]
  /\ UNCHANGED <<heap, roots, strings, gcvars, phase, request, account>>

(* ... and overwritten.                                                      *)
Unlink(p, q) ==
  /\ phase = "program" /\ p \in Reachable /\ q \in refs[p]
  /\ refs' = [refs EXCEPT ![p] = @ \ {q}]
  /\ UNCHANGED <<heap, roots, strings, gcvars, phase, request, account>>

(* allocateString's tableSet: the string is on the stack at that moment.     *)
Intern(o) ==
  /\ phase = "program" /\ o \in Reachable
  /\ strings' = strings \union {o}
  /\ UNCHANGED <<heap, refs, roots, gcvars, phase, request, account>>

-----------------------------------------------------------------------------
(* reallocate *)

(* Growing a block of x by n bytes counts them first, then may collect.  x   *)
(* is an object under construction, a reachable object whose array grows, or *)
(* VM for the tables of the VM and arrays held by a C local.  A forced       *)
(* collection leaves nextGC = 2 * bytes, so the test after it cannot start   *)
(* a second one.                                                             *)
Grow(x, n) ==
  /\ phase = "program" /\ x \in Reachable \union {VM} \union (Obj \ heap)
  /\ size[x] + n <= MaxSize[x]
  /\ owner' = x /\ delta' = n /\ bytes' = bytes + n
  /\ phase' = IF ForceGC \/ bytes + n > nextGC THEN "markRoots" ELSE "realloc"
  /\ UNCHANGED <<graph, gcvars, size, nextGC>>

(* Shrinking or freeing an array never collects; an object keeps its struct. *)
Shrink(x, n) ==
  /\ phase = "program"
  /\ \/ x = VM /\ n <= size[x]
     \/ x \in Reachable /\ n < size[x]
  /\ bytes' = bytes - n
  /\ size' = [size EXCEPT ![x] = @ - n]
  /\ UNCHANGED <<graph, gcvars, phase, request, nextGC>>

(* The block is there: an array of an existing owner ...                     *)
GrowArray ==
  /\ phase = "realloc" /\ owner \in heap \union {VM}
  /\ size' = [size EXCEPT ![owner] = @ + delta]
  /\ phase' = "program" /\ owner' = None /\ delta' = 0
  /\ UNCHANGED <<graph, gcvars, bytes, nextGC>>

(* ... or an object: allocateObject links it into vm.objects, unmarked; it   *)
(* takes over arrays allocated for it (chars, upvalues), and the caller      *)
(* roots it before it allocates again.                                       *)
allocateObject(r, n) ==
  /\ phase = "realloc" /\ owner \in Obj \ heap
  /\ n <= size[VM] /\ delta + n <= MaxSize[owner]
  /\ heap' = heap \union {owner}
  /\ roots' = [roots EXCEPT ![r] = @ \union {owner}]
  /\ size' = [size EXCEPT ![owner] = delta + n, ![VM] = @ - n]
  /\ phase' = "program" /\ owner' = None /\ delta' = 0
  /\ UNCHANGED <<refs, strings, gcvars, bytes, nextGC>>

-----------------------------------------------------------------------------
(* collectGarbage *)

(* markObject on each of S: a marked object is not pushed again.             *)
Mark(S) == /\ marked' = marked \union S
           /\ gray' = gray \union (S \ marked)

markRoots_KeepsAllStrings ==
  /\ phase = "markRoots"
  /\ Mark(Roots \union strings)
  /\ phase' = "trace"
  /\ UNCHANGED <<graph, unswept, request, account>>

markRoots ==
  /\ phase = "markRoots"
  /\ Mark(Roots)
  /\ phase' = "trace"
  /\ UNCHANGED <<graph, unswept, request, account>>

blackenObject_SkipsAReference(o) ==
  /\ phase = "trace" /\ o \in gray
  /\ \E p \in refs[o] \union {None} :
       /\ marked' = marked \union (refs[o] \ {p})
       /\ gray' = (gray \ {o}) \union (refs[o] \ (marked \union {p}))
  /\ UNCHANGED <<graph, unswept, phase, request, account>>

blackenObject_PushesAgain(o) ==
  /\ phase = "trace" /\ o \in gray
  /\ marked' = marked \union refs[o]
  /\ gray' = (gray \ {o}) \union refs[o]
  /\ UNCHANGED <<graph, unswept, phase, request, account>>

(* One turn of traceReferences: o is popped, then what it refers to marked.  *)
blackenObject(o) ==
  /\ phase = "trace" /\ o \in gray
  /\ marked' = marked \union refs[o]
  /\ gray' = (gray \ {o}) \union (refs[o] \ marked)
  /\ UNCHANGED <<graph, unswept, phase, request, account>>

RemoveWhite_LeavesStrings ==
  /\ phase = "trace" /\ gray = {}
  /\ unswept' = heap
  /\ phase' = "sweep"
  /\ UNCHANGED <<graph, marked, gray, request, account>>

RemoveWhite_TraceCutShort ==
  /\ phase = "trace"
  /\ strings' = strings \intersect marked
  /\ unswept' = heap /\ gray' = {}
  /\ phase' = "sweep"
  /\ UNCHANGED <<heap, refs, roots, marked, request, account>>

(* The weak references go before the objects do.                             *)
RemoveWhite ==
  /\ phase = "trace" /\ gray = {}
  /\ strings' = strings \intersect marked
  /\ unswept' = heap
  /\ phase' = "sweep"
  /\ UNCHANGED <<heap, refs, roots, marked, gray, request, account>>

(* One turn of sweep: keep and unmark, or freeObject with all its arrays.    *)
KeepObject(o) ==
  /\ phase = "sweep" /\ o \in unswept \intersect marked
  /\ marked' = marked \ {o}
  /\ unswept' = unswept \ {o}
  /\ UNCHANGED <<graph, gray, phase, request, account>>

freeObject_ForgetsArrays(o) ==
  /\ phase = "sweep" /\ o \in unswept \ marked
  /\ unswept' = unswept \ {o}
  /\ heap' = heap \ {o}
  /\ refs' = [refs EXCEPT ![o] = {}]
  /\ bytes' = bytes - 1
  /\ size' = [size EXCEPT ![o] = 0]
  /\ UNCHANGED <<roots, strings, marked, gray, phase, request, nextGC>>

freeObject(o) ==
  /\ phase = "sweep" /\ o \in unswept \ marked
  /\ unswept' = unswept \ {o}
  /\ heap' = heap \ {o}
  /\ refs' = [refs EXCEPT ![o] = {}]
  /\ bytes' = bytes - size[o]
  /\ size' = [size EXCEPT ![o] = 0]
  /\ UNCHANGED <<roots, strings, marked, gray, phase, request, nextGC>>

EndCollection ==
  /\ phase = "sweep" /\ unswept = {}
  /\ nextGC' = 2 * bytes
  /\ phase' = "realloc"
  /\ UNCHANGED <<graph, gcvars, request, size, bytes>>

Program ==
  \/ \E r \in RootSet, o \in Obj : Root(r, o) \/ Unroot(r, o)
  \/ \E p, q \in Obj : Link(p, q) \/ Unlink(p, q)
  \/ \E o \in Obj : Intern(o)
  \/ \E x \in Obj \union {VM}, n \in Block : Grow(x, n) \/ Shrink(x, n)

Reallocate ==
  \/ markRoots
  \/ \E o \in Obj : blackenObject(o) \/ KeepObject(o) \/ freeObject(o)
  \/ RemoveWhite
  \/ EndCollection
  \/ GrowArray
  \/ \E r \in RootSet, n \in 0 .. MaxSize[VM] : allocateObject(r, n)

Next == Program \/ Reallocate

(* A call of reallocate runs until it returns: nothing else runs meanwhile.  *)
Spec == Init /\ [][Next]_vars /\ WF_vars(Reallocate)

-----------------------------------------------------------------------------
Phases == {"program", "markRoots", "trace", "sweep", "realloc"}

TypeOK ==
  /\ heap \in SUBSET Obj /\ strings \in SUBSET Obj
  /\ refs \in [Obj -> SUBSET Obj]
  /\ roots \in [RootSet -> SUBSET Obj]
  /\ marked \in SUBSET Obj /\ gray \in SUBSET Obj /\ unswept \in SUBSET Obj
  /\ phase \in Phases
  /\ owner \in Obj \union {VM, None} /\ delta \in Nat
  /\ size \in [Obj \union {VM} -> Nat]
  /\ bytes \in Int /\ nextGC \in Int

(* What sweep leaves: everything but the objects it has still to free.       *)
Survivors == heap \ (unswept \ marked)

(* No reference the program can follow, weak ones included, leads to a freed *)
(* object: not from a root, not from an object that stays, and not from      *)
(* vm.strings, at any moment of a collection.                                *)
NoDangling ==
  /\ Roots \subseteq heap
  /\ strings \subseteq Survivors
  /\ Closed(Reachable \union Survivors, refs)
  /\ Reachable \subseteq Survivors

(* While the collector traces, an object it has finished with refers to      *)
(* marked objects only: a mark missed here is an object freed in use.        *)
NoBlackToWhite ==
  phase = "trace" => /\ gray \subseteq marked
                     /\ Roots \subseteq marked
                     /\ \A o \in marked \ gray : refs[o] \subseteq marked

(* The next collection starts from unmarked objects and an empty gray stack: *)
(* a mark left over would hide an object's references from it.               *)
MarksCleared ==
  phase \in {"program", "markRoots", "realloc"} => marked = {} /\ gray = {}

(* bytesAllocated is the size of all live blocks, and the block a running    *)
(* reallocate has counted already: what is freed was counted, all of it.     *)
(* And the program never runs above the threshold: no growth can skip the    *)
(* collection it owes.                                                       *)
BytesAccounted ==
  /\ bytes = delta + MapThenSumSet(LAMBDA x : size[x], heap \union {VM})
  /\ phase \in {"program", "realloc"} => bytes <= nextGC

(* A collection frees exactly the garbage: what remains is what was          *)
(* reachable when it began (the graph does not change meanwhile).            *)
CollectionIsExact ==
  [][phase = "sweep" /\ phase' = "realloc" => heap = Reachable]_vars

(* Every reallocate returns: cycles in the heap do not keep traceReferences  *)
(* busy.                                                                     *)
CollectionEnds == phase # "program" ~> phase = "program"

(* The inductive invariant behind NoDangling.  Where control is tells what   *)
(* the collector's own sets are: Solid says that the objects which will stay *)
(* hold every root and every interned string and have no reference out of    *)
(* themselves, which marking establishes and the program relies on.          *)
Solid == /\ Roots \subseteq Survivors
         /\ strings \subseteq Survivors
         /\ Closed(Survivors, refs)

Bookkeeping ==
  /\ unswept \subseteq heap
  /\ marked \subseteq Reachable
  /\ phase # "sweep" => unswept = {}
  /\ phase = "sweep" => gray = {} /\ marked \subseteq unswept
                                 /\ Survivors \subseteq Reachable
  /\ phase = "program" <=> owner = None
  /\ \A o \in Obj \ heap : refs[o] = {}

IInv == TypeOK /\ Solid /\ NoBlackToWhite /\ MarksCleared /\ Bookkeeping

(* An object goes only when nothing reachable refers to it.                  *)
Abstract == INSTANCE Heap
ImplementsHeap == Abstract!Spec
=============================================================================

--------------------------- MODULE CollectorProof ---------------------------
(* For every heap, set of roots and sequence of allocations: the collector   *)
(* keeps what the program can reach, and the heap behaves as Heap says.      *)
EXTENDS Collector, Induction

-----------------------------------------------------------------------------
(* Reachability *)

(* The roots are reachable.                                                  *)
LEMMA ReachHoldsRoots ==
  ASSUME NEW R \in SUBSET Obj, NEW G
  PROVE  R \subseteq Reach(R, G)
BY DEF Reach

(* What a reachable object refers to is reachable.                           *)
LEMMA ReachIsClosed ==
  ASSUME NEW R, NEW G \in [Obj -> SUBSET Obj]
  PROVE  Closed(Reach(R, G), G)
BY DEF Reach, Closed

(* Nothing else is: any closed set that holds the roots holds all of it.     *)
LEMMA ReachIsLeast ==
  ASSUME NEW R, NEW G, NEW S \in SUBSET Obj, R \subseteq S, Closed(S, G)
  PROVE  Reach(R, G) \subseteq S
BY DEF Reach

(* The same three facts, of the heap graph.                                  *)
LEMMA ReachableFacts ==
  ASSUME TypeOK
  PROVE  /\ Roots \subseteq Reachable
         /\ Reachable \subseteq Obj
         /\ Closed(Reachable, refs)
         /\ \A S \in SUBSET Obj :
              Roots \subseteq S /\ Closed(S, refs) => Reachable \subseteq S
<1>1. Roots \in SUBSET Obj
  BY DEF TypeOK, Roots
<1>2. Reachable \subseteq Obj
  BY DEF Reachable, Reach
<1> QED
  BY <1>1, <1>2, ReachHoldsRoots, ReachIsClosed, ReachIsLeast DEF TypeOK, Reachable

(* When the objects that stay are solid, no reachable object is lost.        *)
LEMMA SolidFacts ==
  ASSUME TypeOK, Solid
  PROVE  /\ Reachable \subseteq Survivors
         /\ Known \subseteq Survivors
         /\ NoDangling
<1>1. Survivors \in SUBSET Obj /\ Survivors \subseteq heap
  BY DEF TypeOK, Survivors
<1>2. Reachable \subseteq Survivors
  BY <1>1, ReachableFacts DEF Solid
<1>3. Reachable \union Survivors = Survivors
  BY <1>2
<1> QED
  BY <1>1, <1>2, <1>3 DEF Solid, NoDangling, Known

-----------------------------------------------------------------------------
(* The inductive invariant *)

LEMMA InitInvariant == Init => IInv
<1> SUFFICES ASSUME Init PROVE IInv
  OBVIOUS
<1> USE CollectorAssumption DEF Init
<1>1. TypeOK
  BY DEF TypeOK, Phases
<1>2. Roots = {}
  BY DEF Roots
<1>3. Solid /\ NoBlackToWhite /\ MarksCleared /\ Bookkeeping
  BY <1>2 DEF Solid, Survivors, Closed, NoBlackToWhite, MarksCleared, Bookkeeping
<1> QED
  BY <1>1, <1>3 DEF IInv

(* A step of the program changes the graph, with no collection running: the  *)
(* whole heap stays solid when only known objects enter it.                  *)
LEMMA ProgramGraphStep ==
  ASSUME IInv, TypeOK', phase = "program", UNCHANGED <<heap, gcvars, phase, owner>>,
         Roots' \subseteq heap, strings' \subseteq heap, Closed(heap, refs'),
         \A o \in Obj \ heap : refs'[o] = {}
  PROVE  IInv'
BY DEF IInv, Solid, Survivors, NoBlackToWhite, MarksCleared, Bookkeeping, gcvars

(* A step that leaves the graph and the collector's sets alone.              *)
LEMMA GraphUnchanged ==
  ASSUME IInv, TypeOK', UNCHANGED <<graph, gcvars>>,
         phase \in {"program", "realloc"},
         phase' \in {"program", "markRoots", "realloc"},
         phase' = "program" <=> owner' = None
  PROVE  IInv'
<1>1. Roots' = Roots /\ Reachable' = Reachable /\ Survivors' = Survivors
  BY DEF graph, gcvars, Roots, Reachable, Survivors
<1> QED
  BY <1>1 DEF IInv, Solid, NoBlackToWhite, MarksCleared, Bookkeeping, graph, gcvars

(* What the program does to the heap graph keeps the invariant.              *)
LEMMA ProgramStep == IInv /\ Program => IInv'
<1> SUFFICES ASSUME IInv, Program PROVE IInv'
  OBVIOUS
<1> USE DEF graph, gcvars, request, account
<1>0. TypeOK /\ Solid /\ Bookkeeping
  BY DEF IInv
<1>1. phase = "program"
  BY DEF Program, Root, Unroot, Link, Unlink, Intern, Grow, Shrink
<1>2. /\ Survivors = heap
      /\ Roots \subseteq heap /\ strings \subseteq heap /\ Closed(heap, refs)
      /\ Reachable \subseteq heap /\ Known \subseteq heap /\ Known \subseteq Obj
  BY <1>0, <1>1, SolidFacts DEF Survivors, Solid, Bookkeeping, TypeOK
<1>3. ASSUME NEW r \in RootSet, NEW o \in Obj, Root(r, o) PROVE IInv'
  <2>1. TypeOK'
    BY <1>0, <1>3 DEF Root, TypeOK
  <2>2. Roots' \subseteq heap
    BY <1>0, <1>2, <1>3 DEF Root, Roots, TypeOK
  <2> QED
    BY <1>0, <1>1, <1>2, <1>3, <2>1, <2>2, ProgramGraphStep DEF Root, Bookkeeping
<1>4. ASSUME NEW r \in RootSet, NEW o \in Obj, Unroot(r, o) PROVE IInv'
  <2>1. TypeOK'
    BY <1>0, <1>4 DEF Unroot, TypeOK
  <2>2. Roots' \subseteq heap
    BY <1>0, <1>2, <1>4 DEF Unroot, Roots, TypeOK
  <2> QED
    BY <1>0, <1>1, <1>2, <1>4, <2>1, <2>2, ProgramGraphStep DEF Unroot, Bookkeeping
<1>5. ASSUME NEW p \in Obj, NEW q \in Obj, Link(p, q) PROVE IInv'
  <2>1. TypeOK'
    BY <1>0, <1>5 DEF Link, TypeOK
  <2>2. Closed(heap, refs')
    BY <1>0, <1>2, <1>5 DEF Link, TypeOK, Closed
  <2>3. \A o \in Obj \ heap : refs'[o] = {}
    BY <1>0, <1>2, <1>5 DEF Link, TypeOK, Bookkeeping
  <2>4. Roots' = Roots
    BY <1>5 DEF Link, Roots
  <2> QED
    BY <1>1, <1>2, <1>5, <2>1, <2>2, <2>3, <2>4, ProgramGraphStep DEF Link
<1>6. ASSUME NEW p \in Obj, NEW q \in Obj, Unlink(p, q) PROVE IInv'
  <2>1. TypeOK'
    BY <1>0, <1>6 DEF Unlink, TypeOK
  <2>2. Closed(heap, refs')
    BY <1>0, <1>2, <1>6 DEF Unlink, TypeOK, Closed
  <2>3. \A o \in Obj \ heap : refs'[o] = {}
    BY <1>0, <1>2, <1>6 DEF Unlink, TypeOK, Bookkeeping
  <2>4. Roots' = Roots
    BY <1>6 DEF Unlink, Roots
  <2> QED
    BY <1>1, <1>2, <1>6, <2>1, <2>2, <2>3, <2>4, ProgramGraphStep DEF Unlink
<1>7. ASSUME NEW o \in Obj, Intern(o) PROVE IInv'
  <2>1. TypeOK'
    BY <1>0, <1>7 DEF Intern, TypeOK
  <2>2. Roots' = Roots
    BY <1>7 DEF Intern, Roots
  <2> QED
    BY <1>0, <1>1, <1>2, <1>7, <2>1, <2>2, ProgramGraphStep DEF Intern, Bookkeeping
<1>8. ASSUME NEW x \in Obj \union {VM}, NEW n \in Block, Grow(x, n) PROVE IInv'
  <2>1. TypeOK'
    BY <1>0, <1>8, CollectorAssumption DEF Grow, TypeOK, Phases
  <2>2. owner' # None /\ phase' \in {"markRoots", "realloc"}
    BY <1>8, CollectorAssumption DEF Grow
  <2> QED
    BY <1>1, <1>8, <2>1, <2>2, GraphUnchanged DEF Grow
<1>9. ASSUME NEW x \in Obj \union {VM}, NEW n \in Block, Shrink(x, n) PROVE IInv'
  <2>1. n \in Nat /\ n <= size[x] /\ size[x] \in Nat
    BY <1>0, <1>9, CollectorAssumption DEF Shrink, TypeOK
  <2>2. TypeOK'
    BY <1>0, <1>9, <2>1 DEF Shrink, TypeOK
  <2> QED
    BY <1>0, <1>1, <1>9, <2>2, GraphUnchanged DEF Shrink, Bookkeeping
<1> QED
  BY <1>3, <1>4, <1>5, <1>6, <1>7, <1>8, <1>9 DEF Program

(* So does every step of a reallocation and of a collection.                 *)
LEMMA ReallocateStep == IInv /\ Reallocate => IInv'
<1> SUFFICES ASSUME IInv, Reallocate PROVE IInv'
  OBVIOUS
<1> USE DEF graph, gcvars, request, account
<1>0. /\ TypeOK /\ Solid /\ NoBlackToWhite /\ MarksCleared /\ Bookkeeping
      /\ Roots \subseteq Reachable /\ Reachable \subseteq Survivors
      /\ Reachable \subseteq Obj /\ Closed(Reachable, refs)
  BY ReachableFacts, SolidFacts DEF IInv
<1>1. CASE markRoots
  <2>1. TypeOK'
    BY <1>0, <1>1 DEF markRoots, Mark, TypeOK, Phases, Roots
  <2>2. Roots' = Roots /\ Reachable' = Reachable /\ Survivors' = Survivors
    BY <1>0, <1>1 DEF markRoots, Mark, Roots, Reachable, Survivors, Bookkeeping
  <2> QED
    BY <1>0, <1>1, <2>1, <2>2
    DEF markRoots, Mark, IInv, Solid, NoBlackToWhite, MarksCleared, Bookkeeping
<1>2. ASSUME NEW o \in Obj, blackenObject(o) PROVE IInv'
  <2>1. TypeOK'
    BY <1>0, <1>2 DEF blackenObject, TypeOK
  <2>2. Roots' = Roots /\ Reachable' = Reachable /\ Survivors' = Survivors
    BY <1>0, <1>2 DEF blackenObject, Roots, Reachable, Survivors, Bookkeeping
  <2>3. NoBlackToWhite'
    BY <1>0, <1>2, <2>2 DEF blackenObject, NoBlackToWhite
  <2>4. marked' \subseteq Reachable
    BY <1>0, <1>2 DEF blackenObject, NoBlackToWhite, Bookkeeping, Closed
  <2> QED
    BY <1>0, <1>2, <2>1, <2>2, <2>3, <2>4
    DEF blackenObject, IInv, Solid, MarksCleared, Bookkeeping
<1>3. ASSUME NEW o \in Obj, KeepObject(o) PROVE IInv'
  <2>1. TypeOK'
    BY <1>0, <1>3 DEF KeepObject, TypeOK
  <2>2. Roots' = Roots /\ Reachable' = Reachable /\ Survivors' = Survivors
    BY <1>0, <1>3 DEF KeepObject, Roots, Reachable, Survivors
  <2> QED
    BY <1>0, <1>3, <2>1, <2>2
    DEF KeepObject, IInv, Solid, NoBlackToWhite, MarksCleared, Bookkeeping
<1>4. ASSUME NEW o \in Obj, freeObject(o) PROVE IInv'
  <2>1. TypeOK'
    BY <1>0, <1>4 DEF freeObject, TypeOK
  <2>2. o \notin Survivors /\ Survivors' = Survivors /\ Roots' = Roots
    BY <1>0, <1>4 DEF freeObject, Survivors, Roots, Bookkeeping
  <2>3. Closed(Survivors, refs')
    BY <1>0, <1>4, <2>2 DEF freeObject, Closed, Solid, TypeOK, Survivors
  <2>4. Reachable \subseteq Reachable'
    <3>1. Closed(Reachable', refs') /\ Roots \subseteq Reachable'
      BY <2>1, <2>2, ReachIsClosed, ReachHoldsRoots DEF Reachable, TypeOK, Roots
    <3>2. Reachable' \in SUBSET Obj
      BY DEF Reachable, Reach
    <3>3. Reachable' \subseteq Survivors
      BY <1>0, <2>1, <2>2, <2>3, ReachIsLeast DEF Reachable, Solid, TypeOK, Survivors
    <3>4. Closed(Reachable', refs)
      BY <1>0, <1>4, <2>2, <3>1, <3>2, <3>3 DEF Closed, freeObject, TypeOK
    <3> QED
      BY <1>0, <3>1, <3>2, <3>4, ReachIsLeast DEF Reachable, TypeOK
  <2>5. marked' \subseteq Reachable' /\ Survivors' \subseteq Reachable'
    BY <1>0, <1>4, <2>2, <2>4 DEF freeObject, Bookkeeping
  <2>6. \A x \in Obj \ heap' : refs'[x] = {}
    BY <1>0, <1>4 DEF freeObject, TypeOK, Bookkeeping
  <2> QED
    BY <1>0, <1>4, <2>1, <2>2, <2>3, <2>5, <2>6
    DEF freeObject, IInv, Solid, NoBlackToWhite, MarksCleared, Bookkeeping
<1>5. CASE RemoveWhite
  <2>1. TypeOK'
    BY <1>0, <1>5 DEF RemoveWhite, TypeOK, Phases
  <2>2. Roots' = Roots /\ Reachable' = Reachable
    BY <1>5 DEF RemoveWhite, Roots, Reachable
  <2>3. Roots \subseteq marked /\ Closed(marked, refs) /\ marked \subseteq heap
    BY <1>0, <1>5 DEF RemoveWhite, NoBlackToWhite, Closed, Bookkeeping, Survivors
  <2>4. Survivors' = marked
    BY <1>5, <2>3 DEF RemoveWhite, Survivors
  <2> QED
    BY <1>0, <1>5, <2>1, <2>2, <2>3, <2>4
    DEF RemoveWhite, IInv, Solid, NoBlackToWhite, MarksCleared, Bookkeeping
<1>6. CASE EndCollection
  <2>1. TypeOK'
    BY <1>0, <1>6 DEF EndCollection, TypeOK, Phases
  <2>2. Roots' = Roots /\ Reachable' = Reachable /\ Survivors' = Survivors
    BY <1>6 DEF EndCollection, Roots, Reachable, Survivors
  <2> QED
    BY <1>0, <1>6, <2>1, <2>2
    DEF EndCollection, IInv, Solid, NoBlackToWhite, MarksCleared, Bookkeeping
<1>7. CASE GrowArray
  <2>1. TypeOK'
    BY <1>0, <1>7 DEF GrowArray, TypeOK, Phases
  <2> QED
    BY <1>7, <2>1, GraphUnchanged DEF GrowArray
<1>8. ASSUME NEW r \in RootSet, NEW n \in 0 .. MaxSize[VM], allocateObject(r, n)
      PROVE  IInv'
  <2>1. n \in Nat /\ size[VM] \in Nat /\ n <= size[VM] /\ delta \in Nat
    BY <1>0, <1>8, CollectorAssumption DEF allocateObject, TypeOK
  <2>2. TypeOK'
    <3>1. size' \in [Obj \union {VM} -> Nat]
      BY <1>0, <1>8, <2>1, CollectorAssumption DEF allocateObject, TypeOK
    <3> QED
      BY <1>0, <1>8, <3>1 DEF allocateObject, TypeOK, Phases
  <2>3. unswept = {} /\ marked = {} /\ gray = {} /\ Survivors = heap
    BY <1>0, <1>8 DEF allocateObject, Bookkeeping, MarksCleared, Survivors
  <2>4. Survivors' = heap \union {owner} /\ refs[owner] = {}
    BY <1>0, <1>8, <2>3 DEF allocateObject, Survivors, Bookkeeping
  <2>5. Roots' \subseteq heap \union {owner}
    BY <1>0, <1>8, <2>3 DEF allocateObject, Roots, TypeOK, Solid
  <2>6. Closed(heap \union {owner}, refs)
    BY <1>0, <2>3, <2>4 DEF Solid, Closed
  <2>7. Solid'
    BY <1>0, <1>8, <2>3, <2>4, <2>5, <2>6 DEF allocateObject, Solid
  <2> QED
    BY <1>0, <1>8, <2>2, <2>3, <2>7
    DEF allocateObject, IInv, NoBlackToWhite, MarksCleared, Bookkeeping
<1> QED
  BY <1>1, <1>2, <1>3, <1>4, <1>5, <1>6, <1>7, <1>8 DEF Reallocate

(* And so every step.                                                        *)
LEMMA NextInvariant == IInv /\ [Next]_vars => IInv'
<1> SUFFICES ASSUME IInv, [Next]_vars PROVE IInv'
  OBVIOUS
<1>1. CASE Next
  BY <1>1, ProgramStep, ReallocateStep DEF Next
<1>2. CASE UNCHANGED vars
  <2>1. Roots' = Roots /\ Reachable' = Reachable /\ Survivors' = Survivors
    BY <1>2 DEF vars, graph, gcvars, Roots, Reachable, Survivors
  <2> QED
    BY <1>2, <2>1 DEF IInv, TypeOK, Solid, NoBlackToWhite, MarksCleared,
       Bookkeeping, vars, graph, gcvars, request, account
<1> QED
  BY <1>1, <1>2

(* The state always has the shape of the collector's data, control says      *)
(* which parts are in use, and what will survive is solid.                   *)
THEOREM Invariance == Spec => []IInv
BY InitInvariant, NextInvariant, PTL DEF Spec

(* No reference the program can follow leads to a freed object, whenever the *)
(* allocations of the program start collections.                             *)
THEOREM Safety == Spec => []NoDangling
<1>1. IInv => NoDangling
  BY SolidFacts DEF IInv
<1> QED
  BY <1>1, Invariance, PTL

(* The variables keep their types, whatever is allocated and collected: no   *)
(* size goes negative.                                                       *)
THEOREM Typing == Spec => []TypeOK
<1>1. IInv => TypeOK
  BY DEF IInv
<1> QED
  BY <1>1, Invariance, PTL

(* While the collector traces, no object it has finished with refers to an   *)
(* unmarked one, whatever the graph and the order of the gray stack.         *)
THEOREM Tricolour == Spec => []NoBlackToWhite
<1>1. IInv => NoBlackToWhite
  BY DEF IInv
<1> QED
  BY <1>1, Invariance, PTL

(* Every collection frees all of the garbage: nothing unreachable is kept.   *)
THEOREM Exactness == Spec => CollectionIsExact
<1>1. IInv /\ [Next]_vars
      => [phase = "sweep" /\ phase' = "realloc" => heap = Reachable]_vars
  <2> SUFFICES ASSUME IInv, Next, phase = "sweep", phase' = "realloc"
               PROVE  heap = Reachable
    OBVIOUS
  <2>1. EndCollection
    BY DEF Next, Program, Root, Unroot, Link, Unlink, Intern, Grow, Shrink,
       Reallocate, markRoots, blackenObject, KeepObject, freeObject, RemoveWhite,
       GrowArray, allocateObject
  <2>2. Survivors = heap
    BY <2>1 DEF EndCollection, Survivors
  <2> QED
    BY <2>2, SolidFacts DEF IInv, Bookkeeping
<1> QED
  BY <1>1, Invariance, PTL DEF Spec, CollectionIsExact

-----------------------------------------------------------------------------
(* Refinement of Heap *)

(* Heap's notions of reachability are those of Collector.                    *)
LEMMA SameReachability ==
  Abstract!Reachable = Reachable /\ Abstract!Known = Known
BY DEF Abstract!Reachable, Abstract!Known, Abstract!Roots, Abstract!Reach,
   Abstract!Closed, Reachable, Known, Roots, Reach, Closed

(* The empty heap is Heap's.                                                 *)
LEMMA InitRefines == Init => Abstract!Init
BY DEF Init, Abstract!Init

(* What the program does between collections.                                *)
LEMMA ProgramRefines == IInv /\ Program => [Abstract!Next]_(Abstract!vars)
<1> SUFFICES ASSUME IInv, Program PROVE [Abstract!Next]_(Abstract!vars)
  OBVIOUS
<1> USE DEF graph
<1>0. TypeOK /\ Roots \subseteq Reachable /\ Closed(Reachable, refs)
  BY ReachableFacts DEF IInv
<1>1. ASSUME NEW r \in RootSet, NEW S \in SUBSET Obj, S \subseteq Known,
             roots' = [roots EXCEPT ![r] = S], UNCHANGED <<heap, refs, strings>>
      PROVE  Abstract!Next
  BY <1>1, SameReachability DEF Abstract!Next, Abstract!ChangeRoots
<1>2. ASSUME NEW p \in Reachable, NEW S \in SUBSET Obj, S \subseteq Known,
             refs' = [refs EXCEPT ![p] = S], UNCHANGED <<heap, roots, strings>>
      PROVE  Abstract!Next
  <2>1. p \in Obj
    BY DEF Reachable, Reach
  <2> QED
    BY <1>2, <2>1, SameReachability DEF Abstract!Next, Abstract!Write
<1>3. ASSUME NEW r \in RootSet, NEW o \in Obj, Root(r, o) PROVE Abstract!Next
  <2>1. roots[r] \union {o} \in SUBSET Obj /\ roots[r] \union {o} \subseteq Known
    BY <1>0, <1>3 DEF Root, Known, Roots, TypeOK
  <2> QED
    BY <1>1, <1>3, <2>1 DEF Root
<1>4. ASSUME NEW r \in RootSet, NEW o \in Obj, Unroot(r, o) PROVE Abstract!Next
  <2>1. roots[r] \ {o} \in SUBSET Obj /\ roots[r] \ {o} \subseteq Known
    BY <1>0 DEF Known, Roots, TypeOK
  <2> QED
    BY <1>1, <1>4, <2>1 DEF Unroot
<1>5. ASSUME NEW p \in Obj, NEW q \in Obj, Link(p, q) PROVE Abstract!Next
  <2>1. refs[p] \union {q} \in SUBSET Obj /\ refs[p] \union {q} \subseteq Known
    BY <1>0, <1>5 DEF Link, Known, Closed, TypeOK
  <2> QED
    BY <1>2, <1>5, <2>1 DEF Link
<1>6. ASSUME NEW p \in Obj, NEW q \in Obj, Unlink(p, q) PROVE Abstract!Next
  <2>1. refs[p] \ {q} \in SUBSET Obj /\ refs[p] \ {q} \subseteq Known
    BY <1>0, <1>6 DEF Unlink, Known, Closed, TypeOK
  <2> QED
    BY <1>2, <1>6, <2>1 DEF Unlink
<1>7. ASSUME NEW o \in Obj, Intern(o) PROVE Abstract!Next
  BY <1>7, SameReachability DEF Intern, Abstract!Next, Abstract!Intern
<1>8. ASSUME NEW x \in Obj \union {VM}, NEW n \in Block, Grow(x, n) \/ Shrink(x, n)
      PROVE  UNCHANGED Abstract!vars
  BY <1>8 DEF Grow, Shrink, Abstract!vars
<1> QED
  BY <1>3, <1>4, <1>5, <1>6, <1>7, <1>8 DEF Program

(* What reallocate does: the weak references and the objects a collection    *)
(* drops are Collect steps, a new object is Allocate, the rest is invisible. *)
LEMMA ReallocateRefines == IInv /\ Reallocate => [Abstract!Next]_(Abstract!vars)
<1> SUFFICES ASSUME IInv, Reallocate PROVE [Abstract!Next]_(Abstract!vars)
  OBVIOUS
<1> USE DEF graph
<1>0. /\ TypeOK /\ Solid /\ Bookkeeping
      /\ Reachable \subseteq Survivors /\ strings \subseteq Survivors
      /\ Survivors \subseteq heap
      /\ Roots \subseteq Reachable /\ Closed(Reachable, refs)
  BY ReachableFacts, SolidFacts DEF IInv, Solid, Survivors
<1>1. refs = [o \in Obj |-> IF o \in heap THEN refs[o] ELSE {}]
  BY <1>0 DEF TypeOK, Bookkeeping
<1>2. CASE RemoveWhite
  <2>1. Reachable \subseteq marked
    <3>1. Closed(marked, refs) /\ Roots \subseteq marked /\ marked \in SUBSET Obj
      BY <1>2 DEF RemoveWhite, IInv, NoBlackToWhite, Closed, TypeOK
    <3> QED
      BY <1>0, <3>1, ReachableFacts
  <2> QED
    BY <1>0, <1>1, <1>2, <2>1, SameReachability
    DEF RemoveWhite, Abstract!Next, Abstract!Collect
<1>3. ASSUME NEW o \in Obj, freeObject(o) PROVE Abstract!Next
  <2>1. o \notin Survivors /\ heap' = heap \ {o}
    BY <1>3 DEF freeObject, Survivors
  <2>2. refs' = [x \in Obj |-> IF x \in heap' THEN refs[x] ELSE {}]
    BY <1>0, <1>1, <1>3, <2>1 DEF freeObject, TypeOK
  <2> QED
    BY <1>0, <1>3, <2>1, <2>2, SameReachability
    DEF freeObject, Abstract!Next, Abstract!Collect
<1>4. ASSUME NEW r \in RootSet, NEW n \in 0 .. MaxSize[VM], allocateObject(r, n)
      PROVE  Abstract!Next
  BY <1>0, <1>4 DEF allocateObject, Abstract!Next, Abstract!Allocate
<1>5. ASSUME \/ markRoots \/ EndCollection \/ GrowArray
             \/ \E o \in Obj : blackenObject(o) \/ KeepObject(o)
      PROVE  UNCHANGED Abstract!vars
  BY <1>5 DEF markRoots, EndCollection, GrowArray, blackenObject, KeepObject, Abstract!vars
<1> QED
  BY <1>2, <1>3, <1>4, <1>5 DEF Reallocate

(* The collected heap is the promised one: an object, and the interned entry *)
(* of a string, goes only when the program cannot reach it.                  *)
THEOREM Refinement == Spec => ImplementsHeap
<1>1. IInv /\ [Next]_vars => [Abstract!Next]_(Abstract!vars)
  <2> SUFFICES ASSUME IInv, [Next]_vars PROVE [Abstract!Next]_(Abstract!vars)
    OBVIOUS
  <2>1. UNCHANGED vars => UNCHANGED Abstract!vars
    BY DEF vars, graph, Abstract!vars
  <2> QED
    BY <2>1, ProgramRefines, ReallocateRefines DEF Next
<1> QED
  BY <1>1, InitRefines, Invariance, PTL DEF Spec, ImplementsHeap, Abstract!Spec

-----------------------------------------------------------------------------
(* The accounting of bytes *)

(* The bytes of the blocks of S, one by one: <<owner, n>> is an owner's n-th.*)
BytesOf(f, S) == UNION {{x} \X (1 .. f[x]) : x \in S}
(* The sum in BytesAccounted.                                                *)
Total(f, S) == MapThenSumSet(LAMBDA x : f[x], S)

(* An owner has as many bytes as its size says.                              *)
LEMMA BytesOfOne ==
  ASSUME NEW x, NEW n \in Nat
  PROVE  IsFiniteSet({x} \X (1 .. n)) /\ Cardinality({x} \X (1 .. n)) = n
<1>1. IsFiniteSet({x}) /\ Cardinality({x}) = 1
  BY FS_Singleton
<1>2. IsFiniteSet(1 .. n) /\ Cardinality(1 .. n) = n
  <2>1. 1 \in Int /\ n \in Int
    OBVIOUS
  <2>2. IsFiniteSet(1 .. n) /\ Cardinality(1 .. n) = IF 1 > n THEN 0 ELSE n - 1 + 1
    BY <2>1, FS_Interval
  <2> QED BY <2>2
<1>3. /\ IsFiniteSet({x} \X (1 .. n))
      /\ Cardinality({x} \X (1 .. n)) = Cardinality({x}) * Cardinality(1 .. n)
  BY <1>1, <1>2, FS_Product
<1> QED BY <1>1, <1>2, <1>3

(* Finitely many owners have finitely many bytes.                            *)
LEMMA BytesAreFinite ==
  ASSUME NEW D, NEW f \in [D -> Nat], NEW S \in SUBSET D, IsFiniteSet(S)
  PROVE  IsFiniteSet(BytesOf(f, S))
<1> DEFINE h == [x \in S |-> {x} \X (1 .. f[x])]
           T == {h[x] : x \in S}
<1>1. h \in Surjection(S, T)
  BY DEF Surjection
<1>2. IsFiniteSet(T)
  <2> HIDE DEF h, T
  <2> QED BY <1>1, FS_Surjection
<1>3. \A x \in S : f[x] \in Nat
  OBVIOUS
<1>4. \A x \in S : IsFiniteSet({x} \X (1 .. f[x]))
  BY <1>3, BytesOfOne
<1>5. \A B \in T : IsFiniteSet(B)
  BY <1>4
<1>6. IsFiniteSet(UNION T)
  <2> HIDE DEF h, T
  <2> QED BY <1>2, <1>5, FS_UNION
<1>7. UNION T = BytesOf(f, S)
  BY DEF BytesOf
<1> QED BY <1>6, <1>7

(* Counting one owner apart, any of them.                                    *)
LEMMA CountApart ==
  ASSUME NEW D, NEW f \in [D -> Nat], NEW S \in SUBSET D, IsFiniteSet(S), NEW x \in S
  PROVE  /\ Cardinality(BytesOf(f, S)) = f[x] + Cardinality(BytesOf(f, S \ {x}))
         /\ Cardinality(BytesOf(f, S)) \in Nat /\ Cardinality(BytesOf(f, S \ {x})) \in Nat
<1> DEFINE A == {x} \X (1 .. f[x])
           B == BytesOf(f, S \ {x})
<1>1. f[x] \in Nat
  OBVIOUS
<1>2. IsFiniteSet(A) /\ Cardinality(A) = f[x]
  BY <1>1, BytesOfOne
<1>3. IsFiniteSet(S \ {x}) /\ S \ {x} \in SUBSET D
  BY FS_Subset
<1>4. IsFiniteSet(B)
  BY <1>3, BytesAreFinite
<1>5. BytesOf(f, S) = A \union B /\ A \intersect B = {}
  BY DEF BytesOf
<1> HIDE DEF A, B
<1>6. Cardinality(A \union B) = Cardinality(A) + Cardinality(B) - Cardinality(A \intersect B)
  BY <1>2, <1>4, FS_Union
<1>7. Cardinality({}) = 0 /\ Cardinality(B) \in Nat
  BY <1>4, FS_EmptySet, FS_CardinalityType
<1>8. Cardinality(A \union B) = f[x] + Cardinality(B)
  <2>1. Cardinality(A \intersect B) = 0
    BY <1>5, <1>7
  <2> QED BY <1>1, <1>2, <1>6, <1>7, <2>1
<1>9. Cardinality(BytesOf(f, S)) = f[x] + Cardinality(B)
  BY <1>5, <1>8
<1> QED BY <1>1, <1>7, <1>9 DEF B

(* The sum that the model writes is the number of bytes, in whatever order   *)
(* its terms are added.                                                      *)
LEMMA SumIsCount ==
  ASSUME NEW D, NEW f \in [D -> Nat], NEW S \in SUBSET D, IsFiniteSet(S)
  PROVE  Total(f, S) = Cardinality(BytesOf(f, S))
<1> DEFINE pick(s) == CHOOSE x \in s : TRUE
           count == [s \in SUBSET S |-> Cardinality(BytesOf(f, s))]
           sum == CHOOSE g : g = [s \in SUBSET S |->
                                    IF s = {} THEN 0
                                    ELSE LET x == CHOOSE x \in s : TRUE
                                         IN f[x] + g[s \ {x}]]
<1>1. Total(f, S) = sum[S]
  BY DEF Total, MapThenSumSet, MapThenFoldSet
<1>2. \A s \in SUBSET S : s # {} => pick(s) \in s
  OBVIOUS
<1>3. \A s \in SUBSET S : s # {} => count[s] = f[pick(s)] + count[s \ {pick(s)}]
  <2> TAKE s \in SUBSET S
  <2> HAVE s # {}
  <2> DEFINE x == pick(s)
  <2>1. x \in s
    BY <1>2
  <2> HIDE DEF x
  <2>2. s \in SUBSET D /\ IsFiniteSet(s)
    BY FS_Subset
  <2>3. Cardinality(BytesOf(f, s)) = f[x] + Cardinality(BytesOf(f, s \ {x}))
    BY <2>1, <2>2, CountApart
  <2>4. s \ {x} \in SUBSET S
    OBVIOUS
  <2> QED BY <2>3, <2>4 DEF x
<1>4. count[{}] = 0
  <2>1. BytesOf(f, {}) = {} /\ {} \in SUBSET S
    BY DEF BytesOf
  <2> QED BY <2>1, FS_EmptySet
<1>5. count = [s \in SUBSET S |-> IF s = {} THEN 0
                                  ELSE LET x == CHOOSE x \in s : TRUE
                                       IN f[x] + count[s \ {x}]]
  <2>1. count = [s \in SUBSET S |-> count[s]]
    OBVIOUS
  <2> HIDE DEF count
  <2>2. \A s \in SUBSET S :
          count[s] = IF s = {} THEN 0 ELSE f[pick(s)] + count[s \ {pick(s)}]
    BY <1>3, <1>4
  <2>3. count = [s \in SUBSET S |-> IF s = {} THEN 0 ELSE f[pick(s)] + count[s \ {pick(s)}]]
    <3> HIDE DEF pick
    <3> QED BY <2>1, <2>2
  <2> QED BY <2>3
<1> HIDE DEF count
<1>6. sum = [s \in SUBSET S |-> IF s = {} THEN 0
                                ELSE LET x == CHOOSE x \in s : TRUE
                                     IN f[x] + sum[s \ {x}]]
  BY <1>5
<1> HIDE DEF sum
<1>7. \A s \in SUBSET S : sum[s] = IF s = {} THEN 0 ELSE f[pick(s)] + sum[s \ {pick(s)}]
  BY <1>6
<1> HIDE DEF pick
<1>8. \A s \in SUBSET S : sum[s] = count[s]
  <2> SUFFICES ASSUME NEW r \in SUBSET S, sum[r] # count[r] PROVE FALSE
    OBVIOUS
  <2> DEFINE Bad == {s \in SUBSET S : sum[s] # count[s]}
             K == {Cardinality(s) : s \in Bad}
  <2>1. \A s \in SUBSET S : IsFiniteSet(s) /\ Cardinality(s) \in Nat
    BY FS_Subset, FS_CardinalityType
  <2>2. K \in SUBSET Nat /\ K # {}
    BY <2>1
  <2>3. PICK k \in K : \A j \in K : k <= j
    BY <2>2, LeastNumber
  <2>4. PICK s \in Bad : k = Cardinality(s)
    BY <2>3
  <2>5. s \in SUBSET S /\ sum[s] # count[s]
    BY <2>4
  <2>6. s # {}
    BY <1>4, <1>7, <2>5
  <2>7. pick(s) \in s /\ s \ {pick(s)} \in SUBSET S
    BY <1>2, <2>5, <2>6
  <2>8. Cardinality(s \ {pick(s)}) = Cardinality(s) - 1
    BY <2>1, <2>5, <2>7, FS_RemoveElement
  <2>9. s \ {pick(s)} \notin Bad
    <3> SUFFICES ASSUME s \ {pick(s)} \in Bad PROVE FALSE
      OBVIOUS
    <3>1. Cardinality(s \ {pick(s)}) \in K
      OBVIOUS
    <3>2. k <= Cardinality(s) - 1
      BY <2>3, <2>8, <3>1
    <3> QED BY <2>1, <2>4, <2>5, <3>2
  <2>10. sum[s \ {pick(s)}] = count[s \ {pick(s)}]
    BY <2>7, <2>9
  <2>11. sum[s] = f[pick(s)] + sum[s \ {pick(s)}]
    BY <1>7, <2>5, <2>6
  <2>12. count[s] = f[pick(s)] + count[s \ {pick(s)}]
    BY <1>3, <2>5, <2>6
  <2> QED BY <2>5, <2>10, <2>11, <2>12
<1>9. sum[S] = count[S]
  BY <1>8
<1> QED BY <1>1, <1>9 DEF count

(* Outside reallocate nothing is counted ahead, and the threshold is kept.   *)
Accounts ==
  /\ IsFiniteSet(heap)
  /\ phase = "program" => delta = 0
  /\ bytes = delta + Cardinality(BytesOf(size, heap \union {VM}))
  /\ phase \in {"program", "realloc"} => bytes <= nextGC

(* What the collection frees and the program changes, in terms of the bytes. *)
LEMMA Counting ==
  ASSUME TypeOK, Accounts
  PROVE  /\ IsFiniteSet(heap \union {VM}) /\ heap \union {VM} \in SUBSET (Obj \union {VM})
         /\ Cardinality(BytesOf(size, heap \union {VM})) \in Nat
         /\ \A x \in heap \union {VM} :
              /\ Cardinality(BytesOf(size, heap \union {VM}))
                   = size[x] + Cardinality(BytesOf(size, (heap \union {VM}) \ {x}))
              /\ Cardinality(BytesOf(size, (heap \union {VM}) \ {x})) \in Nat
<1> DEFINE S == heap \union {VM}
           D == Obj \union {VM}
<1>1. IsFiniteSet(S)
  BY FS_AddElement DEF Accounts
<1>2. S \in SUBSET D /\ size \in [D -> Nat] /\ VM \in S
  BY DEF TypeOK
<1> HIDE DEF S, D
<1>3. \A x \in S : /\ Cardinality(BytesOf(size, S)) = size[x] + Cardinality(BytesOf(size, S \ {x}))
                   /\ Cardinality(BytesOf(size, S)) \in Nat
                   /\ Cardinality(BytesOf(size, S \ {x})) \in Nat
  BY <1>1, <1>2, CountApart
<1> QED BY <1>1, <1>2, <1>3 DEF S, D

(* At first nothing is allocated.                                            *)
LEMMA InitAccounts == Init => Accounts
<1> SUFFICES ASSUME Init PROVE Accounts
  OBVIOUS
<1>1. BytesOf(size, heap \union {VM}) = {}
  <2>1. heap \union {VM} = {VM} /\ size[VM] = 0
    BY DEF Init
  <2>2. 1 .. 0 = {}
    OBVIOUS
  <2>3. BytesOf(size, {VM}) = {VM} \X (1 .. 0)
    BY <2>1 DEF BytesOf
  <2> QED BY <2>1, <2>2, <2>3
<1>2. Cardinality(BytesOf(size, heap \union {VM})) = 0 /\ IsFiniteSet({})
  BY <1>1, FS_EmptySet
<1> QED BY <1>2, CollectorAssumption DEF Init, Accounts

(* A block grows after it has been counted: the new bytes are its owner's.   *)
LEMMA GrowArrayAccounts ==
  ASSUME IInv, Accounts, GrowArray
  PROVE  Accounts'
<1> DEFINE S == heap \union {VM}
           D == Obj \union {VM}
           x == owner
<1>1. /\ x \in S /\ size' = [size EXCEPT ![x] = @ + delta] /\ delta' = 0
      /\ phase = "realloc" /\ UNCHANGED <<heap, bytes, nextGC>>
  BY DEF GrowArray, graph
<1>2. /\ IsFiniteSet(S) /\ S \in SUBSET D /\ Cardinality(BytesOf(size, S)) \in Nat
      /\ Cardinality(BytesOf(size, S)) = size[x] + Cardinality(BytesOf(size, S \ {x}))
      /\ Cardinality(BytesOf(size, S \ {x})) \in Nat
  BY <1>1, Counting DEF IInv
<1>3. size \in [D -> Nat] /\ delta \in Nat /\ x \in D /\ S' = S
  BY <1>1, <1>2 DEF IInv, TypeOK
<1> HIDE DEF S, D, x
<1>4. /\ size' \in [D -> Nat] /\ size'[x] = size[x] + delta /\ size[x] \in Nat
      /\ \A y \in S \ {x} : size'[y] = size[y]
  BY <1>1, <1>2, <1>3
<1>5. Cardinality(BytesOf(size', S)) = size'[x] + Cardinality(BytesOf(size', S \ {x}))
  <2>1. size' \in [D -> Nat] /\ S \in SUBSET D /\ IsFiniteSet(S) /\ x \in S
    BY <1>1, <1>2, <1>4
  <2> QED BY <2>1, CountApart
<1>6. BytesOf(size', S \ {x}) = BytesOf(size, S \ {x})
  BY <1>4 DEF BytesOf
<1>7. bytes = delta + Cardinality(BytesOf(size, S)) /\ bytes <= nextGC /\ IsFiniteSet(heap)
  BY <1>1 DEF Accounts, S
<1>8. bytes = Cardinality(BytesOf(size', S))
  BY <1>2, <1>3, <1>4, <1>5, <1>6, <1>7
<1>9. bytes' = delta' + Cardinality(BytesOf(size, S)')
  BY <1>1, <1>3, <1>8, <1>2, <1>4, <1>5, <1>6
<1> QED BY <1>1, <1>7, <1>9 DEF Accounts, S

(* allocateObject moves the arrays it takes over from the VM to the object.  *)
LEMMA allocateObjectAccounts ==
  ASSUME IInv, Accounts, NEW r, NEW n \in Nat, allocateObject(r, n)
  PROVE  Accounts'
<1> DEFINE D == Obj \union {VM}
           x == owner
<1>1. /\ phase = "realloc" /\ x \in Obj \ heap /\ n <= size[VM]
      /\ heap' = heap \union {x} /\ delta' = 0
      /\ size' = [size EXCEPT ![x] = delta + n, ![VM] = @ - n]
      /\ UNCHANGED <<bytes, nextGC>>
  BY DEF allocateObject
<1>2. /\ IsFiniteSet(heap \union {VM}) /\ heap \union {VM} \in SUBSET D
      /\ Cardinality(BytesOf(size, heap \union {VM}))
           = size[VM] + Cardinality(BytesOf(size, (heap \union {VM}) \ {VM}))
      /\ Cardinality(BytesOf(size, (heap \union {VM}) \ {VM})) \in Nat
  BY Counting DEF IInv
<1>3. /\ size \in [D -> Nat] /\ delta \in Nat /\ x \in D /\ VM \in D /\ x # VM
      /\ VM \notin heap /\ heap \subseteq D
  BY <1>1, CollectorAssumption DEF IInv, TypeOK
<1> DEFINE T == heap \union {x, VM}
<1>4. /\ T \ {x} = heap \union {VM} /\ (heap \union {VM}) \ {VM} = heap /\ x \in T
      /\ heap' \union {VM} = T /\ T \in SUBSET D /\ T = (heap \union {VM}) \union {x}
  BY <1>1, <1>3
<1>5. IsFiniteSet(T)
  BY <1>2, <1>4, FS_AddElement
<1> HIDE DEF T, D, x
<1>6. size[VM] \in Nat /\ size[VM] - n \in Nat /\ delta + n \in Nat
  BY <1>1, <1>3
<1>7. /\ size' \in [D -> Nat] /\ size'[x] = delta + n /\ size'[VM] = size[VM] - n
      /\ \A y \in heap : size'[y] = size[y]
  BY <1>1, <1>3, <1>6
<1>8. Cardinality(BytesOf(size', T)) = size'[x] + Cardinality(BytesOf(size', heap \union {VM}))
  BY <1>4, <1>5, <1>7, CountApart
<1>9. /\ Cardinality(BytesOf(size', heap \union {VM}))
           = size'[VM] + Cardinality(BytesOf(size', heap))
  <2>1. VM \in heap \union {VM}
    OBVIOUS
  <2>2. Cardinality(BytesOf(size', heap \union {VM}))
           = size'[VM] + Cardinality(BytesOf(size', (heap \union {VM}) \ {VM}))
    BY <1>2, <1>7, <2>1, CountApart
  <2> QED BY <1>4, <2>2
<1>10. BytesOf(size', heap) = BytesOf(size, heap)
  BY <1>7 DEF BytesOf
<1>11. bytes = delta + Cardinality(BytesOf(size, heap \union {VM})) /\ bytes <= nextGC
  BY <1>1 DEF Accounts
<1>12. Cardinality(BytesOf(size, heap \union {VM})) = size[VM] + Cardinality(BytesOf(size, heap))
       /\ Cardinality(BytesOf(size, heap)) \in Nat
  BY <1>2, <1>4
<1>13. bytes = Cardinality(BytesOf(size', T))
  BY <1>1, <1>3, <1>6, <1>7, <1>8, <1>9, <1>10, <1>11, <1>12
<1>14. bytes' = delta' + Cardinality(BytesOf(size, heap \union {VM})')
  <2>1. BytesOf(size, heap \union {VM})' = BytesOf(size', T)
    BY <1>4
  <2>2. Cardinality(BytesOf(size', T)) \in Nat
    BY <1>6, <1>7, <1>8, <1>9, <1>10, <1>12
  <2> QED BY <1>1, <1>13, <2>1, <2>2
<1>15. IsFiniteSet(heap')
  BY <1>1, FS_AddElement DEF Accounts
<1> QED BY <1>1, <1>11, <1>14, <1>15 DEF Accounts

(* freeObject counts back the struct and every array of the object.          *)
LEMMA freeObjectAccounts ==
  ASSUME IInv, Accounts, NEW o \in Obj, freeObject(o)
  PROVE  Accounts'
<1> DEFINE D == Obj \union {VM}
           S == heap \union {VM}
<1>1. /\ phase = "sweep" /\ phase' = "sweep" /\ o \in heap /\ o # VM
      /\ heap' = heap \ {o} /\ bytes' = bytes - size[o] /\ size' = [size EXCEPT ![o] = 0]
      /\ UNCHANGED <<delta, nextGC>>
  BY CollectorAssumption DEF freeObject, IInv, Bookkeeping, request
<1>2. /\ IsFiniteSet(S) /\ S \in SUBSET D /\ Cardinality(BytesOf(size, S)) \in Nat
      /\ Cardinality(BytesOf(size, S)) = size[o] + Cardinality(BytesOf(size, S \ {o}))
      /\ Cardinality(BytesOf(size, S \ {o})) \in Nat
  BY <1>1, Counting DEF IInv
<1>3. size \in [D -> Nat] /\ delta \in Nat /\ size[o] \in Nat /\ o \in D
  BY DEF IInv, TypeOK
<1>4. S' = S \ {o} /\ IsFiniteSet(heap')
  BY <1>1, FS_RemoveElement DEF Accounts
<1> HIDE DEF D
<1>5. \A y \in S \ {o} : size'[y] = size[y]
  BY <1>1, <1>2, <1>3
<1>6. BytesOf(size, S)' = BytesOf(size, S \ {o})
  BY <1>4, <1>5 DEF BytesOf
<1>7. bytes = delta + Cardinality(BytesOf(size, S))
  BY DEF Accounts
<1>8. bytes' = delta' + Cardinality(BytesOf(size, S)')
  <2> HIDE DEF S
  <2> QED BY <1>1, <1>2, <1>3, <1>6, <1>7
<1> QED BY <1>1, <1>4, <1>8 DEF Accounts

(* Shrinking counts back what it takes off.                                  *)
LEMMA ShrinkAccounts ==
  ASSUME IInv, Accounts, NEW x \in Obj \union {VM}, NEW n \in Block, Shrink(x, n)
  PROVE  Accounts'
<1> DEFINE D == Obj \union {VM}
           S == heap \union {VM}
<1>1. /\ phase = "program" /\ x \in S /\ n <= size[x] /\ n \in Nat
      /\ bytes' = bytes - n /\ size' = [size EXCEPT ![x] = @ - n]
      /\ UNCHANGED <<heap, phase, delta, nextGC>>
  <2>1. Reachable \subseteq heap
    BY SolidFacts DEF IInv, Survivors
  <2>2. n \in Nat
    BY CollectorAssumption
  <2>3. size[x] \in Nat
    BY DEF IInv, TypeOK
  <2> QED BY <2>1, <2>2, <2>3 DEF Shrink, graph, request
<1>2. /\ IsFiniteSet(S) /\ S \in SUBSET D /\ Cardinality(BytesOf(size, S)) \in Nat
      /\ Cardinality(BytesOf(size, S)) = size[x] + Cardinality(BytesOf(size, S \ {x}))
      /\ Cardinality(BytesOf(size, S \ {x})) \in Nat
  BY <1>1, Counting DEF IInv
<1>3. size \in [D -> Nat] /\ x \in D /\ S' = S
  BY <1>1 DEF IInv, TypeOK
<1>4. delta = 0 /\ bytes = Cardinality(BytesOf(size, S)) /\ bytes <= nextGC /\ IsFiniteSet(heap)
      /\ nextGC \in Int
  BY <1>1, <1>2 DEF Accounts, IInv, TypeOK
<1> HIDE DEF S, D
<1>5. /\ size' \in [D -> Nat] /\ size'[x] = size[x] - n /\ size[x] \in Nat
      /\ \A y \in S \ {x} : size'[y] = size[y]
  BY <1>1, <1>2, <1>3
<1>6. Cardinality(BytesOf(size', S)) = size'[x] + Cardinality(BytesOf(size', S \ {x}))
  <2>1. size' \in [D -> Nat] /\ S \in SUBSET D /\ IsFiniteSet(S) /\ x \in S
    BY <1>1, <1>2, <1>5
  <2> QED BY <2>1, CountApart
<1>7. BytesOf(size', S \ {x}) = BytesOf(size, S \ {x})
  BY <1>5 DEF BytesOf
<1>8. bytes' = Cardinality(BytesOf(size', S)) /\ bytes' \in Nat
  BY <1>1, <1>2, <1>4, <1>5, <1>6, <1>7
<1>9. bytes' = delta' + Cardinality(BytesOf(size, S)') /\ bytes' <= nextGC'
  BY <1>1, <1>2, <1>3, <1>4, <1>5, <1>8
<1> QED BY <1>1, <1>4, <1>9 DEF Accounts, S

(* Every step keeps the books: one case for each action that changes them.   *)
LEMMA NextAccounts == IInv /\ Accounts /\ [Next]_vars => Accounts'
<1> SUFFICES ASSUME IInv, Accounts, [Next]_vars PROVE Accounts'
  OBVIOUS
<1>0. delta \in Nat /\ bytes \in Nat /\ nextGC \in Int
  BY Counting DEF IInv, TypeOK, Accounts
<1>1. CASE UNCHANGED <<heap, phase, delta, size, bytes, nextGC>>
  BY <1>1 DEF Accounts
<1>2. CASE markRoots \/ RemoveWhite
  BY <1>2 DEF markRoots, RemoveWhite, Accounts, graph, request, account
<1>3. CASE EndCollection
  <2>1. bytes <= 2 * bytes
    BY <1>0
  <2> QED BY <1>3, <2>1 DEF EndCollection, Accounts, graph, request
<1>4. ASSUME NEW x \in Obj \union {VM}, NEW n \in Block, Grow(x, n)
      PROVE  Accounts'
  <2>1. /\ phase = "program" /\ delta' = n /\ bytes' = bytes + n /\ UNCHANGED <<heap, size, nextGC>>
        /\ phase' = "realloc" => ~ (bytes + n > nextGC)
        /\ phase' \in {"markRoots", "realloc"}
    BY <1>4 DEF Grow, graph
  <2>2. delta = 0 /\ n \in Nat /\ Cardinality(BytesOf(size, heap \union {VM})) \in Nat
    BY <2>1, Counting, CollectorAssumption DEF Accounts, IInv
  <2> QED BY <1>0, <2>1, <2>2 DEF Accounts
<1>5. ASSUME NEW x \in Obj \union {VM}, NEW n \in Block, Shrink(x, n)
      PROVE  Accounts'
  BY <1>5, ShrinkAccounts
<1>6. ASSUME NEW o \in Obj, freeObject(o)
      PROVE  Accounts'
  BY <1>6, freeObjectAccounts
<1>7. CASE GrowArray
  BY <1>7, GrowArrayAccounts
<1>8. ASSUME NEW r \in RootSet, NEW n \in 0 .. MaxSize[VM], allocateObject(r, n)
      PROVE  Accounts'
  <2>1. n \in Nat
    BY CollectorAssumption
  <2> QED BY <1>8, <2>1, allocateObjectAccounts
<1>9. CASE Program
  <2>1. ASSUME NEW r \in RootSet, NEW o \in Obj, Root(r, o) \/ Unroot(r, o)
        PROVE  Accounts'
    BY <1>1, <2>1 DEF Root, Unroot, request, account
  <2>2. ASSUME NEW p \in Obj, NEW q \in Obj, Link(p, q) \/ Unlink(p, q)
        PROVE  Accounts'
    BY <1>1, <2>2 DEF Link, Unlink, request, account
  <2>3. ASSUME NEW o \in Obj, Intern(o)
        PROVE  Accounts'
    BY <1>1, <2>3 DEF Intern, request, account
  <2> QED BY <1>4, <1>5, <1>9, <2>1, <2>2, <2>3 DEF Program
<1>10. ASSUME NEW o \in Obj, blackenObject(o) \/ KeepObject(o)
       PROVE  Accounts'
  BY <1>1, <1>10 DEF blackenObject, KeepObject, graph, request, account
<1>11. CASE UNCHANGED vars
  BY <1>1, <1>11 DEF vars, graph, request, account
<1> QED BY <1>2, <1>3, <1>6, <1>7, <1>8, <1>9, <1>10, <1>11 DEF Next, Reallocate

(* bytesAllocated is at every moment the size of all live blocks, and of the *)
(* one that reallocate has counted already: nothing is counted twice, freed  *)
(* without being counted back, or grown above the threshold uncollected.     *)
THEOREM Accounting == Spec => []BytesAccounted
<1>1. IInv /\ Accounts => BytesAccounted
  <2> SUFFICES ASSUME IInv, Accounts PROVE BytesAccounted
    OBVIOUS
  <2>1. /\ IsFiniteSet(heap \union {VM}) /\ heap \union {VM} \in SUBSET (Obj \union {VM})
        /\ size \in [Obj \union {VM} -> Nat]
    BY Counting DEF IInv, TypeOK
  <2>2. Total(size, heap \union {VM}) = Cardinality(BytesOf(size, heap \union {VM}))
    BY <2>1, SumIsCount
  <2>3. bytes = delta + Total(size, heap \union {VM})
    BY <2>2 DEF Accounts
  <2> QED BY <2>3 DEF Accounts, BytesAccounted, Total, MapThenSumSet, MapThenFoldSet
<1>2. Spec => []Accounts
  BY Invariance, InitAccounts, NextAccounts, PTL DEF Spec
<1> QED BY <1>1, <1>2, Invariance, PTL
=============================================================================

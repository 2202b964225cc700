---------------------------- MODULE RootingProof ----------------------------
(* For every number of objects, frames and functions, no C local is read     *)
(* after its object has been collected.  The collector frees what the roots  *)
(* do not lead to, so the invariant says that they lead to every local: any  *)
(* set of objects that has the roots and what its members refer to has what  *)
(* is held (Kept).  That is kept by the order of pushes, stores and pops     *)
(* around each allocation (Points).                                          *)
EXTENDS Rooting, Induction, SequenceTheorems

(* What a slot of the stack holds: an object, or a value that is none.       *)
Items == Obj \union {Plain}

-----------------------------------------------------------------------------
(* Pushing on the stack keeps what is below.                                 *)
LEMMA Appending ==
  ASSUME NEW T, NEW s \in Seq(T), NEW v \in T
  PROVE  /\ Append(s, v) \in Seq(T) /\ Len(Append(s, v)) = Len(s) + 1
         /\ ToSet(Append(s, v)) = ToSet(s) \union {v}
         /\ Append(s, v) # <<>>
         /\ \A i \in DOMAIN s : Append(s, v)[i] = s[i]
         /\ s # <<>> => Append(s, v)[1] = s[1]
         /\ Append(s, v)[Len(s) + 1] = v
         /\ Last(Append(s, v)) = v
BY DEF ToSet, Last

(* Popping keeps what is below.                                              *)
LEMMA Fronts ==
  ASSUME NEW T, NEW s \in Seq(T)
  PROVE  /\ Front(s) \in Seq(T)
         /\ Len(Front(s)) = IF s = <<>> THEN 0 ELSE Len(s) - 1
         /\ \A i \in DOMAIN Front(s) : i \in DOMAIN s /\ Front(s)[i] = s[i]
<1>1. Len(s) \in Nat /\ DOMAIN s = 1 .. Len(s) /\ (s # <<>> <=> Len(s) >= 1)
  OBVIOUS
<1>2. \A i \in 1 .. Len(s) - 1 : s[i] \in T
  BY <1>1
<1>3. /\ SubSeq(s, 1, Len(s) - 1) \in Seq(T)
      /\ Len(SubSeq(s, 1, Len(s) - 1))
           = IF 1 <= Len(s) - 1 THEN Len(s) - 1 - 1 + 1 ELSE 0
      /\ \A i \in 1 .. Len(s) - 1 - 1 + 1 : SubSeq(s, 1, Len(s) - 1)[i] = s[1 + i - 1]
  BY <1>1, <1>2, SubSeqProperties
<1> DEFINE f == Front(s)
<1>4. f = SubSeq(s, 1, Len(s) - 1)
  BY DEF Front
<1> HIDE DEF f
<1>5. f \in Seq(T) /\ Len(f) = IF s = <<>> THEN 0 ELSE Len(s) - 1
  BY <1>1, <1>3, <1>4
<1>6. ASSUME NEW i \in DOMAIN f
      PROVE  i \in DOMAIN s /\ f[i] = s[i]
  <2>1. i \in 1 .. Len(s) - 1
    <3>1. i \in 1 .. Len(f)
      BY <1>5
    <3>2. s # <<>>
      <4> SUFFICES ASSUME s = <<>> PROVE FALSE
        OBVIOUS
      <4>1. Len(f) = 0
        BY <1>5
      <4> QED BY <3>1, <4>1
    <3>3. Len(f) = Len(s) - 1
      BY <1>5, <3>2
    <3> QED BY <3>1, <3>3
  <2>2. i \in 1 .. Len(s) - 1 - 1 + 1 /\ 1 + i - 1 = i
    BY <1>1, <2>1
  <2> QED BY <1>1, <1>3, <1>4, <2>1, <2>2
<1> QED BY <1>5, <1>6 DEF f

(* A stack holds its top, the value below it and what popping leaves.        *)
LEMMA Ends ==
  ASSUME NEW T, NEW s \in Seq(T)
  PROVE  /\ Front(s) \in Seq(T) /\ ToSet(Front(s)) \subseteq ToSet(s)
         /\ ToSet(s) \subseteq T
         /\ s = <<>> => ToSet(s) = {}
         /\ s # <<>> => /\ Len(s) >= 1 /\ Len(Front(s)) = Len(s) - 1
                        /\ Last(s) \in T /\ Last(s) \in ToSet(s)
                        /\ ToSet(s) = ToSet(Front(s)) \union {Last(s)}
         /\ Len(s) >= 2 => s[Len(s) - 1] \in T /\ s[Len(s) - 1] \in ToSet(Front(s))
<1> DEFINE f == Front(s)
<1>1. Len(s) \in Nat /\ DOMAIN s = 1 .. Len(s) /\ (s # <<>> <=> Len(s) >= 1)
  OBVIOUS
<1>2. /\ f \in Seq(T) /\ Len(f) = IF s = <<>> THEN 0 ELSE Len(s) - 1
      /\ \A i \in DOMAIN f : i \in DOMAIN s /\ f[i] = s[i]
  BY Fronts
<1> HIDE DEF f
<1>3. DOMAIN f = 1 .. Len(f)
  BY <1>2
<1>4. ToSet(f) \subseteq ToSet(s) /\ ToSet(s) \subseteq T
  BY <1>2 DEF ToSet
<1>5. ASSUME s # <<>>
      PROVE  /\ Last(s) \in T /\ Last(s) \in ToSet(s)
             /\ ToSet(s) = ToSet(f) \union {Last(s)}
  <2>1. Len(s) \in DOMAIN s /\ Last(s) = s[Len(s)]
    BY <1>1, <1>5 DEF Last
  <2>2. \A i \in DOMAIN s : i = Len(s) \/ (i \in DOMAIN f /\ f[i] = s[i])
    BY <1>1, <1>2, <1>3, <1>5
  <2>3. Last(s) \in T /\ Last(s) \in ToSet(s)
    BY <2>1 DEF ToSet
  <2> QED BY <1>4, <2>1, <2>2, <2>3 DEF ToSet
<1>6. ASSUME Len(s) >= 2
      PROVE  s[Len(s) - 1] \in T /\ s[Len(s) - 1] \in ToSet(f)
  <2>1. Len(s) - 1 \in DOMAIN s /\ Len(s) - 1 \in DOMAIN f
    <3>1. Len(s) >= 1 /\ Len(s) - 1 \in 1 .. Len(s) /\ Len(s) - 1 \in 1 .. Len(s) - 1
      BY <1>1, <1>6
    <3>2. Len(f) = Len(s) - 1
      BY <1>1, <1>2, <3>1
    <3> QED BY <1>1, <1>3, <3>1, <3>2
  <2>2. f[Len(s) - 1] = s[Len(s) - 1]
    BY <1>2, <2>1
  <2> QED BY <2>1, <2>2 DEF ToSet
<1>7. s = <<>> => ToSet(s) = {}
  BY <1>1 DEF ToSet
<1> QED BY <1>1, <1>2, <1>4, <1>5, <1>6, <1>7 DEF f

(* An opcode that replaces the top.                                          *)
LEMMA Replacing ==
  ASSUME NEW T, NEW s \in Seq(T), s # <<>>, NEW v \in T
  PROVE  /\ Append(Front(s), v) \in Seq(T) /\ Len(Append(Front(s), v)) = Len(s)
         /\ ToSet(Append(Front(s), v)) = ToSet(Front(s)) \union {v}
         /\ ToSet(Append(Front(s), v)) \subseteq ToSet(s) \union {v}
<1> DEFINE f == Front(s)
<1>1. f \in Seq(T) /\ Len(f) = Len(s) - 1 /\ ToSet(f) \subseteq ToSet(s) /\ Len(s) \in Nat
  BY Ends
<1> HIDE DEF f
<1>2. /\ Append(f, v) \in Seq(T) /\ Len(Append(f, v)) = Len(f) + 1
      /\ ToSet(Append(f, v)) = ToSet(f) \union {v}
  BY <1>1, Appending
<1>3. Len(f) + 1 = Len(s)
  BY <1>1
<1> QED BY <1>1, <1>2, <1>3 DEF f

(* An opcode that replaces two operands with its result.                     *)
LEMMA ReplacingTwo ==
  ASSUME NEW T, NEW s \in Seq(T), Len(s) >= 2, NEW v \in T
  PROVE  /\ Append(Front(Front(s)), v) \in Seq(T)
         /\ Len(Append(Front(Front(s)), v)) = Len(s) - 1
         /\ ToSet(Append(Front(Front(s)), v)) \subseteq ToSet(s) \union {v}
<1> DEFINE f == Front(s)
<1>1. f \in Seq(T) /\ Len(f) = Len(s) - 1 /\ ToSet(f) \subseteq ToSet(s) /\ Len(s) \in Nat
  <2>1. s # <<>>
    OBVIOUS
  <2> QED BY <2>1, Ends
<1> HIDE DEF f
<1>2. f # <<>>
  BY <1>1
<1>3. /\ Append(Front(f), v) \in Seq(T) /\ Len(Append(Front(f), v)) = Len(f)
      /\ ToSet(Append(Front(f), v)) \subseteq ToSet(f) \union {v}
  BY <1>1, <1>2, Replacing
<1> QED BY <1>1, <1>3 DEF f

(* The collector reaches what the roots lead to.                             *)
LEMMA Tracing ==
  ASSUME refs \in [Obj -> SUBSET Obj], markedRoots \subseteq Obj
  PROVE  /\ markedRoots \subseteq Live /\ Live \subseteq Obj
         /\ \A o \in Live : refs[o] \subseteq Live
<1> DEFINE N == Cardinality(Obj)
           Add(S) == S \union UNION {refs[o] : o \in S}
           traced == CHOOSE f : f = [n \in 0 .. N |->
                                       IF n = 0 THEN markedRoots
                                       ELSE LET S == f[n - 1]
                                            IN S \union UNION {refs[o] : o \in S}]
           step == [p \in (SUBSET Obj) \X (1 .. N) |-> Add(p[1])]
<1>1. Live = traced[N]
  BY DEF Live
<1>2. N \in Nat
  BY RootingAssumption, FS_CardinalityType
<1> HIDE DEF N
<1>3. \A S \in SUBSET Obj : Add(S) \in SUBSET Obj
  OBVIOUS
<1>4. \E f : f = [n \in 0 .. N |->
                    IF n = 0 THEN markedRoots
                    ELSE LET S == f[n - 1] IN S \union UNION {refs[o] : o \in S}]
  <2>1. step \in [(SUBSET Obj) \X (1 .. N) -> SUBSET Obj]
    BY <1>3
  <2> HIDE DEF step
  <2>2. PICK g : Folds(g, SUBSET Obj, markedRoots, N, step)
    BY <1>2, <2>1, FoldExists
  <2> DEFINE f == [n \in 0 .. N |-> g[1 .. n]]
  <2>3. f[0] = markedRoots
    <3>1. f[0] = g[{}] /\ {} \in SUBSET (1 .. N)
      BY <1>2, InitialSegments
    <3> QED BY <2>2, <3>1 DEF Folds
  <2>4. ASSUME NEW n \in 1 .. N
        PROVE  f[n] = Add(f[n - 1])
    <3>1. /\ 1 .. n \in SUBSET (1 .. N) /\ 1 .. n # {}
          /\ Max(1 .. n) = n /\ (1 .. n) \ {n} = 1 .. n - 1
          /\ 1 .. n - 1 \in SUBSET (1 .. N)
      BY <1>2, InitialSegments
    <3>2. g[1 .. n] = step[<<g[1 .. n - 1], n>>]
      BY <2>2, <3>1 DEF Folds
    <3>3. g[1 .. n - 1] \in SUBSET Obj
      BY <2>2, <3>1 DEF Folds
    <3>4. step[<<g[1 .. n - 1], n>>] = Add(g[1 .. n - 1])
      BY <3>3 DEF step
    <3> HIDE DEF Add
    <3> QED BY <1>2, <3>2, <3>4
  <2> HIDE DEF f, Add
  <2>5. f = [n \in 0 .. N |-> f[n]]
    BY DEF f
  <2>6. \A n \in 0 .. N : f[n] = IF n = 0 THEN markedRoots ELSE Add(f[n - 1])
    BY <1>2, <2>3, <2>4
  <2>7. f = [n \in 0 .. N |-> IF n = 0 THEN markedRoots ELSE Add(f[n - 1])]
    BY <2>5, <2>6
  <2> QED BY <2>7 DEF Add
<1>5. traced = [n \in 0 .. N |->
                  IF n = 0 THEN markedRoots
                  ELSE LET S == traced[n - 1] IN S \union UNION {refs[o] : o \in S}]
  BY <1>4
<1> HIDE DEF traced
<1>6. traced[0] = markedRoots /\ \A n \in 1 .. N : traced[n] = Add(traced[n - 1])
  <2>1. traced = [n \in 0 .. N |-> IF n = 0 THEN markedRoots ELSE Add(traced[n - 1])]
    BY <1>5
  <2> HIDE DEF Add
  <2>2. \A n \in 1 .. N : n \in 0 .. N /\ n # 0
    OBVIOUS
  <2>3. 0 \in 0 .. N
    BY <1>2
  <2>4. \A n \in 0 .. N : traced[n] = IF n = 0 THEN markedRoots ELSE Add(traced[n - 1])
    BY <2>1
  <2> QED BY <2>2, <2>3, <2>4
<1> DEFINE Shut(S) == \A o \in S : refs[o] \subseteq S
           Good(n) == /\ traced[n] \subseteq Obj /\ markedRoots \subseteq traced[n]
                      /\ Shut(traced[n]) \/ Cardinality(traced[n]) >= n
           Z == {n \in 0 .. N : Good(n)}
<1>7. 0 \in Z
  <2>1. Cardinality(traced[0]) >= 0
    <3>1. Cardinality(markedRoots) \in Nat
      BY RootingAssumption, FS_Subset, FS_CardinalityType
    <3> QED BY <1>6, <3>1
  <2> QED BY <1>2, <1>6, <2>1
<1>8. ASSUME NEW n \in 1 .. N, n - 1 \in Z
      PROVE  n \in Z
  <2> DEFINE S == traced[n - 1]
  <2>1. Good(n - 1) /\ traced[n] = Add(S) /\ n - 1 \in Nat
    BY <1>6, <1>8
  <2> HIDE DEF S
  <2>2. traced[n] \subseteq Obj /\ markedRoots \subseteq traced[n] /\ S \subseteq traced[n]
    BY <1>3, <2>1 DEF S
  <2>3. CASE Shut(S)
    <3>1. traced[n] = S
      BY <2>1, <2>3
    <3> QED BY <2>2, <2>3, <3>1
  <2>4. CASE ~ Shut(S)
    <3>1. PICK x \in traced[n] : x \notin S
      BY <2>1, <2>4
    <3>2. IsFiniteSet(traced[n]) /\ IsFiniteSet(S)
      BY <2>2, RootingAssumption, FS_Subset
    <3>3. Cardinality(S) < Cardinality(traced[n])
      <4>1. S # traced[n]
        BY <3>1
      <4>2. Cardinality(S) \in Nat /\ Cardinality(traced[n]) \in Nat
        BY <3>2, FS_CardinalityType
      <4>3. /\ Cardinality(S) <= Cardinality(traced[n])
            /\ Cardinality(traced[n]) = Cardinality(S) => traced[n] = S
        BY <2>2, <3>2, FS_Subset
      <4> QED BY <4>1, <4>2, <4>3
    <3>4. Cardinality(S) \in Nat /\ Cardinality(traced[n]) \in Nat /\ Cardinality(S) >= n - 1
      BY <2>1, <2>4, <3>2, FS_CardinalityType DEF S
    <3>5. Cardinality(traced[n]) >= n
      BY <3>3, <3>4
    <3> QED BY <2>2, <3>5
  <2> QED BY <2>3, <2>4
<1> HIDE DEF Z
<1>9. N \in Z
  <2>1. \A n \in 1 .. N : n - 1 \in Z => n \in Z
    BY <1>8
  <2>2. \A n \in 0 .. N : n \in Z
    BY <1>2, <1>7, <2>1, UpTo
  <2> QED BY <1>2, <2>2
<1>10. Good(N)
  BY <1>9 DEF Z
<1>11. Shut(traced[N])
  <2>1. CASE Cardinality(traced[N]) >= N
    <3>1. traced[N] = Obj
      <4>1. Cardinality(traced[N]) \in Nat /\ Cardinality(Obj) = N
        BY <1>10, RootingAssumption, FS_Subset, FS_CardinalityType DEF N
      <4> QED BY <1>2, <1>10, <2>1, <4>1, RootingAssumption, FS_Subset
    <3> QED BY <3>1
  <2> QED BY <1>10, <2>1
<1> QED BY <1>1, <1>10, <1>11

-----------------------------------------------------------------------------
(* The invariant, by parts.                                                  *)
Types ==
  /\ limits \in Limits
  /\ allocated \subseteq Obj /\ refs \in [Obj -> SUBSET Obj]
  /\ stack \in Seq(Items) /\ frames \in Seq([closure : Obj, slots : Nat])
  /\ DOMAIN open \subseteq Obj /\ \A u \in DOMAIN open : open[u] \in Nat
  /\ global \in Items /\ compilers \in Seq(Obj) /\ held \in Seq(Obj)

Shut(S) == \A o \in S : refs[o] \subseteq S

Sound == markedRoots \subseteq allocated /\ Shut(allocated)

(* The roots lead to what a C function still holds: every set of objects     *)
(* that has the roots, and what its members refer to, has it.                *)
Kept ==
  \A S \in SUBSET allocated : markedRoots \subseteq S /\ Shut(S) => ToSet(held) \subseteq S

OpenInStack == \A u \in DOMAIN open : open[u] < Len(stack)

Layout ==
  /\ frames # <<>> => frames[1].slots = 0 /\ compilers = <<>>
  /\ frames = <<>> => DOMAIN open = {}

NoneHeld == {"run", "dropped", "newFunction", "name", "copyString", "result"}
OneHeld  == {"addConstant", "emitByte", "interpret", "newClosure", "captureUpvalue",
             "newClass", "newInstance", "globals"}
TwoHeld  == {"newBoundMethod", "tableSet", "tableAddAll", "chars"}

(* What the code before an allocation has made sure of.                      *)
Points ==
  /\ at \in NoneHeld \union OneHeld \union TwoHeld
  /\ at \in NoneHeld => held = <<>>
  /\ at \in OneHeld => Len(held) = 1
  /\ at \in TwoHeld => Len(held) = 2
  /\ at \in {"name", "copyString", "addConstant", "emitByte"} => compilers # <<>>
  /\ at \in {"newFunction", "interpret"} => frames = <<>>
  /\ at = "interpret" => compilers = <<>>
  /\ at \in {"captureUpvalue", "newInstance", "newClosure", "newClass", "newBoundMethod",
             "tableSet", "tableAddAll", "chars", "result", "globals"} => frames # <<>>
  /\ at \in {"newInstance", "newBoundMethod", "tableAddAll", "globals", "interpret",
             "addConstant"} => Len(stack) >= 1 /\ Uncaptured(1)
  /\ at \in {"tableSet", "chars", "result"} => Len(stack) >= 2 /\ Uncaptured(2)
  /\ at = "captureUpvalue" => held[1] \in ToSet(stack)

IInv == Types /\ Sound /\ Kept /\ OpenInStack /\ Layout /\ Points

(* The roots are in S.                                                       *)
Within(S) ==
  /\ \A x \in ToSet(stack) : x = Plain \/ x \in S
  /\ \A i \in DOMAIN frames : frames[i].closure \in S
  /\ DOMAIN open \subseteq S
  /\ global = Plain \/ global \in S
  /\ ToSet(compilers) \subseteq S

(* The frames are typed one by one; the running frame is the last.           *)
LEMMA FrameFields ==
  ASSUME Types
  PROVE  /\ \A i \in DOMAIN frames : frames[i].closure \in Obj /\ frames[i].slots \in Nat
         /\ frames # <<>> => Frame.closure \in Obj /\ Frame.slots \in Nat
                            /\ Frame = frames[Len(frames)] /\ Len(frames) \in DOMAIN frames
                            /\ 1 \in DOMAIN frames
<1> DEFINE F == [closure : Obj, slots : Nat]
<1>1. \A f \in F : f.closure \in Obj /\ f.slots \in Nat
  OBVIOUS
<1>2. frames \in Seq(F)
  BY DEF Types
<1> HIDE DEF F
<1>3. \A i \in DOMAIN frames : frames[i] \in F
  BY <1>2
<1>4. frames # <<>> => Len(frames) \in DOMAIN frames /\ 1 \in DOMAIN frames
  BY <1>2
<1> QED BY <1>1, <1>3, <1>4 DEF Frame, Last

(* What markRoots marks, stated without the set: slots, closures of frames,  *)
(* open upvalues, the global and the functions being compiled.               *)
LEMMA Roots == Types => \A S : markedRoots \subseteq S <=> Within(S)
<1> SUFFICES ASSUME Types PROVE \A S : markedRoots \subseteq S <=> Within(S)
  OBVIOUS
<1>1. \A i \in DOMAIN frames : frames[i].closure \in Obj
  BY FrameFields
<1>2. DOMAIN open \subseteq Obj /\ ToSet(compilers) \subseteq Obj
  BY Ends DEF Types
<1>3. \A x : x \in markedRoots <=>
        /\ x # Plain
        /\ \/ x \in ToSet(stack) \/ x \in DOMAIN open \/ x = global \/ x \in ToSet(compilers)
           \/ \E i \in DOMAIN frames : x = frames[i].closure
  BY DEF markedRoots, ToSet
<1> QED BY <1>1, <1>2, <1>3, RootingAssumption DEF Within

(* The same of the next state.                                               *)
LEMMA RootsNext == (Types => \A S : markedRoots \subseteq S <=> Within(S))'
BY Roots, PTL

(* allocateObject returns an object that was not allocated.                  *)
LEMMA NewObject ==
  ASSUME Types, NEW k
  PROVE  \A o \in New(k) : o \in Obj /\ o \notin allocated /\ o.kind = k
  <1>1. ASSUME NEW n \in Free(k)
        PROVE  /\ [kind |-> k, n |-> n] \in Obj /\ [kind |-> k, n |-> n] \notin allocated
    <2>1. k \in DOMAIN limits.supply /\ n \in 1 .. limits.supply[k]
      BY DEF Free
    <2>2. [kind |-> k, n |-> n] \in [kind : {k}, n : 1 .. limits.supply[k]]
      BY <2>1
    <2> QED BY <2>1, <2>2 DEF Types, Obj, Free
  <1> QED BY <1>1 DEF New

(* Between allocations nothing but the control changes.                      *)
LEMMA Starting ==
  ASSUME IInv, UNCHANGED <<graph, machine, limits>>,
         held' \in Seq(Obj), Points',
         \A S \in SUBSET allocated : Within(S) /\ Shut(S) => ToSet(held') \subseteq S
  PROVE  IInv'
<1>1. markedRoots' = markedRoots
  BY DEF markedRoots, machine
<1>2. Types' /\ OpenInStack' /\ Layout'
  BY DEF IInv, Types, OpenInStack, Layout, graph, machine
<1>3. Sound'
  BY <1>1 DEF IInv, Sound, Shut, graph
<1>4. Kept'
  BY <1>1, Roots DEF IInv, Kept, Shut, graph
<1> QED BY <1>2, <1>3, <1>4 DEF IInv

(* An action that ends with nothing held.                                    *)
LEMMA Ending ==
  ASSUME IInv, UNCHANGED limits, held' = <<>>, Types',
         Within(allocated)', Shut(allocated)', OpenInStack', Layout', Points'
  PROVE  IInv'
<1>1. ToSet(held') = {}
  BY DEF ToSet
<1>2. Kept'
  BY <1>1 DEF Kept
<1>3. Sound'
  BY RootsNext DEF Sound
<1> QED BY <1>2, <1>3 DEF IInv

-----------------------------------------------------------------------------
(* collectGarbage keeps the invariant at every allocation: what it keeps has *)
(* the roots and is closed, so by Kept the C locals are in it.               *)
LEMMA Collecting == IInv /\ UNCHANGED limits /\ collectGarbage => IInv'
<1> SUFFICES ASSUME IInv, UNCHANGED limits, collectGarbage PROVE IInv'
  OBVIOUS
<1> DEFINE live == Live
<1>1. /\ allocated' = allocated \intersect live
      /\ refs' = [o \in Obj |-> IF o \in live THEN refs[o] ELSE {}]
      /\ UNCHANGED <<machine, control, limits>>
  BY DEF collectGarbage
<1>2. markedRoots \subseteq live /\ live \subseteq Obj /\ Shut(live)
  <2>1. refs \in [Obj -> SUBSET Obj] /\ markedRoots \subseteq Obj
    BY DEF IInv, Types, Sound
  <2> QED BY <2>1, Tracing DEF Shut
<1> HIDE DEF live
<1>3. markedRoots' = markedRoots
  BY <1>1 DEF markedRoots, machine
<1>4. Types' /\ OpenInStack' /\ Layout' /\ Points'
  BY <1>1 DEF IInv, Types, OpenInStack, Layout, Points, machine, control, Uncaptured
<1>5. Sound'
  BY <1>1, <1>2, <1>3 DEF IInv, Types, Sound, Shut
<1>6. Kept'
  <2> SUFFICES ASSUME NEW S \in SUBSET allocated', markedRoots' \subseteq S, Shut(S)'
               PROVE  ToSet(held') \subseteq S
    BY DEF Kept
  <2>1. S \subseteq allocated /\ S \subseteq live
    BY <1>1
  <2>2. Shut(S)
    <3>1. \A o \in S : o \in Obj /\ refs'[o] = refs[o]
      BY <1>1, <2>1 DEF IInv, Types
    <3> QED BY <3>1 DEF Shut
  <2> QED BY <1>1, <1>3, <2>1, <2>2 DEF IInv, Kept, control
<1> QED BY <1>4, <1>5, <1>6 DEF IInv

(* What an instruction finds on the stack of its frame.                      *)
LEMMA Operand ==
  ASSUME IInv, Running
  PROVE  /\ frames # <<>> /\ Frame.closure \in allocated /\ Frame.slots \in Nat
         /\ compilers = <<>> /\ held = <<>>
         /\ Temporary(1) => Len(stack) >= 1 /\ stack # <<>>
         /\ Temporary(2) => Len(stack) >= 2 /\ stack # <<>>
<1>1. frames # <<>> /\ Frame.slots \in Nat /\ compilers = <<>> /\ held = <<>>
  BY FrameFields DEF IInv, Running, Layout, Points, NoneHeld
<1>2. Frame.closure \in allocated
  BY <1>1, FrameFields, Roots DEF IInv, Sound, Within
<1>3. Temporary(1) => Len(stack) >= 1 /\ stack # <<>>
  BY <1>1 DEF Temporary, IInv, Types
<1>4. Temporary(2) => Len(stack) >= 2 /\ stack # <<>>
  BY <1>1 DEF Temporary, IInv, Types
<1> QED BY <1>1, <1>2, <1>3, <1>4

(* One local, as the sequence that is held.                                  *)
LEMMA One ==
  ASSUME NEW x \in Obj
  PROVE  <<x>> \in Seq(Obj) /\ Len(<<x>>) = 1 /\ <<x>>[1] = x /\ ToSet(<<x>>) = {x}
BY DEF ToSet

(* Two locals.                                                               *)
LEMMA Two ==
  ASSUME NEW x \in Obj, NEW y \in Obj
  PROVE  /\ <<x, y>> \in Seq(Obj) /\ Len(<<x, y>>) = 2
         /\ <<x, y>>[1] = x /\ <<x, y>>[2] = y /\ ToSet(<<x, y>>) = {x, y}
BY DEF ToSet

(* Reaching an allocation with some locals.                                  *)
LEMMA ToPoint ==
  ASSUME NEW p, NEW h, Goes(p, h)
  PROVE  at' = p /\ held' = h
BY DEF Goes

(* These reach or leave an allocation with nothing to be read after it.      *)
LEMMA Starts_Compiler ==
  ASSUME IInv, UNCHANGED limits, initCompiler \/ StringConstant \/ emitByte \/ CopyChars
  PROVE  IInv'
<1>1. UNCHANGED <<graph, machine>> /\ held' = <<>> /\ held' \in Seq(Obj)
  <2>1. UNCHANGED <<graph, machine>>
    BY DEF initCompiler, StringConstant, emitByte, CopyChars
  <2>2. held' = <<>>
    BY DEF initCompiler, StringConstant, emitByte, CopyChars, Done, Goes
  <2> QED BY <2>1, <2>2
<1>2. ToSet(held') = {}
  BY <1>1 DEF ToSet
<1>3. Points'
  BY <1>1 DEF IInv, Points, initCompiler, StringConstant, emitByte, CopyChars, Done, Goes,
     NoneHeld, OneHeld, TwoHeld, machine, Compiling, Uncaptured
<1> QED BY <1>1, <1>2, <1>3, Starting

(* The function is a constant of the running one.                            *)
LEMMA Starts_OP_CLOSURE ==
  ASSUME IInv, UNCHANGED limits, OP_CLOSURE
  PROVE  IInv'
<1>1. PICK f \in Constants("function") : Goes("newClosure", <<f>>)
  BY DEF OP_CLOSURE
<1>2. UNCHANGED <<graph, machine>> /\ Running
  BY DEF OP_CLOSURE
<1>3. PICK g \in refs[Frame.closure] : f \in refs[g]
  BY <1>1 DEF Constants, Of
<1>4. f \in Obj
  BY <1>2, <1>3, Operand DEF IInv, Types, Sound, Shut
<1>5. held' = <<f>> /\ at' = "newClosure"
  BY <1>1, ToPoint
<1>6. \A S \in SUBSET allocated : Within(S) /\ Shut(S) => ToSet(held') \subseteq S
  BY <1>2, <1>3, <1>4, <1>5, One, Operand, FrameFields DEF Within, Shut, IInv
<1>7. Points'
  BY <1>2, <1>4, <1>5, One, Operand DEF IInv, Points, machine, NoneHeld, OneHeld, TwoHeld, Uncaptured
<1> QED BY <1>2, <1>4, <1>5, <1>6, <1>7, One, Starting

(* The name of the class is a constant of the running function.              *)
LEMMA Starts_OP_CLASS ==
  ASSUME IInv, UNCHANGED limits, OP_CLASS
  PROVE  IInv'
<1>1. PICK f \in Constants("string") : Goes("newClass", <<f>>)
  BY DEF OP_CLASS
<1>2. UNCHANGED <<graph, machine>> /\ Running
  BY DEF OP_CLASS
<1>3. PICK g \in refs[Frame.closure] : f \in refs[g]
  BY <1>1 DEF Constants, Of
<1>4. f \in Obj
  BY <1>2, <1>3, Operand DEF IInv, Types, Sound, Shut
<1>5. held' = <<f>> /\ at' = "newClass"
  BY <1>1, ToPoint
<1>6. \A S \in SUBSET allocated : Within(S) /\ Shut(S) => ToSet(held') \subseteq S
  BY <1>2, <1>3, <1>4, <1>5, One, Operand, FrameFields DEF Within, Shut, IInv
<1>7. Points'
  BY <1>2, <1>4, <1>5, One, Operand DEF IInv, Points, machine, NoneHeld, OneHeld, TwoHeld, Uncaptured
<1> QED BY <1>2, <1>4, <1>5, <1>6, <1>7, One, Starting

(* Operands that are on the stack.                                           *)
LEMMA OnStack ==
  ASSUME IInv
  PROVE  /\ stack # <<>> => /\ Top \in Items /\ Top \in ToSet(stack)
                            /\ Top # Plain => Top \in Obj /\ Top \in allocated
         /\ Len(stack) >= 2 => /\ Below \in Items /\ Below \in ToSet(stack)
                               /\ Below # Plain => Below \in Obj /\ Below \in allocated
         /\ \A S : Within(S) => \A x \in ToSet(stack) : x # Plain => x \in S
<1>1. Within(allocated) /\ stack \in Seq(Items)
  BY Roots DEF IInv, Sound, Types
<1>2. \A S : Within(S) => \A x \in ToSet(stack) : x # Plain => x \in S
  BY DEF Within
<1>3. /\ stack # <<>> => Top \in Items /\ Top \in ToSet(stack)
      /\ Len(stack) >= 2 => Below \in Items /\ Below \in ToSet(stack)
  BY <1>1, Ends DEF Top, Below
<1> QED BY <1>1, <1>2, <1>3 DEF Items

(* The operands stay on the stack during the allocation.                     *)
LEMMA StartsWithOperand ==
  ASSUME IInv, UNCHANGED limits,
         \/ CallClass \/ OP_DEFINE_GLOBAL
         \/ OP_SET_PROPERTY \/ OP_METHOD \/ OP_INHERIT \/ OP_ADD
  PROVE  IInv'
<1>1. UNCHANGED <<graph, machine>> /\ Running
  BY DEF CallClass, OP_DEFINE_GLOBAL, OP_SET_PROPERTY, OP_METHOD, OP_INHERIT, OP_ADD, Operands
<1>2. CASE CallClass \/ OP_DEFINE_GLOBAL
  <2>1. Temporary(1) /\ Uncaptured(1) /\ Top # Plain
    BY <1>2 DEF CallClass, OP_DEFINE_GLOBAL, Operands
  <2>2. held' = <<Top>> /\ at' \in {"newInstance", "globals"}
    BY <1>2 DEF CallClass, OP_DEFINE_GLOBAL, Goes
  <2>3. stack # <<>> /\ Len(stack) >= 1 /\ frames # <<>>
    BY <1>1, <2>1, Operand
  <2>4. Top \in Obj /\ Top \in ToSet(stack)
    BY <2>1, <2>3, OnStack
  <2>5. held' \in Seq(Obj) /\ Len(held') = 1 /\ ToSet(held') = {Top}
    BY <2>2, <2>4, One
  <2>6. Points'
    BY <1>1, <2>1, <2>2, <2>3, <2>5
    DEF IInv, Points, machine, NoneHeld, OneHeld, TwoHeld, Uncaptured
  <2> QED BY <1>1, <2>1, <2>4, <2>5, <2>6, OnStack, Starting
<1>3. CASE OP_SET_PROPERTY \/ OP_METHOD \/ OP_INHERIT \/ OP_ADD
  <2>1. Temporary(2) /\ Uncaptured(2) /\ Top # Plain /\ Below # Plain
    BY <1>3 DEF OP_SET_PROPERTY, OP_METHOD, OP_INHERIT, OP_ADD, Operands
  <2>2. held' = <<Below, Top>> /\ at' \in {"tableSet", "tableAddAll", "chars"}
    BY <1>3 DEF OP_SET_PROPERTY, OP_METHOD, OP_INHERIT, OP_ADD, Goes
  <2>3. stack # <<>> /\ Len(stack) >= 2 /\ frames # <<>>
    BY <1>1, <2>1, Operand
  <2>4. Top \in Obj /\ Top \in ToSet(stack) /\ Below \in Obj /\ Below \in ToSet(stack)
    BY <2>1, <2>3, OnStack
  <2>5. held' \in Seq(Obj) /\ Len(held') = 2 /\ ToSet(held') = {Below, Top}
    BY <2>2, <2>4, Two
  <2>6. Uncaptured(1) /\ Len(stack) >= 1
    BY <2>1, <2>3 DEF Uncaptured, IInv, Types
  <2>7. Points'
    BY <1>1, <2>1, <2>2, <2>3, <2>5, <2>6
    DEF IInv, Points, machine, NoneHeld, OneHeld, TwoHeld, Uncaptured
  <2> QED BY <1>1, <2>1, <2>4, <2>5, <2>7, OnStack, Starting
<1> QED BY <1>2, <1>3

(* The receiver stays on the stack, and the method hangs from its class.     *)
LEMMA Starts_OP_GET_PROPERTY ==
  ASSUME IInv, UNCHANGED limits, OP_GET_PROPERTY
  PROVE  IInv'
<1>1. /\ UNCHANGED <<graph, machine>> /\ Running /\ Temporary(1) /\ Uncaptured(1)
      /\ Top # Plain
  BY DEF OP_GET_PROPERTY, Operands
<1>2. PICK k \in refs[Top] : \E m \in refs[k] : Goes("newBoundMethod", <<Top, m>>)
  BY DEF OP_GET_PROPERTY, Of, Binds
<1>10. PICK m \in refs[k] : Goes("newBoundMethod", <<Top, m>>)
  BY <1>2
<1>3. stack # <<>> /\ Len(stack) >= 1 /\ frames # <<>>
  BY <1>1, Operand
<1>4. Top \in Obj /\ Top \in ToSet(stack) /\ Top \in allocated
  BY <1>1, <1>3, OnStack
<1>5. k \in allocated /\ m \in Obj
  BY <1>2, <1>10, <1>4 DEF IInv, Sound, Shut, Types
<1>6. held' = <<Top, m>> /\ at' = "newBoundMethod"
  BY <1>10, ToPoint
<1>7. held' \in Seq(Obj) /\ Len(held') = 2 /\ ToSet(held') = {Top, m}
  BY <1>4, <1>5, <1>6, Two
<1>8. Points'
  BY <1>1, <1>3, <1>6, <1>7 DEF IInv, Points, machine, NoneHeld, OneHeld, TwoHeld, Uncaptured
<1>9. \A S \in SUBSET allocated : Within(S) /\ Shut(S) => ToSet(held') \subseteq S
  <2> TAKE S \in SUBSET allocated
  <2> HAVE Within(S) /\ Shut(S)
  <2>1. Top \in S
    BY <1>1, <1>4, OnStack
  <2> QED BY <1>2, <1>10, <1>7, <2>1 DEF Shut
<1> QED BY <1>1, <1>7, <1>8, <1>9, Starting

-----------------------------------------------------------------------------
(* What an instruction reads is on the stack, or hangs from it.              *)
LEMMA Supplies ==
  ASSUME IInv, Running, NEW S \in SUBSET allocated, Within(S), Shut(S)
  PROVE  /\ \A k : Constants(k) \subseteq S
         /\ \A v \in Captured : v = Plain \/ v \in S
         /\ \A s \in Locals : /\ s + 1 \in DOMAIN stack /\ s \in Nat /\ s < Len(stack)
                              /\ stack[s + 1] = Plain \/ stack[s + 1] \in S
         /\ \A u \in DOMAIN open : /\ open[u] + 1 \in DOMAIN stack
                                   /\ stack[open[u] + 1] = Plain \/ stack[open[u] + 1] \in S
         /\ \A u \in Of(refs[Frame.closure], "upvalue") : u \in S /\ u \in Obj
<1>1. Frame.closure \in S /\ frames # <<>> /\ Frame.slots \in Nat
  BY Operand, FrameFields DEF Within, IInv
<1>2. stack \in Seq(Items) /\ \A i \in DOMAIN stack : stack[i] \in ToSet(stack)
  BY DEF IInv, Types, ToSet
<1>3. \A i \in DOMAIN stack : stack[i] = Plain \/ stack[i] \in S
  BY <1>2 DEF Within
<1>4. \A s \in Locals : s + 1 \in DOMAIN stack /\ s \in Nat /\ s < Len(stack)
  BY <1>1, <1>2 DEF Locals
<1>5. \A u \in DOMAIN open : open[u] + 1 \in DOMAIN stack
  BY <1>2 DEF IInv, Types, OpenInStack
<1>6. \A k : Constants(k) \subseteq S
  BY <1>1 DEF Constants, Of, Shut
<1>7. \A u \in Of(refs[Frame.closure], "upvalue") : u \in S /\ u \in Obj
  BY <1>1 DEF Of, Shut, IInv, Types
<1>8. \A v \in Captured : v = Plain \/ v \in S
  BY <1>3, <1>5, <1>7 DEF Captured, Shut
<1> QED BY <1>3, <1>4, <1>5, <1>6, <1>7, <1>8

(* The program stays between two allocations.                                *)
LEMMA StaysRunning ==
  ASSUME IInv, Running, UNCHANGED control
  PROVE  Points' /\ held' = <<>> /\ held' \in Seq(Obj)
BY DEF Points, control, NoneHeld, OneHeld, TwoHeld, IInv, Running

(* What is pushed hangs from a root already.                                 *)
LEMMA Step_Push == IInv /\ UNCHANGED limits /\ Push => IInv'
<1> SUFFICES ASSUME IInv, UNCHANGED limits, Push PROVE IInv'
  OBVIOUS
<1>1. Running /\ UNCHANGED <<graph, frames, open, global, compilers, control>>
  BY DEF Push
<1>2. PICK v \in Constants("string") \union Captured \union {global}
                   \union {stack[s + 1] : s \in Locals} : stack' = Append(stack, v)
  BY DEF Push, Pushed
<1>3. Within(allocated) /\ Shut(allocated) /\ allocated \subseteq Obj
  BY Roots DEF IInv, Sound, Types
<1>4. v = Plain \/ v \in allocated
  BY <1>1, <1>2, <1>3, Supplies DEF Within
<1>5. v \in Items /\ stack \in Seq(Items)
  BY <1>3, <1>4 DEF Items, IInv, Types
<1>6. /\ stack' \in Seq(Items) /\ Len(stack') = Len(stack) + 1
      /\ ToSet(stack') = ToSet(stack) \union {v}
  BY <1>2, <1>5, Appending
<1>7. Types'
  BY <1>1, <1>6 DEF IInv, Types, graph, control
<1>8. Within(allocated)' /\ Shut(allocated)'
  BY <1>1, <1>3, <1>4, <1>6 DEF Within, Shut, graph
<1>9. OpenInStack' /\ Layout'
  BY <1>1, <1>5, <1>6 DEF IInv, Types, OpenInStack, Layout
<1> QED BY <1>1, <1>7, <1>8, <1>9, StaysRunning, Ending

(* A slot or a closed upvalue takes the value on top.                        *)
LEMMA Step_Assign == IInv /\ UNCHANGED limits /\ Assign => IInv'
<1> SUFFICES ASSUME IInv, UNCHANGED limits, Assign PROVE IInv'
  OBVIOUS
<1>1. Running /\ UNCHANGED <<allocated, frames, open, global, compilers, control>>
  BY DEF Assign
<1>2. Within(allocated) /\ Shut(allocated) /\ allocated \subseteq Obj /\ stack \in Seq(Items)
  BY Roots DEF IInv, Sound, Types
<1>3. Top \in Items /\ (Top = Plain \/ Top \in allocated)
  BY <1>1, Operand, OnStack DEF Assign
<1>4. CASE /\ UNCHANGED refs
           /\ \E s \in Locals \union {open[u] : u \in Of(refs[Frame.closure], "upvalue")
                                                     \intersect DOMAIN open} :
                stack' = [stack EXCEPT ![s + 1] = Top]
  <2>1. PICK s \in Locals \union {open[u] : u \in Of(refs[Frame.closure], "upvalue")
                                               \intersect DOMAIN open} :
               stack' = [stack EXCEPT ![s + 1] = Top]
    BY <1>4
  <2>2. s + 1 \in DOMAIN stack
    BY <1>1, <1>2, Supplies
  <2>3. stack' \in Seq(Items) /\ Len(stack') = Len(stack)
    BY <1>2, <1>3, <2>1, <2>2
  <2>4. \A x \in ToSet(stack') : x = Top \/ x \in ToSet(stack)
    BY <1>2, <2>1, <2>2 DEF ToSet
  <2>5. Types'
    BY <1>1, <1>4, <2>3 DEF IInv, Types, control
  <2>6. Within(allocated)' /\ Shut(allocated)'
    BY <1>1, <1>2, <1>3, <1>4, <2>4 DEF Within, Shut
  <2>7. OpenInStack' /\ Layout'
    BY <1>1, <2>3 DEF IInv, OpenInStack, Layout
  <2> QED BY <1>1, <2>5, <2>6, <2>7, StaysRunning, Ending
<1>5. CASE /\ UNCHANGED stack
           /\ \E u \in Of(refs[Frame.closure], "upvalue") \ DOMAIN open :
                refs' = [refs EXCEPT ![u] = {Top} \ {Plain}]
  <2>1. PICK u \in Of(refs[Frame.closure], "upvalue") :
               refs' = [refs EXCEPT ![u] = {Top} \ {Plain}]
    BY <1>5
  <2>2. {Top} \ {Plain} \subseteq allocated /\ {Top} \ {Plain} \subseteq Obj
    BY <1>2, <1>3
  <2>3. Types'
    BY <1>1, <1>5, <2>1, <2>2 DEF IInv, Types, control
  <2>4. Within(allocated)' /\ OpenInStack' /\ Layout'
    BY <1>1, <1>2, <1>5 DEF IInv, Within, OpenInStack, Layout
  <2>5. Shut(allocated)'
    BY <1>1, <1>2, <2>1, <2>2 DEF Shut, IInv, Types
  <2> QED BY <1>1, <2>3, <2>4, <2>5, StaysRunning, Ending
<1> QED BY <1>4, <1>5 DEF Assign

(* A closed upvalue keeps the value of the slot it leaves.                   *)
LEMMA Closes ==
  ASSUME IInv, NEW from \in Int, Close(from)
  PROVE  /\ allocated' = allocated /\ refs' \in [Obj -> SUBSET Obj] /\ Shut(allocated)'
         /\ DOMAIN open' \subseteq DOMAIN open
         /\ \A u \in DOMAIN open' : open'[u] = open[u] /\ open[u] < from
<1>1. Within(allocated) /\ Shut(allocated) /\ stack \in Seq(Items)
  BY Roots DEF IInv, Sound, Types
<1>2. \A u \in DOMAIN open : /\ open[u] + 1 \in DOMAIN stack /\ open[u] \in Nat
  BY <1>1 DEF IInv, Types, OpenInStack
<1>3. \A u \in DOMAIN open : {stack[open[u] + 1]} \ {Plain} \subseteq allocated
  BY <1>1, <1>2 DEF Within, ToSet
<1>4. /\ allocated' = allocated /\ allocated \subseteq Obj
      /\ refs' = [o \in Obj |-> IF o \in Closing(from) THEN {stack[open[o] + 1]} \ {Plain}
                                ELSE refs[o]]
      /\ open' = [u \in DOMAIN open \ Closing(from) |-> open[u]]
  BY DEF Close, IInv, Types
<1>5. \A u \in Closing(from) : u \in DOMAIN open
  BY DEF Closing
<1>6. \A u \in DOMAIN open' : open'[u] = open[u] /\ open[u] < from /\ u \in DOMAIN open
  BY <1>2, <1>4 DEF Closing
<1>7. refs' \in [Obj -> SUBSET Obj]
  BY <1>3, <1>4, <1>5 DEF IInv, Types
<1>8. Shut(allocated)'
  BY <1>1, <1>3, <1>4, <1>5 DEF Shut
<1> QED BY <1>4, <1>6, <1>7, <1>8

(* The upvalue of a popped variable is closed before, so that no upvalue     *)
(* stays open beyond the stack.                                              *)
LEMMA Step_Pop == IInv /\ UNCHANGED limits /\ Pop => IInv'
<1> SUFFICES ASSUME IInv, UNCHANGED limits, Pop PROVE IInv'
  OBVIOUS
<1>1. /\ Running /\ UNCHANGED <<frames, global, compilers, control>>
      /\ Close(Len(stack) - 1) /\ stack' = Front(stack)
  BY DEF Pop
<1>2. Within(allocated) /\ stack \in Seq(Items) /\ allocated \subseteq Obj
  BY Roots DEF IInv, Sound, Types
<1>3. Len(stack) >= 1 /\ stack # <<>> /\ Len(stack) \in Nat /\ frames # <<>>
  BY <1>2, Operand DEF Pop
<1>4. /\ allocated' = allocated /\ refs' \in [Obj -> SUBSET Obj] /\ Shut(allocated)'
      /\ DOMAIN open' \subseteq DOMAIN open
      /\ \A u \in DOMAIN open' : open'[u] = open[u] /\ open[u] < Len(stack) - 1
  BY <1>1, <1>3, Closes
<1>5. /\ stack' \in Seq(Items) /\ Len(stack') = Len(stack) - 1
      /\ ToSet(stack') \subseteq ToSet(stack)
  BY <1>1, <1>2, <1>3, Ends
<1>6. Types' /\ OpenInStack' /\ Layout'
  BY <1>1, <1>3, <1>4, <1>5 DEF IInv, Types, OpenInStack, Layout, control
<1>7. Within(allocated)'
  BY <1>1, <1>2, <1>4, <1>5 DEF Within
<1> QED BY <1>1, <1>4, <1>6, <1>7, StaysRunning, Ending

(* A call adds a frame and leaves the others.                                *)
LEMMA Calling ==
  ASSUME IInv, NEW c \in Obj, NEW s \in Nat, frames' = Append(frames, [closure |-> c, slots |-> s]),
         frames # <<>>
  PROVE  /\ frames' \in Seq([closure : Obj, slots : Nat]) /\ frames' # <<>>
         /\ frames'[1] = frames[1]
         /\ \A i \in DOMAIN frames' : frames'[i].closure = c \/
               (i \in DOMAIN frames /\ frames'[i] = frames[i])
<1> DEFINE F == [closure : Obj, slots : Nat]
           f == [closure |-> c, slots |-> s]
<1>1. f \in F /\ f.closure = c /\ frames \in Seq(F)
  BY DEF IInv, Types
<1> HIDE DEF F, f
<1>2. /\ frames' \in Seq(F) /\ frames' # <<>> /\ Len(frames') = Len(frames) + 1
      /\ frames'[Len(frames) + 1] = f /\ \A i \in DOMAIN frames : frames'[i] = frames[i]
  BY <1>1, Appending DEF f
<1>3. 1 \in DOMAIN frames /\ DOMAIN frames' = 1 .. Len(frames) + 1 /\ DOMAIN frames = 1 .. Len(frames)
  BY <1>1, <1>2
<1>4. \A i \in DOMAIN frames' : i = Len(frames) + 1 \/ i \in DOMAIN frames
  BY <1>1, <1>3
<1> QED BY <1>1, <1>2, <1>3, <1>4 DEF F

(* The callee hangs from the value that is called; the receiver takes its    *)
(* slot.                                                                     *)
LEMMA Step_CallClosure == IInv /\ UNCHANGED limits /\ CallClosure => IInv'
<1> SUFFICES ASSUME IInv, UNCHANGED limits, CallClosure PROVE IInv'
  OBVIOUS
<1>1. /\ Running /\ UNCHANGED <<graph, open, global, compilers, control>>
      /\ Temporary(1) /\ Top # Plain
  BY DEF CallClosure, Operands
<1>2. Within(allocated) /\ Shut(allocated) /\ stack \in Seq(Items) /\ allocated \subseteq Obj
  BY Roots DEF IInv, Sound, Types
<1>3. /\ Len(stack) >= 1 /\ stack # <<>> /\ Len(stack) \in Nat /\ frames # <<>>
      /\ Len(stack) - 1 \in Nat
  BY <1>1, <1>2, Operand
<1>4. Top \in allocated
  BY <1>1, <1>3, OnStack
<1>5. \E c \in allocated, r \in allocated :
        /\ frames' = Append(frames, [closure |-> c, slots |-> Len(stack) - 1])
        /\ stack' = stack \/ stack' = Append(Front(stack), r)
  <2>1. CASE /\ frames' = Append(frames, [closure |-> Top, slots |-> Len(stack) - 1])
             /\ UNCHANGED stack
    BY <1>4, <2>1
  <2>2. CASE \E c \in Of(refs[Top], "closure"), r \in Of(refs[Top], "instance") :
               /\ frames' = Append(frames, [closure |-> c, slots |-> Len(stack) - 1])
               /\ stack' = Pushed(Front(stack), r)
    <3>1. refs[Top] \subseteq allocated
      BY <1>2, <1>4 DEF Shut
    <3> QED BY <2>2, <3>1 DEF Of, Pushed
  <2> QED BY <2>1, <2>2 DEF CallClosure
<1>6. PICK c \in allocated, r \in allocated :
        /\ frames' = Append(frames, [closure |-> c, slots |-> Len(stack) - 1])
        /\ stack' = stack \/ stack' = Append(Front(stack), r)
  BY <1>5
<1>7. /\ stack' \in Seq(Items) /\ Len(stack') = Len(stack)
      /\ ToSet(stack') \subseteq ToSet(stack) \union {r}
  <2>1. r \in Items
    BY <1>2 DEF Items
  <2>2. CASE stack' = stack
    BY <1>2, <2>2
  <2>3. CASE stack' = Append(Front(stack), r)
    BY <1>2, <1>3, <2>1, <2>3, Replacing
  <2> QED BY <1>6, <2>2, <2>3
<1>8. /\ frames' \in Seq([closure : Obj, slots : Nat]) /\ frames' # <<>>
      /\ frames'[1] = frames[1]
      /\ \A i \in DOMAIN frames' : frames'[i].closure = c \/
            (i \in DOMAIN frames /\ frames'[i] = frames[i])
  BY <1>2, <1>3, <1>6, Calling
<1>9. Types'
  BY <1>1, <1>7, <1>8 DEF IInv, Types, graph, control
<1>10. Within(allocated)' /\ Shut(allocated)'
  BY <1>1, <1>2, <1>7, <1>8 DEF Within, Shut, graph
<1>11. OpenInStack' /\ Layout'
  BY <1>1, <1>3, <1>7, <1>8 DEF IInv, OpenInStack, Layout
<1> QED BY <1>1, <1>9, <1>10, <1>11, StaysRunning, Ending

(* The slots of the frame go, and every upvalue that is open in them is      *)
(* closed; the outermost frame leaves none open.                             *)
LEMMA Step_ReturnValue == IInv /\ UNCHANGED limits /\ ReturnValue => IInv'
<1> SUFFICES ASSUME IInv, UNCHANGED limits, ReturnValue PROVE IInv'
  OBVIOUS
<1>1. /\ Running /\ UNCHANGED <<global, compilers, control>> /\ Temporary(1)
      /\ Close(Frame.slots) /\ frames' = Front(frames)
      /\ stack' = IF Len(frames) = 1 THEN <<>> ELSE Append(SubSeq(stack, 1, Frame.slots), Top)
  BY DEF ReturnValue, Pushed
<1>2. Within(allocated) /\ stack \in Seq(Items) /\ allocated \subseteq Obj /\ Len(stack) \in Nat
  BY Roots DEF IInv, Sound, Types
<1>3. /\ Len(stack) >= 1 /\ stack # <<>> /\ frames # <<>> /\ Frame.slots \in Nat
      /\ Frame.slots < Len(stack) /\ Frame = frames[Len(frames)]
  BY <1>1, <1>2, Operand, FrameFields DEF Temporary, IInv
<1>4. /\ allocated' = allocated /\ refs' \in [Obj -> SUBSET Obj] /\ Shut(allocated)'
      /\ DOMAIN open' \subseteq DOMAIN open
      /\ \A u \in DOMAIN open' : open'[u] = open[u] /\ open[u] < Frame.slots
  BY <1>1, <1>3, Closes
<1>5. /\ frames' \in Seq([closure : Obj, slots : Nat])
      /\ \A i \in DOMAIN frames' : i \in DOMAIN frames /\ frames'[i] = frames[i]
      /\ frames' = <<>> <=> Len(frames) = 1
      /\ frames' # <<>> => 1 \in DOMAIN frames'
  <2> DEFINE F == [closure : Obj, slots : Nat]
  <2>1. frames \in Seq(F)
    BY DEF IInv, Types
  <2> HIDE DEF F
  <2>2. /\ frames' \in Seq(F) /\ Len(frames') = Len(frames) - 1 /\ Len(frames) \in Nat
        /\ \A i \in DOMAIN frames' : i \in DOMAIN frames /\ frames'[i] = frames[i]
    BY <1>1, <1>3, <2>1, Fronts
  <2>3. frames' = <<>> <=> Len(frames) = 1
    BY <2>2
  <2>4. frames' # <<>> => 1 \in DOMAIN frames'
    BY <2>2
  <2> QED BY <2>2, <2>3, <2>4 DEF F
<1>6. /\ stack' \in Seq(Items) /\ ToSet(stack') \subseteq ToSet(stack)
      /\ Len(frames) # 1 => Len(stack') = Frame.slots + 1
  <2>1. CASE Len(frames) = 1
    <3>1. stack' = <<>> /\ stack' \in Seq(Items)
      BY <1>1, <2>1
    <3>2. ToSet(stack') = {}
      BY <3>1 DEF ToSet
    <3> QED BY <2>1, <3>1, <3>2
  <2>2. CASE Len(frames) # 1
    <3> DEFINE s == SubSeq(stack, 1, Frame.slots)
    <3>1. \A i \in 1 .. Frame.slots : i \in DOMAIN stack /\ stack[i] \in Items
      BY <1>2, <1>3
    <3>2. /\ s \in Seq(Items) /\ Len(s) = Frame.slots
          /\ \A i \in 1 .. Frame.slots : s[i] = stack[i]
      <4>1. /\ s \in Seq(Items)
            /\ Len(s) = IF 1 <= Frame.slots THEN Frame.slots - 1 + 1 ELSE 0
            /\ \A i \in 1 .. Frame.slots - 1 + 1 : s[i] = stack[1 + i - 1]
        BY <1>3, <3>1, SubSeqProperties
      <4> HIDE DEF s
      <4>2. Len(s) = Frame.slots
        BY <1>3, <4>1
      <4>3. \A i \in 1 .. Frame.slots : i \in 1 .. Frame.slots - 1 + 1 /\ 1 + i - 1 = i
        BY <1>3
      <4> QED BY <4>1, <4>2, <4>3
    <3> HIDE DEF s
    <3>3. ToSet(s) \subseteq ToSet(stack)
      <4>1. DOMAIN s = 1 .. Frame.slots
        BY <3>2
      <4> QED BY <3>1, <3>2, <4>1 DEF ToSet
    <3>4. Top \in Items /\ Top \in ToSet(stack)
      BY <1>3, OnStack
    <3>5. stack' = Append(s, Top)
      BY <1>1, <2>2 DEF s
    <3> QED BY <2>2, <3>2, <3>3, <3>4, <3>5, Appending
  <2> QED BY <2>1, <2>2
<1>7. Len(frames) = 1 => DOMAIN open' = {}
  <2>1. Len(frames) = 1 => Frame.slots = 0
    BY <1>3 DEF IInv, Layout
  <2>2. \A u \in DOMAIN open : open[u] \in Nat
    BY DEF IInv, Types
  <2>3. \A u \in DOMAIN open' : u \in DOMAIN open /\ open[u] < Frame.slots
    BY <1>4
  <2>4. \A u \in DOMAIN open : ~ (open[u] < 0)
    BY <2>2
  <2> QED BY <2>1, <2>3, <2>4
<1>8. Types'
  BY <1>1, <1>4, <1>5, <1>6 DEF IInv, Types, control
<1>9. Within(allocated)'
  BY <1>1, <1>2, <1>4, <1>5, <1>6 DEF Within
<1>10. OpenInStack'
  <2>1. CASE Len(frames) = 1
    BY <1>7, <2>1 DEF OpenInStack
  <2>2. CASE Len(frames) # 1
    <3>1. \A u \in DOMAIN open' : open'[u] \in Nat /\ open'[u] < Frame.slots
      BY <1>4 DEF IInv, Types
    <3> QED BY <1>3, <1>6, <2>2, <3>1 DEF OpenInStack
  <2> QED BY <2>1, <2>2
<1>11. Layout'
  BY <1>1, <1>3, <1>5, <1>7 DEF IInv, Layout
<1> QED BY <1>1, <1>4, <1>8, <1>9, <1>10, <1>11, StaysRunning, Ending

(* resetStack empties the open list with the stack; nothing is held, whether *)
(* the next line is followed or not.                                         *)
LEMMA Step_runtimeError == IInv /\ UNCHANGED limits /\ runtimeError => IInv'
<1> SUFFICES ASSUME IInv, UNCHANGED limits, runtimeError PROVE IInv'
  OBVIOUS
<1>1. /\ Running /\ UNCHANGED <<graph, global, compilers>>
      /\ stack' = <<>> /\ frames' = <<>> /\ DOMAIN open' = {}
      /\ at' \in {"run", "dropped"} /\ held' = <<>>
  BY DEF runtimeError, Goes
<1>2. Within(allocated) /\ Shut(allocated)
  BY Roots DEF IInv, Sound
<1>3. ToSet(stack') = {} /\ stack' \in Seq(Items) /\ frames' \in Seq([closure : Obj, slots : Nat])
      /\ DOMAIN frames' = {}
  BY <1>1 DEF ToSet
<1>4. Types' /\ OpenInStack' /\ Layout'
  BY <1>1, <1>3 DEF IInv, Types, OpenInStack, Layout, graph
<1>5. Within(allocated)' /\ Shut(allocated)'
  BY <1>1, <1>2, <1>3 DEF Within, Shut, graph
<1>6. Points'
  BY <1>1 DEF Points, NoneHeld, OneHeld, TwoHeld
<1> QED BY <1>1, <1>4, <1>5, <1>6, Ending

-----------------------------------------------------------------------------
(* An action that ends with something that the roots lead to.                *)
LEMMA Holding ==
  ASSUME IInv, UNCHANGED limits, Types', Within(allocated)', Shut(allocated)',
         OpenInStack', Layout', Points',
         \A S \in SUBSET allocated' : Within(S)' /\ Shut(S)' => ToSet(held') \subseteq S
  PROVE  IInv'
<1>1. Kept'
  BY RootsNext DEF Kept
<1>2. Sound'
  BY RootsNext DEF Sound
<1> QED BY <1>1, <1>2 DEF IInv

(* After the last read of a local nothing is held.                           *)
LEMMA Resting ==
  ASSUME Done
  PROVE  Points' /\ at' = "run" /\ held' = <<>> /\ held' \in Seq(Obj)
BY DEF Points, Done, Goes, NoneHeld, OneHeld, TwoHeld

(* What the invariant says of the current state: roots and locals are        *)
(* allocated.                                                                *)
LEMMA Safe ==
  ASSUME IInv
  PROVE  /\ Within(allocated) /\ Shut(allocated) /\ allocated \subseteq Obj
         /\ stack \in Seq(Items) /\ Len(stack) \in Nat /\ frames \in Seq([closure : Obj, slots : Nat])
         /\ refs \in [Obj -> SUBSET Obj] /\ compilers \in Seq(Obj)
         /\ \A i \in 1 .. Len(held) : held[i] \in allocated /\ held[i] \in Obj
                                      /\ held[i] \in ToSet(held)
         /\ ToSet(held) \subseteq allocated
<1>1. Within(allocated) /\ Shut(allocated) /\ allocated \subseteq Obj
  BY Roots DEF IInv, Sound, Types
<1>2. ToSet(held) \subseteq allocated
  BY DEF IInv, Sound, Kept
<1>3. \A i \in 1 .. Len(held) : held[i] \in ToSet(held)
  BY DEF IInv, Types, ToSet
<1> QED BY <1>1, <1>2, <1>3 DEF IInv, Types

(* A new object refers to what is allocated.                                 *)
LEMMA Allocating ==
  ASSUME IInv, NEW o \in Obj, NEW S \in SUBSET allocated, Allocate(o, S)
  PROVE  /\ allocated' = allocated \union {o} /\ allocated' \subseteq Obj
         /\ refs' \in [Obj -> SUBSET Obj] /\ refs'[o] = S /\ Shut(allocated)'
BY Safe DEF Allocate, Shut

(* A reference to an allocated object leaves nothing dangling.               *)
LEMMA Storing ==
  ASSUME IInv, NEW o \in Obj, NEW S \in SUBSET allocated, Store(o, S)
  PROVE  /\ allocated' = allocated
         /\ refs' \in [Obj -> SUBSET Obj] /\ S \subseteq refs'[o] /\ Shut(allocated)'
BY Safe DEF Store, Shut

(* The function is in the chain of compilers before the next allocation.     *)
LEMMA Step_newFunction ==
  ASSUME IInv, UNCHANGED limits, newFunction
  PROVE  IInv'
<1>1. /\ at = "newFunction" /\ UNCHANGED <<stack, frames, open, global>>
      /\ held' = <<>> /\ at' \in {"name", "run"}
  BY DEF newFunction, Goes
<1>2. PICK f \in New("function") : Allocate(f, {}) /\ compilers' = Append(compilers, f)
  BY DEF newFunction
<1>3. f \in Obj /\ frames = <<>>
  BY <1>1, <1>2, NewObject DEF IInv, Points
<1>4. /\ allocated' = allocated \union {f} /\ allocated' \subseteq Obj
      /\ refs' \in [Obj -> SUBSET Obj] /\ Shut(allocated)'
  <2>1. {} \in SUBSET allocated
    OBVIOUS
  <2> QED BY <1>2, <1>3, <2>1, Allocating
<1>5. /\ compilers' \in Seq(Obj) /\ ToSet(compilers') = ToSet(compilers) \union {f}
      /\ compilers' # <<>>
  BY <1>2, <1>3, Safe, Appending
<1>6. Types'
  BY <1>1, <1>4, <1>5 DEF IInv, Types
<1>7. Within(allocated)'
  BY <1>1, <1>4, <1>5, Safe DEF Within
<1>8. OpenInStack' /\ Layout'
  BY <1>1, <1>3 DEF IInv, OpenInStack, Layout
<1>9. Points'
  BY <1>1, <1>5 DEF Points, NoneHeld, OneHeld, TwoHeld
<1> QED BY <1>1, <1>4, <1>6, <1>7, <1>8, <1>9, Ending

(* copyString returns an object, an interned one or a new one.               *)
LEMMA StringsAreObjects ==
  ASSUME IInv
  PROVE  Strings \subseteq Obj
BY NewObject, Safe DEF Strings, Of, IInv

(* The name is stored in the function at once.                               *)
LEMMA Step_functionName ==
  ASSUME IInv, UNCHANGED limits, functionName
  PROVE  IInv'
<1>1. UNCHANGED machine /\ Done /\ at = "name"
  BY DEF functionName
<1>2. PICK s \in Strings :
         /\ allocated' = allocated \union {s}
         /\ refs' = [refs EXCEPT ![s] = {}, ![Last(compilers)] = @ \union {s}]
  BY DEF functionName
<1>3. compilers # <<>> /\ Last(compilers) \in Obj
  BY <1>1, Safe, Ends DEF IInv, Points
<1>4. s \in Obj
  BY <1>2, StringsAreObjects
<1>5. Types'
  BY <1>1, <1>2, <1>3, <1>4, Resting DEF IInv, Types, machine
<1>6. Within(allocated)'
  BY <1>1, <1>2, Safe DEF Within, machine
<1>7. Shut(allocated)'
  BY <1>2, <1>3, <1>4, Safe DEF Shut
<1>8. OpenInStack' /\ Layout'
  BY <1>1 DEF IInv, OpenInStack, Layout, machine
<1> QED BY <1>1, <1>5, <1>6, <1>7, <1>8, Resting, Ending

(* makeConstant pushes the constant before the array of constants may grow.  *)
LEMMA Step_makeConstant ==
  ASSUME IInv, UNCHANGED limits, makeConstant
  PROVE  IInv'
<1>1. UNCHANGED <<frames, open, global, compilers>> /\ at = "copyString"
  BY DEF makeConstant
<1>2. PICK s \in Strings :
         Allocate(s, {}) /\ stack' = Append(stack, s) /\ Goes("addConstant", <<s>>)
  BY DEF makeConstant, Pushed
<1>3. compilers # <<>> /\ frames = <<>>
  BY <1>1 DEF IInv, Points, Layout
<1>4. s \in Obj /\ s \in Items /\ s # Plain
  BY <1>2, StringsAreObjects, RootingAssumption DEF Items
<1>5. /\ allocated' = allocated \union {s} /\ allocated' \subseteq Obj
      /\ refs' \in [Obj -> SUBSET Obj] /\ Shut(allocated)'
  <2>1. {} \in SUBSET allocated
    OBVIOUS
  <2> QED BY <1>2, <1>4, <2>1, Allocating
<1>6. /\ stack' \in Seq(Items) /\ Len(stack') = Len(stack) + 1
      /\ ToSet(stack') = ToSet(stack) \union {s}
  BY <1>2, <1>4, Safe, Appending
<1>7. held' = <<s>> /\ at' = "addConstant" /\ held' \in Seq(Obj) /\ Len(held') = 1
      /\ ToSet(held') = {s}
  BY <1>2, <1>4, ToPoint, One
<1>8. Types'
  BY <1>1, <1>5, <1>6, <1>7 DEF IInv, Types
<1>9. Within(allocated)'
  BY <1>1, <1>5, <1>6, Safe DEF Within
<1>10. OpenInStack' /\ Layout'
  BY <1>1, <1>3, <1>6 DEF IInv, OpenInStack, Layout
<1>11. Points'
  BY <1>1, <1>3, <1>6, <1>7, Safe DEF Points, NoneHeld, OneHeld, TwoHeld, Uncaptured, IInv, Layout
<1>12. \A S : Within(S)' => ToSet(held') \subseteq S
  BY <1>4, <1>6, <1>7 DEF Within
<1> QED BY <1>5, <1>8, <1>9, <1>10, <1>11, <1>12, Holding

(* The constant is popped when the function being compiled has it, and       *)
(* emitByte finds it there.                                                  *)
LEMMA Step_addConstant ==
  ASSUME IInv, UNCHANGED limits, addConstant
  PROVE  IInv'
<1> DEFINE x == held[1]
           f == Last(compilers)
<1>1. /\ UNCHANGED <<frames, open, global, compilers>> /\ at = "addConstant"
      /\ Store(f, {x}) /\ stack' = Front(stack)
      /\ Goes("emitByte", held) \/ Done
  BY DEF addConstant
<1>2. /\ Len(held) = 1 /\ compilers # <<>> /\ frames = <<>> /\ Len(stack) >= 1
      /\ DOMAIN open = {}
  BY <1>1 DEF IInv, Points, Layout, NoneHeld, OneHeld, TwoHeld
<1>3. f \in Obj /\ f \in ToSet(compilers) /\ x \in allocated /\ x \in Obj
  BY <1>2, Safe, Ends
<1>4. ToSet(held) = {x}
  BY <1>2 DEF ToSet, IInv, Types
<1> HIDE DEF x, f
<1>5. /\ allocated' = allocated /\ refs' \in [Obj -> SUBSET Obj] /\ {x} \subseteq refs'[f]
      /\ Shut(allocated)'
  BY <1>1, <1>3, Storing
<1>6. stack' \in Seq(Items) /\ ToSet(stack') \subseteq ToSet(stack)
  BY <1>1, Safe, Ends
<1>7. held' \in Seq(Obj) /\ (held' = held \/ held' = <<>>)
  BY <1>1, ToPoint, Resting DEF IInv, Types, Goes
<1>8. Types'
  BY <1>1, <1>5, <1>6, <1>7 DEF IInv, Types
<1>9. Within(allocated)'
  BY <1>1, <1>5, <1>6, Safe DEF Within
<1>10. OpenInStack' /\ Layout'
  BY <1>1, <1>2 DEF IInv, OpenInStack, Layout
<1>11. CASE Done
  BY <1>5, <1>8, <1>9, <1>10, <1>11, Resting, Ending
<1>12. CASE Goes("emitByte", held)
  <2>1. at' = "emitByte" /\ held' = held
    BY <1>12 DEF Goes
  <2>2. Points'
    BY <1>1, <1>2, <2>1 DEF Points, NoneHeld, OneHeld, TwoHeld
  <2>3. \A S \in SUBSET allocated' : Within(S)' /\ Shut(S)' => ToSet(held') \subseteq S
    BY <1>1, <1>3, <1>4, <1>5, <2>1 DEF Within, Shut
  <2> QED BY <1>5, <1>8, <1>9, <1>10, <2>2, <2>3, Holding
<1> QED BY <1>1, <1>11, <1>12

(* The function leaves the chain of compilers for the stack.                 *)
LEMMA Step_endCompiler ==
  ASSUME IInv, UNCHANGED limits, endCompiler
  PROVE  IInv'
<1> DEFINE f == Last(compilers)
<1>1. /\ UNCHANGED <<graph, frames, open, global>> /\ at = "run" /\ compilers # <<>>
      /\ compilers' = Front(compilers)
  BY DEF endCompiler, Compiling
<1>2. frames = <<>> /\ DOMAIN open = {} /\ held = <<>>
  BY <1>1 DEF IInv, Points, Layout, NoneHeld
<1>3. /\ f \in Obj /\ f \in ToSet(compilers) /\ compilers' \in Seq(Obj)
      /\ ToSet(compilers') \subseteq ToSet(compilers)
      /\ Len(compilers') = Len(compilers) - 1
  <2>1. compilers \in Seq(Obj)
    BY Safe
  <2>2. /\ Front(compilers) \in Seq(Obj) /\ ToSet(Front(compilers)) \subseteq ToSet(compilers)
        /\ Len(Front(compilers)) = Len(compilers) - 1
        /\ Last(compilers) \in Obj /\ Last(compilers) \in ToSet(compilers)
    BY <1>1, <2>1, Ends
  <2> QED BY <1>1, <2>2
<1>4. f \in allocated /\ f \in Items /\ f # Plain
  BY <1>3, Safe, RootingAssumption DEF Within, Items
<1>5. Shut(allocated)'
  BY <1>1, Safe DEF Shut, graph
<1>6. CASE /\ stack' = Pushed(stack, f)
           /\ Goes(IF Len(compilers) = 1 THEN "interpret" ELSE "addConstant", <<f>>)
  <2> HIDE DEF f
  <2>1. /\ stack' = Append(stack, f) /\ held' = <<f>>
        /\ Len(compilers) = 1 => at' = "interpret"
        /\ Len(compilers) # 1 => at' = "addConstant"
    BY <1>6 DEF Pushed, Goes
  <2>2. /\ stack' \in Seq(Items) /\ Len(stack') = Len(stack) + 1
        /\ ToSet(stack') = ToSet(stack) \union {f}
    BY <1>4, <2>1, Safe, Appending
  <2>3. held' \in Seq(Obj) /\ Len(held') = 1 /\ ToSet(held') = {f}
    BY <1>3, <2>1, One
  <2>4. Types'
    BY <1>1, <1>3, <2>2, <2>3 DEF IInv, Types, graph
  <2>5. Within(allocated)'
    BY <1>1, <1>3, <1>4, <2>2, Safe DEF Within, graph
  <2>6. OpenInStack' /\ Layout'
    BY <1>1, <1>2 DEF OpenInStack, Layout
  <2>7. compilers' = <<>> <=> Len(compilers) = 1
    BY <1>3
  <2>8. Len(stack') >= 1 /\ Uncaptured(1)'
    BY <1>1, <1>2, <2>2, Safe DEF Uncaptured
  <2>9. Points'
    <3>1. CASE Len(compilers) = 1
      BY <1>1, <1>2, <2>1, <2>3, <2>7, <2>8, <3>1 DEF Points, NoneHeld, OneHeld, TwoHeld
    <3>2. CASE Len(compilers) # 1
      BY <1>1, <1>2, <2>1, <2>3, <2>7, <2>8, <3>2 DEF Points, NoneHeld, OneHeld, TwoHeld
    <3> QED BY <3>1, <3>2
  <2>10. \A S \in SUBSET allocated' : Within(S)' /\ Shut(S)' => ToSet(held') \subseteq S
    BY <1>4, <2>2, <2>3 DEF Within
  <2> QED BY <1>5, <2>4, <2>5, <2>6, <2>9, <2>10, Holding
<1>7. CASE Done /\ UNCHANGED stack
  <2>1. Types'
    BY <1>1, <1>3, <1>7, Resting DEF IInv, Types, graph
  <2>2. Within(allocated)'
    BY <1>1, <1>3, <1>7, Safe DEF Within, graph
  <2>3. OpenInStack' /\ Layout'
    BY <1>1, <1>2 DEF OpenInStack, Layout
  <2> QED BY <1>5, <1>7, <2>1, <2>2, <2>3, Resting, Ending
<1> QED BY <1>6, <1>7 DEF endCompiler

(* The closure takes the slot of its function, and the first frame.          *)
LEMMA Step_interpret ==
  ASSUME IInv, UNCHANGED limits, interpret
  PROVE  IInv'
<1>1. UNCHANGED <<open, global, compilers>> /\ at = "interpret" /\ Done
  BY DEF interpret
<1>2. PICK c \in New("closure") :
         /\ Allocate(c, {held[1]}) /\ stack' = Append(Front(stack), c)
         /\ frames' = <<[closure |-> c, slots |-> 0]>>
  BY DEF interpret, Pushed
<1>3. /\ Len(held) = 1 /\ compilers = <<>> /\ DOMAIN open = {} /\ Len(stack) >= 1
      /\ stack # <<>>
  BY <1>1, Safe DEF IInv, Points, Layout, NoneHeld, OneHeld, TwoHeld
<1>4. c \in Obj /\ c \in Items
  BY <1>2, NewObject DEF IInv, Items
<1>5. /\ allocated' = allocated \union {c} /\ allocated' \subseteq Obj
      /\ refs' \in [Obj -> SUBSET Obj] /\ Shut(allocated)'
  <2>1. {held[1]} \in SUBSET allocated
    BY <1>3, Safe
  <2> QED BY <1>2, <1>4, <2>1, Allocating
<1>6. stack' \in Seq(Items) /\ ToSet(stack') \subseteq ToSet(stack) \union {c}
  BY <1>2, <1>3, <1>4, Safe, Replacing
<1>7. /\ frames' \in Seq([closure : Obj, slots : Nat]) /\ frames'[1].slots = 0
      /\ frames' # <<>> /\ \A i \in DOMAIN frames' : frames'[i].closure = c
  <2> DEFINE F == [closure : Obj, slots : Nat]
             g == [closure |-> c, slots |-> 0]
  <2>1. g \in F /\ g.slots = 0 /\ g.closure = c
    BY <1>4
  <2> HIDE DEF F, g
  <2>2. <<g>> \in Seq(F) /\ <<g>>[1] = g /\ <<g>> # <<>> /\ \A i \in DOMAIN <<g>> : <<g>>[i] = g
    BY <2>1
  <2>3. frames' = <<g>>
    BY <1>2 DEF g
  <2> QED BY <2>1, <2>2, <2>3 DEF F
<1>8. Types'
  BY <1>1, <1>5, <1>6, <1>7, Resting DEF IInv, Types
<1>9. Within(allocated)'
  BY <1>1, <1>5, <1>6, <1>7, Safe DEF Within
<1>10. OpenInStack' /\ Layout'
  BY <1>1, <1>3, <1>7 DEF OpenInStack, Layout
<1> QED BY <1>1, <1>5, <1>8, <1>9, <1>10, Resting, Ending

(* The closure is pushed before it captures.                                 *)
LEMMA Step_newClosure ==
  ASSUME IInv, UNCHANGED limits, newClosure
  PROVE  IInv'
<1>1. UNCHANGED <<frames, open, global, compilers>> /\ at = "newClosure"
  BY DEF newClosure
<1>2. PICK c \in New("closure") :
         /\ Allocate(c, {held[1]}) /\ stack' = Append(stack, c)
         /\ Goes("captureUpvalue", <<c>>)
  BY DEF newClosure, Pushed
<1>3. Len(held) = 1 /\ frames # <<>>
  BY <1>1 DEF IInv, Points, NoneHeld, OneHeld, TwoHeld
<1>4. c \in Obj /\ c \in Items /\ c # Plain
  BY <1>2, NewObject, RootingAssumption DEF IInv, Items
<1>5. /\ allocated' = allocated \union {c} /\ allocated' \subseteq Obj
      /\ refs' \in [Obj -> SUBSET Obj] /\ Shut(allocated)'
  <2>1. {held[1]} \in SUBSET allocated
    BY <1>3, Safe
  <2> QED BY <1>2, <1>4, <2>1, Allocating
<1>6. /\ stack' \in Seq(Items) /\ Len(stack') = Len(stack) + 1
      /\ ToSet(stack') = ToSet(stack) \union {c}
  BY <1>2, <1>4, Safe, Appending
<1>7. /\ held' = <<c>> /\ at' = "captureUpvalue" /\ held' \in Seq(Obj) /\ Len(held') = 1
      /\ ToSet(held') = {c} /\ held'[1] = c
  <2>1. held' = <<c>> /\ at' = "captureUpvalue"
    BY <1>2, ToPoint
  <2>2. <<c>> \in Seq(Obj) /\ Len(<<c>>) = 1 /\ <<c>>[1] = c /\ ToSet(<<c>>) = {c}
    BY <1>4, One
  <2> QED BY <2>1, <2>2
<1>8. Types'
  BY <1>1, <1>5, <1>6, <1>7 DEF IInv, Types
<1>9. Within(allocated)'
  BY <1>1, <1>5, <1>6, Safe DEF Within
<1>10. OpenInStack' /\ Layout'
  BY <1>1, <1>6, Safe DEF IInv, Types, OpenInStack, Layout
<1>11. Points'
  BY <1>1, <1>3, <1>6, <1>7 DEF Points, NoneHeld, OneHeld, TwoHeld
<1>12. \A S : Within(S)' => ToSet(held') \subseteq S
  BY <1>4, <1>6, <1>7 DEF Within
<1> QED BY <1>5, <1>8, <1>9, <1>10, <1>11, <1>12, Holding

(* The class refers to its name and is pushed.                               *)
LEMMA Step_newClass ==
  ASSUME IInv, UNCHANGED limits, newClass
  PROVE  IInv'
<1>1. UNCHANGED <<frames, open, global, compilers>> /\ at = "newClass" /\ Done
  BY DEF newClass
<1>2. PICK k \in New("class") : Allocate(k, {held[1]}) /\ stack' = Append(stack, k)
  BY DEF newClass, Pushed
<1>3. Len(held) = 1
  BY <1>1 DEF IInv, Points, NoneHeld, OneHeld, TwoHeld
<1>4. k \in Obj /\ k \in Items
  BY <1>2, NewObject DEF IInv, Items
<1>5. /\ allocated' = allocated \union {k} /\ allocated' \subseteq Obj
      /\ refs' \in [Obj -> SUBSET Obj] /\ Shut(allocated)'
  <2>1. {held[1]} \in SUBSET allocated
    BY <1>3, Safe
  <2> QED BY <1>2, <1>4, <2>1, Allocating
<1>6. /\ stack' \in Seq(Items) /\ Len(stack') = Len(stack) + 1
      /\ ToSet(stack') = ToSet(stack) \union {k}
  BY <1>2, <1>4, Safe, Appending
<1>7. Types'
  BY <1>1, <1>5, <1>6, Resting DEF IInv, Types
<1>8. Within(allocated)'
  BY <1>1, <1>5, <1>6, Safe DEF Within
<1>9. OpenInStack' /\ Layout'
  BY <1>1, <1>6, Safe DEF IInv, Types, OpenInStack, Layout
<1> QED BY <1>1, <1>5, <1>7, <1>8, <1>9, Resting, Ending

(* The instance takes the slot of its class; the initializer hangs from the  *)
(* class.                                                                    *)
LEMMA Step_newInstance ==
  ASSUME IInv, UNCHANGED limits, newInstance
  PROVE  IInv'
<1>1. UNCHANGED <<open, global, compilers>> /\ at = "newInstance" /\ Done
  BY DEF newInstance
<1>2. PICK i \in New("instance") : Allocate(i, {held[1]}) /\ stack' = Append(Front(stack), i)
  BY DEF newInstance, Pushed
<1>3. Len(held) = 1 /\ frames # <<>> /\ Len(stack) >= 1 /\ stack # <<>>
  BY <1>1, Safe DEF IInv, Points, NoneHeld, OneHeld, TwoHeld
<1>4. i \in Obj /\ i \in Items
  BY <1>2, NewObject DEF IInv, Items
<1>5. /\ allocated' = allocated \union {i} /\ allocated' \subseteq Obj
      /\ refs' \in [Obj -> SUBSET Obj] /\ Shut(allocated)'
  <2>1. {held[1]} \in SUBSET allocated
    BY <1>3, Safe
  <2> QED BY <1>2, <1>4, <2>1, Allocating
<1>6. /\ stack' \in Seq(Items) /\ Len(stack') = Len(stack)
      /\ ToSet(stack') \subseteq ToSet(stack) \union {i}
  BY <1>2, <1>3, <1>4, Safe, Replacing
<1>7. /\ frames' \in Seq([closure : Obj, slots : Nat]) /\ frames' # <<>>
      /\ frames'[1] = frames[1]
      /\ \A j \in DOMAIN frames' : frames'[j].closure \in allocated
  <2>1. \A j \in DOMAIN frames : frames[j].closure \in allocated
    BY Safe DEF Within
  <2>2. CASE UNCHANGED frames
    BY <1>3, <2>1, <2>2, Safe
  <2>3. CASE \E init \in Of(refs[held[1]], "closure") :
               frames' = Append(frames, [closure |-> init, slots |-> Len(stack) - 1])
    <3>1. PICK init \in refs[held[1]] :
             frames' = Append(frames, [closure |-> init, slots |-> Len(stack) - 1])
      BY <2>3 DEF Of
    <3>2. init \in allocated /\ init \in Obj
      BY <1>3, <3>1, Safe DEF Shut
    <3>3. Len(stack) - 1 \in Nat
      BY <1>3, Safe
    <3>4. /\ frames' \in Seq([closure : Obj, slots : Nat]) /\ frames' # <<>>
          /\ frames'[1] = frames[1]
          /\ \A j \in DOMAIN frames' : frames'[j].closure = init \/
                (j \in DOMAIN frames /\ frames'[j] = frames[j])
      BY <1>3, <3>1, <3>2, <3>3, Calling
    <3> QED BY <2>1, <3>2, <3>4
  <2> QED BY <2>2, <2>3 DEF newInstance
<1>8. Types'
  BY <1>1, <1>5, <1>6, <1>7, Resting DEF IInv, Types
<1>9. Within(allocated)'
  BY <1>1, <1>5, <1>6, <1>7, Safe DEF Within
<1>10. OpenInStack' /\ Layout'
  BY <1>1, <1>3, <1>6, <1>7 DEF IInv, OpenInStack, Layout
<1> QED BY <1>1, <1>5, <1>8, <1>9, <1>10, Resting, Ending

(* A captured upvalue is open in a slot of the stack or hangs from the       *)
(* running closure, and the closure that gets it is on the stack.            *)
LEMMA Step_captureUpvalue ==
  ASSUME IInv, UNCHANGED limits, captureUpvalue
  PROVE  IInv'
<1> DEFINE c == held[1]
<1>1. UNCHANGED <<stack, frames, global, compilers>> /\ at = "captureUpvalue"
  BY DEF captureUpvalue
<1>2. /\ Len(held) = 1 /\ frames # <<>> /\ c \in ToSet(stack)
      /\ c \in allocated /\ c \in Obj /\ c # Plain
  <2>1. Len(held) = 1 /\ frames # <<>> /\ c \in ToSet(stack)
    BY <1>1 DEF IInv, Points, OneHeld
  <2>2. c \in allocated /\ c \in Obj
    BY <2>1, Safe
  <2> QED BY <2>1, <2>2, RootingAssumption
<1>3. ToSet(held) = {c}
  BY <1>2 DEF ToSet, IInv, Types
<1>4. \A s \in Locals : s \in Nat /\ s < Len(stack)
  BY <1>2, Safe, FrameFields DEF Locals, IInv
<1> HIDE DEF c
<1>5. CASE Done /\ UNCHANGED <<graph, open>>
  <2>1. Types' /\ OpenInStack' /\ Layout'
    BY <1>1, <1>5, Resting DEF IInv, Types, OpenInStack, Layout, graph
  <2>2. Within(allocated)' /\ Shut(allocated)'
    BY <1>1, <1>5, Safe DEF Within, Shut, graph
  <2> QED BY <1>5, <2>1, <2>2, Resting, Ending
<1>6. CASE UNCHANGED control /\ ~ UNCHANGED graph
  <2>1. held' = held /\ at' = at
    BY <1>6 DEF control
  <2>2. Points'
    BY <1>1, <1>2, <2>1 DEF Points, NoneHeld, OneHeld, TwoHeld, IInv
  <2>3. \A S : Within(S)' => ToSet(held') \subseteq S
    BY <1>1, <1>2, <1>3, <2>1 DEF Within
  <2>4. CASE \E u \in {v \in DOMAIN open : open[v] \in Locals}
                        \union Of(refs[Frame.closure], "upvalue") : Store(c, {u}) /\ UNCHANGED open
    <3>1. PICK u \in {v \in DOMAIN open : open[v] \in Locals}
                        \union Of(refs[Frame.closure], "upvalue") : Store(c, {u}) /\ UNCHANGED open
      BY <2>4
    <3>2. u \in allocated
      BY <1>2, Safe, FrameFields DEF Within, Shut, Of, IInv
    <3>3. /\ allocated' = allocated /\ refs' \in [Obj -> SUBSET Obj] /\ Shut(allocated)'
      BY <1>2, <3>1, <3>2, Storing
    <3>4. Types' /\ OpenInStack' /\ Layout'
      BY <1>1, <2>1, <3>1, <3>3 DEF IInv, Types, OpenInStack, Layout
    <3>5. Within(allocated)'
      BY <1>1, <3>1, <3>3, Safe DEF Within
    <3> QED BY <2>2, <2>3, <3>3, <3>4, <3>5, Holding
  <2>5. CASE \E u \in New("upvalue"), s \in Locals :
               /\ allocated' = allocated \union {u}
               /\ refs' = [refs EXCEPT ![u] = {}, ![c] = @ \union {u}]
               /\ open' = [v \in DOMAIN open \union {u} |-> IF v = u THEN s ELSE open[v]]
    <3>1. PICK u \in New("upvalue"), s \in Locals :
               /\ allocated' = allocated \union {u}
               /\ refs' = [refs EXCEPT ![u] = {}, ![c] = @ \union {u}]
               /\ open' = [v \in DOMAIN open \union {u} |-> IF v = u THEN s ELSE open[v]]
      BY <2>5
    <3>2. u \in Obj /\ s \in Nat /\ s < Len(stack)
      BY <1>4, <3>1, NewObject DEF IInv
    <3>3. /\ DOMAIN open' = DOMAIN open \union {u}
          /\ \A v \in DOMAIN open' : open'[v] = s \/ (v \in DOMAIN open /\ open'[v] = open[v])
      BY <3>1
    <3>4. refs' \in [Obj -> SUBSET Obj] /\ allocated' \subseteq Obj /\ Shut(allocated)'
      BY <1>2, <3>1, <3>2, Safe DEF Shut
    <3>5. Types'
      BY <1>1, <2>1, <3>2, <3>3, <3>4 DEF IInv, Types
    <3>6. OpenInStack' /\ Layout'
      BY <1>1, <1>2, <3>2, <3>3 DEF IInv, OpenInStack, Layout
    <3>7. Within(allocated)'
      BY <1>1, <3>1, <3>3, Safe DEF Within
    <3> QED BY <2>2, <2>3, <3>4, <3>5, <3>6, <3>7, Holding
  <2> QED BY <1>5, <1>6, <2>4, <2>5 DEF captureUpvalue, c
<1>7. CASE UNCHANGED control /\ UNCHANGED graph
  <2>1. UNCHANGED open
    <3>1. \A u \in New("upvalue") : allocated' = allocated \union {u} => ~ UNCHANGED graph
      BY NewObject DEF graph, IInv
    <3> QED BY <1>7, <3>1 DEF captureUpvalue
  <2>2. IInv' = IInv
    BY <1>1, <1>7, <2>1
    DEF IInv, Types, Sound, Kept, OpenInStack, Layout, Points, Shut, Uncaptured, markedRoots,
        graph, control
  <2> QED BY <2>2
<1> QED BY <1>5, <1>6, <1>7 DEF captureUpvalue

(* The super class is popped, but the method that runs has captured it.      *)
LEMMA Step_OP_GET_SUPER ==
  ASSUME IInv, UNCHANGED limits, OP_GET_SUPER
  PROVE  IInv'
<1>1. /\ UNCHANGED <<graph, frames, open, global, compilers>> /\ Running
      /\ Temporary(2) /\ Uncaptured(2) /\ Top # Plain /\ Below # Plain
      /\ Top \in Captured /\ stack' = Front(stack)
  BY DEF OP_GET_SUPER, Operands
<1>2. PICK m \in refs[Top] : Goes("newBoundMethod", <<Below, m>>)
  BY DEF OP_GET_SUPER, Binds, Of
<1>3. stack # <<>> /\ Len(stack) >= 2 /\ Len(stack) \in Nat /\ frames # <<>>
  BY <1>1, Operand, Safe
<1>4. /\ Top \in Obj /\ Top \in allocated /\ Below \in Obj /\ Below \in allocated
  BY <1>1, <1>3, OnStack
<1>5. /\ stack' \in Seq(Items) /\ Len(stack') = Len(stack) - 1
      /\ ToSet(stack') \subseteq ToSet(stack)
      /\ ToSet(stack) = ToSet(stack') \union {Top} /\ Below \in ToSet(stack')
  <2>1. stack \in Seq(Items)
    BY Safe
  <2>2. /\ Front(stack) \in Seq(Items) /\ ToSet(Front(stack)) \subseteq ToSet(stack)
        /\ Len(Front(stack)) = Len(stack) - 1
        /\ ToSet(stack) = ToSet(Front(stack)) \union {Last(stack)}
        /\ stack[Len(stack) - 1] \in ToSet(Front(stack))
    BY <1>3, <2>1, Ends
  <2> QED BY <1>1, <2>2 DEF Top, Below
<1>6. m \in Obj /\ m \in allocated
  BY <1>2, <1>4, Safe DEF Shut
<1>7. held' = <<Below, m>> /\ at' = "newBoundMethod"
  BY <1>2, ToPoint
<1>8. held' \in Seq(Obj) /\ Len(held') = 2 /\ ToSet(held') = {Below, m}
  BY <1>4, <1>6, <1>7, Two
<1>9. Types'
  BY <1>1, <1>5, <1>8 DEF IInv, Types, graph
<1>10. Within(allocated)' /\ Shut(allocated)'
  BY <1>1, <1>5, Safe DEF Within, Shut, graph
<1>11. \A u \in DOMAIN open : open[u] < Len(stack) - 2
  BY <1>1 DEF Uncaptured
<1>12. OpenInStack' /\ Layout' /\ Uncaptured(1)'
  <2>1. \A u \in DOMAIN open : open[u] \in Nat /\ open[u] < Len(stack') - 1 /\ open[u] < Len(stack')
    BY <1>3, <1>5, <1>11 DEF IInv, Types
  <2> QED BY <1>1, <2>1 DEF IInv, OpenInStack, Layout, Uncaptured
<1>13. Points'
  BY <1>1, <1>3, <1>5, <1>7, <1>8, <1>12 DEF Points, NoneHeld, OneHeld, TwoHeld
<1>14. \A S \in SUBSET allocated' : Within(S)' /\ Shut(S)' => ToSet(held') \subseteq S
  <2> TAKE S \in SUBSET allocated'
  <2> HAVE Within(S)' /\ Shut(S)'
  <2>1. Shut(S) /\ Below \in S
    BY <1>1, <1>5 DEF Shut, graph, Within
  <2>2. Top \in S
    <3>1. PICK u \in Of(refs[Frame.closure], "upvalue") :
             Top \in (IF u \in DOMAIN open THEN {stack[open[u] + 1]} ELSE refs[u])
      BY <1>1 DEF Captured
    <3>2. Frame.closure \in S /\ u \in S
      BY <1>1, <1>3, <2>1, <3>1, FrameFields DEF Within, Shut, Of, IInv
    <3>3. CASE u \notin DOMAIN open
      BY <2>1, <3>1, <3>2, <3>3 DEF Shut
    <3>4. CASE u \in DOMAIN open
      <4>1. open[u] \in Nat /\ open[u] + 1 \in DOMAIN stack'
            /\ open[u] + 1 \in DOMAIN Front(stack)
        BY <1>1, <1>3, <1>5, <1>11, <3>4 DEF IInv, Types
      <4>2. stack'[open[u] + 1] = stack[open[u] + 1]
        BY <1>1, <4>1, Safe, Fronts
      <4>3. Top = stack'[open[u] + 1]
        BY <3>1, <3>4, <4>2
      <4>4. Top \in ToSet(stack')
        BY <4>1, <4>3 DEF ToSet
      <4> QED BY <1>1, <4>4 DEF Within
    <3> QED BY <3>3, <3>4
  <2> QED BY <1>2, <1>8, <2>1, <2>2 DEF Shut
<1> QED BY <1>9, <1>10, <1>12, <1>13, <1>14, Holding

(* The receiver is popped only when the bound method has it.                 *)
LEMMA Step_newBoundMethod ==
  ASSUME IInv, UNCHANGED limits, newBoundMethod
  PROVE  IInv'
<1>1. UNCHANGED <<frames, open, global, compilers>> /\ at = "newBoundMethod" /\ Done
  BY DEF newBoundMethod
<1>2. PICK b \in New("bound") : Allocate(b, ToSet(held)) /\ stack' = Append(Front(stack), b)
  BY DEF newBoundMethod, Pushed
<1>3. Len(stack) >= 1 /\ stack # <<>>
  BY <1>1, Safe DEF IInv, Points
<1>4. b \in Obj /\ b \in Items
  BY <1>2, NewObject DEF IInv, Items
<1>5. /\ allocated' = allocated \union {b} /\ allocated' \subseteq Obj
      /\ refs' \in [Obj -> SUBSET Obj] /\ Shut(allocated)'
  <2>1. ToSet(held) \in SUBSET allocated
    BY Safe
  <2> QED BY <1>2, <1>4, <2>1, Allocating
<1>6. /\ stack' \in Seq(Items) /\ Len(stack') = Len(stack)
      /\ ToSet(stack') \subseteq ToSet(stack) \union {b}
  BY <1>2, <1>3, <1>4, Safe, Replacing
<1>7. Types'
  BY <1>1, <1>5, <1>6, Resting DEF IInv, Types
<1>8. Within(allocated)'
  BY <1>1, <1>5, <1>6, Safe DEF Within
<1>9. OpenInStack' /\ Layout'
  BY <1>1, <1>6 DEF IInv, OpenInStack, Layout
<1> QED BY <1>1, <1>5, <1>7, <1>8, <1>9, Resting, Ending

(* tableSet may have collected; both operands were on the stack.             *)
LEMMA Step_setInObject ==
  ASSUME IInv, UNCHANGED limits, setInObject
  PROVE  IInv'
<1>1. UNCHANGED <<allocated, frames, open, global, compilers>> /\ at = "tableSet" /\ Done
  BY DEF setInObject
<1>2. /\ Len(held) = 2 /\ Len(stack) >= 2 /\ stack # <<>> /\ Len(stack) \in Nat
      /\ \A u \in DOMAIN open : open[u] < Len(stack) - 2
  BY <1>1, Safe DEF IInv, Points, NoneHeld, OneHeld, TwoHeld, Uncaptured
<1>3. PICK own \in SUBSET refs[held[1]] : refs' = [refs EXCEPT ![held[1]] = own \union {held[2]}]
  BY DEF setInObject, Of
<1>4. /\ held[1] \in allocated /\ held[1] \in Obj /\ held[2] \in allocated /\ held[2] \in Obj
      /\ held[2] \in Items
  BY <1>2, Safe DEF Items
<1>5. refs' \in [Obj -> SUBSET Obj] /\ Shut(allocated)'
  BY <1>1, <1>3, <1>4, Safe DEF Shut
<1>6. /\ stack' \in Seq(Items) /\ Len(stack') = Len(stack) - 1
      /\ ToSet(stack') \subseteq ToSet(stack) \union {held[2]}
  <2>1. CASE stack' = Front(stack)
    <3>1. stack \in Seq(Items)
      BY Safe
    <3>2. /\ Front(stack) \in Seq(Items) /\ ToSet(Front(stack)) \subseteq ToSet(stack)
          /\ Len(Front(stack)) = Len(stack) - 1
      BY <1>2, <3>1, Ends
    <3> QED BY <2>1, <3>2
  <2>2. CASE stack' = Append(Front(Front(stack)), held[2])
    <3>1. stack \in Seq(Items)
      BY Safe
    <3> QED BY <1>2, <1>4, <2>2, <3>1, ReplacingTwo
  <2> QED BY <2>1, <2>2 DEF setInObject, Pushed
<1>7. Types'
  BY <1>1, <1>5, <1>6, Resting DEF IInv, Types
<1>8. Within(allocated)'
  BY <1>1, <1>4, <1>6, Safe DEF Within
<1>9. OpenInStack' /\ Layout'
  BY <1>1, <1>2, <1>6 DEF IInv, Types, OpenInStack, Layout
<1> QED BY <1>1, <1>5, <1>7, <1>8, <1>9, Resting, Ending

(* Both classes stay on the stack until the methods are copied.              *)
LEMMA Step_tableAddAllMethods ==
  ASSUME IInv, UNCHANGED limits, tableAddAllMethods
  PROVE  IInv'
<1>1. /\ UNCHANGED <<frames, open, global, compilers>> /\ at = "tableAddAll" /\ Done
      /\ Store(held[2], Of(refs[held[1]], "closure")) /\ stack' = Front(stack)
  BY DEF tableAddAllMethods
<1>2. /\ Len(held) = 2 /\ Len(stack) >= 1 /\ stack # <<>> /\ Len(stack) \in Nat
      /\ \A u \in DOMAIN open : open[u] < Len(stack) - 1
  BY <1>1, Safe DEF IInv, Points, NoneHeld, OneHeld, TwoHeld, Uncaptured
<1>3. /\ held[1] \in allocated /\ held[1] \in Obj /\ held[2] \in allocated /\ held[2] \in Obj
  BY <1>2, Safe
<1>4. Of(refs[held[1]], "closure") \in SUBSET allocated
  BY <1>3, Safe DEF Shut, Of
<1>5. /\ allocated' = allocated /\ refs' \in [Obj -> SUBSET Obj] /\ Shut(allocated)'
  BY <1>1, <1>3, <1>4, Storing
<1>6. /\ stack' \in Seq(Items) /\ Len(stack') = Len(stack) - 1
      /\ ToSet(stack') \subseteq ToSet(stack)
  <2>1. /\ Front(stack) \in Seq(Items) /\ Len(Front(stack)) = Len(stack) - 1
        /\ ToSet(Front(stack)) \subseteq ToSet(stack)
    <3>1. stack \in Seq(Items)
      BY Safe
    <3> QED BY <1>2, <3>1, Ends
  <2> QED BY <1>1, <2>1
<1>7. Types'
  BY <1>1, <1>5, <1>6, Resting DEF IInv, Types
<1>8. Within(allocated)'
  BY <1>1, <1>5, <1>6, Safe DEF Within
<1>9. OpenInStack' /\ Layout'
  BY <1>1, <1>2, <1>6 DEF IInv, Types, OpenInStack, Layout
<1> QED BY <1>1, <1>5, <1>7, <1>8, <1>9, Resting, Ending

(* The value is popped after tableSet.                                       *)
LEMMA Step_setGlobal ==
  ASSUME IInv, UNCHANGED limits, setGlobal
  PROVE  IInv'
<1>1. /\ UNCHANGED <<graph, frames, open, compilers>> /\ at = "globals" /\ Done
      /\ global' = held[1] /\ stack' \in {stack, Front(stack)}
  BY DEF setGlobal
<1>2. /\ Len(held) = 1 /\ Len(stack) >= 1 /\ stack # <<>> /\ Len(stack) \in Nat
      /\ \A u \in DOMAIN open : open[u] < Len(stack) - 1
  BY <1>1, Safe DEF IInv, Points, NoneHeld, OneHeld, TwoHeld, Uncaptured
<1>3. held[1] \in allocated /\ held[1] \in Items
  BY <1>2, Safe DEF Items
<1>4. /\ stack' \in Seq(Items) /\ Len(stack') >= Len(stack) - 1 /\ Len(stack') \in Nat
      /\ ToSet(stack') \subseteq ToSet(stack)
  <2>1. CASE stack' = stack
    BY <1>2, <2>1, Safe
  <2>2. CASE stack' = Front(stack)
    <3>1. /\ Front(stack) \in Seq(Items) /\ Len(Front(stack)) = Len(stack) - 1
          /\ ToSet(Front(stack)) \subseteq ToSet(stack)
      BY <1>2, Safe, Ends
    <3> QED BY <1>2, <2>2, <3>1
  <2> QED BY <1>1, <2>1, <2>2
<1>5. Types'
  BY <1>1, <1>3, <1>4, Resting DEF IInv, Types, graph
<1>6. Within(allocated)' /\ Shut(allocated)'
  BY <1>1, <1>3, <1>4, Safe DEF Within, Shut, graph
<1>7. OpenInStack' /\ Layout'
  BY <1>1, <1>2, <1>4 DEF IInv, Types, OpenInStack, Layout
<1> QED BY <1>1, <1>5, <1>6, <1>7, Resting, Ending

(* The operands are popped when the result is made.                          *)
LEMMA Step_ConcatenateResult ==
  ASSUME IInv, UNCHANGED limits, ConcatenateResult
  PROVE  IInv'
<1>1. UNCHANGED <<frames, open, global, compilers>> /\ at = "result" /\ Done
  BY DEF ConcatenateResult
<1>2. PICK s \in Strings : Allocate(s, {}) /\ stack' = Append(Front(Front(stack)), s)
  BY DEF ConcatenateResult, Pushed
<1>3. /\ Len(stack) >= 2 /\ stack # <<>> /\ Len(stack) \in Nat
      /\ \A u \in DOMAIN open : open[u] < Len(stack) - 2
  BY <1>1, Safe DEF IInv, Points, Uncaptured
<1>4. s \in Obj /\ s \in Items
  BY <1>2, StringsAreObjects DEF Items
<1>5. /\ allocated' = allocated \union {s} /\ allocated' \subseteq Obj
      /\ refs' \in [Obj -> SUBSET Obj] /\ Shut(allocated)'
  <2>1. {} \in SUBSET allocated
    OBVIOUS
  <2> QED BY <1>2, <1>4, <2>1, Allocating
<1>6. /\ stack' \in Seq(Items) /\ Len(stack') = Len(stack) - 1
      /\ ToSet(stack') \subseteq ToSet(stack) \union {s}
  BY <1>2, <1>3, <1>4, Safe, ReplacingTwo
<1>7. Types'
  BY <1>1, <1>5, <1>6, Resting DEF IInv, Types
<1>8. Within(allocated)'
  BY <1>1, <1>5, <1>6, Safe DEF Within
<1>9. OpenInStack' /\ Layout'
  BY <1>1, <1>3, <1>6 DEF IInv, Types, OpenInStack, Layout
<1> QED BY <1>1, <1>5, <1>7, <1>8, <1>9, Resting, Ending

-----------------------------------------------------------------------------
(* Nothing is allocated and nothing held at first.                           *)
LEMMA Initially == RootingInit => IInv
<1> SUFFICES ASSUME RootingInit PROVE IInv
  OBVIOUS
<1>1. /\ limits \in Limits /\ allocated = {} /\ refs = [o \in Obj |-> {}]
      /\ stack = <<>> /\ frames = <<>> /\ DOMAIN open = {} /\ global = Plain
      /\ compilers = <<>> /\ at = "run" /\ held = <<>>
  BY DEF RootingInit
<1>2. Types
  BY <1>1 DEF Types, Items
<1>3. ToSet(stack) = {} /\ ToSet(compilers) = {} /\ ToSet(held) = {} /\ DOMAIN frames = {}
  BY <1>1 DEF ToSet
<1>4. Sound
  BY <1>1, <1>2, <1>3, Roots DEF Sound, Shut, Within
<1>5. Kept
  BY <1>3 DEF Kept
<1>6. OpenInStack /\ Layout /\ Points
  BY <1>1 DEF OpenInStack, Layout, Points, NoneHeld, OneHeld, TwoHeld
<1> QED BY <1>2, <1>4, <1>5, <1>6 DEF IInv

(* Every step keeps the invariant: one case per action.                      *)
LEMMA Step == IInv /\ [RootingNext]_rootingVars => IInv'
<1> SUFFICES ASSUME IInv, [RootingNext]_rootingVars PROVE IInv'
  OBVIOUS
<1>1. CASE UNCHANGED rootingVars
  BY <1>1
  DEF rootingVars, graph, machine, control, IInv, Types, Sound, Kept, OpenInStack, Layout,
      Points, Shut, Uncaptured, markedRoots
<1>2. CASE RootingNext
  <2>1. UNCHANGED limits
    BY <1>2 DEF RootingNext
  <2>2. CASE collectGarbage
    BY <2>1, <2>2, Collecting
  <2>3. CASE initCompiler \/ StringConstant \/ emitByte \/ CopyChars
    BY <2>1, <2>3, Starts_Compiler
  <2>4. CASE newFunction
    BY <2>1, <2>4, Step_newFunction
  <2>5. CASE functionName
    BY <2>1, <2>5, Step_functionName
  <2>6. CASE makeConstant
    BY <2>1, <2>6, Step_makeConstant
  <2>7. CASE addConstant
    BY <2>1, <2>7, Step_addConstant
  <2>8. CASE endCompiler
    BY <2>1, <2>8, Step_endCompiler
  <2>9. CASE interpret
    BY <2>1, <2>9, Step_interpret
  <2>10. CASE Push \/ Assign \/ Pop \/ CallClosure \/ ReturnValue \/ runtimeError
    BY <2>1, <2>10, Step_Push, Step_Assign, Step_Pop, Step_CallClosure, Step_ReturnValue,
       Step_runtimeError
  <2>11. CASE OP_CLOSURE
    BY <2>1, <2>11, Starts_OP_CLOSURE
  <2>12. CASE newClosure
    BY <2>1, <2>12, Step_newClosure
  <2>13. CASE captureUpvalue
    BY <2>1, <2>13, Step_captureUpvalue
  <2>14. CASE OP_CLASS
    BY <2>1, <2>14, Starts_OP_CLASS
  <2>15. CASE newClass
    BY <2>1, <2>15, Step_newClass
  <2>16. CASE newInstance
    BY <2>1, <2>16, Step_newInstance
  <2>17. CASE OP_GET_PROPERTY
    BY <2>1, <2>17, Starts_OP_GET_PROPERTY
  <2>18. CASE OP_GET_SUPER
    BY <2>1, <2>18, Step_OP_GET_SUPER
  <2>19. CASE newBoundMethod
    BY <2>1, <2>19, Step_newBoundMethod
  <2>20. CASE \/ CallClass \/ OP_DEFINE_GLOBAL
              \/ OP_SET_PROPERTY \/ OP_METHOD \/ OP_INHERIT \/ OP_ADD
    BY <2>1, <2>20, StartsWithOperand
  <2>21. CASE setInObject
    BY <2>1, <2>21, Step_setInObject
  <2>22. CASE tableAddAllMethods
    BY <2>1, <2>22, Step_tableAddAllMethods
  <2>23. CASE setGlobal
    BY <2>1, <2>23, Step_setGlobal
  <2>24. CASE ConcatenateResult
    BY <2>1, <2>24, Step_ConcatenateResult
  <2> QED BY <1>2, <2>2, <2>3, <2>4, <2>5, <2>6, <2>7, <2>8, <2>9, <2>10, <2>11, <2>12, <2>13,
             <2>14, <2>15, <2>16, <2>17, <2>18, <2>19, <2>20, <2>21, <2>22, <2>23, <2>24
          DEF RootingNext
<1> QED BY <1>1, <1>2

(* The invariant holds of every behaviour, with any number of objects of     *)
(* each kind, frames, functions and lines, up to an error that drops an open *)
(* upvalue, after which there is no behaviour of the model.                  *)
THEOREM Invariance == RootingSpec => []IInv
<1> QED BY Initially, Step, PTL DEF RootingSpec

(* An allocation may collect wherever it happens: until an error drops an    *)
(* open upvalue, no C local of interp.cc, parser.cc or ysobject.cc is read   *)
(* after its object has been freed, and no root or object refers to one that *)
(* has.                                                                      *)
THEOREM NoLocalIsFreed == RootingSpec => []LocalsAreKept
<1>1. IInv => LocalsAreKept
  <2> SUFFICES ASSUME IInv PROVE LocalsAreKept
    OBVIOUS
  <2> QED BY Safe DEF LocalsAreKept, IInv, Sound, Shut
<1> QED BY <1>1, Invariance, PTL
=============================================================================

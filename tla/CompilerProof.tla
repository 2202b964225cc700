--------------------------- MODULE CompilerProof ---------------------------
(* That the compiler's table of locals is the stack, and that captured       *)
(* locals are closed when they go: for any program, nested in any way.       *)
EXTENDS Compiler, Induction, SequenceTheorems

-----------------------------------------------------------------------------
(* The inductive invariant, of compilers cs, classes cl, constructs ns and   *)
(* frames fs.                                                                *)
LocalName == Names \union {"this", "super", ""}
LocalSet == [name : LocalName, depth : Int, captured : BOOLEAN]
UpvalueSet == [index : Nat, isLocal : BOOLEAN]
CompilerSet ==
  [type : {"script", "function", "method", "initializer"}, scopeDepth : Nat,
   upvalues : Seq(UpvalueSet), locals : Seq(LocalSet)]
FrameSet == [height : Nat, open : SUBSET Nat]
NestSet == [kind : {"block", "var", "fun", "method", "class"}, name : Names \union {""},
            level : Nat, mark : Nat]

Typed(cs, cl, ns, fs) ==
  /\ cs \in Seq(CompilerSet) /\ cs # <<>> /\ cl \in Seq(BOOLEAN)
  /\ ns \in Seq(NestSet) /\ fs \in Seq(FrameSet) /\ Len(fs) = Len(cs)

(* A function's construct is inside the function around it, what follows is  *)
(* inside the function itself.                                               *)
Inside(e) == IF e.kind \in {"fun", "method"} THEN e.level + 1 ELSE e.level

(* What is open around the text read next, in the function at this level.    *)
NestOK(ns, level) ==
  /\ level = IF ns = <<>> THEN 1 ELSE Inside(ns[Len(ns)])
  /\ ns # <<>> => ns[1].level = 1
  /\ \A i \in DOMAIN ns :
       i + 1 \in DOMAIN ns => /\ ns[i + 1].level = Inside(ns[i])
                              /\ ns[i].kind # "var"
                              /\ ns[i].kind = "class" => ns[i + 1].kind = "method"
  /\ \A i, j \in DOMAIN ns : i < j => Inside(ns[i]) <= ns[j].level

(* Of function k: the declarations whose value is awaited, the classes under *)
(* construction, and the scopes; of the classes, cl says which has super.    *)
Of(ns, kinds, k) == {i \in DOMAIN ns : ns[i].kind \in kinds /\ ns[i].level = k}
Awaited(ns, k) == Cardinality(Of(ns, {"var", "fun"}, k))
Building(ns, k) == Cardinality(Of(ns, {"class"}, k))

ClassesTo(ns, i) == {j \in DOMAIN ns : j <= i /\ ns[j].kind = "class"}
Rank(ns, i) == Cardinality(ClassesTo(ns, i))
ScopesOf(ns, cl, k) ==
  {i \in DOMAIN ns : /\ ns[i].level = k
                     /\ ns[i].kind = "block" \/ (ns[i].kind = "class" /\ cl[Rank(ns, i)])}
Depth(ns, cl, k) == (IF k = 1 THEN 0 ELSE 1) + Cardinality(ScopesOf(ns, cl, k))

(* A local that waits for its initializer is the last one.                   *)
Waits(cs, ns, k) ==
  k = Len(cs) /\ ns # <<>> /\ ns[Len(ns)].kind = "var" /\ cs[k].scopeDepth > 0

Ordered(ls, n, d) ==
  /\ \A i \in 1 .. n : ls[i].depth \in 0 .. d
  /\ \A i, j \in 1 .. n : i < j => ls[i].depth <= ls[j].depth

LocalsOK(c, waits) ==
  /\ Len(c.locals) \in 1 .. MaxLocals /\ c.locals[1].depth = 0
  /\ ~ waits => Ordered(c.locals, Len(c.locals), c.scopeDepth)
  /\ waits => /\ Len(c.locals) > 1 /\ c.locals[Len(c.locals)].depth = Uninit
              /\ Ordered(c.locals, Len(c.locals) - 1, c.scopeDepth)

CapturedSlots(c) == {i - 1 : i \in {j \in DOMAIN c.locals : c.locals[j].captured}}

LevelOK(c, f, waits, depth, awaited, building) ==
  /\ LocalsOK(c, waits) /\ c.scopeDepth = depth
  /\ f.height = Len(c.locals) - (IF c.scopeDepth > 0 THEN awaited ELSE 0) + building
  /\ f.open \subseteq CapturedSlots(c) /\ f.open \subseteq 0 .. f.height - 1

(* What function k takes from the function around it.                        *)
UpvaluesOK(cs, k) ==
  /\ k = 1 => cs[k].upvalues = <<>>
  /\ \A i \in DOMAIN cs[k].upvalues :
       IF cs[k].upvalues[i].isLocal
       THEN cs[k].upvalues[i].index \in CapturedSlots(cs[k - 1])
       ELSE cs[k].upvalues[i].index + 1 \in DOMAIN cs[k - 1].upvalues

Good(cs, cl, ns, fs) ==
  /\ Typed(cs, cl, ns, fs) /\ NestOK(ns, Len(cs)) /\ Len(cl) = Rank(ns, Len(ns))
  /\ \A k \in DOMAIN cs :
       /\ Len(cs[k].upvalues) <= MaxUpvalues /\ UpvaluesOK(cs, k)
       /\ LevelOK(cs[k], fs[k], Waits(cs, ns, k), Depth(ns, cl, k), Awaited(ns, k),
                  Building(ns, k))

(* The text read so far, and how much of it each construct leaves.           *)
BindingSet == [name : LocalName, level : Nat, slot : Nat]

TextOK(ns, e) ==
  /\ e \in Seq(BindingSet)
  /\ \A i \in DOMAIN ns : ns[i].mark <= Len(e)
  /\ \A i, j \in DOMAIN ns : i < j => ns[i].mark <= ns[j].mark

IInv ==
  /\ Good(compilers, classes, nest, frames) /\ TextOK(nest, env) /\ hadError \in BOOLEAN

-----------------------------------------------------------------------------
(* Sequences.                                                                *)

(* A sequence is a number of elements at 1, 2 and so on.                     *)
LEMMA Elements ==
  ASSUME NEW T, NEW s \in Seq(T)
  PROVE  /\ Len(s) \in Nat /\ DOMAIN s = 1 .. Len(s) /\ \A i \in DOMAIN s : s[i] \in T
         /\ s = <<>> <=> Len(s) = 0
         /\ s # <<>> => Len(s) \in DOMAIN s /\ 1 \in DOMAIN s /\ Last(s) = s[Len(s)]
BY DEF Last

(* One more element.                                                         *)
LEMMA Appended ==
  ASSUME NEW T, NEW s \in Seq(T), NEW e \in T
  PROVE  /\ Append(s, e) \in Seq(T) /\ Append(s, e) # <<>> /\ Len(Append(s, e)) = Len(s) + 1
         /\ DOMAIN Append(s, e) = 1 .. Len(s) + 1
         /\ DOMAIN Append(s, e) = DOMAIN s \union {Len(s) + 1}
         /\ Append(s, e)[Len(s) + 1] = e /\ Last(Append(s, e)) = e
         /\ \A i \in DOMAIN s : i # Len(s) + 1 /\ Append(s, e)[i] = s[i]
<1>1. /\ Append(s, e) \in Seq(T) /\ Len(Append(s, e)) = Len(s) + 1 /\ Len(s) \in Nat
      /\ DOMAIN Append(s, e) = 1 .. Len(s) + 1 /\ DOMAIN s = 1 .. Len(s)
      /\ Append(s, e)[Len(s) + 1] = e /\ \A i \in 1 .. Len(s) : Append(s, e)[i] = s[i]
  OBVIOUS
<1>2. Append(s, e) # <<>> /\ Last(Append(s, e)) = e
  <2>1. Len(Append(s, e)) # 0
    BY <1>1
  <2>2. Append(s, e) # <<>> /\ Last(Append(s, e)) = Append(s, e)[Len(Append(s, e))]
    BY <1>1, <2>1, Elements
  <2> QED BY <1>1, <2>2
<1>3. 1 .. Len(s) + 1 = (1 .. Len(s)) \union {Len(s) + 1} /\ Len(s) + 1 \notin 1 .. Len(s)
  BY <1>1
<1> QED BY <1>1, <1>2, <1>3

(* All elements but the last.                                                *)
LEMMA WithoutLast ==
  ASSUME NEW T, NEW s \in Seq(T), s # <<>>
  PROVE  /\ Front(s) \in Seq(T) /\ Len(Front(s)) = Len(s) - 1
         /\ Last(s) \in T /\ Last(s) = s[Len(s)]
         /\ DOMAIN Front(s) = 1 .. Len(s) - 1
         /\ \A k \in DOMAIN Front(s) : k \in DOMAIN s /\ k < Len(s) /\ Front(s)[k] = s[k]
         /\ s = Append(Front(s), Last(s))
<1>1. /\ Len(s) \in Nat \ {0} /\ DOMAIN s = 1 .. Len(s)
      /\ 1 \in Int /\ Len(s) - 1 \in Int /\ \A i \in 1 .. Len(s) - 1 : s[i] \in T
  OBVIOUS
<1> DEFINE L == Len(s)
           r == SubSeq(s, 1, L - 1)
<1>2. /\ r \in Seq(T)
      /\ Len(r) = IF 1 <= L - 1 THEN (L - 1) - 1 + 1 ELSE 0
      /\ \A i \in 1 .. (L - 1) - 1 + 1 : r[i] = s[1 + i - 1]
  BY <1>1, SubSeqProperties
<1> HIDE DEF r, L
<1>3. Len(r) = L - 1 /\ (L - 1) - 1 + 1 = L - 1 /\ L \in Nat \ {0}
  <2>1. (L - 1) - 1 + 1 = L - 1 /\ (1 <= L - 1 \/ L - 1 = 0) /\ L \in Nat \ {0}
    BY <1>1 DEF L
  <2>2. 1 <= L - 1 => Len(r) = (L - 1) - 1 + 1
    BY <1>2
  <2>3. ~ (1 <= L - 1) => Len(r) = 0
    BY <1>2
  <2> QED BY <2>1, <2>2, <2>3
<1>4. DOMAIN r = 1 .. L - 1
  BY <1>2, <1>3
<1>5. \A k \in 1 .. L - 1 : k \in 1 .. L /\ k < L /\ 1 + k - 1 = k
  BY <1>3
<1>6. \A k \in 1 .. L - 1 : r[k] = s[k]
  BY <1>2, <1>3, <1>5
<1>7. Front(s) = r
  BY DEF Front, r, L
<1>8. Last(s) = s[L] /\ s[L] \in T
  BY <1>1 DEF Last, L
<1>9. s = Append(r, s[L])
  <2>1. Append(r, s[L]) \in Seq(T)
    BY <1>2, <1>8
  <2>2. Len(Append(r, s[L])) = L
    BY <1>2, <1>3
  <2>3. \A i \in 1 .. L : Append(r, s[L])[i] = s[i]
    BY <1>2, <1>3, <1>6
  <2> QED BY <2>1, <2>2, <2>3, <1>1 DEF L
<1> QED BY <1>1, <1>2, <1>3, <1>4, <1>5, <1>6, <1>7, <1>8, <1>9 DEF L

-----------------------------------------------------------------------------
(* Counting constructs.                                                      *)

(* A set of positions has a number of elements.                              *)
LEMMA Counted ==
  ASSUME NEW N \in Nat, NEW S \in SUBSET (1 .. N)
  PROVE  IsFiniteSet(S) /\ Cardinality(S) \in Nat /\ (Cardinality(S) = 0 <=> S = {})
<1>1. IsFiniteSet(1 .. N)
  BY FS_Interval
<1>2. IsFiniteSet(S)
  BY <1>1, FS_Subset
<1> QED BY <1>2, FS_CardinalityType, FS_EmptySet

(* One more.                                                                 *)
LEMMA CountMore ==
  ASSUME NEW N \in Nat, NEW S \in SUBSET (1 .. N)
  PROVE  Cardinality(S \union {N + 1}) = Cardinality(S) + 1
<1>1. IsFiniteSet(S)
  BY Counted
<1>2. N + 1 \notin S
  OBVIOUS
<1> QED BY <1>1, <1>2, FS_AddElement

(* A construct that opens adds to the counts of its own function only.       *)
LEMMA CountsPush ==
  ASSUME NEW ns \in Seq(NestSet), NEW e \in NestSet, NEW k
  PROVE  /\ Awaited(Append(ns, e), k)
              = Awaited(ns, k) + (IF e.kind \in {"var", "fun"} /\ e.level = k THEN 1 ELSE 0)
         /\ Building(Append(ns, e), k)
              = Building(ns, k) + (IF e.kind = "class" /\ e.level = k THEN 1 ELSE 0)
         /\ Awaited(ns, k) \in Nat /\ Building(ns, k) \in Nat
<1> DEFINE N == Len(ns)
           r == Append(ns, e)
<1>1. /\ N \in Nat /\ DOMAIN ns = 1 .. N /\ DOMAIN r = (DOMAIN ns) \union {N + 1}
      /\ r[N + 1] = e /\ \A i \in DOMAIN ns : r[i] = ns[i]
  BY Elements, Appended
<1> HIDE DEF N, r
<1>2. ASSUME NEW kinds
      PROVE  /\ Cardinality(Of(r, kinds, k))
                  = Cardinality(Of(ns, kinds, k))
                      + (IF e.kind \in kinds /\ e.level = k THEN 1 ELSE 0)
             /\ Cardinality(Of(ns, kinds, k)) \in Nat
  <2> DEFINE S == Of(ns, kinds, k)
  <2>1. S \in SUBSET (1 .. N)
    BY <1>1 DEF Of
  <2>2. Cardinality(S) \in Nat /\ Cardinality(S \union {N + 1}) = Cardinality(S) + 1
    BY <1>1, <2>1, Counted, CountMore
  <2>3. CASE e.kind \in kinds /\ e.level = k
    <3>1. Of(r, kinds, k) = S \union {N + 1}
      BY <1>1, <2>3 DEF Of
    <3> QED BY <2>2, <2>3, <3>1
  <2>4. CASE ~ (e.kind \in kinds /\ e.level = k)
    <3>1. Of(r, kinds, k) = S
      BY <1>1, <2>4 DEF Of
    <3> QED BY <2>2, <2>4, <3>1
  <2> QED BY <2>3, <2>4
<1>3. e.kind \in {"class"} <=> e.kind = "class"
  OBVIOUS
<1> QED BY <1>2, <1>3 DEF Awaited, Building, r

(* The classes up to a construct, when another opens.                        *)
LEMMA RankPush ==
  ASSUME NEW ns \in Seq(NestSet), NEW e \in NestSet
  PROVE  /\ Rank(Append(ns, e), Len(ns) + 1)
              = Rank(ns, Len(ns)) + (IF e.kind = "class" THEN 1 ELSE 0)
         /\ Rank(ns, Len(ns)) \in Nat
         /\ \A i \in DOMAIN ns : Rank(Append(ns, e), i) = Rank(ns, i)
         /\ \A i \in DOMAIN ns : ns[i].kind = "class" => Rank(ns, i) \in 1 .. Rank(ns, Len(ns))
<1> DEFINE N == Len(ns)
           r == Append(ns, e)
           S == ClassesTo(ns, N)
<1>1. /\ N \in Nat /\ DOMAIN ns = 1 .. N /\ DOMAIN r = (DOMAIN ns) \union {N + 1}
      /\ r[N + 1] = e /\ \A i \in DOMAIN ns : r[i] = ns[i]
  BY Elements, Appended
<1>2. r = Append(ns, e) /\ N = Len(ns)
  OBVIOUS
<1> HIDE DEF N, r
<1>3. S \in SUBSET (1 .. N)
  BY <1>1 DEF ClassesTo
<1>4. Cardinality(S) \in Nat /\ Cardinality(S \union {N + 1}) = Cardinality(S) + 1
  BY <1>1, <1>3, Counted, CountMore
<1>5. Cardinality(ClassesTo(r, N + 1)) = Cardinality(S) + (IF e.kind = "class" THEN 1 ELSE 0)
  <2>0. \A j \in DOMAIN ns : j <= N /\ j <= N + 1
    BY <1>1
  <2>1. CASE e.kind = "class"
    <3>1. ClassesTo(r, N + 1) = S \union {N + 1}
      BY <1>1, <2>0, <2>1 DEF ClassesTo
    <3> QED BY <1>4, <2>1, <3>1
  <2>2. CASE e.kind # "class"
    <3>1. ClassesTo(r, N + 1) = S
      BY <1>1, <2>0, <2>2 DEF ClassesTo
    <3> QED BY <1>4, <2>2, <3>1
  <2> QED BY <2>1, <2>2
<1>6. ASSUME NEW i \in DOMAIN ns PROVE ClassesTo(r, i) = ClassesTo(ns, i)
  <2>1. ~ (N + 1 <= i)
    BY <1>1
  <2> QED BY <1>1, <2>1 DEF ClassesTo
<1>7. ASSUME NEW i \in DOMAIN ns, ns[i].kind = "class"
      PROVE  Cardinality(ClassesTo(ns, i)) \in 1 .. Cardinality(S)
  <2>1. i \in ClassesTo(ns, i) /\ ClassesTo(ns, i) \in SUBSET S
    BY <1>1, <1>7 DEF ClassesTo
  <2>2. ClassesTo(ns, i) \in SUBSET (1 .. N)
    BY <1>3, <2>1
  <2>3. Cardinality(ClassesTo(ns, i)) \in Nat /\ Cardinality(ClassesTo(ns, i)) # 0
    BY <1>1, <2>1, <2>2, Counted
  <2>4. Cardinality(ClassesTo(ns, i)) <= Cardinality(S)
    BY <1>1, <1>3, <2>1, Counted, FS_Subset
  <2> QED BY <1>4, <2>3, <2>4
<1> QED BY <1>2, <1>4, <1>5, <1>6, <1>7 DEF Rank

(* A class that opens, after those that are open.                            *)
AddsClass(cl, e, cl2) ==
  IF e.kind = "class" THEN \E b \in BOOLEAN : cl2 = Append(cl, b) ELSE cl2 = cl

Scoped(e, cl2) == e.kind = "block" \/ (e.kind = "class" /\ cl2[Len(cl2)])

(* The same, of scopes.                                                      *)
LEMMA DepthPush ==
  ASSUME NEW ns \in Seq(NestSet), NEW e \in NestSet, NEW cl \in Seq(BOOLEAN),
         Len(cl) = Rank(ns, Len(ns)), NEW cl2, AddsClass(cl, e, cl2), NEW k
  PROVE  /\ cl2 \in Seq(BOOLEAN) /\ Len(cl2) = Rank(Append(ns, e), Len(ns) + 1)
         /\ Depth(Append(ns, e), cl2, k)
              = Depth(ns, cl, k) + (IF e.level = k /\ Scoped(e, cl2) THEN 1 ELSE 0)
         /\ Depth(ns, cl, k) \in Nat
<1> DEFINE N == Len(ns)
           r == Append(ns, e)
           S == ScopesOf(ns, cl, k)
<1>1. /\ N \in Nat /\ DOMAIN ns = 1 .. N /\ DOMAIN r = (DOMAIN ns) \union {N + 1}
      /\ r[N + 1] = e /\ \A i \in DOMAIN ns : r[i] = ns[i]
  BY Elements, Appended
<1>2. r = Append(ns, e) /\ N = Len(ns)
  OBVIOUS
<1>3. /\ cl2 \in Seq(BOOLEAN) /\ Len(cl) \in Nat
      /\ Len(cl2) = Len(cl) + (IF e.kind = "class" THEN 1 ELSE 0)
      /\ \A i \in 1 .. Len(cl) : cl2[i] = cl[i]
  <2>1. CASE e.kind = "class"
    <3>1. PICK b \in BOOLEAN : cl2 = Append(cl, b)
      BY <2>1 DEF AddsClass
    <3> QED BY <2>1, <3>1
  <2>2. CASE e.kind # "class"
    <3>1. cl2 = cl
      BY <2>2 DEF AddsClass
    <3> QED BY <2>2, <3>1
  <2> QED BY <2>1, <2>2
<1>4. /\ Rank(r, N + 1) = Len(cl2)
      /\ \A i \in DOMAIN ns : Rank(r, i) = Rank(ns, i)
      /\ \A i \in DOMAIN ns : ns[i].kind = "class" => Rank(ns, i) \in 1 .. Len(cl)
  BY <1>3, RankPush
<1> HIDE DEF N, r
<1>5. S \in SUBSET (1 .. N)
  BY <1>1 DEF ScopesOf
<1>6. Cardinality(S) \in Nat /\ Cardinality(S \union {N + 1}) = Cardinality(S) + 1
  BY <1>1, <1>5, Counted, CountMore
<1>7. ASSUME NEW i \in DOMAIN ns PROVE i \in ScopesOf(r, cl2, k) <=> i \in S
  <2>1. r[i] = ns[i] /\ i \in DOMAIN r /\ Rank(r, i) = Rank(ns, i)
    BY <1>1, <1>4
  <2>2. ns[i].kind = "class" => cl2[Rank(ns, i)] = cl[Rank(ns, i)]
    BY <1>3, <1>4
  <2> QED BY <2>1, <2>2 DEF ScopesOf
<1>8. N + 1 \in ScopesOf(r, cl2, k) <=> e.level = k /\ Scoped(e, cl2)
  BY <1>1, <1>4 DEF ScopesOf, Scoped
<1>9. ScopesOf(r, cl2, k) \subseteq (DOMAIN ns) \union {N + 1} /\ S \subseteq DOMAIN ns
  BY <1>1 DEF ScopesOf
<1> HIDE DEF S
<1>10. Cardinality(ScopesOf(r, cl2, k))
         = Cardinality(S) + (IF e.level = k /\ Scoped(e, cl2) THEN 1 ELSE 0)
  <2>1. CASE e.level = k /\ Scoped(e, cl2)
    <3>1. ScopesOf(r, cl2, k) = S \union {N + 1}
      BY <1>7, <1>8, <1>9, <2>1
    <3> QED BY <1>6, <2>1, <3>1
  <2>2. CASE ~ (e.level = k /\ Scoped(e, cl2))
    <3>1. ScopesOf(r, cl2, k) = S
      BY <1>7, <1>8, <1>9, <2>2
    <3> QED BY <1>6, <2>2, <3>1
  <2> QED BY <2>1, <2>2
<1> QED BY <1>2, <1>3, <1>4, <1>6, <1>10 DEF Depth, S

-----------------------------------------------------------------------------
(* The constructs that are open.                                             *)
Kind(ns) == IF ns = <<>> THEN "none" ELSE ns[Len(ns)].kind

(* A construct may open where statements may stand, a method in a class.     *)
LEMMA NestPush ==
  ASSUME NEW ns \in Seq(NestSet), NEW L, NestOK(ns, L), NEW e \in NestSet, e.level = L,
         Kind(ns) # "var", Kind(ns) = "class" => e.kind = "method"
  PROVE  NestOK(Append(ns, e), Inside(e))
<1> DEFINE N == Len(ns)
           r == Append(ns, e)
<1>1. /\ N \in Nat /\ DOMAIN ns = 1 .. N /\ DOMAIN r = (DOMAIN ns) \union {N + 1}
      /\ r[N + 1] = e /\ \A i \in DOMAIN ns : r[i] = ns[i]
      /\ r # <<>> /\ Len(r) = N + 1 /\ (ns = <<>> <=> N = 0)
  BY Elements, Appended
<1>2. r = Append(ns, e) /\ N = Len(ns)
  OBVIOUS
<1> HIDE DEF N, r
<1>3. Inside(e) = IF r = <<>> THEN 1 ELSE Inside(r[Len(r)])
  BY <1>1
<1>4. r[1].level = 1
  <2>1. CASE N = 0
    BY <1>1, <2>1 DEF NestOK
  <2>2. CASE N # 0
    BY <1>1, <2>2 DEF NestOK
  <2> QED BY <2>1, <2>2
<1>5. ASSUME NEW i \in DOMAIN r, i + 1 \in DOMAIN r
      PROVE  /\ r[i + 1].level = Inside(r[i]) /\ r[i].kind # "var"
             /\ r[i].kind = "class" => r[i + 1].kind = "method"
  <2>1. i \in DOMAIN ns
    BY <1>1, <1>5
  <2>2. CASE i + 1 \in DOMAIN ns
    BY <1>1, <2>1, <2>2 DEF NestOK
  <2>3. CASE i = N
    <3>1. ns # <<>> /\ r[i] = ns[N] /\ r[i + 1] = e
      BY <1>1, <2>1, <2>3
    <3>2. L = Inside(ns[N]) /\ Kind(ns) = ns[N].kind
      BY <1>2, <3>1 DEF NestOK, Kind
    <3> QED BY <3>1, <3>2
  <2>4. i + 1 \in DOMAIN ns \/ i = N
    BY <1>1, <2>1
  <2> QED BY <2>2, <2>3, <2>4
<1>6. \A i \in DOMAIN ns : ns[i].level \in Nat /\ Inside(ns[i]) \in Nat
  <2>0. \A d \in NestSet : d.level \in Nat
    BY DEF NestSet
  <2>1. \A d \in NestSet : d.level \in Nat /\ Inside(d) \in Nat
    BY <2>0 DEF Inside
  <2>2. \A i \in DOMAIN ns : ns[i] \in NestSet
    BY Elements
  <2> QED BY <2>1, <2>2
<1>7. ASSUME NEW i \in DOMAIN ns PROVE Inside(ns[i]) <= L
  <2>1. N \in DOMAIN ns /\ L = Inside(ns[N])
    BY <1>1, <1>2 DEF NestOK
  <2>2. CASE i = N
    BY <1>6, <2>1, <2>2
  <2>3. CASE i # N
    <3>1. Inside(ns[i]) <= ns[N].level
      BY <1>1, <2>1, <2>3 DEF NestOK
    <3>2. ns[N].level <= Inside(ns[N])
      BY <1>6, <2>1 DEF Inside
    <3> QED BY <1>6, <2>1, <3>1, <3>2
  <2> QED BY <2>2, <2>3
<1>8. ASSUME NEW i \in DOMAIN r, NEW j \in DOMAIN r, i < j
      PROVE  Inside(r[i]) <= r[j].level
  <2>1. i \in DOMAIN ns
    BY <1>1, <1>8
  <2>2. CASE j \in DOMAIN ns
    BY <1>1, <1>8, <2>1, <2>2 DEF NestOK
  <2>3. CASE j = N + 1
    BY <1>1, <1>7, <2>1, <2>3
  <2> QED BY <1>1, <2>2, <2>3
<1> QED BY <1>2, <1>3, <1>4, <1>5, <1>8 DEF NestOK

(* The innermost construct ends.                                             *)
LEMMA NestPop ==
  ASSUME NEW ns \in Seq(NestSet), NEW L, NestOK(ns, L), ns # <<>>
  PROVE  NestOK(Front(ns), Last(ns).level) /\ L = Inside(Last(ns))
<1> DEFINE N == Len(ns)
           r == Front(ns)
<1>1. /\ N \in Nat /\ DOMAIN ns = 1 .. N /\ DOMAIN r = 1 .. N - 1 /\ Len(r) = N - 1
      /\ r \in Seq(NestSet) /\ Last(ns) = ns[N] /\ N # 0 /\ N \in DOMAIN ns /\ 1 \in DOMAIN ns
      /\ \A i \in DOMAIN r : i \in DOMAIN ns /\ i < N /\ r[i] = ns[i]
  BY Elements, WithoutLast
<1>2. r = Front(ns) /\ N = Len(ns)
  OBVIOUS
<1>3. (r = <<>> <=> N - 1 = 0)
  BY <1>1, Elements
<1> HIDE DEF N, r
<1>4. ns[N].level = IF r = <<>> THEN 1 ELSE Inside(r[Len(r)])
  <2>1. CASE N = 1
    BY <1>1, <1>3, <2>1 DEF NestOK
  <2>2. CASE N # 1
    <3>1. N - 1 \in DOMAIN r /\ N - 1 \in DOMAIN ns /\ (N - 1) + 1 = N /\ r # <<>>
      BY <1>1, <1>3, <2>2
    <3>2. ns[(N - 1) + 1].level = Inside(ns[N - 1])
      BY <1>1, <3>1 DEF NestOK
    <3> QED BY <1>1, <3>1, <3>2
  <2> QED BY <2>1, <2>2
<1>5. r # <<>> => r[1].level = 1
  <2>1. N # 1 => 1 \in DOMAIN r
    BY <1>1
  <2> QED BY <1>1, <1>3, <2>1 DEF NestOK
<1>6. \A i \in DOMAIN r :
        i + 1 \in DOMAIN r => /\ r[i + 1].level = Inside(r[i])
                              /\ r[i].kind # "var"
                              /\ r[i].kind = "class" => r[i + 1].kind = "method"
  BY <1>1 DEF NestOK
<1>7. \A i, j \in DOMAIN r : i < j => Inside(r[i]) <= r[j].level
  BY <1>1 DEF NestOK
<1>8. L = Inside(ns[N])
  BY <1>2 DEF NestOK
<1> QED BY <1>1, <1>2, <1>4, <1>5, <1>6, <1>7, <1>8 DEF NestOK

(* Where the constructs of the function being compiled are.                  *)
LEMMA NestTop ==
  ASSUME NEW ns \in Seq(NestSet), NEW L, NestOK(ns, L)
  PROVE  /\ L \in Nat \ {0}
         /\ \A i \in DOMAIN ns :
              /\ ns[i].level <= L /\ ns[i].level \in Nat
              /\ ns[i].kind = "fun" => ns[i].level < L
              /\ ns[i].kind = "var" => i = Len(ns) /\ Kind(ns) = "var"
              /\ ns[i].kind = "class" => ns[i].level < L \/ (i = Len(ns) /\ Kind(ns) = "class")
<1> DEFINE N == Len(ns)
<1>1. /\ N \in Nat /\ DOMAIN ns = 1 .. N /\ (ns = <<>> <=> N = 0)
      /\ \A i \in DOMAIN ns : ns[i].level \in Nat
  <2>1. \A d \in NestSet : d.level \in Nat
    BY DEF NestSet
  <2>2. \A i \in DOMAIN ns : ns[i] \in NestSet
    BY Elements
  <2>3. N \in Nat /\ DOMAIN ns = 1 .. N /\ (ns = <<>> <=> N = 0)
    BY Elements
  <2> QED BY <2>1, <2>2, <2>3
<1>2. N = Len(ns)
  OBVIOUS
<1> HIDE DEF N
<1>3. N # 0 => N \in DOMAIN ns /\ 1 \in DOMAIN ns /\ L = Inside(ns[N]) /\ Kind(ns) = ns[N].kind
  BY <1>1, <1>2 DEF NestOK, Kind
<1>4. \A i \in DOMAIN ns :
        /\ ns[i].level <= Inside(ns[i]) /\ Inside(ns[i]) \in Nat
        /\ ns[i].kind \in {"fun", "method"} => ns[i].level < Inside(ns[i])
  BY <1>1 DEF Inside
<1>5. ASSUME NEW i \in DOMAIN ns PROVE Inside(ns[i]) <= L
  <2>1. CASE i = N
    BY <1>1, <1>3, <1>4, <2>1
  <2>2. CASE i # N
    <3>1. i < N /\ N \in DOMAIN ns
      BY <1>1, <1>3, <2>2
    <3>2. Inside(ns[i]) <= ns[N].level
      BY <3>1 DEF NestOK
    <3> QED BY <1>1, <1>3, <1>4, <3>1, <3>2
  <2> QED BY <2>1, <2>2
<1>6. L \in Nat \ {0}
  <2>1. CASE N = 0
    BY <1>1, <1>2, <2>1 DEF NestOK
  <2>2. CASE N # 0
    <3>1. ns[1].level = 1 /\ Inside(ns[1]) <= L /\ 1 \in DOMAIN ns
      BY <1>1, <1>3, <1>5, <2>2 DEF NestOK
    <3>2. L \in Nat /\ 1 <= Inside(ns[1]) /\ Inside(ns[1]) \in Nat
      BY <1>3, <1>4, <2>2, <3>1
    <3> QED BY <3>1, <3>2
  <2> QED BY <2>1, <2>2
<1>7. ASSUME NEW i \in DOMAIN ns
      PROVE  /\ ns[i].kind = "var" => i = N /\ Kind(ns) = "var"
             /\ ns[i].kind = "class" => ns[i].level < L \/ (i = N /\ Kind(ns) = "class")
  <2>1. CASE i = N
    BY <1>1, <1>3, <2>1
  <2>2. CASE i # N
    <3>1. i + 1 \in DOMAIN ns
      BY <1>1, <2>2
    <3>2. ns[i].kind # "var" /\ (ns[i].kind = "class" => ns[i + 1].kind = "method")
          /\ ns[i + 1].level = Inside(ns[i])
      BY <3>1 DEF NestOK
    <3>3. ns[i + 1].kind = "method" => ns[i + 1].level < L
      BY <1>1, <1>4, <1>5, <1>6, <3>1
    <3>4. ns[i].level <= ns[i + 1].level
      BY <1>4, <3>2
    <3> QED BY <1>1, <1>6, <3>1, <3>2, <3>3, <3>4
  <2> QED BY <2>1, <2>2
<1>8. ASSUME NEW i \in DOMAIN ns
      PROVE  ns[i].level <= L /\ (ns[i].kind = "fun" => ns[i].level < L)
  BY <1>1, <1>4, <1>5, <1>6
<1> QED BY <1>1, <1>2, <1>6, <1>7, <1>8

(* What is awaited and built in the function being compiled, and of a        *)
(* function that is about to be.                                             *)
LEMMA CountsTop ==
  ASSUME NEW ns \in Seq(NestSet), NEW L, NestOK(ns, L), NEW cl
  PROVE  /\ Kind(ns) # "var" => Awaited(ns, L) = 0
         /\ Kind(ns) # "class" => Building(ns, L) = 0
         /\ Awaited(ns, L + 1) = 0 /\ Building(ns, L + 1) = 0 /\ Depth(ns, cl, L + 1) = 1
         /\ \A k : Awaited(ns, k) \in Nat /\ Building(ns, k) \in Nat /\ Depth(ns, cl, k) \in Nat
<1>1. Len(ns) \in Nat /\ DOMAIN ns = 1 .. Len(ns)
  BY Elements
<1>2. Cardinality({}) = 0
  BY FS_EmptySet
<1>3. /\ L \in Nat \ {0}
      /\ \A i \in DOMAIN ns :
           /\ ns[i].level <= L /\ ns[i].level \in Nat
           /\ ns[i].kind = "fun" => ns[i].level < L
           /\ ns[i].kind = "var" => Kind(ns) = "var"
           /\ ns[i].kind = "class" => ns[i].level < L \/ Kind(ns) = "class"
  BY NestTop
<1>4. Kind(ns) # "var" => Of(ns, {"var", "fun"}, L) = {}
  BY <1>3 DEF Of
<1>5. Kind(ns) # "class" => Of(ns, {"class"}, L) = {}
  BY <1>3 DEF Of
<1>6. \A i \in DOMAIN ns : ns[i].level # L + 1
  BY <1>3
<1>7. /\ Of(ns, {"var", "fun"}, L + 1) = {} /\ Of(ns, {"class"}, L + 1) = {}
      /\ ScopesOf(ns, cl, L + 1) = {} /\ L + 1 # 1
  BY <1>3, <1>6 DEF Of, ScopesOf
<1>8. \A k : /\ Of(ns, {"var", "fun"}, k) \in SUBSET (1 .. Len(ns))
             /\ Of(ns, {"class"}, k) \in SUBSET (1 .. Len(ns))
             /\ ScopesOf(ns, cl, k) \in SUBSET (1 .. Len(ns))
  BY <1>1 DEF Of, ScopesOf
<1>9. \A k : /\ Cardinality(Of(ns, {"var", "fun"}, k)) \in Nat
             /\ Cardinality(Of(ns, {"class"}, k)) \in Nat
             /\ Cardinality(ScopesOf(ns, cl, k)) \in Nat
  BY <1>1, <1>8, Counted
<1>10. /\ Kind(ns) # "var" => Awaited(ns, L) = 0
       /\ Kind(ns) # "class" => Building(ns, L) = 0
       /\ Awaited(ns, L + 1) = 0 /\ Building(ns, L + 1) = 0
       /\ \A k : Awaited(ns, k) \in Nat /\ Building(ns, k) \in Nat
  BY <1>2, <1>4, <1>5, <1>7, <1>9 DEF Awaited, Building
<1>11. Depth(ns, cl, L + 1) = 1
  BY <1>2, <1>7 DEF Depth
<1>12. \A k : Depth(ns, cl, k) \in Nat
  BY <1>9 DEF Depth
<1> QED BY <1>10, <1>11, <1>12

-----------------------------------------------------------------------------
(* One compiler.                                                             *)

(* What a compiler and its locals are made of.                               *)
LEMMA Fields ==
  ASSUME NEW c \in CompilerSet
  PROVE  /\ c.scopeDepth \in Nat /\ c.locals \in Seq(LocalSet)
         /\ c.upvalues \in Seq(UpvalueSet)
         /\ Len(c.locals) \in Nat /\ DOMAIN c.locals = 1 .. Len(c.locals)
         /\ \A i \in DOMAIN c.locals :
              /\ c.locals[i] \in LocalSet
              /\ c.locals[i].depth \in Int /\ c.locals[i].captured \in BOOLEAN
<1>1. c.scopeDepth \in Nat /\ c.locals \in Seq(LocalSet) /\ c.upvalues \in Seq(UpvalueSet)
  BY DEF CompilerSet
<1>2. /\ Len(c.locals) \in Nat /\ DOMAIN c.locals = 1 .. Len(c.locals)
      /\ \A i \in DOMAIN c.locals : c.locals[i] \in LocalSet
  BY <1>1, Elements
<1>3. \A l \in LocalSet : l.depth \in Int /\ l.captured \in BOOLEAN
  BY DEF LocalSet
<1> QED BY <1>1, <1>2, <1>3

(* The same function, and the slots captured in c are captured in c2.        *)
Keeps(c2, c) ==
  /\ c2 \in CompilerSet /\ c2.type = c.type /\ c2.upvalues = c.upvalues
  /\ CapturedSlots(c) \subseteq CapturedSlots(c2)

(* Captured slots stay when no local goes and none is released.              *)
LEMMA CapturedStay ==
  ASSUME NEW c \in CompilerSet, NEW c2 \in CompilerSet, Len(c.locals) <= Len(c2.locals),
         \A i \in DOMAIN c.locals : c.locals[i].captured => c2.locals[i].captured
  PROVE  CapturedSlots(c) \subseteq CapturedSlots(c2)
<1>1. DOMAIN c.locals \subseteq DOMAIN c2.locals
  BY Fields
<1> QED BY <1>1 DEF CapturedSlots

(* beginScope only deepens.                                                  *)
LEMMA Begun ==
  ASSUME NEW c \in CompilerSet
  PROVE  /\ Keeps(beginScope(c), c) /\ beginScope(c).scopeDepth = c.scopeDepth + 1
         /\ beginScope(c).locals = c.locals
<1>1. /\ beginScope(c) \in CompilerSet /\ beginScope(c).locals = c.locals
      /\ beginScope(c).scopeDepth = c.scopeDepth + 1 /\ beginScope(c).type = c.type
      /\ beginScope(c).upvalues = c.upvalues
  BY DEF beginScope, CompilerSet
<1> QED BY <1>1 DEF Keeps, CapturedSlots

(* addLocal puts one that waits above the others.                            *)
LEMMA Added ==
  ASSUME NEW c \in CompilerSet, NEW n \in LocalName
  PROVE  /\ Keeps(addLocal(c, n), c) /\ addLocal(c, n).scopeDepth = c.scopeDepth
         /\ Len(addLocal(c, n).locals) = Len(c.locals) + 1
         /\ \A i \in DOMAIN c.locals : addLocal(c, n).locals[i] = c.locals[i]
         /\ addLocal(c, n).locals[Len(c.locals) + 1].depth = Uninit
<1> DEFINE l == NewLocal(n, Uninit)
           c2 == addLocal(c, n)
<1>1. l \in LocalSet /\ l.depth = Uninit
  BY DEF NewLocal, LocalSet, Uninit
<1>2. c.locals \in Seq(LocalSet) /\ Len(c.locals) \in Nat
  BY Fields
<1> HIDE DEF l
<1>3. /\ Append(c.locals, l) \in Seq(LocalSet) /\ Len(Append(c.locals, l)) = Len(c.locals) + 1
      /\ Append(c.locals, l)[Len(c.locals) + 1] = l
      /\ \A i \in DOMAIN c.locals : Append(c.locals, l)[i] = c.locals[i]
  BY <1>1, <1>2, Appended
<1>4. /\ c2.type = c.type /\ c2.scopeDepth = c.scopeDepth /\ c2.upvalues = c.upvalues
      /\ c2.locals = Append(c.locals, l)
  BY DEF addLocal, CompilerSet, l
<1>5. c2 \in CompilerSet
  BY <1>3 DEF addLocal, CompilerSet, l
<1> HIDE DEF c2
<1>6. CapturedSlots(c) \subseteq CapturedSlots(c2)
  BY <1>2, <1>3, <1>4, <1>5, CapturedStay
<1> QED BY <1>1, <1>3, <1>4, <1>5, <1>6 DEF Keeps, c2

(* markInitialized gives the last local its depth, and only that.            *)
LEMMA Marked ==
  ASSUME NEW c \in CompilerSet, c.locals # <<>>
  PROVE  /\ Keeps(markInitialized(c), c) /\ markInitialized(c).scopeDepth = c.scopeDepth
         /\ Len(markInitialized(c).locals) = Len(c.locals)
         /\ \A i \in DOMAIN c.locals :
              markInitialized(c).locals[i].depth
                = IF c.scopeDepth > 0 /\ i = Len(c.locals) THEN c.scopeDepth
                  ELSE c.locals[i].depth
<1> DEFINE N == Len(c.locals)
<1>1. /\ c.scopeDepth \in Nat /\ c.locals \in Seq(LocalSet) /\ N \in Nat
      /\ DOMAIN c.locals = 1 .. N /\ N \in DOMAIN c.locals
      /\ \A i \in DOMAIN c.locals : c.locals[i] \in LocalSet
  <2>1. c.locals \in Seq(LocalSet)
    BY Fields
  <2>2. N \in DOMAIN c.locals
    BY <2>1, Elements
  <2> QED BY <2>1, <2>2, Fields
<1>2. CASE c.scopeDepth = 0
  <2>1. markInitialized(c) = c
    BY <1>2 DEF markInitialized
  <2> QED BY <1>2, <2>1 DEF Keeps
<1>3. CASE c.scopeDepth # 0
  <2> DEFINE l == [c.locals[N] EXCEPT !.depth = c.scopeDepth]
             ls == [c.locals EXCEPT ![N] = l]
             c2 == markInitialized(c)
  <2>1. l \in LocalSet /\ l.depth = c.scopeDepth /\ l.captured = c.locals[N].captured
    <3>1. c.locals[N] \in LocalSet /\ c.scopeDepth \in Int
      BY <1>1
    <3> QED BY <3>1 DEF LocalSet
  <2>2. /\ c2.locals = ls /\ c2.type = c.type /\ c2.scopeDepth = c.scopeDepth
        /\ c2.upvalues = c.upvalues
    BY <1>3 DEF markInitialized, CompilerSet
  <2> HIDE DEF l
  <2>3. /\ ls \in Seq(LocalSet) /\ Len(ls) = N /\ DOMAIN ls = DOMAIN c.locals
        /\ \A i \in DOMAIN c.locals : ls[i] = IF i = N THEN l ELSE c.locals[i]
    BY <1>1, <2>1
  <2>4. c2 \in CompilerSet
    BY <1>3, <2>3 DEF markInitialized, CompilerSet, l
  <2>9. c2 = markInitialized(c)
    OBVIOUS
  <2> HIDE DEF ls, c2
  <2>5. \A i \in DOMAIN c.locals : c2.locals[i].captured = c.locals[i].captured
    BY <1>1, <2>1, <2>2, <2>3
  <2>6. CapturedSlots(c) \subseteq CapturedSlots(c2)
    <3>1. Len(c.locals) <= Len(c2.locals)
      BY <1>1, <2>2, <2>3
    <3> QED BY <2>4, <2>5, <3>1, CapturedStay
  <2>7. \A i \in DOMAIN c.locals :
          c2.locals[i].depth = IF i = N THEN c.scopeDepth ELSE c.locals[i].depth
    BY <1>1, <2>1, <2>2, <2>3
  <2>8. c.scopeDepth > 0 /\ Len(c2.locals) = N
    BY <1>1, <1>3, <2>2, <2>3
  <2> QED BY <2>2, <2>4, <2>6, <2>7, <2>8, <2>9 DEF Keeps
<1> QED BY <1>2, <1>3

(* A new local waits, in a scope; at depth 0 there is none.                  *)
LEMMA Waiting ==
  ASSUME NEW c \in CompilerSet, LocalsOK(c, FALSE), NEW n \in LocalName,
         c.scopeDepth > 0 => ~ Full(c)
  PROVE  /\ Keeps(declareVariable(c, n), c)
         /\ declareVariable(c, n).scopeDepth = c.scopeDepth
         /\ Len(declareVariable(c, n).locals)
              = Len(c.locals) + (IF c.scopeDepth > 0 THEN 1 ELSE 0)
         /\ LocalsOK(declareVariable(c, n), c.scopeDepth > 0)
<1>1. /\ c.scopeDepth \in Nat /\ Len(c.locals) \in 1 .. MaxLocals /\ Len(c.locals) \in Nat
      /\ DOMAIN c.locals = 1 .. Len(c.locals)
      /\ c.locals[1].depth = 0 /\ Ordered(c.locals, Len(c.locals), c.scopeDepth)
  BY Fields DEF LocalsOK
<1>2. CASE c.scopeDepth = 0
  <2>1. declareVariable(c, n) = c /\ Keeps(c, c)
    BY <1>2 DEF declareVariable, Keeps
  <2>2. LocalsOK(c, c.scopeDepth > 0)
    BY <1>1, <1>2 DEF LocalsOK
  <2> QED BY <1>1, <1>2, <2>1, <2>2
<1>3. CASE c.scopeDepth # 0
  <2> DEFINE c2 == declareVariable(c, n)
  <2>1. c2 = addLocal(c, n)
    BY <1>3 DEF declareVariable
  <2> HIDE DEF c2
  <2>2. /\ Keeps(c2, c) /\ c2.scopeDepth = c.scopeDepth /\ Len(c2.locals) = Len(c.locals) + 1
        /\ \A i \in DOMAIN c.locals : c2.locals[i] = c.locals[i]
        /\ c2.locals[Len(c.locals) + 1].depth = Uninit
    BY <2>1, Added
  <2>3. Len(c.locals) + 1 \in 1 .. MaxLocals /\ c.scopeDepth > 0
    <3>1. c.scopeDepth > 0
      BY <1>1, <1>3
    <3>2. Len(c.locals) # MaxLocals
      BY <3>1 DEF Full
    <3>3. MaxLocals \in Nat
      BY CompilerAssumption
    <3> QED BY <1>1, <3>1, <3>2, <3>3
  <2>4. Ordered(c2.locals, Len(c.locals), c.scopeDepth)
    BY <1>1, <2>2 DEF Ordered
  <2>5. LocalsOK(c2, c.scopeDepth > 0)
    <3>1. c2.locals[1].depth = 0 /\ Len(c2.locals) > 1 /\ Len(c2.locals) - 1 = Len(c.locals)
      BY <1>1, <2>2
    <3> QED BY <2>2, <2>3, <2>4, <3>1 DEF LocalsOK
  <2> QED BY <2>2, <2>3, <2>5 DEF c2
<1> QED BY <1>2, <1>3

(* The one that waits gets the depth of its scope.                           *)
LEMMA Initialized ==
  ASSUME NEW c \in CompilerSet, LocalsOK(c, c.scopeDepth > 0)
  PROVE  /\ Keeps(markInitialized(c), c) /\ markInitialized(c).scopeDepth = c.scopeDepth
         /\ Len(markInitialized(c).locals) = Len(c.locals)
         /\ LocalsOK(markInitialized(c), FALSE)
<1> DEFINE N == Len(c.locals)
           d == c.scopeDepth
           c2 == markInitialized(c)
<1>1. /\ d \in Nat /\ N \in Nat /\ N \in 1 .. MaxLocals /\ DOMAIN c.locals = 1 .. N
      /\ c.locals # <<>> /\ c.locals[1].depth = 0
  <2>1. c.locals \in Seq(LocalSet) /\ d \in Nat /\ N \in 1 .. MaxLocals
        /\ c.locals[1].depth = 0
    BY Fields DEF LocalsOK
  <2> QED BY <2>1, Elements
<1>2. /\ Keeps(c2, c) /\ c2.scopeDepth = d /\ Len(c2.locals) = N
      /\ \A i \in DOMAIN c.locals :
           c2.locals[i].depth = IF d > 0 /\ i = N THEN d ELSE c.locals[i].depth
  BY <1>1, Marked
<1>3. c2 = markInitialized(c) /\ d = c.scopeDepth /\ N = Len(c.locals)
  OBVIOUS
<1> HIDE DEF c2, d, N
<1>4. CASE d = 0
  <2>1. Ordered(c.locals, N, d)
    BY <1>1, <1>3, <1>4 DEF LocalsOK
  <2>2. Ordered(c2.locals, N, d) /\ c2.locals[1].depth = 0
    BY <1>1, <1>2, <1>4, <2>1 DEF Ordered
  <2> QED BY <1>1, <1>2, <1>3, <2>2 DEF LocalsOK
<1>5. CASE d # 0
  <2>1. Ordered(c.locals, N - 1, d) /\ N > 1
    BY <1>1, <1>3, <1>5 DEF LocalsOK
  <2>2. \A i \in 1 .. N : c2.locals[i].depth \in 0 .. d
    BY <1>1, <1>2, <1>5, <2>1 DEF Ordered
  <2>3. ASSUME NEW i \in 1 .. N, NEW j \in 1 .. N, i < j
        PROVE  c2.locals[i].depth <= c2.locals[j].depth
    <3>1. CASE j = N
      <4>1. c2.locals[j].depth = d
        BY <1>1, <1>2, <1>5, <3>1
      <4> QED BY <1>1, <2>2, <4>1
    <3>2. CASE j # N
      <4>1. i \in 1 .. N - 1 /\ j \in 1 .. N - 1 /\ i # N
        BY <1>1, <2>3, <3>2
      <4>2. c.locals[i].depth <= c.locals[j].depth
        BY <2>1, <2>3, <4>1 DEF Ordered
      <4> QED BY <1>1, <1>2, <3>2, <4>1, <4>2
    <3> QED BY <3>1, <3>2
  <2>4. Ordered(c2.locals, N, d) /\ c2.locals[1].depth = 0
    BY <1>1, <1>2, <2>1, <2>2, <2>3 DEF Ordered
  <2> QED BY <1>1, <1>2, <1>3, <2>4 DEF LocalsOK
<1> QED BY <1>4, <1>5

(* A declaration whose value is there already: a parameter, a function, a    *)
(* class.                                                                    *)
Declared(c, n) == markInitialized(declareVariable(c, n))

(* A new local is the last, with the depth of its scope.                     *)
LEMMA DeclaredOK ==
  ASSUME NEW c \in CompilerSet, LocalsOK(c, FALSE), NEW n \in LocalName,
         c.scopeDepth > 0 => ~ Full(c)
  PROVE  /\ Keeps(Declared(c, n), c) /\ Declared(c, n).scopeDepth = c.scopeDepth
         /\ Len(Declared(c, n).locals)
              = Len(c.locals) + (IF c.scopeDepth > 0 THEN 1 ELSE 0)
         /\ LocalsOK(Declared(c, n), FALSE)
<1> DEFINE b == declareVariable(c, n)
<1>1. /\ Keeps(b, c) /\ b.scopeDepth = c.scopeDepth
      /\ Len(b.locals) = Len(c.locals) + (IF c.scopeDepth > 0 THEN 1 ELSE 0)
      /\ LocalsOK(b, c.scopeDepth > 0)
  BY Waiting
<1>2. Declared(c, n) = markInitialized(b)
  BY DEF Declared
<1> HIDE DEF b
<1>3. b \in CompilerSet /\ LocalsOK(b, b.scopeDepth > 0)
  BY <1>1 DEF Keeps
<1>4. /\ Keeps(markInitialized(b), b) /\ markInitialized(b).scopeDepth = b.scopeDepth
      /\ Len(markInitialized(b).locals) = Len(b.locals)
      /\ LocalsOK(markInitialized(b), FALSE)
  BY <1>3, Initialized
<1>5. Keeps(markInitialized(b), c)
  BY <1>1, <1>4 DEF Keeps
<1> QED BY <1>1, <1>2, <1>4, <1>5

(* One scope deeper, with a local for the superclass.                        *)
Supers(c) == markInitialized(addLocal(beginScope(c), "super"))

(* The local for the superclass is the last, and the only one of its scope.  *)
LEMMA SupersOK ==
  ASSUME NEW c \in CompilerSet, LocalsOK(c, FALSE), ~ Full(c)
  PROVE  /\ Keeps(Supers(c), c) /\ Supers(c).scopeDepth = c.scopeDepth + 1
         /\ Len(Supers(c).locals) = Len(c.locals) + 1 /\ LocalsOK(Supers(c), FALSE)
<1> DEFINE b == beginScope(c)
<1>1. /\ Keeps(b, c) /\ b.scopeDepth = c.scopeDepth + 1 /\ b.locals = c.locals
      /\ b \in CompilerSet /\ c.scopeDepth \in Nat
  BY Begun, Fields DEF Keeps
<1>2. Supers(c) = markInitialized(addLocal(b, "super"))
  BY DEF Supers
<1> HIDE DEF b
<1>3. addLocal(b, "super") = declareVariable(b, "super")
  BY <1>1 DEF declareVariable
<1>4. LocalsOK(b, FALSE)
  <2>1. \A i \in 1 .. Len(c.locals) :
          c.locals[i].depth \in 0 .. c.scopeDepth => c.locals[i].depth \in 0 .. c.scopeDepth + 1
    BY <1>1
  <2> QED BY <1>1, <2>1 DEF LocalsOK, Ordered
<1>5. ~ Full(b) /\ b.scopeDepth > 0 /\ "super" \in LocalName
  BY <1>1 DEF Full, LocalName
<1>6. Supers(c) = Declared(b, "super")
  BY <1>2, <1>3 DEF Declared
<1>7. /\ Keeps(Declared(b, "super"), b) /\ Declared(b, "super").scopeDepth = b.scopeDepth
      /\ Len(Declared(b, "super").locals) = Len(b.locals) + 1
      /\ LocalsOK(Declared(b, "super"), FALSE)
  BY <1>1, <1>4, <1>5, DeclaredOK
<1>8. Keeps(Declared(b, "super"), c)
  BY <1>1, <1>7 DEF Keeps
<1> QED BY <1>1, <1>6, <1>7, <1>8

(* A nonempty set of numbers up to N has its greatest.                       *)
LEMMA Greatest ==
  ASSUME NEW N \in Nat, NEW s \in SUBSET (0 .. N), s # {}
  PROVE  Max(s) \in s /\ \A y \in s : y <= Max(s)
<1> DEFINE T == {N - x : x \in s}
<1>1. T \in SUBSET Nat /\ T # {}
  <2>1. \A x \in s : N - x \in Nat
    OBVIOUS
  <2> QED BY <2>1
<1>2. PICK y \in T : \A z \in T : y <= z
  BY <1>1, LeastNumber
<1>3. PICK x \in s : y = N - x
  BY <1>2
<1>4. \A w \in s : x >= w
  <2> TAKE w \in s
  <2>1. N - x <= N - w
    BY <1>2, <1>3
  <2> QED BY <2>1
<1>5. Max(s) \in s /\ \A w \in s : Max(s) >= w
  BY <1>4 DEF Max
<1> HIDE DEF T
<1>6. \A w \in s : w \in Int
  OBVIOUS
<1> QED BY <1>5, <1>6

(* The locals that endScope keeps are those of the scopes around.            *)
LEMMA KeptOK ==
  ASSUME NEW c \in CompilerSet, LocalsOK(c, FALSE), c.scopeDepth > 0
  PROVE  /\ Kept(c) \in 1 .. Len(c.locals)
         /\ \A i \in 1 .. Kept(c) : c.locals[i].depth \in 0 .. c.scopeDepth - 1
         /\ \A i \in Kept(c) + 1 .. Len(c.locals) : c.locals[i].depth = c.scopeDepth
<1> DEFINE N == Len(c.locals)
           d == c.scopeDepth
           s == {i \in DOMAIN c.locals : c.locals[i].depth < d}
           K == Kept(c)
<1>1. /\ d \in Nat /\ N \in Nat /\ N >= 1 /\ DOMAIN c.locals = 1 .. N /\ d > 0
      /\ c.locals[1].depth = 0 /\ Ordered(c.locals, N, d)
  <2>1. N \in 1 .. MaxLocals /\ c.locals[1].depth = 0 /\ Ordered(c.locals, N, d)
    BY DEF LocalsOK
  <2> QED BY <2>1, Fields
<1>2. K = Max(s)
  BY DEF Kept
<1> HIDE DEF N, d
<1>3. s \in SUBSET (0 .. N) /\ 1 \in s
  BY <1>1
<1>4. Max(s) \in s /\ \A y \in s : y <= Max(s)
  BY <1>1, <1>3, Greatest
<1> HIDE DEF s, K
<1>5. K \in 1 .. N /\ c.locals[K].depth < d
  BY <1>1, <1>2, <1>4 DEF s
<1>6. \A i \in 1 .. N : c.locals[i].depth \in 0 .. d
  BY <1>1 DEF Ordered
<1>7. ASSUME NEW i \in 1 .. K PROVE c.locals[i].depth \in 0 .. d - 1
  <2>1. i \in 1 .. N
    BY <1>1, <1>5
  <2>2. c.locals[i].depth <= c.locals[K].depth
    <3>1. CASE i = K
      BY <1>6, <2>1, <3>1
    <3>2. CASE i # K
      <4>1. i < K
        BY <1>5, <3>2
      <4> QED BY <1>1, <1>5, <2>1, <4>1 DEF Ordered
    <3> QED BY <3>1, <3>2
  <2> QED BY <1>1, <1>5, <1>6, <2>1, <2>2
<1>8. ASSUME NEW i \in K + 1 .. N PROVE c.locals[i].depth = d
  <2>1. i \in 1 .. N /\ ~ (i <= K)
    BY <1>1, <1>5
  <2>2. ~ (c.locals[i].depth < d)
    BY <1>2, <1>4, <1>1, <2>1 DEF s
  <2> QED BY <1>1, <1>6, <2>1, <2>2
<1> QED BY <1>5, <1>7, <1>8 DEF K, N, d

(* A block's end takes its locals from the table and from the stack.         *)
LEMMA EndedScope ==
  ASSUME NEW c \in CompilerSet, LocalsOK(c, FALSE), c.scopeDepth > 0,
         NEW f \in FrameSet, f.height = Len(c.locals), f.open \subseteq CapturedSlots(c)
  PROVE  /\ endScope(c) \in CompilerSet /\ endScope(c).type = c.type
         /\ endScope(c).upvalues = c.upvalues
         /\ endScope(c).scopeDepth = c.scopeDepth - 1 /\ LocalsOK(endScope(c), FALSE)
         /\ Popped(f, c) \in FrameSet /\ Popped(f, c).height = Len(endScope(c).locals)
         /\ Popped(f, c).open \subseteq CapturedSlots(endScope(c))
         /\ Popped(f, c).open \subseteq 0 .. Popped(f, c).height - 1
<1> DEFINE N == Len(c.locals)
           K == Kept(c)
           d == c.scopeDepth
           ls == SubSeq(c.locals, 1, K)
           c2 == endScope(c)
           f2 == Popped(f, c)
<1>1. /\ d \in Nat /\ N \in Nat /\ DOMAIN c.locals = 1 .. N /\ d > 0 /\ d - 1 \in Nat
      /\ c.locals \in Seq(LocalSet) /\ N \in 1 .. MaxLocals
      /\ c.locals[1].depth = 0 /\ Ordered(c.locals, N, d)
  <2>1. N \in 1 .. MaxLocals /\ c.locals[1].depth = 0 /\ Ordered(c.locals, N, d)
    BY DEF LocalsOK
  <2> QED BY <2>1, Fields
<1>2. /\ K \in 1 .. N /\ \A i \in 1 .. K : c.locals[i].depth \in 0 .. d - 1
  BY KeptOK
<1>3. /\ ls \in Seq(LocalSet) /\ Len(ls) = K /\ \A i \in 1 .. K : ls[i] = c.locals[i]
  <2>1. \A i \in 1 .. K : c.locals[i] \in LocalSet
    BY <1>1, <1>2, Elements
  <2>2. 1 \in Int /\ K \in Int /\ 1 <= K /\ K - 1 + 1 = K
    BY <1>2
  <2> HIDE DEF K
  <2>3. /\ ls \in Seq(LocalSet) /\ Len(ls) = K - 1 + 1
        /\ \A i \in 1 .. K - 1 + 1 : ls[i] = c.locals[1 + i - 1]
    BY <2>1, <2>2, SubSeqProperties
  <2>4. \A i \in 1 .. K : 1 + i - 1 = i
    BY <2>2
  <2> QED BY <2>2, <2>3, <2>4
<1>4. /\ c2.locals = ls /\ c2.type = c.type /\ c2.upvalues = c.upvalues
      /\ c2.scopeDepth = d - 1
  BY DEF endScope, CompilerSet
<1>5. c2 \in CompilerSet
  BY <1>1, <1>3 DEF endScope, CompilerSet
<1>6. f2.height = N - (N - K) /\ f.open \subseteq 0 .. N - 1 /\ f.height = N
  <2>1. CapturedSlots(c) \subseteq 0 .. N - 1
    BY <1>1 DEF CapturedSlots
  <2> QED BY <2>1 DEF Popped
<1>7. f2.open = f.open \ {f.height - 1 - (N - i) :
                            i \in {j \in K + 1 .. N : c.locals[j].captured}}
  BY DEF Popped
<1>8. f2 \in FrameSet
  <2>1. f2 = [height |-> f2.height, open |-> f2.open]
    BY DEF Popped
  <2>2. f2.height \in Nat /\ f2.open \in SUBSET Nat
    BY <1>1, <1>2, <1>6, <1>7
  <2> HIDE DEF f2
  <2> QED BY <2>1, <2>2 DEF FrameSet
<1>9. c2 = endScope(c) /\ f2 = Popped(f, c) /\ d = c.scopeDepth
  OBVIOUS
<1> HIDE DEF c2, f2, ls, K, d
<1>10. f2.height = K /\ Len(c2.locals) = K
  BY <1>1, <1>2, <1>3, <1>4, <1>6
<1>11. ASSUME NEW x \in f2.open
       PROVE  x \in CapturedSlots(c2) /\ x \in 0 .. K - 1
  <2>1. PICK j \in 1 .. N : c.locals[j].captured /\ x = j - 1
    BY <1>1, <1>7 DEF CapturedSlots
  <2>2. j <= K
    <3>1. N - 1 - (N - j) = j - 1
      BY <1>1
    <3>2. j \in K + 1 .. N => x \notin f2.open
      BY <1>6, <1>7, <2>1, <3>1
    <3> QED BY <1>2, <2>1, <3>2
  <2>3. j \in DOMAIN c2.locals /\ c2.locals[j].captured
    <3>1. DOMAIN c2.locals = 1 .. K
      BY <1>3, <1>4
    <3> QED BY <1>2, <1>3, <1>4, <2>1, <2>2, <3>1
  <2>4. x \in CapturedSlots(c2)
    BY <2>1, <2>3 DEF CapturedSlots
  <2> QED BY <1>2, <2>1, <2>2, <2>4
<1>12. LocalsOK(c2, FALSE)
  <2>1. K \in 1 .. MaxLocals /\ c2.locals[1].depth = 0
    <3>1. MaxLocals \in Nat
      BY CompilerAssumption
    <3> QED BY <1>1, <1>2, <1>3, <1>4, <3>1
  <2>2. Ordered(c2.locals, K, d - 1)
    <3>1. \A i \in 1 .. K : c2.locals[i].depth \in 0 .. d - 1
      BY <1>2, <1>3, <1>4
    <3>2. ASSUME NEW i \in 1 .. K, NEW j \in 1 .. K, i < j
          PROVE  c2.locals[i].depth <= c2.locals[j].depth
      <4>1. i \in 1 .. N /\ j \in 1 .. N
        BY <1>1, <1>2
      <4>2. c.locals[i].depth <= c.locals[j].depth
        BY <1>1, <3>2, <4>1 DEF Ordered
      <4> QED BY <1>3, <1>4, <4>2
    <3> QED BY <3>1, <3>2 DEF Ordered
  <2> QED BY <1>4, <1>10, <2>1, <2>2 DEF LocalsOK
<1> QED BY <1>4, <1>5, <1>8, <1>9, <1>10, <1>11, <1>12

-----------------------------------------------------------------------------
(* The parameters of a function.                                             *)

(* A new compiler has one local, of the callee.                              *)
LEMMA NewCompiler ==
  ASSUME NEW type \in {"script", "function", "method", "initializer"}
  PROVE  /\ initCompiler(type) \in CompilerSet /\ initCompiler(type).scopeDepth = 0
         /\ initCompiler(type).upvalues = <<>> /\ Len(initCompiler(type).locals) = 1
         /\ initCompiler(type).locals[1].depth = 0
<1> DEFINE l == NewLocal(IF type = "function" THEN "" ELSE "this", 0)
           c == initCompiler(type)
<1>1. l \in LocalSet /\ l.depth = 0
  BY DEF NewLocal, LocalSet, LocalName
<1> HIDE DEF l
<1>2. <<l>> \in Seq(LocalSet) /\ Len(<<l>>) = 1 /\ <<l>>[1] = l
  BY <1>1
<1>3. /\ c.scopeDepth = 0 /\ c.upvalues = <<>> /\ c.locals = <<l>>
  BY DEF initCompiler, l
<1>4. c \in CompilerSet
  <2>1. c = [type |-> type, scopeDepth |-> 0, upvalues |-> <<>>, locals |-> <<l>>]
    BY DEF initCompiler, l
  <2>2. <<>> \in Seq(UpvalueSet)
    OBVIOUS
  <2> HIDE DEF c
  <2> QED BY <1>2, <2>1, <2>2 DEF CompilerSet
<1> QED BY <1>1, <1>2, <1>3, <1>4

(* A declaration never leaves a compiler without locals.                     *)
LEMMA DeclaredTyped ==
  ASSUME NEW c \in CompilerSet, c.locals # <<>>, NEW n \in LocalName
  PROVE  Declared(c, n) \in CompilerSet /\ Declared(c, n).locals # <<>>
<1> DEFINE b == declareVariable(c, n)
<1>1. b \in CompilerSet /\ b.locals # <<>>
  <2>1. CASE c.scopeDepth = 0
    BY <2>1 DEF declareVariable
  <2>2. CASE c.scopeDepth # 0
    <3>1. b = addLocal(c, n)
      BY <2>2 DEF declareVariable
    <3> HIDE DEF b
    <3>2. b \in CompilerSet /\ Len(b.locals) = Len(c.locals) + 1 /\ Len(c.locals) \in Nat
      BY <3>1, Added, Fields DEF Keeps
    <3>3. b.locals \in Seq(LocalSet) /\ Len(b.locals) # 0
      BY <3>2, Fields
    <3> QED BY <3>2, <3>3, Elements
  <2> QED BY <2>1, <2>2
<1>2. Declared(c, n) = markInitialized(b)
  BY DEF Declared
<1> HIDE DEF b
<1>3. /\ markInitialized(b) \in CompilerSet
      /\ Len(markInitialized(b).locals) = Len(b.locals)
  BY <1>1, Marked DEF Keeps
<1>4. b.locals \in Seq(LocalSet) /\ markInitialized(b).locals \in Seq(LocalSet)
  BY <1>1, <1>3, Fields
<1>5. Len(b.locals) # 0
  BY <1>1, <1>4, Elements
<1>6. markInitialized(b).locals # <<>>
  BY <1>3, <1>4, <1>5, Elements
<1> QED BY <1>2, <1>3, <1>6

(* A function of the sets of parameters, each adding its greatest.           *)
Declares(f, type, ps, n) ==
  /\ f[1 .. 0] = beginScope(initCompiler(type))
  /\ \A m \in 1 .. n : f[1 .. m] = Declared(f[1 .. m - 1], ps[m])

(* FoldLeft declares one parameter after the other.                          *)
LEMMA ParametersFold ==
  ASSUME NEW type \in {"function", "method", "initializer"},
         NEW n \in Nat, NEW ps \in [1 .. n -> Names]
  PROVE  \E f : Declares(f, type, ps, n) /\ Parameters(type, ps) = f[1 .. n]
<1> DEFINE base == beginScope(initCompiler(type))
           A == {c \in CompilerSet : c.locals # <<>>}
           step == [p \in A \X (1 .. n) |-> Declared(p[1], ps[p[2]])]
           IsFold(f) == f = [s \in SUBSET (1 .. n) |->
                               IF s = {} THEN base
                               ELSE Declared(f[s \ {Max(s)}], ps[Max(s)])]
           fold == CHOOSE f : IsFold(f)
<1>1. base \in A
  <2>1. initCompiler(type) \in CompilerSet /\ Len(initCompiler(type).locals) = 1
    BY NewCompiler
  <2>2. base \in CompilerSet /\ base.locals = initCompiler(type).locals
    BY <2>1, Begun DEF Keeps
  <2> HIDE DEF base
  <2>3. base.locals \in Seq(LocalSet) /\ Len(base.locals) # 0
    <3>1. base.locals \in Seq(LocalSet)
      BY <2>2, Fields
    <3>2. Len(base.locals) = 1
      BY <2>1, <2>2
    <3> HIDE DEF base
    <3> QED BY <3>1, <3>2
  <2> QED BY <2>2, <2>3, Elements
<1>2. ASSUME NEW c \in A, NEW i \in 1 .. n
      PROVE  Declared(c, ps[i]) \in A
  <2>1. ps[i] \in LocalName /\ c \in CompilerSet /\ c.locals # <<>>
    BY DEF LocalName
  <2> QED BY <2>1, DeclaredTyped
<1>3. Parameters(type, ps) = fold[1 .. n]
  <2>1. DOMAIN ps = 1 .. n
    OBVIOUS
  <2> QED BY <2>1 DEF Parameters, FoldLeft, MapThenFoldSet, Declared, Parameter
<1>4. fold = CHOOSE f : IsFold(f)
  OBVIOUS
<1> HIDE DEF A, base, fold
<1>5. step \in [A \X (1 .. n) -> A]
  BY <1>2
<1>6. \A c \in A, i \in 1 .. n : step[<<c, i>>] = Declared(c, ps[i])
  OBVIOUS
<1> HIDE DEF step
<1>7. PICK g : Folds(g, A, base, n, step)
  BY <1>1, <1>5, FoldExists
<1>8. IsFold(g)
  <2>1. \A s \in SUBSET (1 .. n) :
          g[s] = IF s = {} THEN base ELSE Declared(g[s \ {Max(s)}], ps[Max(s)])
    <3> TAKE s \in SUBSET (1 .. n)
    <3>1. CASE s = {}
      BY <1>7, <3>1 DEF Folds
    <3>2. CASE s # {}
      <4>1. Max(s) \in 1 .. n /\ s \ {Max(s)} \in SUBSET (1 .. n)
        BY <3>2, MaxIn
      <4>2. g[s \ {Max(s)}] \in A
        BY <1>7, <4>1 DEF Folds
      <4> QED BY <1>6, <1>7, <3>2, <4>1, <4>2 DEF Folds
    <3> QED BY <3>1, <3>2
  <2>2. DOMAIN g = SUBSET (1 .. n) /\ g = [s \in SUBSET (1 .. n) |-> g[s]]
    BY <1>7 DEF Folds
  <2> QED BY <2>1, <2>2
<1>9. IsFold(fold)
  <2> HIDE DEF IsFold
  <2> QED BY <1>4, <1>8
<1>10. \A s \in SUBSET (1 .. n) :
         fold[s] = IF s = {} THEN base ELSE Declared(fold[s \ {Max(s)}], ps[Max(s)])
  BY <1>9
<1> HIDE DEF IsFold
<1>11. fold[1 .. 0] = base /\ \A m \in 1 .. n : fold[1 .. m] = Declared(fold[1 .. m - 1], ps[m])
  <2>1. fold[1 .. 0] = base
    BY <1>10, InitialSegments
  <2>2. ASSUME NEW m \in 1 .. n PROVE fold[1 .. m] = Declared(fold[1 .. m - 1], ps[m])
    <3>1. /\ 1 .. m \in SUBSET (1 .. n) /\ 1 .. m # {}
          /\ Max(1 .. m) = m /\ (1 .. m) \ {m} = 1 .. m - 1
      BY InitialSegments
    <3>2. fold[1 .. m] = Declared(fold[(1 .. m) \ {Max(1 .. m)}], ps[Max(1 .. m)])
      BY <1>10, <3>1
    <3> QED BY <3>1, <3>2
  <2> QED BY <2>1, <2>2
<1> QED BY <1>3, <1>11 DEF Declares, base

(* Of a prefix, FoldLeft makes what it makes on the way.                     *)
LEMMA ParametersPrefix ==
  ASSUME NEW type \in {"function", "method", "initializer"},
         NEW n \in Nat, NEW ps \in [1 .. n -> Names], NEW f, Declares(f, type, ps, n),
         NEW m \in 0 .. n, NEW q \in [1 .. m -> Names], \A i \in 1 .. m : q[i] = ps[i]
  PROVE  Parameters(type, q) = f[1 .. m]
<1>1. m \in Nat /\ \A i \in 1 .. m : i \in 1 .. n
  OBVIOUS
<1>2. PICK h : Declares(h, type, q, m) /\ Parameters(type, q) = h[1 .. m]
  BY <1>1, ParametersFold
<1> DEFINE S == {i \in 0 .. m : h[1 .. i] = f[1 .. i]}
<1>3. 0 \in S
  BY <1>1, <1>2 DEF Declares
<1>4. ASSUME NEW i \in 1 .. m, i - 1 \in S PROVE i \in S
  <2>1. h[1 .. i] = Declared(h[1 .. i - 1], q[i]) /\ f[1 .. i] = Declared(f[1 .. i - 1], ps[i])
    BY <1>1, <1>2 DEF Declares
  <2>2. h[1 .. i - 1] = f[1 .. i - 1] /\ i \in 0 .. m
    BY <1>4
  <2> QED BY <2>1, <2>2
<1>5. \A i \in 0 .. m : i \in S
  <2> HIDE DEF S
  <2> QED BY <1>1, <1>3, <1>4, UpTo
<1>6. m \in S
  BY <1>1, <1>5
<1> QED BY <1>2, <1>6

(* A compiler whose parameters are m locals above the callee's.              *)
Taking(c, m) ==
  /\ c \in CompilerSet /\ c.scopeDepth = 1 /\ c.upvalues = <<>>
  /\ Len(c.locals) = m + 1 /\ LocalsOK(c, FALSE)

(* Parameters that do not clash fit, and lie in depth 1.                     *)
LEMMA ParametersOK ==
  ASSUME NEW type \in {"function", "method", "initializer"},
         NEW n \in Nat, NEW ps \in [1 .. n -> Names], ~ ParametersClash(type, ps)
  PROVE  Taking(Parameters(type, ps), n)
<1>1. PICK f : Declares(f, type, ps, n) /\ Parameters(type, ps) = f[1 .. n]
  BY ParametersFold
<1>2. DOMAIN ps = 1 .. n /\ \A i \in 1 .. n : ps[i] \in Names
  OBVIOUS
<1> DEFINE S == {m \in 0 .. n : Taking(f[1 .. m], m)}
<1>3. 0 \in S
  <2> DEFINE c == initCompiler(type)
             b == beginScope(c)
  <2>1. c \in CompilerSet /\ c.scopeDepth = 0 /\ c.upvalues = <<>> /\ Len(c.locals) = 1
        /\ c.locals[1].depth = 0
    BY NewCompiler
  <2> HIDE DEF c
  <2>2. b \in CompilerSet /\ b.scopeDepth = 1 /\ b.upvalues = <<>> /\ b.locals = c.locals
    BY <2>1, Begun DEF Keeps
  <2>3. f[1 .. 0] = b
    BY <1>1 DEF Declares, c
  <2> HIDE DEF b
  <2>4. 1 \in 1 .. MaxLocals
    <3>1. MaxLocals \in Nat /\ MaxLocals # 0
      BY CompilerAssumption
    <3> QED BY <3>1
  <2>5. LocalsOK(b, FALSE)
    <3>1. \A i \in 1 .. 1 : b.locals[i].depth = 0
      BY <2>1, <2>2
    <3>2. Ordered(b.locals, 1, 1)
      BY <3>1 DEF Ordered
    <3> QED BY <2>1, <2>2, <2>4, <3>2 DEF LocalsOK
  <2>6. Taking(b, 0)
    <3>1. Len(b.locals) = 0 + 1
      BY <2>1, <2>2
    <3> QED BY <2>2, <2>5, <3>1 DEF Taking
  <2> QED BY <2>3, <2>6
<1>4. ASSUME NEW m \in 1 .. n, m - 1 \in S PROVE m \in S
  <2> DEFINE c == f[1 .. m - 1]
             q == SubSeq(ps, 1, m - 1)
  <2>1. /\ c \in CompilerSet /\ c.scopeDepth = 1 /\ c.upvalues = <<>>
        /\ Len(c.locals) = m - 1 + 1 /\ LocalsOK(c, FALSE)
    BY <1>4 DEF Taking
  <2>2. Parameters(type, q) = c
    <3>1. 1 \in Int /\ m - 1 \in Int /\ m - 1 \in 0 .. n /\ m - 1 - 1 + 1 = m - 1
          /\ \A i \in 1 .. m - 1 : i \in 1 .. n /\ 1 + i - 1 = i
      OBVIOUS
    <3>2. \A i \in 1 .. m - 1 : ps[i] \in Names
      BY <1>2, <3>1
    <3>3. /\ q \in Seq(Names) /\ Len(q) = IF 1 <= m - 1 THEN m - 1 - 1 + 1 ELSE 0
          /\ \A i \in 1 .. m - 1 - 1 + 1 : q[i] = ps[1 + i - 1]
      BY <3>1, <3>2, SubSeqProperties
    <3>4. Len(q) = m - 1 /\ \A i \in 1 .. m - 1 : q[i] = ps[i]
      <4>1. 1 <= m - 1 \/ m - 1 = 0
        OBVIOUS
      <4> HIDE DEF q
      <4> QED BY <3>1, <3>3, <4>1
    <3> HIDE DEF q
    <3>5. q \in [1 .. m - 1 -> Names]
      BY <3>3, <3>4
    <3> QED BY <1>1, <3>1, <3>4, <3>5, ParametersPrefix
  <2>3. ~ Full(c)
    <3>1. CanDeclare(Parameters(type, q), ps[m])
      BY <1>2 DEF ParametersClash
    <3> QED BY <2>1, <2>2, <3>1 DEF CanDeclare
  <2>4. f[1 .. m] = Declared(c, ps[m])
    BY <1>1 DEF Declares
  <2> HIDE DEF c, q
  <2>5. ps[m] \in LocalName
    BY <1>2 DEF LocalName
  <2>6. /\ Keeps(Declared(c, ps[m]), c) /\ Declared(c, ps[m]).scopeDepth = c.scopeDepth
        /\ Len(Declared(c, ps[m]).locals)
             = Len(c.locals) + (IF c.scopeDepth > 0 THEN 1 ELSE 0)
        /\ LocalsOK(Declared(c, ps[m]), FALSE)
    BY <2>1, <2>3, <2>5, DeclaredOK
  <2>7. Taking(Declared(c, ps[m]), m)
    <3>1. Len(Declared(c, ps[m]).locals) = m + 1
      BY <2>1, <2>6
    <3>2. Declared(c, ps[m]) \in CompilerSet /\ Declared(c, ps[m]).upvalues = <<>>
      BY <2>1, <2>6 DEF Keeps
    <3> QED BY <2>1, <2>6, <3>1, <3>2 DEF Taking
  <2> QED BY <2>4, <2>7
<1>5. \A m \in 0 .. n : m \in S
  <2> HIDE DEF S
  <2> QED BY <1>3, <1>4, UpTo
<1>6. n \in S
  <2> HIDE DEF S
  <2> QED BY <1>5
<1> QED BY <1>1, <1>6

-----------------------------------------------------------------------------
(* Naming a variable: what it adds to the compilers.                         *)

(* The same function and locals; some may be captured now, and upvalues may  *)
(* follow the ones that were there.                                          *)
Extended(c2, c) ==
  /\ c2 \in CompilerSet /\ c2.type = c.type /\ c2.scopeDepth = c.scopeDepth
  /\ Len(c2.locals) = Len(c.locals)
  /\ \A i \in DOMAIN c.locals :
       /\ c2.locals[i].name = c.locals[i].name /\ c2.locals[i].depth = c.locals[i].depth
       /\ c.locals[i].captured => c2.locals[i].captured
  /\ \A i \in DOMAIN c.upvalues :
       i \in DOMAIN c2.upvalues /\ c2.upvalues[i] = c.upvalues[i]

(* A local is marked as captured.                                            *)
Captured(c, i) == [c EXCEPT !.locals[i].captured = TRUE]

(* Capturing a local changes nothing else.                                   *)
LEMMA CapturedOK ==
  ASSUME NEW c \in CompilerSet, NEW i \in DOMAIN c.locals
  PROVE  /\ Extended(Captured(c, i), c) /\ Captured(c, i).upvalues = c.upvalues
         /\ i - 1 \in CapturedSlots(Captured(c, i))
<1> DEFINE l == [c.locals[i] EXCEPT !.captured = TRUE]
           ls == [c.locals EXCEPT ![i] = l]
           c2 == Captured(c, i)
<1>1. /\ c.locals \in Seq(LocalSet) /\ DOMAIN c.locals = 1 .. Len(c.locals)
      /\ \A j \in DOMAIN c.locals : c.locals[j] \in LocalSet
  BY Fields
<1>2. /\ l \in LocalSet /\ l.name = c.locals[i].name /\ l.depth = c.locals[i].depth
      /\ l.captured
  <2>1. c.locals[i] \in LocalSet
    BY <1>1
  <2> QED BY <2>1 DEF LocalSet
<1>3. c2.locals = ls /\ c2.type = c.type /\ c2.scopeDepth = c.scopeDepth /\ c2.upvalues = c.upvalues
  BY DEF Captured, CompilerSet
<1>4. c2 = [c EXCEPT !.locals = ls]
  BY DEF Captured, CompilerSet
<1> HIDE DEF l
<1>5. /\ ls \in Seq(LocalSet) /\ Len(ls) = Len(c.locals) /\ DOMAIN ls = DOMAIN c.locals
      /\ \A j \in DOMAIN c.locals : ls[j] = IF j = i THEN l ELSE c.locals[j]
  BY <1>1, <1>2
<1> HIDE DEF ls, c2
<1>6. c2 \in CompilerSet
  BY <1>4, <1>5 DEF CompilerSet
<1>7. \A j \in DOMAIN c.locals :
        /\ c2.locals[j].name = c.locals[j].name /\ c2.locals[j].depth = c.locals[j].depth
        /\ c.locals[j].captured => c2.locals[j].captured
  BY <1>2, <1>3, <1>5
<1>8. i \in DOMAIN c2.locals /\ c2.locals[i].captured
  BY <1>2, <1>3, <1>5
<1>9. i - 1 \in CapturedSlots(c2)
  BY <1>8 DEF CapturedSlots
<1>10. Extended(c2, c)
  BY <1>3, <1>5, <1>6, <1>7 DEF Extended
<1> QED BY <1>3, <1>9, <1>10 DEF c2

(* addUpvalue finds an entry or appends it, and UpvalueIndex tells where.    *)
Entry(index, isLocal) == [index |-> index, isLocal |-> isLocal]

(* An upvalue that is there already is found, a new one comes last.          *)
LEMMA UpvalueAdded ==
  ASSUME NEW c \in CompilerSet, NEW x \in Nat, NEW b \in BOOLEAN
  PROVE  /\ Extended(addUpvalue(c, x, b), c) /\ addUpvalue(c, x, b).locals = c.locals
         /\ \A i \in DOMAIN addUpvalue(c, x, b).upvalues :
              i \in DOMAIN c.upvalues \/ addUpvalue(c, x, b).upvalues[i] = Entry(x, b)
         /\ UpvalueIndex(addUpvalue(c, x, b), x, b) \in Nat
         /\ UpvalueIndex(addUpvalue(c, x, b), x, b) + 1 \in DOMAIN addUpvalue(c, x, b).upvalues
         /\ addUpvalue(c, x, b).upvalues[UpvalueIndex(addUpvalue(c, x, b), x, b) + 1] = Entry(x, b)
<1> DEFINE u == Entry(x, b)
           us == c.upvalues
           c2 == addUpvalue(c, x, b)
<1>1. u \in UpvalueSet /\ u.index = x /\ u.isLocal = b
  BY DEF Entry, UpvalueSet
<1>2. us \in Seq(UpvalueSet) /\ Len(us) \in Nat /\ DOMAIN us = 1 .. Len(us)
  <2>1. us \in Seq(UpvalueSet)
    BY Fields
  <2> QED BY <2>1, Elements
<1>3. c2 = IF u \in ToSet(us) THEN c ELSE [c EXCEPT !.upvalues = Append(us, u)]
  BY DEF addUpvalue, Entry
<1>4. u = Entry(x, b)
  OBVIOUS
<1> HIDE DEF u, c2
<1>5. /\ Append(us, u) \in Seq(UpvalueSet) /\ DOMAIN Append(us, u) = DOMAIN us \union {Len(us) + 1}
      /\ Append(us, u)[Len(us) + 1] = u /\ \A i \in DOMAIN us : Append(us, u)[i] = us[i]
  BY <1>1, <1>2, Appended
<1>6. /\ c2 \in CompilerSet /\ c2.locals = c.locals /\ c2.type = c.type
      /\ c2.scopeDepth = c.scopeDepth
      /\ \A i \in DOMAIN us : i \in DOMAIN c2.upvalues /\ c2.upvalues[i] = us[i]
      /\ \A i \in DOMAIN c2.upvalues : i \in DOMAIN us \/ c2.upvalues[i] = u
      /\ \E i \in DOMAIN c2.upvalues : c2.upvalues[i] = u
  <2>1. CASE u \in ToSet(us)
    <3>1. c2 = c /\ \E i \in DOMAIN us : us[i] = u
      BY <1>3, <2>1 DEF ToSet
    <3> QED BY <3>1
  <2>2. CASE u \notin ToSet(us)
    <3>1. c2 = [c EXCEPT !.upvalues = Append(us, u)]
      BY <1>3, <2>2
    <3>2. /\ c2 \in CompilerSet /\ c2.upvalues = Append(us, u) /\ c2.locals = c.locals
          /\ c2.type = c.type /\ c2.scopeDepth = c.scopeDepth
      BY <1>5, <3>1 DEF CompilerSet
    <3> HIDE DEF us
    <3> QED BY <1>5, <3>2
  <2> QED BY <2>1, <2>2
<1>7. Extended(c2, c)
  BY <1>6 DEF Extended
<1> DEFINE I == {i \in 1 .. Len(c2.upvalues) : c2.upvalues[i].index = x /\ c2.upvalues[i].isLocal = b}
<1>8. UpvalueIndex(c2, x, b) = (IF I # {} THEN Min(I) ELSE 0) - 1
  BY DEF UpvalueIndex, SelectInSeq
<1>9. /\ c2.upvalues \in Seq(UpvalueSet) /\ DOMAIN c2.upvalues = 1 .. Len(c2.upvalues)
      /\ \A i \in DOMAIN c2.upvalues : c2.upvalues[i] \in UpvalueSet
  <2>1. c2.upvalues \in Seq(UpvalueSet)
    BY <1>6, Fields
  <2> QED BY <2>1, Elements
<1>10. I # {} /\ I \in SUBSET Nat
  BY <1>1, <1>6, <1>9
<1>11. PICK m \in I : \A y \in I : m <= y
  BY <1>10, LeastNumber
<1>12. Min(I) \in I
  BY <1>11 DEF Min
<1>13. /\ Min(I) \in DOMAIN c2.upvalues /\ Min(I) \in Nat /\ Min(I) >= 1
       /\ c2.upvalues[Min(I)].index = x /\ c2.upvalues[Min(I)].isLocal = b
  <2>1. /\ Min(I) \in 1 .. Len(c2.upvalues)
        /\ c2.upvalues[Min(I)].index = x /\ c2.upvalues[Min(I)].isLocal = b
    BY <1>12
  <2>2. Min(I) \in Nat /\ Min(I) >= 1
    <3> HIDE DEF I
    <3> QED BY <2>1
  <2> QED BY <1>9, <2>1, <2>2
<1>14. \A v \in UpvalueSet : v.index = x /\ v.isLocal = b => v = u
  <2>1. \A v \in UpvalueSet : v = Entry(v.index, v.isLocal)
    BY DEF UpvalueSet, Entry
  <2> QED BY <1>4, <2>1
<1>15. UpvalueIndex(c2, x, b) + 1 = Min(I) /\ UpvalueIndex(c2, x, b) \in Nat
  <2> HIDE DEF I
  <2> QED BY <1>8, <1>10, <1>13
<1> HIDE DEF I
<1>16. c2.upvalues[Min(I)] = u
  BY <1>9, <1>13, <1>14
<1>17. /\ UpvalueIndex(c2, x, b) + 1 \in DOMAIN c2.upvalues
       /\ c2.upvalues[UpvalueIndex(c2, x, b) + 1] = u
  BY <1>13, <1>15, <1>16
<1> QED BY <1>4, <1>6, <1>7, <1>15, <1>17 DEF c2

(* The innermost local of a name.                                            *)
LEMMA LocalFound ==
  ASSUME NEW c \in CompilerSet, NEW n
  PROVE  /\ LocalOf(c, n) \in 0 .. Len(c.locals)
         /\ LocalOf(c, n) # 0 => /\ LocalOf(c, n) \in DOMAIN c.locals
                                 /\ c.locals[LocalOf(c, n)].name = n
         /\ \A i \in DOMAIN c.locals : c.locals[i].name = n => i <= LocalOf(c, n)
<1> DEFINE s == {0} \union {i \in DOMAIN c.locals : c.locals[i].name = n}
<1>1. Len(c.locals) \in Nat /\ DOMAIN c.locals = 1 .. Len(c.locals)
  BY Fields
<1>2. s \in SUBSET (0 .. Len(c.locals)) /\ s # {}
  BY <1>1
<1>3. LocalOf(c, n) = Max(s)
  BY DEF LocalOf
<1>4. \A i \in s : i # 0 => i \in DOMAIN c.locals /\ c.locals[i].name = n
  OBVIOUS
<1>5. \A i \in DOMAIN c.locals : c.locals[i].name = n => i \in s
  OBVIOUS
<1> HIDE DEF s
<1>6. Max(s) \in s /\ \A y \in s : y <= Max(s)
  BY <1>1, <1>2, Greatest
<1> QED BY <1>2, <1>3, <1>4, <1>5, <1>6

(* The innermost function with a local of that name.                         *)
LEMMA OwnerFound ==
  ASSUME NEW cs \in Seq(CompilerSet), NEW n
  PROVE  /\ Owner(cs, n) \in 0 .. Len(cs)
         /\ Owner(cs, n) # 0 => /\ Owner(cs, n) \in DOMAIN cs
                                /\ LocalOf(cs[Owner(cs, n)], n) # 0
         /\ \A k \in DOMAIN cs : LocalOf(cs[k], n) # 0 => k <= Owner(cs, n)
<1> DEFINE s == {0} \union {k \in DOMAIN cs : LocalOf(cs[k], n) # 0}
<1>1. Len(cs) \in Nat /\ DOMAIN cs = 1 .. Len(cs)
  BY Elements
<1>2. s \in SUBSET (0 .. Len(cs)) /\ s # {}
  BY <1>1
<1>3. Owner(cs, n) = Max(s)
  BY DEF Owner
<1>4. \A k \in s : k # 0 => k \in DOMAIN cs /\ LocalOf(cs[k], n) # 0
  OBVIOUS
<1>5. \A k \in DOMAIN cs : LocalOf(cs[k], n) # 0 => k \in s
  OBVIOUS
<1> HIDE DEF s
<1>6. Max(s) \in s /\ \A y \in s : y <= Max(s)
  BY <1>1, <1>2, Greatest
<1> QED BY <1>2, <1>3, <1>4, <1>5, <1>6

(* Every compiler of cs2 extends that of cs.                                 *)
Extends(cs2, cs) ==
  /\ cs2 \in Seq(CompilerSet) /\ Len(cs2) = Len(cs)
  /\ \A k \in DOMAIN cs : Extended(cs2[k], cs[k])

Chained(cs) == cs \in Seq(CompilerSet) /\ \A k \in DOMAIN cs : UpvaluesOK(cs, k)

(* Upvalue x of function k is slot s of function o, handed down from one     *)
(* function to the next.                                                     *)
Path(cs, k, o, s, p) ==
  \A j \in o + 1 .. k :
    /\ p[j] + 1 \in DOMAIN cs[j].upvalues
    /\ cs[j].upvalues[p[j] + 1] = IF j = o + 1 THEN Entry(s, TRUE) ELSE Entry(p[j - 1], FALSE)

Leads(cs, k, x, o, s) == \E p \in [o + 1 .. k -> Nat] : p[k] = x /\ Path(cs, k, o, s, p)

(* What resolveUpvalue has when m functions have the upvalue.                *)
Handed(st, m, cs, o, s) ==
  /\ Extends(st.cs, cs) /\ Chained(st.cs) /\ st.index \in Nat
  /\ s \in CapturedSlots(st.cs[o])
  /\ IF m = 0 THEN st.index = s ELSE Leads(st.cs, o + m, st.index, o, s)

(* A compiler is extended in steps.                                          *)
LEMMA ExtendedTwice ==
  ASSUME NEW c \in CompilerSet, NEW c2, Extended(c2, c), NEW c3, Extended(c3, c2)
  PROVE  Extended(c3, c)
<1>1. c2 \in CompilerSet /\ Len(c2.locals) = Len(c.locals)
  BY DEF Extended
<1>2. DOMAIN c2.locals = DOMAIN c.locals
  BY <1>1, Fields
<1>3. /\ c3 \in CompilerSet /\ c3.type = c.type /\ c3.scopeDepth = c.scopeDepth
      /\ Len(c3.locals) = Len(c.locals)
  BY DEF Extended
<1>4. ASSUME NEW i \in DOMAIN c.locals
      PROVE  /\ c3.locals[i].name = c.locals[i].name /\ c3.locals[i].depth = c.locals[i].depth
             /\ c.locals[i].captured => c3.locals[i].captured
  BY <1>2 DEF Extended
<1>5. ASSUME NEW i \in DOMAIN c.upvalues
      PROVE  i \in DOMAIN c3.upvalues /\ c3.upvalues[i] = c.upvalues[i]
  BY DEF Extended
<1> QED BY <1>3, <1>4, <1>5 DEF Extended

(* What is captured stays captured.                                          *)
LEMMA ExtendedCaptures ==
  ASSUME NEW c \in CompilerSet, NEW c2, Extended(c2, c)
  PROVE  CapturedSlots(c) \subseteq CapturedSlots(c2)
<1>1. c2 \in CompilerSet /\ Len(c2.locals) = Len(c.locals) /\ Len(c.locals) \in Nat
  BY Fields DEF Extended
<1>2. \A i \in DOMAIN c.locals : c.locals[i].captured => c2.locals[i].captured
  BY DEF Extended
<1> QED BY <1>1, <1>2, CapturedStay

(* Extending a chain twice.                                                  *)
LEMMA ExtendsTwice ==
  ASSUME NEW cs \in Seq(CompilerSet), NEW cs2, Extends(cs2, cs), NEW cs3, Extends(cs3, cs2)
  PROVE  Extends(cs3, cs)
<1>1. /\ cs2 \in Seq(CompilerSet) /\ cs3 \in Seq(CompilerSet)
      /\ Len(cs2) = Len(cs) /\ Len(cs3) = Len(cs)
  BY DEF Extends
<1>2. DOMAIN cs2 = DOMAIN cs /\ \A k \in DOMAIN cs : cs[k] \in CompilerSet
  BY <1>1, Elements
<1>3. ASSUME NEW k \in DOMAIN cs PROVE Extended(cs3[k], cs[k])
  <2>1. Extended(cs2[k], cs[k]) /\ Extended(cs3[k], cs2[k]) /\ cs[k] \in CompilerSet
    BY <1>2 DEF Extends
  <2> QED BY <2>1, ExtendedTwice
<1> QED BY <1>1, <1>3 DEF Extends

(* A path stays when compilers are extended.                                 *)
LEMMA LeadsOn ==
  ASSUME NEW cs \in Seq(CompilerSet), NEW cs2, Extends(cs2, cs), NEW o \in Nat,
         NEW k \in DOMAIN cs, NEW x, NEW s, Leads(cs, k, x, o, s)
  PROVE  Leads(cs2, k, x, o, s)
<1>1. PICK p \in [o + 1 .. k -> Nat] : p[k] = x /\ Path(cs, k, o, s, p)
  BY DEF Leads
<1>2. ASSUME NEW j \in o + 1 .. k
      PROVE  /\ p[j] + 1 \in DOMAIN cs2[j].upvalues
             /\ cs2[j].upvalues[p[j] + 1]
                  = IF j = o + 1 THEN Entry(s, TRUE) ELSE Entry(p[j - 1], FALSE)
  <2>1. j \in DOMAIN cs
    BY Elements
  <2>2. Extended(cs2[j], cs[j])
    BY <2>1 DEF Extends
  <2>3. /\ p[j] + 1 \in DOMAIN cs[j].upvalues
        /\ cs[j].upvalues[p[j] + 1]
             = IF j = o + 1 THEN Entry(s, TRUE) ELSE Entry(p[j - 1], FALSE)
    BY <1>1 DEF Path
  <2>4. /\ p[j] + 1 \in DOMAIN cs2[j].upvalues
        /\ cs2[j].upvalues[p[j] + 1] = cs[j].upvalues[p[j] + 1]
    BY <2>2, <2>3 DEF Extended
  <2> QED BY <2>3, <2>4
<1>3. Path(cs2, k, o, s, p)
  BY <1>2 DEF Path
<1> QED BY <1>1, <1>3 DEF Leads

(* One function gets the upvalue.                                            *)
LEMMA HandDownOK ==
  ASSUME NEW cs \in Seq(CompilerSet), NEW o \in DOMAIN cs, NEW s \in Nat,
         NEW m \in 1 .. Len(cs) - o, NEW st, Handed(st, m - 1, cs, o, s)
  PROVE  Handed(HandDown(st, o + m, o), m, cs, o, s)
<1> DEFINE k == o + m
           b == k = o + 1
           x == st.index
           c == st.cs[k]
           c2 == addUpvalue(c, x, b)
           cs2 == [st.cs EXCEPT ![k] = c2]
           y == UpvalueIndex(c2, x, b)
<1>1. Len(cs) \in Nat /\ DOMAIN cs = 1 .. Len(cs) /\ o \in 1 .. Len(cs)
  BY Elements
<1>2. /\ k \in 1 .. Len(cs) /\ k - 1 \in 1 .. Len(cs) /\ k # k - 1 /\ k # 1 /\ k # o
      /\ o \in Nat /\ k \in Nat /\ k - 1 = o + (m - 1)
  BY <1>1
<1>3. /\ st.cs \in Seq(CompilerSet) /\ Len(st.cs) = Len(cs) /\ DOMAIN st.cs = 1 .. Len(cs)
      /\ Extends(st.cs, cs) /\ x \in Nat /\ s \in CapturedSlots(st.cs[o])
      /\ \A j \in 1 .. Len(cs) : st.cs[j] \in CompilerSet /\ UpvaluesOK(st.cs, j)
  <2>1. st.cs \in Seq(CompilerSet) /\ Len(st.cs) = Len(cs)
    BY DEF Handed, Extends
  <2>2. DOMAIN st.cs = 1 .. Len(cs) /\ \A j \in DOMAIN st.cs : st.cs[j] \in CompilerSet
    BY <2>1, Elements
  <2> QED BY <2>1, <2>2 DEF Handed, Chained
<1>4. b \in BOOLEAN /\ c \in CompilerSet /\ x \in Nat
  BY <1>2, <1>3
<1>5. /\ HandDown(st, k, o).cs = [st.cs EXCEPT ![k] = addUpvalue(@, st.index, k = o + 1)]
      /\ HandDown(st, k, o).index
           = UpvalueIndex([st.cs EXCEPT ![k] = addUpvalue(@, st.index, k = o + 1)][k],
                          st.index, k = o + 1)
  BY DEF HandDown
<1>6. HandDown(st, k, o).cs = cs2 /\ HandDown(st, k, o).index = y
  BY <1>2, <1>3, <1>5
<1>7. b = (k = o + 1)
  OBVIOUS
<1>8. k = o + m /\ x = st.index /\ c = st.cs[k]
  OBVIOUS
<1> HIDE DEF b, x, c
<1>9. /\ Extended(c2, c) /\ c2.locals = c.locals
      /\ \A i \in DOMAIN c2.upvalues : i \in DOMAIN c.upvalues \/ c2.upvalues[i] = Entry(x, b)
      /\ y \in Nat /\ y + 1 \in DOMAIN c2.upvalues /\ c2.upvalues[y + 1] = Entry(x, b)
  BY <1>4, UpvalueAdded
<1> HIDE DEF k, y, c2
<1>10. /\ cs2 \in Seq(CompilerSet) /\ Len(cs2) = Len(cs) /\ DOMAIN cs2 = 1 .. Len(cs)
       /\ cs2[k] = c2 /\ \A j \in 1 .. Len(cs) : j # k => cs2[j] = st.cs[j]
  <2>1. c2 \in CompilerSet
    BY <1>9 DEF Extended
  <2> QED BY <1>2, <1>3, <2>1
<1> HIDE DEF cs2
<1>11. Extends(cs2, st.cs)
  <2>1. ASSUME NEW j \in DOMAIN st.cs PROVE Extended(cs2[j], st.cs[j])
    <3>1. CASE j = k
      BY <1>8, <1>9, <1>10, <3>1
    <3>2. CASE j # k
      <4>1. cs2[j] = st.cs[j] /\ st.cs[j] \in CompilerSet
        BY <1>3, <1>10, <3>2
      <4> QED BY <4>1 DEF Extended
    <3> QED BY <3>1, <3>2
  <2> QED BY <1>3, <1>10, <2>1 DEF Extends
<1>12. Extends(cs2, cs)
  BY <1>3, <1>11, ExtendsTwice
<1>13. s \in CapturedSlots(cs2[o])
  BY <1>1, <1>2, <1>3, <1>10
<1>14. k - 1 = o <=> m = 1
  BY <1>1, <1>8
<1>15. IF m = 1 THEN x = s ELSE Leads(st.cs, k - 1, x, o, s)
  <2>1. IF m - 1 = 0 THEN st.index = s ELSE Leads(st.cs, o + (m - 1), st.index, o, s)
    BY DEF Handed
  <2> QED BY <1>2, <1>8, <2>1
<1>16. m # 1 => Leads(cs2, k - 1, x, o, s)
  <2>1. k - 1 \in DOMAIN st.cs
    BY <1>2, <1>3
  <2> QED BY <1>2, <1>3, <1>11, <1>15, <2>1, LeadsOn
<1>17. m # 1 => x + 1 \in DOMAIN cs2[k - 1].upvalues
  <2> SUFFICES ASSUME m # 1 PROVE x + 1 \in DOMAIN cs2[k - 1].upvalues
    OBVIOUS
  <2>1. PICK p \in [o + 1 .. k - 1 -> Nat] : p[k - 1] = x /\ Path(cs2, k - 1, o, s, p)
    BY <1>16 DEF Leads
  <2>2. k - 1 \in o + 1 .. k - 1
    BY <1>1, <1>2
  <2> QED BY <2>1, <2>2 DEF Path
<1>18. ASSUME NEW j \in 1 .. Len(cs) PROVE UpvaluesOK(cs2, j)
  <2>1. UpvaluesOK(st.cs, j)
    BY <1>3
  <2>2. CASE j = k
    <3>1. ASSUME NEW i \in DOMAIN c2.upvalues
          PROVE  IF c2.upvalues[i].isLocal
                 THEN c2.upvalues[i].index \in CapturedSlots(cs2[k - 1])
                 ELSE c2.upvalues[i].index + 1 \in DOMAIN cs2[k - 1].upvalues
      <4>0. cs2[k - 1] = st.cs[k - 1]
        BY <1>2, <1>10
      <4>1. CASE i \in DOMAIN c.upvalues
        <5>1. c2.upvalues[i] = c.upvalues[i]
          BY <1>9, <4>1 DEF Extended
        <5>2. IF c.upvalues[i].isLocal
              THEN c.upvalues[i].index \in CapturedSlots(st.cs[k - 1])
              ELSE c.upvalues[i].index + 1 \in DOMAIN st.cs[k - 1].upvalues
          BY <1>8, <2>1, <2>2, <4>1 DEF UpvaluesOK
        <5> QED BY <4>0, <5>1, <5>2
      <4>2. CASE c2.upvalues[i] = Entry(x, b)
        <5>1. c2.upvalues[i].index = x /\ c2.upvalues[i].isLocal = b
          BY <4>2 DEF Entry
        <5>2. CASE m = 1
          <6>1. k - 1 = o /\ x = s
            BY <1>14, <1>15, <5>2
          <6>2. x \in CapturedSlots(cs2[k - 1])
            BY <1>13, <6>1
          <6>3. k = o + 1
            BY <1>8, <5>2
          <6>4. c2.upvalues[i].isLocal
            BY <1>7, <5>1, <6>3
          <6> QED BY <5>1, <6>2, <6>4
        <5>3. CASE m # 1
          <6>1. k # o + 1
            BY <1>1, <1>8, <5>3
          <6>2. ~ c2.upvalues[i].isLocal
            BY <1>7, <5>1, <6>1
          <6> QED BY <1>17, <5>1, <5>3, <6>2
        <5> QED BY <5>2, <5>3
      <4> QED BY <1>9, <4>1, <4>2
    <3> QED BY <1>2, <1>10, <2>2, <3>1 DEF UpvaluesOK
  <2>3. CASE j # k
    <3>1. cs2[j] = st.cs[j]
      BY <1>10, <2>3
    <3>2. CASE j = 1
      <4>1. st.cs[1].upvalues = <<>>
        BY <2>1, <3>2 DEF UpvaluesOK
      <4>2. DOMAIN cs2[j].upvalues = {}
        BY <3>1, <3>2, <4>1
      <4> QED BY <3>1, <3>2, <4>1, <4>2 DEF UpvaluesOK
    <3>3. CASE j # 1
      <4>1. j - 1 \in 1 .. Len(cs)
        BY <1>1, <3>3
      <4>2. Extended(cs2[j - 1], st.cs[j - 1]) /\ st.cs[j - 1] \in CompilerSet
        BY <1>3, <1>11, <4>1 DEF Extends
      <4>3. /\ CapturedSlots(st.cs[j - 1]) \subseteq CapturedSlots(cs2[j - 1])
            /\ DOMAIN st.cs[j - 1].upvalues \subseteq DOMAIN cs2[j - 1].upvalues
        <5>1. CapturedSlots(st.cs[j - 1]) \subseteq CapturedSlots(cs2[j - 1])
          BY <4>2, ExtendedCaptures
        <5> QED BY <4>2, <5>1 DEF Extended
      <4> QED BY <2>1, <3>1, <3>3, <4>3 DEF UpvaluesOK
    <3> QED BY <3>2, <3>3
  <2> QED BY <2>2, <2>3
<1>19. Chained(cs2)
  BY <1>10, <1>18 DEF Chained
<1>20. Leads(cs2, k, y, o, s)
  <2>0. o \in Nat /\ k \in Nat
    BY <1>2
  <2>1. CASE m = 1
    <3> DEFINE p == [j \in o + 1 .. k |-> y]
    <3>1. k = o + 1 /\ b /\ x = s
      BY <1>7, <1>8, <1>15, <2>1
    <3>2. \A j \in o + 1 .. k : j = k
      BY <2>0, <3>1
    <3>3. k \in o + 1 .. k
      BY <2>0, <3>1
    <3>4. p \in [o + 1 .. k -> Nat] /\ p[k] = y
      BY <1>9, <3>3
    <3>5. c2.upvalues[y + 1] = Entry(s, TRUE)
      <4>1. b = TRUE
        BY <1>4, <3>1
      <4> QED BY <1>9, <3>1, <4>1
    <3> HIDE DEF p
    <3>6. Path(cs2, k, o, s, p)
      BY <1>9, <1>10, <3>1, <3>2, <3>4, <3>5 DEF Path
    <3> QED BY <3>4, <3>6 DEF Leads
  <2>2. CASE m # 1
    <3>1. PICK q \in [o + 1 .. k - 1 -> Nat] : q[k - 1] = x /\ Path(cs2, k - 1, o, s, q)
      BY <1>16, <2>2 DEF Leads
    <3> DEFINE p == [j \in o + 1 .. k |-> IF j = k THEN y ELSE q[j]]
    <3>2. \A j \in o + 1 .. k : j # k => j \in o + 1 .. k - 1 /\ (j # o + 1 => j - 1 \in o + 1 .. k - 1)
      BY <2>0
    <3>3. k \in o + 1 .. k /\ k - 1 \in o + 1 .. k /\ k - 1 # k /\ k # o + 1
      BY <1>1, <1>2, <1>8, <2>2
    <3>4. p \in [o + 1 .. k -> Nat] /\ p[k] = y
      BY <1>9, <3>2, <3>3
    <3>5. \A j \in o + 1 .. k - 1 : j \in o + 1 .. k /\ j # k /\ p[j] = q[j]
      BY <2>0
    <3>6. p[k - 1] = x
      BY <3>1, <3>3
    <3> HIDE DEF p
    <3>7. c2.upvalues[y + 1] = Entry(x, FALSE)
      <4>1. b = FALSE
        BY <1>4, <1>7, <3>3
      <4> QED BY <1>9, <4>1
    <3>8. ASSUME NEW j \in o + 1 .. k
          PROVE  /\ p[j] + 1 \in DOMAIN cs2[j].upvalues
                 /\ cs2[j].upvalues[p[j] + 1]
                      = IF j = o + 1 THEN Entry(s, TRUE) ELSE Entry(p[j - 1], FALSE)
      <4>1. CASE j = k
        BY <1>9, <1>10, <3>3, <3>4, <3>6, <3>7, <4>1
      <4>2. CASE j # k
        <5>1. j \in o + 1 .. k - 1 /\ (j # o + 1 => j - 1 \in o + 1 .. k - 1)
          BY <3>2, <4>2
        <5>2. /\ q[j] + 1 \in DOMAIN cs2[j].upvalues
              /\ cs2[j].upvalues[q[j] + 1]
                   = IF j = o + 1 THEN Entry(s, TRUE) ELSE Entry(q[j - 1], FALSE)
          BY <3>1, <5>1 DEF Path
        <5> QED BY <3>5, <5>1, <5>2
      <4> QED BY <4>1, <4>2
    <3>9. Path(cs2, k, o, s, p)
      BY <3>8 DEF Path
    <3> QED BY <3>4, <3>9 DEF Leads
  <2> QED BY <2>1, <2>2
<1>21. m # 0
  OBVIOUS
<1>22. Handed(HandDown(st, k, o), m, cs, o, s)
  BY <1>6, <1>8, <1>9, <1>12, <1>13, <1>19, <1>20, <1>21 DEF Handed
<1> QED BY <1>8, <1>22

(* A chain stays one when compilers are extended and no upvalue is added.    *)
LEMMA ChainedOn ==
  ASSUME NEW cs, Chained(cs), NEW cs2, Extends(cs2, cs),
         \A k \in DOMAIN cs : cs2[k].upvalues = cs[k].upvalues
  PROVE  Chained(cs2)
<1>1. /\ cs \in Seq(CompilerSet) /\ cs2 \in Seq(CompilerSet) /\ Len(cs2) = Len(cs)
  BY DEF Chained, Extends
<1>2. /\ DOMAIN cs = 1 .. Len(cs) /\ DOMAIN cs2 = 1 .. Len(cs) /\ Len(cs) \in Nat
      /\ \A k \in DOMAIN cs : cs[k] \in CompilerSet
  BY <1>1, Elements
<1>3. ASSUME NEW k \in DOMAIN cs PROVE UpvaluesOK(cs2, k)
  <2>1. UpvaluesOK(cs, k) /\ cs2[k].upvalues = cs[k].upvalues
    BY DEF Chained
  <2>2. CASE k = 1
    <3>1. cs[1].upvalues = <<>> /\ DOMAIN cs2[1].upvalues = {}
      BY <2>1, <2>2 DEF UpvaluesOK
    <3> QED BY <2>1, <2>2, <3>1 DEF UpvaluesOK
  <2>3. CASE k # 1
    <3>1. k - 1 \in DOMAIN cs
      BY <1>2, <2>3
    <3>2. cs2[k - 1].upvalues = cs[k - 1].upvalues /\ Extended(cs2[k - 1], cs[k - 1])
          /\ cs[k - 1] \in CompilerSet
      BY <1>2, <3>1 DEF Extends
    <3>3. CapturedSlots(cs[k - 1]) \subseteq CapturedSlots(cs2[k - 1])
      BY <3>2, ExtendedCaptures
    <3> QED BY <2>1, <2>3, <3>2, <3>3 DEF UpvaluesOK
  <2> QED BY <2>2, <2>3
<1> QED BY <1>1, <1>2, <1>3 DEF Chained

(* The local of an enclosing function is captured there and handed down to   *)
(* the innermost, by induction on the functions between.                     *)
LEMMA ResolvedOK ==
  ASSUME NEW cs, Chained(cs), NEW o \in DOMAIN cs, NEW n, LocalOf(cs[o], n) # 0
  PROVE  Handed(resolveUpvalue(cs, o, n), Len(cs) - o, cs, o, LocalOf(cs[o], n) - 1)
<1> DEFINE slot == resolveLocal(cs[o], n)
           marked == [cs EXCEPT ![o].locals[slot + 1].captured = TRUE]
           L == Len(cs)
           N == Len(cs) - o
           seq == [i \in 1 .. N |-> o + i]
           base == [cs |-> marked, index |-> slot]
           A == [cs : [1 .. L -> CompilerSet], index : Nat]
           step == [p \in A \X (1 .. N) |-> HandDown(p[1], seq[p[2]], o)]
           IsFold(f) == f = [s \in SUBSET (1 .. N) |->
                               IF s = {} THEN base
                               ELSE HandDown(f[s \ {Max(s)}], seq[Max(s)], o)]
           fold == CHOOSE f : IsFold(f)
<1>1. /\ cs \in Seq(CompilerSet) /\ L \in Nat /\ DOMAIN cs = 1 .. L /\ N \in Nat /\ o \in Nat
      /\ o \in 1 .. L /\ \A k \in 1 .. L : cs[k] \in CompilerSet
  <2>1. cs \in Seq(CompilerSet)
    BY DEF Chained
  <2>2. L \in Nat /\ DOMAIN cs = 1 .. L /\ \A k \in DOMAIN cs : cs[k] \in CompilerSet
    BY <2>1, Elements
  <2> QED BY <2>1, <2>2
<1>2. slot \in Nat /\ slot + 1 \in DOMAIN cs[o].locals /\ slot = LocalOf(cs[o], n) - 1
  <2>1. LocalOf(cs[o], n) \in DOMAIN cs[o].locals /\ DOMAIN cs[o].locals = 1 .. Len(cs[o].locals)
        /\ Len(cs[o].locals) \in Nat
    BY <1>1, LocalFound, Fields
  <2> QED BY <2>1 DEF resolveLocal
<1> HIDE DEF slot
<1>3. /\ Extended(Captured(cs[o], slot + 1), cs[o])
      /\ Captured(cs[o], slot + 1).upvalues = cs[o].upvalues
      /\ slot \in CapturedSlots(Captured(cs[o], slot + 1))
  <2>1. slot + 1 - 1 = slot
    BY <1>2
  <2>2. cs[o] \in CompilerSet
    BY <1>1
  <2> QED BY <1>2, <2>1, <2>2, CapturedOK
<1>4. marked = [cs EXCEPT ![o] = Captured(cs[o], slot + 1)]
  BY DEF Captured
<1>5. /\ marked \in Seq(CompilerSet) /\ Len(marked) = L /\ DOMAIN marked = 1 .. L
      /\ marked[o] = Captured(cs[o], slot + 1)
      /\ \A k \in DOMAIN cs : k # o => marked[k] = cs[k]
  <2>1. Captured(cs[o], slot + 1) \in CompilerSet
    BY <1>3 DEF Extended
  <2> QED BY <1>1, <1>4, <2>1
<1>6. resolveUpvalue(cs, o, n) = fold[1 .. N]
  <2>1. DOMAIN seq = 1 .. N
    OBVIOUS
  <2> QED BY <2>1 DEF resolveUpvalue, FoldLeft, MapThenFoldSet, slot
<1>7. fold = CHOOSE f : IsFold(f)
  OBVIOUS
<1> HIDE DEF marked, fold
<1>8. Handed(base, 0, cs, o, slot)
  <2>1. Extends(marked, cs)
    <3>1. ASSUME NEW k \in DOMAIN cs PROVE Extended(marked[k], cs[k])
      <4>1. CASE k = o
        BY <1>3, <1>5, <4>1
      <4>2. CASE k # o
        <5>1. marked[k] = cs[k] /\ cs[k] \in CompilerSet
          BY <1>1, <1>5, <4>2
        <5> QED BY <5>1 DEF Extended
      <4> QED BY <4>1, <4>2
    <3> QED BY <1>5, <3>1 DEF Extends
  <2>2. Chained(marked)
    <3>1. \A k \in DOMAIN cs : marked[k].upvalues = cs[k].upvalues
      BY <1>3, <1>5
    <3> QED BY <2>1, <3>1, ChainedOn
  <2>3. base.cs = marked /\ base.index = slot
    OBVIOUS
  <2> HIDE DEF base
  <2> QED BY <1>2, <1>3, <1>5, <2>1, <2>2, <2>3 DEF Handed
<1>9. base \in A
  <2>1. marked \in [1 .. L -> CompilerSet]
    BY <1>5
  <2> QED BY <1>2, <2>1
<1>10. \A i \in 1 .. N : seq[i] = o + i /\ o + i \in 1 .. L
  BY <1>1
<1> HIDE DEF base, seq
<1>11. ASSUME NEW st \in A, NEW i \in 1 .. N
       PROVE  HandDown(st, seq[i], o) \in A
  <2> DEFINE k == seq[i]
             b == k = o + 1
             c == st.cs[k]
             x == st.index
             c2 == addUpvalue(c, x, b)
             cs2 == [st.cs EXCEPT ![k] = c2]
             y == UpvalueIndex(c2, x, b)
  <2>1. k \in 1 .. L
    BY <1>10
  <2> HIDE DEF k
  <2>2. c \in CompilerSet /\ x \in Nat /\ b \in BOOLEAN /\ st.cs \in [1 .. L -> CompilerSet]
    BY <2>1
  <2>3. HandDown(st, k, o) = [cs |-> cs2, index |-> UpvalueIndex(cs2[k], x, b)]
    BY DEF HandDown
  <2>4. cs2[k] = c2
    BY <2>1, <2>2
  <2> HIDE DEF b, c, x
  <2>5. Extended(c2, c) /\ y \in Nat
    BY <2>2, UpvalueAdded
  <2>6. c2 \in CompilerSet
    BY <2>5 DEF Extended
  <2> HIDE DEF c2
  <2>7. cs2 \in [1 .. L -> CompilerSet]
    BY <2>1, <2>2, <2>6
  <2>8. HandDown(st, k, o) = [cs |-> cs2, index |-> y]
    BY <2>3, <2>4
  <2> HIDE DEF cs2, y
  <2>9. HandDown(st, k, o) \in A
    BY <2>5, <2>7, <2>8
  <2> HIDE DEF A
  <2> QED BY <2>9 DEF k
<1> HIDE DEF A
<1>12. step \in [A \X (1 .. N) -> A]
  BY <1>11
<1>13. \A st \in A, i \in 1 .. N : step[<<st, i>>] = HandDown(st, seq[i], o)
  OBVIOUS
<1> HIDE DEF step, N, L
<1>14. PICK g : Folds(g, A, base, N, step)
  BY <1>1, <1>9, <1>12, FoldExists
<1>15. IsFold(g)
  <2>1. \A s \in SUBSET (1 .. N) :
          g[s] = IF s = {} THEN base ELSE HandDown(g[s \ {Max(s)}], seq[Max(s)], o)
    <3> TAKE s \in SUBSET (1 .. N)
    <3>1. CASE s = {}
      BY <1>14, <3>1 DEF Folds
    <3>2. CASE s # {}
      <4>1. Max(s) \in 1 .. N /\ s \ {Max(s)} \in SUBSET (1 .. N)
        BY <1>1, <3>2, MaxIn
      <4>2. g[s \ {Max(s)}] \in A
        BY <1>14, <4>1 DEF Folds
      <4> QED BY <1>13, <1>14, <3>2, <4>1, <4>2 DEF Folds
    <3> QED BY <3>1, <3>2
  <2>2. DOMAIN g = SUBSET (1 .. N) /\ g = [s \in SUBSET (1 .. N) |-> g[s]]
    BY <1>14 DEF Folds
  <2> QED BY <2>1, <2>2
<1>16. IsFold(fold)
  <2> HIDE DEF IsFold
  <2> QED BY <1>7, <1>15
<1>17. \A s \in SUBSET (1 .. N) :
         fold[s] = IF s = {} THEN base ELSE HandDown(fold[s \ {Max(s)}], seq[Max(s)], o)
  BY <1>16
<1> HIDE DEF IsFold
<1>18. fold[1 .. 0] = base
  BY <1>1, <1>17, InitialSegments
<1>19. ASSUME NEW m \in 1 .. N PROVE fold[1 .. m] = HandDown(fold[1 .. m - 1], o + m, o)
  <2>1. /\ 1 .. m \in SUBSET (1 .. N) /\ 1 .. m # {}
        /\ Max(1 .. m) = m /\ (1 .. m) \ {m} = 1 .. m - 1
    BY <1>1, InitialSegments
  <2>2. fold[1 .. m] = HandDown(fold[(1 .. m) \ {Max(1 .. m)}], seq[Max(1 .. m)], o)
    BY <1>17, <2>1
  <2> QED BY <1>10, <2>1, <2>2
<1> DEFINE S == {m \in 0 .. N : Handed(fold[1 .. m], m, cs, o, slot)}
<1>20. 0 \in S
  BY <1>1, <1>8, <1>18
<1>21. ASSUME NEW m \in 1 .. N, m - 1 \in S PROVE m \in S
  <2>1. Handed(fold[1 .. m - 1], m - 1, cs, o, slot)
    BY <1>21
  <2>2. m \in 1 .. Len(cs) - o
    BY DEF N
  <2>3. Handed(HandDown(fold[1 .. m - 1], o + m, o), m, cs, o, slot)
    BY <1>1, <1>2, <2>1, <2>2, HandDownOK
  <2>4. Handed(fold[1 .. m], m, cs, o, slot)
    BY <1>19, <2>3
  <2> QED BY <1>1, <2>4
<1>22. \A m \in 0 .. N : m \in S
  <2> HIDE DEF S
  <2> QED BY <1>1, <1>20, <1>21, UpTo
<1>23. N \in S
  <2> HIDE DEF S
  <2> QED BY <1>1, <1>22
<1> QED BY <1>2, <1>6, <1>23 DEF N

(* What a reference says of its name: that no function has such a local, its *)
(* own slot, or an upvalue that leads to the slot.                           *)
RefersTo(r, cs, n) ==
  LET o == Owner(cs, n)
      slot == LocalOf(cs[o], n) - 1
  IN /\ r.ref.name = n
     /\ o = 0 => r.ref.op = "global"
     /\ o # 0 /\ o = Len(cs) => r.ref.op = "local" /\ r.ref.index = slot
     /\ o # 0 /\ o # Len(cs) =>
          r.ref.op = "upvalue" /\ Leads(r.cs, Len(cs), r.ref.index, o, slot)

(* namedVariable extends the compilers and refers to what it resolved.       *)
LEMMA NamedOK ==
  ASSUME NEW cs, Chained(cs), cs # <<>>, NEW n
  PROVE  /\ Extends(namedVariable(cs, n).cs, cs) /\ Chained(namedVariable(cs, n).cs)
         /\ RefersTo(namedVariable(cs, n), cs, n)
<1> DEFINE o == Owner(cs, n)
           r == namedVariable(cs, n)
           up == resolveUpvalue(cs, o, n)
<1>1. /\ cs \in Seq(CompilerSet) /\ Len(cs) \in Nat /\ Len(cs) # 0 /\ DOMAIN cs = 1 .. Len(cs)
      /\ Last(cs) = cs[Len(cs)] /\ \A k \in DOMAIN cs : cs[k] \in CompilerSet
  <2>1. cs \in Seq(CompilerSet)
    BY DEF Chained
  <2> QED BY <2>1, Elements
<1>2. Extends(cs, cs)
  <2>1. \A c \in CompilerSet : Extended(c, c)
    BY DEF Extended
  <2> QED BY <1>1, <2>1 DEF Extends
<1>3. o \in 0 .. Len(cs) /\ (o # 0 => o \in DOMAIN cs /\ LocalOf(cs[o], n) # 0)
  BY <1>1, OwnerFound
<1>4. o = Owner(cs, n) /\ r = namedVariable(cs, n)
  OBVIOUS
<1>5. /\ o = 0 => r = [cs |-> cs, ref |-> [name |-> n, op |-> "global", index |-> 0]]
      /\ o # 0 /\ o = Len(cs) =>
           r = [cs |-> cs, ref |-> [name |-> n, op |-> "local",
                                    index |-> resolveLocal(Last(cs), n)]]
      /\ o # 0 /\ o # Len(cs) =>
           r = [cs |-> up.cs, ref |-> [name |-> n, op |-> "upvalue", index |-> up.index]]
  <2>1. CASE o = 0
    BY <1>1, <2>1 DEF namedVariable
  <2>2. CASE o # 0 /\ o = Len(cs)
    BY <2>2 DEF namedVariable
  <2>3. CASE o # 0 /\ o # Len(cs)
    BY <2>3 DEF namedVariable
  <2> QED BY <1>1, <2>1, <2>2, <2>3
<1> HIDE DEF o, r
<1>6. CASE o = 0
  <2>1. r.cs = cs /\ r.ref.name = n /\ r.ref.op = "global"
    BY <1>5, <1>6
  <2>2. RefersTo(r, cs, n)
    BY <1>4, <1>6, <2>1 DEF RefersTo
  <2> QED BY <1>2, <1>4, <2>1, <2>2
<1>7. CASE o # 0 /\ o = Len(cs)
  <2>1. r.cs = cs /\ r.ref.name = n /\ r.ref.op = "local" /\ r.ref.index = LocalOf(cs[o], n) - 1
    BY <1>1, <1>5, <1>7 DEF resolveLocal
  <2>2. RefersTo(r, cs, n)
    BY <1>4, <1>7, <2>1 DEF RefersTo
  <2> QED BY <1>2, <1>4, <2>1, <2>2
<1>8. CASE o # 0 /\ o # Len(cs)
  <2>1. /\ r.cs = up.cs /\ r.ref.name = n /\ r.ref.op = "upvalue" /\ r.ref.index = up.index
    BY <1>5, <1>8
  <2>2. Handed(up, Len(cs) - o, cs, o, LocalOf(cs[o], n) - 1)
    BY <1>3, <1>8, ResolvedOK
  <2>3. Len(cs) - o # 0 /\ o + (Len(cs) - o) = Len(cs)
    <3>1. \A x, y \in Nat : x # y => y - x # 0 /\ x + (y - x) = y
      OBVIOUS
    <3>2. o \in 0 .. Len(cs) /\ Len(cs) \in Nat
      BY <1>1, <1>3
    <3>3. o \in Nat /\ Len(cs) \in Nat
      BY <3>2
    <3>4. o # Len(cs)
      BY <1>8
    <3> QED BY <3>1, <3>3, <3>4
  <2>4. /\ Extends(up.cs, cs) /\ Chained(up.cs)
        /\ Leads(up.cs, Len(cs), up.index, o, LocalOf(cs[o], n) - 1)
    <3>1. Leads(up.cs, o + (Len(cs) - o), up.index, o, LocalOf(cs[o], n) - 1)
      BY <2>2, <2>3 DEF Handed
    <3> QED BY <2>2, <2>3, <3>1 DEF Handed
  <2>5. RefersTo(r, cs, n)
    BY <1>4, <1>8, <2>1, <2>4 DEF RefersTo
  <2> QED BY <1>4, <2>1, <2>4, <2>5
<1> QED BY <1>6, <1>7, <1>8

(* Naming a variable does not move locals.                                   *)
LEMMA ExtendedLevel ==
  ASSUME NEW c \in CompilerSet, NEW c2, Extended(c2, c), NEW f, NEW w \in BOOLEAN,
         NEW d, NEW a, NEW b, LevelOK(c, f, w, d, a, b)
  PROVE  LevelOK(c2, f, w, d, a, b)
<1>1. /\ c2.scopeDepth = c.scopeDepth /\ Len(c2.locals) = Len(c.locals)
      /\ \A i \in DOMAIN c.locals : c2.locals[i].depth = c.locals[i].depth
  BY DEF Extended
<1>2. CapturedSlots(c) \subseteq CapturedSlots(c2)
  BY ExtendedCaptures
<1>3. Len(c.locals) \in Nat /\ DOMAIN c.locals = 1 .. Len(c.locals)
  BY Fields
<1>4. LocalsOK(c, w) /\ Len(c.locals) \in 1 .. MaxLocals
  BY DEF LevelOK, LocalsOK
<1>5. /\ 1 \in DOMAIN c.locals /\ Len(c.locals) \in DOMAIN c.locals
      /\ \A i \in 1 .. Len(c.locals) - 1 : i \in DOMAIN c.locals
  BY <1>3, <1>4
<1>6. ASSUME NEW n, n = Len(c.locals) \/ n = Len(c.locals) - 1,
             Ordered(c.locals, n, c.scopeDepth)
      PROVE  Ordered(c2.locals, n, c.scopeDepth)
  <2>1. \A i \in 1 .. n : c2.locals[i].depth = c.locals[i].depth
    BY <1>1, <1>3, <1>5, <1>6
  <2> QED BY <1>6, <2>1 DEF Ordered
<1>7. LocalsOK(c2, w)
  BY <1>1, <1>4, <1>5, <1>6 DEF LocalsOK
<1> QED BY <1>1, <1>2, <1>7 DEF LevelOK

-----------------------------------------------------------------------------
(* All compilers, when a construct opens or ends.                            *)
Fits(cs) == \A k \in DOMAIN cs : Len(cs[k].upvalues) <= MaxUpvalues

LevelGood(cs, cl, ns, fs, k) ==
  LevelOK(cs[k], fs[k], Waits(cs, ns, k), Depth(ns, cl, k), Awaited(ns, k), Building(ns, k))

(* What Good says, in parts.                                                 *)
LEMMA GoodParts ==
  ASSUME NEW cs, NEW cl, NEW ns, NEW fs, Good(cs, cl, ns, fs)
  PROVE  /\ Chained(cs) /\ Fits(cs) /\ cs \in Seq(CompilerSet) /\ cs # <<>>
         /\ Len(cs) \in Nat /\ Len(cs) \in 1 .. Len(cs) /\ Last(cs) = cs[Len(cs)]
         /\ DOMAIN cs = 1 .. Len(cs) /\ \A k \in 1 .. Len(cs) : cs[k] \in CompilerSet
         /\ fs \in Seq(FrameSet) /\ Len(fs) = Len(cs) /\ Last(fs) = fs[Len(cs)]
         /\ DOMAIN fs = 1 .. Len(cs) /\ \A k \in 1 .. Len(cs) : fs[k] \in FrameSet
         /\ cl \in Seq(BOOLEAN) /\ Len(cl) = Rank(ns, Len(ns))
         /\ ns \in Seq(NestSet) /\ NestOK(ns, Len(cs))
         /\ \A k \in 1 .. Len(cs) : LevelGood(cs, cl, ns, fs, k)
<1>1. /\ cs \in Seq(CompilerSet) /\ cs # <<>> /\ cl \in Seq(BOOLEAN)
      /\ ns \in Seq(NestSet) /\ fs \in Seq(FrameSet) /\ Len(fs) = Len(cs)
      /\ NestOK(ns, Len(cs)) /\ Len(cl) = Rank(ns, Len(ns))
  BY DEF Good, Typed
<1>2. /\ Len(cs) \in Nat /\ DOMAIN cs = 1 .. Len(cs) /\ Len(cs) \in DOMAIN cs
      /\ Last(cs) = cs[Len(cs)] /\ \A k \in DOMAIN cs : cs[k] \in CompilerSet
  BY <1>1, Elements
<1>3. /\ DOMAIN fs = 1 .. Len(cs) /\ \A k \in DOMAIN fs : fs[k] \in FrameSet
      /\ Last(fs) = fs[Len(cs)]
  <2>1. DOMAIN fs = 1 .. Len(cs) /\ \A k \in DOMAIN fs : fs[k] \in FrameSet
    BY <1>1, Elements
  <2>2. fs # <<>> => Last(fs) = fs[Len(fs)]
    BY <1>1, Elements
  <2>3. (fs = <<>> <=> Len(fs) = 0) /\ (cs = <<>> <=> Len(cs) = 0)
    BY <1>1, Elements
  <2> QED BY <1>1, <2>1, <2>2, <2>3
<1>4. \A k \in DOMAIN cs : UpvaluesOK(cs, k) /\ Len(cs[k].upvalues) <= MaxUpvalues
  BY DEF Good
<1>5. \A k \in DOMAIN cs : LevelGood(cs, cl, ns, fs, k)
  BY DEF Good, LevelGood
<1> QED BY <1>1, <1>2, <1>3, <1>4, <1>5 DEF Chained, Fits

(* And back.                                                                 *)
LEMMA GoodFromParts ==
  ASSUME NEW cs, Chained(cs), Fits(cs), cs # <<>>, NEW cl \in Seq(BOOLEAN),
         NEW ns \in Seq(NestSet), NEW fs \in Seq(FrameSet), Len(fs) = Len(cs),
         NestOK(ns, Len(cs)), Len(cl) = Rank(ns, Len(ns)),
         \A k \in DOMAIN cs : LevelGood(cs, cl, ns, fs, k)
  PROVE  Good(cs, cl, ns, fs)
<1>1. cs \in Seq(CompilerSet) /\ \A k \in DOMAIN cs : UpvaluesOK(cs, k)
  BY DEF Chained
<1>2. \A k \in DOMAIN cs : Len(cs[k].upvalues) <= MaxUpvalues
  BY DEF Fits
<1>3. Typed(cs, cl, ns, fs)
  BY <1>1 DEF Typed
<1>4. \A k \in DOMAIN cs :
        LevelOK(cs[k], fs[k], Waits(cs, ns, k), Depth(ns, cl, k), Awaited(ns, k), Building(ns, k))
  BY DEF LevelGood
<1> QED BY <1>1, <1>2, <1>3, <1>4 DEF Good

(* Only the function being compiled waits, and only after `var'.             *)
LEMMA Waiters ==
  ASSUME NEW cs, NEW ns, NEW k
  PROVE  /\ Waits(cs, ns, k) \in BOOLEAN
         /\ k # Len(cs) \/ Kind(ns) # "var" => Waits(cs, ns, k) = FALSE
         /\ k = Len(cs) /\ Kind(ns) = "var" => Waits(cs, ns, k) = (cs[k].scopeDepth > 0)
BY DEF Waits, Kind

(* A construct that opens adds nothing to the other functions.               *)
LEMMA Others ==
  ASSUME NEW ns \in Seq(NestSet), NEW e \in NestSet, NEW cl \in Seq(BOOLEAN),
         Len(cl) = Rank(ns, Len(ns)), NEW cl2, AddsClass(cl, e, cl2), NEW k, k # e.level
  PROVE  /\ Awaited(Append(ns, e), k) = Awaited(ns, k)
         /\ Building(Append(ns, e), k) = Building(ns, k)
         /\ Depth(Append(ns, e), cl2, k) = Depth(ns, cl, k)
<1>1. /\ Awaited(Append(ns, e), k) = Awaited(ns, k) + 0
      /\ Building(Append(ns, e), k) = Building(ns, k) + 0
      /\ Awaited(ns, k) \in Nat /\ Building(ns, k) \in Nat
  BY CountsPush
<1>2. /\ Depth(Append(ns, e), cl2, k) = Depth(ns, cl, k) + 0
      /\ Depth(ns, cl, k) \in Nat
  BY DepthPush
<1> QED BY <1>1, <1>2

(* A variable is named: nothing opens or ends.                               *)
LEMMA GoodNamed ==
  ASSUME NEW cs, NEW cl, NEW ns, NEW fs, Good(cs, cl, ns, fs),
         NEW cs2, Extends(cs2, cs), Chained(cs2), Fits(cs2)
  PROVE  Good(cs2, cl, ns, fs)
<1>1. /\ cs \in Seq(CompilerSet) /\ cs # <<>> /\ Len(cs) \in Nat
      /\ DOMAIN cs = 1 .. Len(cs) /\ \A k \in 1 .. Len(cs) : cs[k] \in CompilerSet
      /\ fs \in Seq(FrameSet) /\ Len(fs) = Len(cs)
      /\ cl \in Seq(BOOLEAN) /\ Len(cl) = Rank(ns, Len(ns))
      /\ ns \in Seq(NestSet) /\ NestOK(ns, Len(cs))
      /\ \A k \in 1 .. Len(cs) : LevelGood(cs, cl, ns, fs, k)
  BY GoodParts
<1>2. /\ cs2 \in Seq(CompilerSet) /\ Len(cs2) = Len(cs) /\ DOMAIN cs2 = 1 .. Len(cs) /\ cs2 # <<>>
  <2>1. cs2 \in Seq(CompilerSet) /\ Len(cs2) = Len(cs)
    BY DEF Extends
  <2>2. (cs2 = <<>> <=> Len(cs2) = 0) /\ (cs = <<>> <=> Len(cs) = 0) /\ DOMAIN cs2 = 1 .. Len(cs2)
    BY <1>1, <2>1, Elements
  <2> QED BY <1>1, <2>1, <2>2
<1>3. ASSUME NEW k \in 1 .. Len(cs) PROVE LevelGood(cs2, cl, ns, fs, k)
  <2>1. Extended(cs2[k], cs[k]) /\ cs[k] \in CompilerSet
    BY <1>1 DEF Extends
  <2>2. cs2[k].scopeDepth = cs[k].scopeDepth
    BY <2>1 DEF Extended
  <2>3. Waits(cs2, ns, k) = Waits(cs, ns, k)
    BY <1>2, <2>2 DEF Waits
  <2>4. LevelOK(cs[k], fs[k], Waits(cs, ns, k), Depth(ns, cl, k), Awaited(ns, k), Building(ns, k))
    BY <1>1 DEF LevelGood
  <2>5. Waits(cs, ns, k) \in BOOLEAN
    BY Waiters
  <2>6. LevelOK(cs2[k], fs[k], Waits(cs, ns, k), Depth(ns, cl, k), Awaited(ns, k), Building(ns, k))
    BY <2>1, <2>4, <2>5, ExtendedLevel
  <2> QED BY <2>3, <2>6 DEF LevelGood
<1> QED BY <1>1, <1>2, <1>3, GoodFromParts

(* A function that is not being compiled, before or after the step.          *)
LEMMA Below ==
  ASSUME NEW cs, NEW cl, NEW ns, NEW fs, NEW k, LevelGood(cs, cl, ns, fs, k),
         NEW cs2, NEW cl2, NEW ns2, NEW fs2, k # Len(cs), k # Len(cs2),
         cs[k] \in CompilerSet, Extended(cs2[k], cs[k]), fs2[k] = fs[k],
         Awaited(ns2, k) = Awaited(ns, k), Building(ns2, k) = Building(ns, k),
         Depth(ns2, cl2, k) = Depth(ns, cl, k)
  PROVE  LevelGood(cs2, cl2, ns2, fs2, k)
<1>1. /\ Waits(cs, ns, k) = FALSE /\ Waits(cs2, ns2, k) = FALSE
      /\ Waits(cs, ns, k) \in BOOLEAN
  BY Waiters
<1>2. LevelOK(cs[k], fs[k], Waits(cs, ns, k), Depth(ns, cl, k), Awaited(ns, k), Building(ns, k))
  BY DEF LevelGood
<1>3. LevelOK(cs2[k], fs[k], Waits(cs, ns, k), Depth(ns, cl, k), Awaited(ns, k), Building(ns, k))
  BY <1>1, <1>2, ExtendedLevel
<1> QED BY <1>1, <1>3 DEF LevelGood

(* The kinds that stay in their function.                                    *)
Adds(e, kind) == IF e.kind = kind THEN 1 ELSE 0
Deepens(e, cl) == IF Scoped(e, cl) THEN 1 ELSE 0

(* The functions around the innermost one stay as they are.                  *)
Stay(cs2, fs2, cs, fs) ==
  \A k \in 1 .. Len(cs) - 1 : Extended(cs2[k], cs[k]) /\ fs2[k] = fs[k]

(* A block, a declaration or a class opens.                                  *)
LEMMA GoodPush ==
  ASSUME NEW cs, NEW cl, NEW ns, NEW fs, Good(cs, cl, ns, fs),
         Kind(ns) # "var", Kind(ns) # "class",
         NEW e \in NestSet, e.level = Len(cs), e.kind \in {"block", "var", "class"},
         NEW cl2, AddsClass(cl, e, cl2),
         NEW cs2, Chained(cs2), Fits(cs2), Len(cs2) = Len(cs),
         NEW fs2 \in Seq(FrameSet), Len(fs2) = Len(cs),
         Stay(cs2, fs2, cs, fs),
         NEW w \in BOOLEAN, w <=> e.kind = "var" /\ cs2[Len(cs)].scopeDepth > 0,
         LevelOK(cs2[Len(cs)], fs2[Len(cs)], w, Depth(ns, cl, Len(cs)) + Deepens(e, cl2),
                 Adds(e, "var"), Adds(e, "class"))
  PROVE  Good(cs2, cl2, Append(ns, e), fs2)
<1> DEFINE L == Len(cs)
           r == Append(ns, e)
<1>1. /\ cs \in Seq(CompilerSet) /\ L \in Nat /\ L \in 1 .. L
      /\ \A k \in 1 .. L : cs[k] \in CompilerSet
      /\ cl \in Seq(BOOLEAN) /\ Len(cl) = Rank(ns, Len(ns))
      /\ ns \in Seq(NestSet) /\ NestOK(ns, L)
      /\ \A k \in 1 .. L : LevelGood(cs, cl, ns, fs, k)
  BY GoodParts
<1>2. cs2 \in Seq(CompilerSet) /\ cs2 # <<>> /\ DOMAIN cs2 = 1 .. L
  <2>1. cs2 \in Seq(CompilerSet)
    BY DEF Chained
  <2>2. (cs2 = <<>> <=> Len(cs2) = 0) /\ DOMAIN cs2 = 1 .. Len(cs2)
    BY <2>1, Elements
  <2> QED BY <1>1, <2>1, <2>2
<1>3. /\ r \in Seq(NestSet) /\ Len(r) = Len(ns) + 1 /\ r # <<>> /\ r[Len(r)] = e
  BY <1>1, Appended
<1>4. NestOK(r, L)
  <2>1. Inside(e) = L
    BY DEF Inside
  <2>2. NestOK(r, Inside(e))
    BY <1>1, NestPush
  <2> QED BY <2>1, <2>2
<1>5. /\ cl2 \in Seq(BOOLEAN) /\ Len(cl2) = Rank(r, Len(r))
      /\ Depth(r, cl2, L) = Depth(ns, cl, L) + Deepens(e, cl2)
  <2>1. /\ cl2 \in Seq(BOOLEAN) /\ Len(cl2) = Rank(r, Len(ns) + 1)
        /\ Depth(r, cl2, L)
             = Depth(ns, cl, L) + (IF e.level = L /\ Scoped(e, cl2) THEN 1 ELSE 0)
    BY <1>1, DepthPush
  <2> QED BY <1>3, <2>1 DEF Deepens
<1>6. Awaited(r, L) = Adds(e, "var") /\ Building(r, L) = Adds(e, "class")
  <2>1. Awaited(ns, L) = 0 /\ Building(ns, L) = 0
    BY <1>1, CountsTop
  <2>2. /\ Awaited(r, L)
              = Awaited(ns, L) + (IF e.kind \in {"var", "fun"} /\ e.level = L THEN 1 ELSE 0)
        /\ Building(r, L)
              = Building(ns, L) + (IF e.kind = "class" /\ e.level = L THEN 1 ELSE 0)
    BY <1>1, CountsPush
  <2>3. e.kind \in {"var", "fun"} <=> e.kind = "var"
    OBVIOUS
  <2> QED BY <2>1, <2>2, <2>3 DEF Adds
<1>7. Waits(cs2, r, L) = w
  <2>1. Waits(cs2, r, L) <=> e.kind = "var" /\ cs2[L].scopeDepth > 0
    BY <1>3 DEF Waits
  <2>2. Waits(cs2, r, L) \in BOOLEAN
    BY Waiters
  <2> QED BY <2>1, <2>2
<1>8. LevelGood(cs2, cl2, r, fs2, L)
  BY <1>5, <1>6, <1>7 DEF LevelGood
<1>9. ASSUME NEW k \in 1 .. L - 1 PROVE LevelGood(cs2, cl2, r, fs2, k)
  <2>1. k \in 1 .. L /\ k # L /\ k # e.level /\ k # Len(cs2)
    BY <1>1
  <2>2. /\ Awaited(r, k) = Awaited(ns, k) /\ Building(r, k) = Building(ns, k)
        /\ Depth(r, cl2, k) = Depth(ns, cl, k)
    BY <1>1, <2>1, Others
  <2>3. /\ LevelGood(cs, cl, ns, fs, k) /\ cs[k] \in CompilerSet
        /\ Extended(cs2[k], cs[k]) /\ fs2[k] = fs[k]
    BY <1>1, <2>1 DEF Stay
  <2> HIDE DEF r
  <2> QED BY <2>1, <2>2, <2>3, Below
<1>10. \A k \in DOMAIN cs2 : LevelGood(cs2, cl2, r, fs2, k)
  <2>1. \A k \in 1 .. L : k \in 1 .. L - 1 \/ k = L
    BY <1>1
  <2> QED BY <1>2, <1>8, <1>9, <2>1
<1> HIDE DEF r
<1>11. Good(cs2, cl2, r, fs2)
  BY <1>2, <1>3, <1>4, <1>5, <1>10, GoodFromParts
<1> QED BY <1>11 DEF r

(* A function opens: the declaration around it, and the function itself.     *)
LEMMA GoodEnter ==
  ASSUME NEW cs, NEW cl, NEW ns, NEW fs, Good(cs, cl, ns, fs), Kind(ns) # "var",
         NEW e \in NestSet, e.level = Len(cs), e.kind \in {"fun", "method"},
         Kind(ns) = "class" => e.kind = "method",
         NEW cs2, Chained(cs2), Fits(cs2), Len(cs2) = Len(cs),
         Stay(cs2, fs, cs, fs),
         LevelOK(cs2[Len(cs)], fs[Len(cs)], FALSE, Depth(ns, cl, Len(cs)),
                 Adds(e, "fun"), Building(ns, Len(cs))),
         NEW n \in Nat, NEW c, Taking(c, n),
         NEW f \in FrameSet, f.height = n + 1, f.open = {}
  PROVE  Good(Append(cs2, c), cl, Append(ns, e), Append(fs, f))
<1> DEFINE L == Len(cs)
           r == Append(ns, e)
           cs3 == Append(cs2, c)
           fs3 == Append(fs, f)
<1>1. /\ cs \in Seq(CompilerSet) /\ L \in Nat /\ L \in 1 .. L
      /\ \A k \in 1 .. L : cs[k] \in CompilerSet
      /\ cl \in Seq(BOOLEAN) /\ Len(cl) = Rank(ns, Len(ns))
      /\ ns \in Seq(NestSet) /\ NestOK(ns, L)
      /\ fs \in Seq(FrameSet) /\ Len(fs) = L /\ DOMAIN fs = 1 .. L
      /\ \A k \in 1 .. L : LevelGood(cs, cl, ns, fs, k)
  BY GoodParts
<1>2. cs2 \in Seq(CompilerSet) /\ DOMAIN cs2 = 1 .. L /\ Len(cs2) = L
  <2>1. cs2 \in Seq(CompilerSet)
    BY DEF Chained
  <2>2. DOMAIN cs2 = 1 .. Len(cs2)
    BY <2>1, Elements
  <2> QED BY <2>1, <2>2
<1>3. /\ c \in CompilerSet /\ c.scopeDepth = 1 /\ c.upvalues = <<>> /\ Len(c.locals) = n + 1
      /\ LocalsOK(c, FALSE)
  BY DEF Taking
<1>4. /\ r \in Seq(NestSet) /\ Len(r) = Len(ns) + 1 /\ r # <<>> /\ r[Len(r)] = e
  BY <1>1, Appended
<1>5. /\ cs3 \in Seq(CompilerSet) /\ Len(cs3) = L + 1 /\ DOMAIN cs3 = 1 .. L + 1 /\ cs3 # <<>>
      /\ cs3[L + 1] = c /\ \A k \in 1 .. L : cs3[k] = cs2[k]
  BY <1>2, <1>3, Appended
<1>6. /\ fs3 \in Seq(FrameSet) /\ Len(fs3) = L + 1
      /\ fs3[L + 1] = f /\ \A k \in 1 .. L : fs3[k] = fs[k]
  BY <1>1, Appended
<1>7. NestOK(r, L + 1)
  <2>1. Inside(e) = L + 1
    BY DEF Inside
  <2>2. NestOK(r, Inside(e))
    BY <1>1, NestPush
  <2> QED BY <2>1, <2>2
<1>8. AddsClass(cl, e, cl) /\ ~ Scoped(e, cl) /\ e.kind # "class"
  BY DEF AddsClass, Scoped
<1>9. /\ Len(cl) = Rank(r, Len(r)) /\ Depth(r, cl, L) = Depth(ns, cl, L) + 0
      /\ Depth(ns, cl, L) \in Nat
  <2>1. /\ Len(cl) = Rank(r, Len(ns) + 1) /\ Depth(ns, cl, L) \in Nat
        /\ Depth(r, cl, L)
             = Depth(ns, cl, L) + (IF e.level = L /\ Scoped(e, cl) THEN 1 ELSE 0)
    BY <1>1, <1>8, DepthPush
  <2> QED BY <1>4, <1>8, <2>1
<1>10. Awaited(r, L) = Adds(e, "fun") /\ Building(r, L) = Building(ns, L)
  <2>1. Awaited(ns, L) = 0
    BY <1>1, CountsTop
  <2>2. /\ Awaited(r, L)
              = Awaited(ns, L) + (IF e.kind \in {"var", "fun"} /\ e.level = L THEN 1 ELSE 0)
        /\ Building(r, L)
              = Building(ns, L) + (IF e.kind = "class" /\ e.level = L THEN 1 ELSE 0)
        /\ Building(ns, L) \in Nat
    BY <1>1, CountsPush
  <2>3. e.kind \in {"var", "fun"} <=> e.kind = "fun"
    OBVIOUS
  <2>4. Awaited(r, L) = Adds(e, "fun")
    BY <2>1, <2>2, <2>3 DEF Adds
  <2>5. Building(r, L) = Building(ns, L)
    BY <1>8, <2>2
  <2> QED BY <2>4, <2>5
<1>11. Awaited(r, L + 1) = 0 /\ Building(r, L + 1) = 0 /\ Depth(r, cl, L + 1) = 1
  <2>1. Awaited(ns, L + 1) = 0 /\ Building(ns, L + 1) = 0 /\ Depth(ns, cl, L + 1) = 1
    BY <1>1, CountsTop
  <2>2. L + 1 # e.level
    BY <1>1
  <2>3. /\ Awaited(r, L + 1) = Awaited(ns, L + 1) /\ Building(r, L + 1) = Building(ns, L + 1)
        /\ Depth(r, cl, L + 1) = Depth(ns, cl, L + 1)
    BY <1>1, <1>8, <2>2, Others
  <2> QED BY <2>1, <2>3
<1>12. Kind(r) = e.kind
  BY <1>4 DEF Kind
<1> HIDE DEF r, cs3, fs3
<1>13. LevelGood(cs3, cl, r, fs3, L + 1)
  <2>1. Waits(cs3, r, L + 1) = FALSE
    BY <1>12, Waiters
  <2>2. f.open \subseteq CapturedSlots(c) /\ f.open \subseteq 0 .. f.height - 1
    OBVIOUS
  <2>3. f.height = Len(c.locals) - (IF c.scopeDepth > 0 THEN 0 ELSE 0) + 0
    BY <1>3
  <2>4. LevelOK(c, f, FALSE, 1, 0, 0)
    BY <1>3, <2>2, <2>3 DEF LevelOK
  <2> QED BY <1>5, <1>6, <1>11, <2>1, <2>4 DEF LevelGood
<1>14. LevelGood(cs3, cl, r, fs3, L)
  <2>1. L # Len(cs3) /\ L \in 1 .. L
    BY <1>1, <1>5
  <2>2. Waits(cs3, r, L) = FALSE
    BY <2>1, Waiters
  <2>3. cs3[L] = cs2[L] /\ fs3[L] = fs[L] /\ Depth(r, cl, L) = Depth(ns, cl, L)
    BY <1>5, <1>6, <1>9, <2>1
  <2> QED BY <1>10, <2>2, <2>3 DEF LevelGood
<1>15. ASSUME NEW k \in 1 .. L - 1 PROVE LevelGood(cs3, cl, r, fs3, k)
  <2>1. k \in 1 .. L /\ k # L /\ k # e.level /\ k # Len(cs3)
    BY <1>1, <1>5
  <2>2. /\ Awaited(r, k) = Awaited(ns, k) /\ Building(r, k) = Building(ns, k)
        /\ Depth(r, cl, k) = Depth(ns, cl, k)
    BY <1>1, <1>8, <2>1, Others DEF r
  <2>3. /\ LevelGood(cs, cl, ns, fs, k) /\ cs[k] \in CompilerSet
        /\ Extended(cs3[k], cs[k]) /\ fs3[k] = fs[k]
    BY <1>1, <1>5, <1>6, <2>1 DEF Stay
  <2> QED BY <2>1, <2>2, <2>3, Below
<1>16. \A k \in DOMAIN cs3 : LevelGood(cs3, cl, r, fs3, k)
  <2>1. \A k \in 1 .. L + 1 : k \in 1 .. L - 1 \/ k = L \/ k = L + 1
    BY <1>1
  <2> QED BY <1>5, <1>13, <1>14, <1>15, <2>1
<1>17. Fits(cs3) /\ Chained(cs3)
  <2>1. \A k \in 1 .. L + 1 : k \in 1 .. L \/ k = L + 1
    BY <1>1
  <2>2. 0 <= MaxUpvalues /\ Len(c.upvalues) = 0
    <3>1. MaxUpvalues \in Nat
      BY CompilerAssumption
    <3>2. Len(c.upvalues) = 0
      BY <1>3
    <3> QED BY <3>1, <3>2
  <2>3. Fits(cs3)
    BY <1>2, <1>5, <2>1, <2>2 DEF Fits
  <2>4. UpvaluesOK(cs3, L + 1)
    <3>1. L + 1 # 1 /\ DOMAIN cs3[L + 1].upvalues = {}
      BY <1>1, <1>3, <1>5
    <3> QED BY <3>1 DEF UpvaluesOK
  <2>5. ASSUME NEW k \in 1 .. L PROVE UpvaluesOK(cs3, k)
    <3>1. UpvaluesOK(cs2, k) /\ cs3[k] = cs2[k]
      BY <1>2, <1>5 DEF Chained
    <3>2. k # 1 => cs3[k - 1] = cs2[k - 1]
      <4>1. k # 1 => k - 1 \in 1 .. L
        BY <1>1
      <4> QED BY <1>5, <4>1
    <3>3. k = 1 => DOMAIN cs2[k].upvalues = {}
      BY <3>1 DEF UpvaluesOK
    <3> QED BY <3>1, <3>2, <3>3 DEF UpvaluesOK
  <2> QED BY <1>5, <2>1, <2>3, <2>4, <2>5 DEF Chained
<1>18. Good(cs3, cl, r, fs3)
  BY <1>1, <1>4, <1>5, <1>6, <1>7, <1>9, <1>16, <1>17, GoodFromParts
<1> QED BY <1>18 DEF r, cs3, fs3

(* What counts before a construct ends.                                      *)
LEMMA Ends ==
  ASSUME NEW cs, NEW cl, NEW ns, NEW fs, Good(cs, cl, ns, fs), ns # <<>>,
         NEW cl2, AddsClass(cl2, Last(ns), cl), cl2 \in Seq(BOOLEAN),
         Len(cl2) = Rank(Front(ns), Len(Front(ns)))
  PROVE  /\ Last(ns) \in NestSet /\ Front(ns) \in Seq(NestSet)
         /\ NestOK(Front(ns), Last(ns).level) /\ Len(cs) = Inside(Last(ns))
         /\ Kind(Front(ns)) # "var" /\ (Kind(Front(ns)) = "class" => Last(ns).kind = "method")
         /\ \A k : /\ Awaited(ns, k)
                        = Awaited(Front(ns), k)
                            + (IF Last(ns).kind \in {"var", "fun"} /\ Last(ns).level = k
                               THEN 1 ELSE 0)
                   /\ Building(ns, k)
                        = Building(Front(ns), k)
                            + (IF Last(ns).kind = "class" /\ Last(ns).level = k THEN 1 ELSE 0)
                   /\ Depth(ns, cl, k)
                        = Depth(Front(ns), cl2, k)
                            + (IF Last(ns).level = k /\ Scoped(Last(ns), cl) THEN 1 ELSE 0)
<1> DEFINE r == Front(ns)
           e == Last(ns)
<1>1. ns \in Seq(NestSet) /\ NestOK(ns, Len(cs))
  BY GoodParts
<1>2. /\ r \in Seq(NestSet) /\ Len(r) = Len(ns) - 1 /\ e \in NestSet /\ e = ns[Len(ns)]
      /\ DOMAIN r = 1 .. Len(ns) - 1 /\ ns = Append(r, e)
      /\ \A k \in DOMAIN r : k \in DOMAIN ns /\ k < Len(ns) /\ r[k] = ns[k]
  BY <1>1, WithoutLast
<1>3. NestOK(r, e.level) /\ Len(cs) = Inside(e)
  BY <1>1, NestPop
<1>4. /\ Len(ns) \in Nat /\ DOMAIN ns = 1 .. Len(ns) /\ Len(ns) \in DOMAIN ns
      /\ (r = <<>> <=> Len(r) = 0)
  <2>1. r = <<>> <=> Len(r) = 0
    BY <1>2, Elements
  <2> QED BY <1>1, <2>1, Elements
<1>5. r = Front(ns) /\ e = Last(ns)
  OBVIOUS
<1> HIDE DEF r, e
<1>6. Kind(r) # "var" /\ (Kind(r) = "class" => e.kind = "method")
  <2>1. CASE r = <<>>
    BY <2>1 DEF Kind
  <2>2. CASE r # <<>>
    <3>1. Len(r) \in DOMAIN ns /\ Len(r) + 1 = Len(ns) /\ Len(r) \in DOMAIN r
      BY <1>2, <1>4, <2>2
    <3>2. ns[Len(r)].kind # "var" /\ (ns[Len(r)].kind = "class" => ns[Len(r) + 1].kind = "method")
      BY <1>1, <1>4, <3>1 DEF NestOK
    <3>3. Kind(r) = ns[Len(r)].kind
      BY <1>2, <2>2, <3>1 DEF Kind
    <3> QED BY <1>2, <3>1, <3>2, <3>3
  <2> QED BY <2>1, <2>2
<1>7. ASSUME NEW k
      PROVE  /\ Awaited(ns, k)
                  = Awaited(r, k) + (IF e.kind \in {"var", "fun"} /\ e.level = k THEN 1 ELSE 0)
             /\ Building(ns, k)
                  = Building(r, k) + (IF e.kind = "class" /\ e.level = k THEN 1 ELSE 0)
             /\ Depth(ns, cl, k)
                  = Depth(r, cl2, k) + (IF e.level = k /\ Scoped(e, cl) THEN 1 ELSE 0)
  <2>1. /\ Awaited(Append(r, e), k)
             = Awaited(r, k) + (IF e.kind \in {"var", "fun"} /\ e.level = k THEN 1 ELSE 0)
        /\ Building(Append(r, e), k)
             = Building(r, k) + (IF e.kind = "class" /\ e.level = k THEN 1 ELSE 0)
    BY <1>2, CountsPush
  <2>2. /\ Len(cl2) = Rank(r, Len(r)) /\ AddsClass(cl2, e, cl)
    BY <1>5
  <2>3. Depth(Append(r, e), cl, k)
          = Depth(r, cl2, k) + (IF e.level = k /\ Scoped(e, cl) THEN 1 ELSE 0)
    BY <1>2, <2>2, DepthPush
  <2>4. ns = Append(r, e)
    BY <1>2
  <2> QED BY <2>1, <2>3, <2>4
<1> QED BY <1>2, <1>3, <1>5, <1>6, <1>7

(* The classes under construction around the innermost construct.            *)
ClassesAround(ns, cl) == IF Kind(ns) = "class" THEN Front(cl) ELSE cl

(* They are as many as the classes around it.                                *)
LEMMA ClassesPopped ==
  ASSUME NEW cs, NEW cl, NEW ns, NEW fs, Good(cs, cl, ns, fs), ns # <<>>
  PROVE  /\ ClassesAround(ns, cl) \in Seq(BOOLEAN)
         /\ AddsClass(ClassesAround(ns, cl), Last(ns), cl)
         /\ Len(ClassesAround(ns, cl)) = Rank(Front(ns), Len(Front(ns)))
<1> DEFINE r == Front(ns)
           e == Last(ns)
<1>1. ns \in Seq(NestSet) /\ cl \in Seq(BOOLEAN) /\ Len(cl) = Rank(ns, Len(ns))
  BY GoodParts
<1>2. /\ r \in Seq(NestSet) /\ Len(r) = Len(ns) - 1 /\ e \in NestSet /\ e = ns[Len(ns)]
      /\ ns = Append(r, e) /\ Len(ns) \in Nat
  BY <1>1, WithoutLast, Elements
<1>3. r = Front(ns) /\ e = Last(ns) /\ Kind(ns) = e.kind
  BY <1>2 DEF Kind
<1> HIDE DEF r, e
<1>4. /\ Rank(ns, Len(ns)) = Rank(r, Len(r)) + (IF e.kind = "class" THEN 1 ELSE 0)
      /\ Rank(r, Len(r)) \in Nat
  <2>1. /\ Rank(Append(r, e), Len(r) + 1) = Rank(r, Len(r)) + (IF e.kind = "class" THEN 1 ELSE 0)
        /\ Rank(r, Len(r)) \in Nat
    BY <1>2, RankPush
  <2>2. Append(r, e) = ns /\ Len(r) + 1 = Len(ns)
    BY <1>2
  <2> QED BY <2>1, <2>2
<1>5. CASE e.kind = "class"
  <2>1. Len(cl) # 0 /\ cl # <<>>
    BY <1>1, <1>4, <1>5
  <2>2. /\ Front(cl) \in Seq(BOOLEAN) /\ Len(Front(cl)) = Len(cl) - 1
        /\ Last(cl) \in BOOLEAN /\ cl = Append(Front(cl), Last(cl))
    BY <1>1, <2>1, WithoutLast
  <2>3. AddsClass(Front(cl), e, cl)
    BY <1>5, <2>2 DEF AddsClass
  <2>4. Len(Front(cl)) = Rank(r, Len(r))
    BY <1>1, <1>4, <1>5, <2>2
  <2>5. ClassesAround(ns, cl) = Front(cl)
    BY <1>3, <1>5 DEF ClassesAround
  <2> QED BY <1>3, <2>2, <2>3, <2>4, <2>5
<1>6. CASE e.kind # "class"
  <2>1. AddsClass(cl, e, cl)
    BY <1>6 DEF AddsClass
  <2>2. Len(cl) = Rank(r, Len(r))
    BY <1>1, <1>4, <1>6
  <2>3. ClassesAround(ns, cl) = cl
    BY <1>3, <1>6 DEF ClassesAround
  <2> QED BY <1>1, <1>3, <2>1, <2>2, <2>3
<1> QED BY <1>5, <1>6

(* The function being compiled, where statements may stand.                  *)
LEMMA TopOpen ==
  ASSUME NEW cs, NEW cl, NEW ns, NEW fs, Good(cs, cl, ns, fs),
         Kind(ns) # "var", Kind(ns) # "class"
  PROVE  LevelOK(cs[Len(cs)], fs[Len(cs)], FALSE, Depth(ns, cl, Len(cs)), 0, 0)
<1>1. /\ ns \in Seq(NestSet) /\ NestOK(ns, Len(cs)) /\ LevelGood(cs, cl, ns, fs, Len(cs))
  BY GoodParts
<1>2. Awaited(ns, Len(cs)) = 0 /\ Building(ns, Len(cs)) = 0
  BY <1>1, CountsTop
<1>3. Waits(cs, ns, Len(cs)) = FALSE
  BY Waiters
<1> QED BY <1>1, <1>2, <1>3 DEF LevelGood

(* The same, before a construct of its own ends.                             *)
LEMMA TopEnds ==
  ASSUME NEW cs, NEW cl, NEW ns, NEW fs, Good(cs, cl, ns, fs), ns # <<>>,
         Last(ns).kind \in {"block", "var", "class"}
  PROVE  /\ LevelOK(cs[Len(cs)], fs[Len(cs)],
                    Last(ns).kind = "var" /\ cs[Len(cs)].scopeDepth > 0,
                    Depth(Front(ns), ClassesAround(ns, cl), Len(cs)) + Deepens(Last(ns), cl),
                    Adds(Last(ns), "var"), Adds(Last(ns), "class"))
         /\ Awaited(Front(ns), Len(cs)) = 0 /\ Building(Front(ns), Len(cs)) = 0
         /\ Depth(Front(ns), ClassesAround(ns, cl), Len(cs)) \in Nat
<1> DEFINE L == Len(cs)
           r == Front(ns)
           e == Last(ns)
           cl2 == ClassesAround(ns, cl)
<1>1. ns \in Seq(NestSet) /\ LevelGood(cs, cl, ns, fs, L)
  BY GoodParts
<1>2. /\ cl2 \in Seq(BOOLEAN) /\ AddsClass(cl2, e, cl) /\ Len(cl2) = Rank(r, Len(r))
  BY ClassesPopped
<1>3. Kind(ns) = e.kind
  BY <1>1, WithoutLast DEF Kind
<1>4. r = Front(ns) /\ e = Last(ns) /\ cl2 = ClassesAround(ns, cl) /\ L = Len(cs)
  OBVIOUS
<1> HIDE DEF r, e, cl2
<1>5. /\ e \in NestSet /\ r \in Seq(NestSet) /\ NestOK(r, e.level) /\ L = Inside(e)
      /\ Kind(r) # "var" /\ (Kind(r) = "class" => e.kind = "method")
      /\ \A k : /\ Awaited(ns, k)
                     = Awaited(r, k) + (IF e.kind \in {"var", "fun"} /\ e.level = k THEN 1 ELSE 0)
                /\ Building(ns, k)
                     = Building(r, k) + (IF e.kind = "class" /\ e.level = k THEN 1 ELSE 0)
                /\ Depth(ns, cl, k)
                     = Depth(r, cl2, k) + (IF e.level = k /\ Scoped(e, cl) THEN 1 ELSE 0)
  BY <1>2, <1>4, Ends
<1>6. e.level = L /\ Kind(r) # "class"
  BY <1>4, <1>5 DEF Inside
<1>7. Awaited(r, L) = 0 /\ Building(r, L) = 0 /\ Depth(r, cl2, L) \in Nat
  <2>1. NestOK(r, L)
    BY <1>5, <1>6
  <2> QED BY <1>5, <1>6, <2>1, CountsTop
<1>8. /\ Awaited(ns, L) = Adds(e, "var") /\ Building(ns, L) = Adds(e, "class")
      /\ Depth(ns, cl, L) = Depth(r, cl2, L) + Deepens(e, cl)
  <2>1. e.kind \in {"var", "fun"} <=> e.kind = "var"
    BY <1>4
  <2>2. Awaited(ns, L) = Adds(e, "var")
    BY <1>5, <1>6, <1>7, <2>1 DEF Adds
  <2>3. Building(ns, L) = Adds(e, "class")
    BY <1>5, <1>6, <1>7 DEF Adds
  <2>4. Depth(ns, cl, L) = Depth(r, cl2, L) + Deepens(e, cl)
    BY <1>5, <1>6 DEF Deepens
  <2> QED BY <2>2, <2>3, <2>4
<1>9. Waits(cs, ns, L) = (e.kind = "var" /\ cs[L].scopeDepth > 0)
  <2>1. Waits(cs, ns, L) <=> e.kind = "var" /\ cs[L].scopeDepth > 0
    BY <1>3, <1>4 DEF Waits, Kind
  <2>2. Waits(cs, ns, L) \in BOOLEAN
    BY Waiters
  <2> QED BY <2>1, <2>2
<1>10. LevelOK(cs[L], fs[L], e.kind = "var" /\ cs[L].scopeDepth > 0,
               Depth(r, cl2, L) + Deepens(e, cl), Adds(e, "var"), Adds(e, "class"))
  BY <1>1, <1>8, <1>9 DEF LevelGood
<1> QED BY <1>4, <1>7, <1>10

(* A block, a declaration or a class ends.                                   *)
LEMMA GoodPop ==
  ASSUME NEW cs, NEW cl, NEW ns, NEW fs, Good(cs, cl, ns, fs), ns # <<>>,
         Last(ns).kind \in {"block", "var", "class"},
         NEW cs2, Chained(cs2), Fits(cs2), Len(cs2) = Len(cs),
         NEW fs2 \in Seq(FrameSet), Len(fs2) = Len(cs),
         Stay(cs2, fs2, cs, fs),
         LevelOK(cs2[Len(cs)], fs2[Len(cs)], FALSE,
                 Depth(Front(ns), ClassesAround(ns, cl), Len(cs)), 0, 0)
  PROVE  Good(cs2, ClassesAround(ns, cl), Front(ns), fs2)
<1> DEFINE L == Len(cs)
           r == Front(ns)
           e == Last(ns)
           cl2 == ClassesAround(ns, cl)
<1>1. /\ cs \in Seq(CompilerSet) /\ L \in Nat /\ L \in 1 .. L
      /\ \A k \in 1 .. L : cs[k] \in CompilerSet /\ LevelGood(cs, cl, ns, fs, k)
  BY GoodParts
<1>2. /\ cl2 \in Seq(BOOLEAN) /\ AddsClass(cl2, e, cl) /\ Len(cl2) = Rank(r, Len(r))
  BY ClassesPopped
<1>3. cs2 \in Seq(CompilerSet) /\ cs2 # <<>> /\ DOMAIN cs2 = 1 .. L
  <2>1. cs2 \in Seq(CompilerSet)
    BY DEF Chained
  <2>2. (cs2 = <<>> <=> Len(cs2) = 0) /\ DOMAIN cs2 = 1 .. Len(cs2)
    BY <2>1, Elements
  <2> QED BY <1>1, <2>1, <2>2
<1>4. r = Front(ns) /\ e = Last(ns) /\ cl2 = ClassesAround(ns, cl) /\ L = Len(cs)
  OBVIOUS
<1> HIDE DEF r, e, cl2
<1>5. /\ e \in NestSet /\ r \in Seq(NestSet) /\ NestOK(r, e.level) /\ L = Inside(e)
      /\ Kind(r) # "var"
      /\ \A k : /\ Awaited(ns, k)
                     = Awaited(r, k) + (IF e.kind \in {"var", "fun"} /\ e.level = k THEN 1 ELSE 0)
                /\ Building(ns, k)
                     = Building(r, k) + (IF e.kind = "class" /\ e.level = k THEN 1 ELSE 0)
                /\ Depth(ns, cl, k)
                     = Depth(r, cl2, k) + (IF e.level = k /\ Scoped(e, cl) THEN 1 ELSE 0)
  BY <1>2, <1>4, Ends
<1>6. e.level = L
  BY <1>4, <1>5 DEF Inside
<1>7. NestOK(r, L)
  BY <1>5, <1>6
<1>8. Awaited(r, L) = 0 /\ Building(r, L) = 0
  BY <1>4, TopEnds
<1>9. Waits(cs2, r, L) = FALSE
  BY <1>5, Waiters
<1>10. LevelGood(cs2, cl2, r, fs2, L)
  BY <1>4, <1>8, <1>9 DEF LevelGood
<1>11. \A k : /\ Awaited(r, k) \in Nat /\ Building(r, k) \in Nat /\ Depth(r, cl2, k) \in Nat
  BY <1>5, <1>7, CountsTop
<1>12. ASSUME NEW k \in 1 .. L - 1 PROVE LevelGood(cs2, cl2, r, fs2, k)
  <2>1. k \in 1 .. L /\ k # L /\ e.level # k /\ k # Len(cs2)
    BY <1>1, <1>6
  <2>2. /\ Awaited(ns, k) = Awaited(r, k) /\ Building(ns, k) = Building(r, k)
        /\ Depth(ns, cl, k) = Depth(r, cl2, k)
    BY <1>5, <1>11, <2>1
  <2>3. /\ LevelGood(cs, cl, ns, fs, k) /\ cs[k] \in CompilerSet
        /\ Extended(cs2[k], cs[k]) /\ fs2[k] = fs[k]
    BY <1>1, <2>1 DEF Stay
  <2> QED BY <2>1, <2>2, <2>3, Below
<1>13. \A k \in DOMAIN cs2 : LevelGood(cs2, cl2, r, fs2, k)
  <2>1. \A k \in 1 .. L : k \in 1 .. L - 1 \/ k = L
    BY <1>1
  <2> QED BY <1>3, <1>10, <1>12, <2>1
<1>14. Good(cs2, cl2, r, fs2)
  BY <1>2, <1>3, <1>5, <1>7, <1>13, GoodFromParts
<1> QED BY <1>4, <1>14

(* The function around, before the innermost one ends.                       *)
LEMMA AroundEnds ==
  ASSUME NEW cs, NEW cl, NEW ns, NEW fs, Good(cs, cl, ns, fs), ns # <<>>,
         Last(ns).kind \in {"fun", "method"}
  PROVE  /\ Len(cs) - 1 \in 1 .. Len(cs) - 1 /\ Last(ns).level = Len(cs) - 1
         /\ LevelOK(cs[Len(cs) - 1], fs[Len(cs) - 1], FALSE,
                    Depth(Front(ns), cl, Len(cs) - 1), Adds(Last(ns), "fun"),
                    Building(Front(ns), Len(cs) - 1))
         /\ Awaited(Front(ns), Len(cs) - 1) = 0 /\ Building(Front(ns), Len(cs) - 1) \in Nat
<1> DEFINE L == Len(cs)
           r == Front(ns)
           e == Last(ns)
<1>1. /\ ns \in Seq(NestSet) /\ L \in Nat /\ \A k \in 1 .. L : LevelGood(cs, cl, ns, fs, k)
  BY GoodParts
<1>2. ClassesAround(ns, cl) = cl
  <2>1. Kind(ns) = e.kind
    BY <1>1, WithoutLast DEF Kind
  <2> QED BY <2>1 DEF ClassesAround
<1>3. /\ cl \in Seq(BOOLEAN) /\ AddsClass(cl, e, cl) /\ Len(cl) = Rank(r, Len(r))
  BY <1>2, ClassesPopped
<1>4. r = Front(ns) /\ e = Last(ns) /\ L = Len(cs)
  OBVIOUS
<1> HIDE DEF r, e
<1>5. /\ e \in NestSet /\ r \in Seq(NestSet) /\ NestOK(r, e.level) /\ L = Inside(e)
      /\ Kind(r) # "var"
      /\ \A k : /\ Awaited(ns, k)
                     = Awaited(r, k) + (IF e.kind \in {"var", "fun"} /\ e.level = k THEN 1 ELSE 0)
                /\ Building(ns, k)
                     = Building(r, k) + (IF e.kind = "class" /\ e.level = k THEN 1 ELSE 0)
                /\ Depth(ns, cl, k)
                     = Depth(r, cl, k) + (IF e.level = k /\ Scoped(e, cl) THEN 1 ELSE 0)
  BY <1>3, <1>4, Ends
<1>6. L = e.level + 1 /\ e.level \in Nat \ {0}
  <2>1. L = e.level + 1
    BY <1>4, <1>5 DEF Inside
  <2>2. e.level \in Nat \ {0}
    BY <1>5, NestTop
  <2> QED BY <2>1, <2>2
<1>7. e.level = L - 1 /\ L - 1 \in 1 .. L /\ L - 1 # L /\ L - 1 \in 1 .. L - 1
  BY <1>1, <1>6
<1>8. /\ Awaited(r, L - 1) = 0
      /\ \A k : /\ Awaited(r, k) \in Nat /\ Building(r, k) \in Nat /\ Depth(r, cl, k) \in Nat
  <2>1. NestOK(r, L - 1)
    BY <1>5, <1>7
  <2> QED BY <1>5, <2>1, CountsTop
<1>9. /\ Awaited(ns, L - 1) = Adds(e, "fun") /\ Building(ns, L - 1) = Building(r, L - 1)
      /\ Depth(ns, cl, L - 1) = Depth(r, cl, L - 1)
  <2>1. /\ e.kind \in {"var", "fun"} <=> e.kind = "fun"
        /\ e.kind # "class" /\ ~ Scoped(e, cl)
    BY <1>4 DEF Scoped
  <2>2. Awaited(ns, L - 1) = Adds(e, "fun")
    BY <1>5, <1>7, <1>8, <2>1 DEF Adds
  <2>3. Building(ns, L - 1) = Building(r, L - 1)
    BY <1>5, <1>7, <1>8, <2>1
  <2>4. Depth(ns, cl, L - 1) = Depth(r, cl, L - 1)
    BY <1>5, <1>7, <1>8, <2>1
  <2> QED BY <2>2, <2>3, <2>4
<1>10. Waits(cs, ns, L - 1) = FALSE
  BY <1>7, Waiters
<1>11. LevelOK(cs[L - 1], fs[L - 1], FALSE, Depth(r, cl, L - 1), Adds(e, "fun"),
               Building(r, L - 1))
  BY <1>1, <1>7, <1>9, <1>10 DEF LevelGood
<1> QED BY <1>4, <1>7, <1>8, <1>11

(* The frames below the one that changes.                                    *)
SameBelow(fs2, fs, n) == \A k \in 1 .. n : k # n => fs2[k] = fs[k]

(* A function ends.                                                          *)
LEMMA GoodLeave ==
  ASSUME NEW cs, NEW cl, NEW ns, NEW fs, Good(cs, cl, ns, fs), ns # <<>>,
         Last(ns).kind \in {"fun", "method"},
         NEW fs2 \in Seq(FrameSet), Len(fs2) = Len(cs) - 1,
         SameBelow(fs2, fs, Len(cs) - 1),
         LevelOK(cs[Len(cs) - 1], fs2[Len(cs) - 1], FALSE,
                 Depth(Front(ns), cl, Len(cs) - 1), 0, Building(Front(ns), Len(cs) - 1))
  PROVE  Good(Front(cs), cl, Front(ns), fs2)
<1> DEFINE L == Len(cs)
           M == Len(cs) - 1
           r == Front(ns)
           e == Last(ns)
           cs2 == Front(cs)
<1>1. /\ cs \in Seq(CompilerSet) /\ cs # <<>> /\ L \in Nat /\ Chained(cs) /\ Fits(cs)
      /\ DOMAIN cs = 1 .. L
      /\ \A k \in 1 .. L : cs[k] \in CompilerSet /\ LevelGood(cs, cl, ns, fs, k)
      /\ ns \in Seq(NestSet)
  BY GoodParts
<1>2. ClassesAround(ns, cl) = cl
  <2>1. Kind(ns) = e.kind
    BY <1>1, WithoutLast DEF Kind
  <2> QED BY <2>1 DEF ClassesAround
<1>3. /\ cl \in Seq(BOOLEAN) /\ AddsClass(cl, e, cl) /\ Len(cl) = Rank(r, Len(r))
  BY <1>2, ClassesPopped
<1>4. /\ M \in 1 .. M /\ e.level = M /\ Awaited(r, M) = 0
  BY AroundEnds
<1>5. /\ cs2 \in Seq(CompilerSet) /\ Len(cs2) = M /\ DOMAIN cs2 = 1 .. M
      /\ \A k \in 1 .. M : k \in 1 .. L /\ cs2[k] = cs[k]
  BY <1>1, WithoutLast
<1>6. cs2 # <<>> /\ M \in Nat
  <2>1. M \in Nat /\ M # 0
    BY <1>1, <1>4
  <2> QED BY <1>5, <2>1, Elements
<1>7. r = Front(ns) /\ e = Last(ns) /\ L = Len(cs) /\ M = L - 1 /\ cs2 = Front(cs)
  OBVIOUS
<1> HIDE DEF r, e, cs2, M
<1>8. /\ e \in NestSet /\ r \in Seq(NestSet) /\ NestOK(r, e.level) /\ Kind(r) # "var"
      /\ \A k : /\ Awaited(ns, k)
                     = Awaited(r, k) + (IF e.kind \in {"var", "fun"} /\ e.level = k THEN 1 ELSE 0)
                /\ Building(ns, k)
                     = Building(r, k) + (IF e.kind = "class" /\ e.level = k THEN 1 ELSE 0)
                /\ Depth(ns, cl, k)
                     = Depth(r, cl, k) + (IF e.level = k /\ Scoped(e, cl) THEN 1 ELSE 0)
  BY <1>3, <1>7, Ends
<1>9. NestOK(r, M)
  BY <1>4, <1>8
<1>10. \A k : Awaited(r, k) \in Nat /\ Building(r, k) \in Nat /\ Depth(r, cl, k) \in Nat
  BY <1>8, <1>9, CountsTop
<1>11. LevelGood(cs2, cl, r, fs2, M)
  <2>1. Waits(cs2, r, M) = FALSE
    BY <1>8, Waiters
  <2>2. cs2[M] = cs[M]
    BY <1>4, <1>5
  <2>3. LevelOK(cs[M], fs2[M], FALSE, Depth(r, cl, M), 0, Building(r, M))
    BY <1>7
  <2> QED BY <1>4, <2>1, <2>2, <2>3 DEF LevelGood
<1>12. ASSUME NEW k \in 1 .. M, k # M PROVE LevelGood(cs2, cl, r, fs2, k)
  <2>1. k # L /\ e.level # k /\ k # Len(cs2) /\ k \in 1 .. L
    BY <1>1, <1>4, <1>5, <1>7, <1>12
  <2>2. /\ Awaited(ns, k) = Awaited(r, k) /\ Building(ns, k) = Building(r, k)
        /\ Depth(ns, cl, k) = Depth(r, cl, k)
    BY <1>8, <1>10, <2>1
  <2>3. /\ LevelGood(cs, cl, ns, fs, k) /\ cs[k] \in CompilerSet
        /\ cs2[k] = cs[k] /\ fs2[k] = fs[k]
    BY <1>1, <1>5, <1>7, <1>12, <2>1 DEF SameBelow
  <2>4. Extended(cs2[k], cs[k])
    BY <2>3 DEF Extended
  <2> QED BY <2>1, <2>2, <2>3, <2>4, Below
<1>13. \A k \in DOMAIN cs2 : LevelGood(cs2, cl, r, fs2, k)
  BY <1>5, <1>11, <1>12
<1>14. Fits(cs2) /\ Chained(cs2)
  <2>1. Fits(cs2)
    BY <1>1, <1>5 DEF Fits
  <2>2. ASSUME NEW k \in 1 .. M PROVE UpvaluesOK(cs2, k)
    <3>1. UpvaluesOK(cs, k) /\ cs2[k] = cs[k]
      BY <1>1, <1>5 DEF Chained
    <3>2. k # 1 => cs2[k - 1] = cs[k - 1]
      <4>1. k # 1 => k - 1 \in 1 .. M
        BY <1>6
      <4> QED BY <1>5, <4>1
    <3>3. k = 1 => DOMAIN cs[k].upvalues = {}
      BY <3>1 DEF UpvaluesOK
    <3> QED BY <3>1, <3>2, <3>3 DEF UpvaluesOK
  <2> QED BY <1>5, <2>1, <2>2 DEF Chained
<1>15. Len(fs2) = Len(cs2)
  BY <1>5, <1>7
<1>16. Good(cs2, cl, r, fs2)
  BY <1>3, <1>5, <1>6, <1>8, <1>9, <1>13, <1>14, <1>15, GoodFromParts
<1> QED BY <1>7, <1>16

-----------------------------------------------------------------------------
(* Steps that change the function being compiled.                            *)

(* One compiler is replaced by another of the same function.                 *)
LEMMA TopReplaced ==
  ASSUME NEW cs, Chained(cs), Fits(cs), cs # <<>>, NEW c \in CompilerSet,
         c.upvalues = cs[Len(cs)].upvalues, NEW cs2, cs2 = [cs EXCEPT ![Len(cs)] = c]
  PROVE  /\ Chained(cs2) /\ Fits(cs2) /\ cs2 # <<>> /\ Len(cs2) = Len(cs) /\ cs2[Len(cs)] = c
         /\ \A k \in 1 .. Len(cs) - 1 : Extended(cs2[k], cs[k])
<1>1. /\ cs \in Seq(CompilerSet) /\ Len(cs) \in Nat /\ DOMAIN cs = 1 .. Len(cs)
      /\ Len(cs) \in 1 .. Len(cs) /\ \A k \in 1 .. Len(cs) : cs[k] \in CompilerSet
  <2>1. cs \in Seq(CompilerSet)
    BY DEF Chained
  <2> QED BY <2>1, Elements
<1>2. /\ cs2 \in Seq(CompilerSet) /\ Len(cs2) = Len(cs) /\ DOMAIN cs2 = 1 .. Len(cs)
      /\ cs2[Len(cs)] = c /\ \A k \in 1 .. Len(cs) : k # Len(cs) => cs2[k] = cs[k]
  BY <1>1
<1>3. cs2 # <<>>
  BY <1>1, <1>2, Elements
<1>4. \A k \in 1 .. Len(cs) : cs2[k].upvalues = cs[k].upvalues
  BY <1>2
<1>5. Fits(cs2)
  BY <1>1, <1>2, <1>4 DEF Fits
<1>6. ASSUME NEW k \in 1 .. Len(cs) PROVE UpvaluesOK(cs2, k)
  <2>1. UpvaluesOK(cs, k)
    BY <1>1 DEF Chained
  <2>2. cs2[k].upvalues = cs[k].upvalues
    BY <1>4
  <2>3. k # 1 => k - 1 \in 1 .. Len(cs) /\ k - 1 # Len(cs)
    BY <1>1
  <2>4. k # 1 => cs2[k - 1] = cs[k - 1]
    BY <1>2, <2>3
  <2>5. k = 1 => DOMAIN cs2[k].upvalues = {}
    BY <2>1, <2>2 DEF UpvaluesOK
  <2> QED BY <2>1, <2>2, <2>4, <2>5 DEF UpvaluesOK
<1>7. ASSUME NEW k \in 1 .. Len(cs) - 1 PROVE Extended(cs2[k], cs[k])
  <2>1. k \in 1 .. Len(cs) /\ k # Len(cs)
    BY <1>1
  <2>2. cs2[k] = cs[k] /\ cs[k] \in CompilerSet
    BY <1>1, <1>2, <2>1
  <2> QED BY <2>2 DEF Extended
<1> QED BY <1>2, <1>3, <1>5, <1>6, <1>7 DEF Chained

(* One frame is replaced.                                                    *)
LEMMA FrameReplaced ==
  ASSUME NEW fs \in Seq(FrameSet), NEW n \in DOMAIN fs, NEW f \in FrameSet,
         NEW fs2, fs2 = [fs EXCEPT ![n] = f]
  PROVE  /\ fs2 \in Seq(FrameSet) /\ Len(fs2) = Len(fs) /\ fs2[n] = f
         /\ \A k \in DOMAIN fs : k # n => fs2[k] = fs[k]
<1>1. Len(fs) \in Nat /\ DOMAIN fs = 1 .. Len(fs) /\ \A i \in DOMAIN fs : fs[i] \in FrameSet
  BY Elements
<1> QED BY <1>1

(* compile starts with the script alone.                                     *)
LEMMA GoodAfresh ==
  Good(<<initCompiler("script")>>, <<>>, <<>>, <<EmptyFrame>>)
<1> DEFINE c == initCompiler("script")
           cs == <<c>>
           fs == <<EmptyFrame>>
           ns == <<>>
           cl == <<>>
<1>1. /\ c \in CompilerSet /\ c.scopeDepth = 0 /\ c.upvalues = <<>> /\ Len(c.locals) = 1
      /\ c.locals[1].depth = 0
  BY NewCompiler
<1> HIDE DEF c
<1>2. /\ cs \in Seq(CompilerSet) /\ Len(cs) = 1 /\ DOMAIN cs = {1} /\ cs[1] = c /\ cs # <<>>
  BY <1>1
<1>3. /\ EmptyFrame \in FrameSet /\ EmptyFrame.height = 1 /\ EmptyFrame.open = {}
  BY DEF EmptyFrame, FrameSet
<1>4. /\ fs \in Seq(FrameSet) /\ Len(fs) = 1 /\ fs[1] = EmptyFrame
  BY <1>3
<1>5. /\ ns \in Seq(NestSet) /\ cl \in Seq(BOOLEAN) /\ Len(ns) = 0 /\ Len(cl) = 0
      /\ DOMAIN ns = {} /\ ns = <<>>
  OBVIOUS
<1> HIDE DEF cs, fs, ns, cl
<1>6. NestOK(ns, 1)
  BY <1>5 DEF NestOK
<1>7. /\ Rank(ns, Len(ns)) = 0 /\ Awaited(ns, 1) = 0 /\ Building(ns, 1) = 0
  <2>1. /\ ClassesTo(ns, Len(ns)) = {} /\ Of(ns, {"var", "fun"}, 1) = {}
        /\ Of(ns, {"class"}, 1) = {}
    BY <1>5 DEF ClassesTo, Of
  <2> QED BY <2>1, FS_EmptySet DEF Rank, Awaited, Building
<1>8. Depth(ns, cl, 1) = 0
  <2>1. ScopesOf(ns, cl, 1) = {}
    BY <1>5 DEF ScopesOf
  <2> QED BY <2>1, FS_EmptySet DEF Depth
<1>9. Chained(cs) /\ Fits(cs)
  <2>1. DOMAIN cs[1].upvalues = {} /\ Len(cs[1].upvalues) = 0
    BY <1>1, <1>2
  <2>2. UpvaluesOK(cs, 1)
    BY <1>1, <1>2, <2>1 DEF UpvaluesOK
  <2>3. MaxUpvalues \in Nat
    BY CompilerAssumption
  <2> QED BY <1>2, <2>1, <2>2, <2>3 DEF Chained, Fits
<1>10. LevelGood(cs, cl, ns, fs, 1)
  <2>1. Waits(cs, ns, 1) = FALSE
    BY <1>5 DEF Waits
  <2>2. 1 \in 1 .. MaxLocals
    <3>1. MaxLocals \in Nat /\ MaxLocals # 0
      BY CompilerAssumption
    <3> QED BY <3>1
  <2>3. Ordered(c.locals, 1, 0)
    BY <1>1 DEF Ordered
  <2>4. LocalsOK(c, FALSE)
    BY <1>1, <2>2, <2>3 DEF LocalsOK
  <2>5. LevelOK(c, EmptyFrame, FALSE, 0, 0, 0)
    <3>1. EmptyFrame.height = Len(c.locals) - (IF c.scopeDepth > 0 THEN 0 ELSE 0) + 0
      BY <1>1, <1>3
    <3>2. EmptyFrame.open \subseteq CapturedSlots(c)
          /\ EmptyFrame.open \subseteq 0 .. EmptyFrame.height - 1
      BY <1>3
    <3> QED BY <1>1, <2>4, <3>1, <3>2 DEF LevelOK
  <2> QED BY <1>2, <1>4, <1>7, <1>8, <2>1, <2>5 DEF LevelGood
<1>11. Good(cs, cl, ns, fs)
  <2>1. \A k \in DOMAIN cs : LevelGood(cs, cl, ns, fs, k)
    BY <1>2, <1>10
  <2>2. NestOK(ns, Len(cs)) /\ Len(cl) = Rank(ns, Len(ns)) /\ Len(fs) = Len(cs)
    BY <1>2, <1>4, <1>5, <1>6, <1>7
  <2> QED BY <1>2, <1>4, <1>5, <1>9, <2>1, <2>2, GoodFromParts
<1> QED BY <1>11 DEF c, cs, fs, ns, cl

(* The text, when a construct opens and when one ends.                       *)
LEMMA TextPush ==
  ASSUME NEW ns \in Seq(NestSet), NEW e, TextOK(ns, e), NEW x \in NestSet,
         NEW e2 \in Seq(BindingSet), Len(e) <= x.mark, x.mark <= Len(e2)
  PROVE  TextOK(Append(ns, x), e2)
<1> DEFINE N == Len(ns)
           r == Append(ns, x)
<1>1. /\ N \in Nat /\ DOMAIN ns = 1 .. N /\ DOMAIN r = (DOMAIN ns) \union {N + 1}
      /\ r[N + 1] = x /\ \A i \in DOMAIN ns : ns[i] \in NestSet /\ r[i] = ns[i]
  BY Elements, Appended
<1>2. Len(e) \in Nat /\ Len(e2) \in Nat
  BY DEF TextOK
<1>3. \A d \in NestSet : d.mark \in Nat
  BY DEF NestSet
<1>4. \A i \in DOMAIN ns : r[i].mark \in Nat /\ r[i].mark <= Len(e)
  BY <1>1, <1>3 DEF TextOK
<1>5. x.mark \in Nat
  BY <1>3
<1>6. \A i \in DOMAIN r : r[i].mark <= Len(e2)
  BY <1>1, <1>2, <1>4, <1>5
<1>7. ASSUME NEW i \in DOMAIN r, NEW j \in DOMAIN r, i < j PROVE r[i].mark <= r[j].mark
  <2>1. i \in DOMAIN ns
    BY <1>1, <1>7
  <2>2. CASE j \in DOMAIN ns
    BY <1>1, <1>7, <2>1, <2>2 DEF TextOK
  <2>3. CASE j = N + 1
    BY <1>1, <1>2, <1>4, <1>5, <2>1, <2>3
  <2> QED BY <1>1, <2>2, <2>3
<1> QED BY <1>6, <1>7 DEF TextOK

(* The text after a construct may be longer than before it.                  *)
LEMMA TextPop ==
  ASSUME NEW ns \in Seq(NestSet), ns # <<>>, NEW e, TextOK(ns, e),
         NEW e2 \in Seq(BindingSet), Last(ns).mark <= Len(e2)
  PROVE  TextOK(Front(ns), e2)
<1> DEFINE N == Len(ns)
           r == Front(ns)
<1>1. /\ N \in Nat /\ N \in DOMAIN ns /\ Last(ns) = ns[N] /\ Len(e2) \in Nat
      /\ \A i \in DOMAIN ns : ns[i] \in NestSet
      /\ \A i \in DOMAIN r : i \in DOMAIN ns /\ i < N /\ r[i] = ns[i]
  <2>1. N \in Nat /\ N \in DOMAIN ns /\ \A i \in DOMAIN ns : ns[i] \in NestSet
    BY Elements
  <2> QED BY <2>1, WithoutLast
<1> HIDE DEF r, N
<1>2. \A d \in NestSet : d.mark \in Nat
  BY DEF NestSet
<1>3. ASSUME NEW i \in DOMAIN r PROVE r[i].mark <= Len(e2)
  <2>1. ns[i].mark <= ns[N].mark
    BY <1>1 DEF TextOK
  <2>2. ns[i].mark \in Nat /\ ns[N].mark \in Nat
    BY <1>1, <1>2
  <2> QED BY <1>1, <2>1, <2>2
<1>4. \A i, j \in DOMAIN r : i < j => r[i].mark <= r[j].mark
  BY <1>1 DEF TextOK
<1> QED BY <1>3, <1>4 DEF TextOK, r

(* A construct that ends leaves the text before it.                          *)
LEMMA TextBefore ==
  ASSUME NEW ns \in Seq(NestSet), ns # <<>>, NEW e, TextOK(ns, e)
  PROVE  /\ SubSeq(e, 1, Last(ns).mark) \in Seq(BindingSet)
         /\ Len(SubSeq(e, 1, Last(ns).mark)) = Last(ns).mark
         /\ \A i \in 1 .. Last(ns).mark :
              i \in DOMAIN e /\ SubSeq(e, 1, Last(ns).mark)[i] = e[i]
         /\ Last(ns).mark \in 0 .. Len(e)
<1> DEFINE m == Last(ns).mark
           r == SubSeq(e, 1, m)
<1>1. e \in Seq(BindingSet) /\ m <= Len(e) /\ m \in Nat
  <2>1. Len(ns) \in DOMAIN ns /\ Last(ns) = ns[Len(ns)] /\ ns[Len(ns)] \in NestSet
    BY Elements
  <2>2. \A d \in NestSet : d.mark \in Nat
    BY DEF NestSet
  <2> QED BY <2>1, <2>2 DEF TextOK
<1> HIDE DEF m
<1>2. /\ Len(e) \in Nat /\ DOMAIN e = 1 .. Len(e) /\ 1 \in Int /\ m \in Int /\ m - 1 + 1 = m
      /\ \A i \in 1 .. m : i \in DOMAIN e /\ 1 + i - 1 = i /\ e[i] \in BindingSet
  <2>1. Len(e) \in Nat /\ DOMAIN e = 1 .. Len(e) /\ \A i \in DOMAIN e : e[i] \in BindingSet
    BY <1>1, Elements
  <2> QED BY <1>1, <2>1
<1>3. /\ r \in Seq(BindingSet) /\ Len(r) = IF 1 <= m THEN m - 1 + 1 ELSE 0
      /\ \A i \in 1 .. m - 1 + 1 : r[i] = e[1 + i - 1]
  BY <1>2, SubSeqProperties
<1> HIDE DEF r
<1>4. Len(r) = m
  <2>1. 1 <= m \/ m = 0
    BY <1>1
  <2> QED BY <1>2, <1>3, <2>1
<1>5. \A i \in 1 .. m : r[i] = e[i]
  BY <1>2, <1>3
<1>6. m \in 0 .. Len(e)
  BY <1>1, <1>2
<1> QED BY <1>2, <1>3, <1>4, <1>5, <1>6 DEF m, r

-----------------------------------------------------------------------------
(* Each step.                                                                *)

(* The first error, and the next call of compile.                            *)
LEMMA AfreshStep ==
  ASSUME Afresh, hadError' \in BOOLEAN
  PROVE  IInv'
<1>1. /\ compilers' = <<initCompiler("script")>> /\ classes' = <<>> /\ nest' = <<>>
      /\ frames' = <<EmptyFrame>> /\ env' = <<>>
  BY DEF Afresh
<1>2. Good(compilers', classes', nest', frames')
  BY <1>1, GoodAfresh
<1>3. TextOK(nest', env')
  BY <1>1 DEF TextOK
<1> QED BY <1>2, <1>3 DEF IInv

(* What a name resolves to is added to the compilers, and fits.              *)
LEMMA ResolvesOK ==
  ASSUME NEW cs, Chained(cs), cs # <<>>, NEW n, Resolves(cs, n)
  PROVE  /\ Extends(namedVariable(cs, n).cs, cs) /\ Chained(namedVariable(cs, n).cs)
         /\ Fits(namedVariable(cs, n).cs)
<1> DEFINE cs2 == namedVariable(cs, n).cs
<1>1. Extends(cs2, cs) /\ Chained(cs2)
  BY NamedOK
<1>2. ~ TooManyUpvalues(cs2)
  BY DEF Resolves
<1> HIDE DEF cs2
<1>3. cs2 \in Seq(CompilerSet)
  BY <1>1 DEF Chained
<1>4. ASSUME NEW k \in DOMAIN cs2 PROVE Len(cs2[k].upvalues) <= MaxUpvalues
  <2>1. ~ (Len(cs2[k].upvalues) > MaxUpvalues)
    BY <1>2 DEF TooManyUpvalues, ToSet
  <2>2. Len(cs2[k].upvalues) \in Nat
    <3>1. cs2[k] \in CompilerSet
      BY <1>3, Elements
    <3>2. cs2[k].upvalues \in Seq(UpvalueSet)
      BY <3>1, Fields
    <3> QED BY <3>2
  <2>3. MaxUpvalues \in Nat
    BY CompilerAssumption
  <2> QED BY <2>1, <2>2, <2>3
<1>5. Fits(cs2)
  BY <1>4 DEF Fits
<1> QED BY <1>1, <1>5 DEF cs2

(* A variable read or assigned.                                              *)
LEMMA NamedStep ==
  ASSUME IInv, NEW cs2, Extends(cs2, compilers), Chained(cs2), Fits(cs2),
         compilers' = cs2, UNCHANGED <<classes, hadError, nest, env, frames>>
  PROVE  IInv'
<1>1. Good(cs2, classes, nest, frames)
  BY GoodNamed DEF IInv
<1> QED BY <1>1 DEF IInv

(* A name that does not resolve is an error; else it is named.               *)
LEMMA VariableStep ==
  ASSUME IInv, NEW n \in Names, variable(n)
  PROVE  IInv'
<1>1. Chained(compilers) /\ compilers # <<>>
  BY GoodParts DEF IInv
<1>2. CASE ~ Resolves(compilers, n)
  BY <1>2, AfreshStep DEF variable, Error
<1>3. CASE Resolves(compilers, n)
  <2> DEFINE cs2 == namedVariable(compilers, n).cs
  <2>1. compilers' = cs2 /\ UNCHANGED <<classes, hadError, nest, env, frames>>
    BY <1>3 DEF variable
  <2>2. Extends(cs2, compilers) /\ Chained(cs2) /\ Fits(cs2)
    BY <1>1, <1>3, ResolvesOK
  <2> HIDE DEF cs2
  <2> QED BY <2>1, <2>2, NamedStep
<1> QED BY <1>2, <1>3

(* The same of this, which stands in classes only.                           *)
LEMMA ThisStep ==
  ASSUME IInv, this_
  PROVE  IInv'
<1>1. Chained(compilers) /\ compilers # <<>>
  BY GoodParts DEF IInv
<1>2. CASE classes = <<>> \/ ~ Resolves(compilers, "this")
  BY <1>2, AfreshStep DEF this_, Error
<1>3. CASE ~ (classes = <<>> \/ ~ Resolves(compilers, "this"))
  <2> DEFINE cs2 == namedVariable(compilers, "this").cs
  <2>1. compilers' = cs2 /\ UNCHANGED <<classes, hadError, nest, env, frames>>
    BY <1>3 DEF this_
  <2>2. Extends(cs2, compilers) /\ Chained(cs2) /\ Fits(cs2)
    BY <1>1, <1>3, ResolvesOK
  <2> HIDE DEF cs2
  <2> QED BY <2>1, <2>2, NamedStep
<1> QED BY <1>2, <1>3

(* The same of super, which names this and then super.                       *)
LEMMA SuperStep ==
  ASSUME IInv, super_
  PROVE  IInv'
<1>1. Chained(compilers) /\ compilers # <<>> /\ compilers \in Seq(CompilerSet)
  BY GoodParts DEF IInv
<1> DEFINE cs1 == namedVariable(compilers, "this").cs
           cs2 == namedVariable(cs1, "super").cs
           fails == \/ classes = <<>> \/ ~ Last(classes)
                    \/ ~ Resolves(compilers, "this") \/ ~ Resolves(cs1, "super")
<1>2. CASE fails
  <2>1. Error
    BY <1>2 DEF super_
  <2> QED BY <2>1, AfreshStep DEF Error
<1>3. CASE ~ fails
  <2>1. compilers' = cs2 /\ UNCHANGED <<classes, hadError, nest, env, frames>>
    BY <1>3 DEF super_
  <2>2. Extends(cs1, compilers) /\ Chained(cs1) /\ Fits(cs1)
    BY <1>1, <1>3, ResolvesOK
  <2>3. cs1 # <<>>
    <3>1. cs1 \in Seq(CompilerSet) /\ Len(cs1) = Len(compilers)
      BY <2>2 DEF Extends
    <3> HIDE DEF cs1
    <3>2. (cs1 = <<>> <=> Len(cs1) = 0) /\ (compilers = <<>> <=> Len(compilers) = 0)
      BY <1>1, <3>1, Elements
    <3> QED BY <1>1, <3>1, <3>2
  <2>4. Extends(cs2, cs1) /\ Chained(cs2) /\ Fits(cs2)
    <3>1. Resolves(cs1, "super")
      BY <1>3
    <3> HIDE DEF cs1
    <3> QED BY <2>2, <2>3, <3>1, ResolvesOK
  <2> HIDE DEF cs1, cs2
  <2>5. Extends(cs2, compilers)
    BY <1>1, <2>2, <2>4, ExtendsTwice
  <2> QED BY <2>1, <2>4, <2>5, NamedStep
<1> QED BY <1>2, <1>3

(* return leaves the tables alone.                                           *)
LEMMA ReturnStep ==
  ASSUME IInv, NEW v \in BOOLEAN, returnStatement(v)
  PROVE  IInv'
<1>1. CASE Error
  BY <1>1, AfreshStep DEF Error
<1>2. CASE UNCHANGED <<compilers, classes, hadError, nest, env, frames>>
  BY <1>2 DEF IInv
<1> QED BY <1>1, <1>2 DEF returnStatement

(* The construct a step opens.                                               *)
Nesting(kind, n, level, mark) == [kind |-> kind, name |-> n, level |-> level, mark |-> mark]

(* What is known where a construct may open.                                 *)
LEMMA Opening ==
  ASSUME IInv, InStatements
  PROVE  /\ Kind(nest) # "var" /\ Kind(nest) # "class"
         /\ LevelOK(current, frames[Level], FALSE, Depth(nest, classes, Level), 0, 0)
         /\ Depth(nest, classes, Level) \in Nat
<1>1. /\ Good(compilers, classes, nest, frames) /\ nest \in Seq(NestSet)
      /\ Last(compilers) = compilers[Len(compilers)] /\ NestOK(nest, Level)
  BY GoodParts DEF IInv, Level
<1>2. nest # <<>> => Last(nest).kind \in {"block", "fun", "method"}
  BY DEF InStatements, Innermost
<1>3. Kind(nest) # "var" /\ Kind(nest) # "class"
  BY <1>2 DEF Kind, Last
<1>4. LevelOK(compilers[Len(compilers)], frames[Len(compilers)], FALSE,
              Depth(nest, classes, Len(compilers)), 0, 0)
  BY <1>1, <1>3, TopOpen
<1>5. Depth(nest, classes, Level) \in Nat
  BY <1>1, CountsTop
<1> QED BY <1>1, <1>3, <1>4, <1>5 DEF current, Level

(* What the invariant gives to every step.                                   *)
LEMMA Here ==
  ASSUME IInv
  PROVE  /\ Good(compilers, classes, nest, frames) /\ TextOK(nest, env) /\ hadError \in BOOLEAN
         /\ Chained(compilers) /\ Fits(compilers) /\ compilers # <<>>
         /\ Level = Len(compilers) /\ Level \in Nat /\ Level \in 1 .. Level
         /\ current = compilers[Len(compilers)] /\ current \in CompilerSet
         /\ \A k \in 1 .. Len(compilers) : compilers[k] \in CompilerSet
         /\ frames \in Seq(FrameSet) /\ Len(frames) = Len(compilers)
         /\ DOMAIN frames = 1 .. Len(compilers) /\ Level \in DOMAIN frames
         /\ Last(frames) = frames[Level] /\ frames[Level] \in FrameSet
         /\ nest \in Seq(NestSet) /\ classes \in Seq(BOOLEAN)
         /\ env \in Seq(BindingSet) /\ Len(env) \in Nat
<1>1. Good(compilers, classes, nest, frames) /\ TextOK(nest, env) /\ hadError \in BOOLEAN
  BY DEF IInv
<1>2. env \in Seq(BindingSet) /\ Len(env) \in Nat
  BY <1>1 DEF TextOK
<1>3. current = compilers[Len(compilers)] /\ Level = Len(compilers)
  BY <1>1, GoodParts DEF current, Level
<1>4. /\ Chained(compilers) /\ Fits(compilers) /\ compilers # <<>>
      /\ Level \in Nat /\ Level \in 1 .. Level
      /\ \A k \in 1 .. Len(compilers) : compilers[k] \in CompilerSet
      /\ frames \in Seq(FrameSet) /\ Len(frames) = Len(compilers)
      /\ DOMAIN frames = 1 .. Len(compilers)
      /\ Last(frames) = frames[Level] /\ \A k \in 1 .. Len(compilers) : frames[k] \in FrameSet
      /\ nest \in Seq(NestSet) /\ classes \in Seq(BOOLEAN)
  BY <1>1, <1>3, GoodParts
<1> QED BY <1>1, <1>2, <1>3, <1>4

(* What is known of the innermost construct.                                 *)
LEMMA InnermostKind ==
  ASSUME IInv, NEW kinds, Innermost(kinds)
  PROVE  /\ nest # <<>> /\ Last(nest).kind \in kinds /\ Kind(nest) = Last(nest).kind
         /\ Last(nest) \in NestSet /\ Last(nest).mark \in 0 .. Len(env)
         /\ OutOfScope \in Seq(BindingSet) /\ Len(OutOfScope) = Last(nest).mark
         /\ TextOK(Front(nest), OutOfScope)
<1>1. nest # <<>> /\ Last(nest).kind \in kinds
  BY DEF Innermost
<1>2. nest \in Seq(NestSet) /\ TextOK(nest, env)
  BY Here
<1>3. Last(nest) = nest[Len(nest)] /\ Last(nest) \in NestSet
  BY <1>1, <1>2, Elements
<1>4. Kind(nest) = Last(nest).kind
  BY <1>1, <1>3 DEF Kind
<1>5. /\ OutOfScope \in Seq(BindingSet) /\ Len(OutOfScope) = Last(nest).mark
      /\ Last(nest).mark \in 0 .. Len(env)
  BY <1>1, <1>2, TextBefore DEF OutOfScope
<1>6. Last(nest).mark <= Len(OutOfScope)
  BY <1>5
<1>7. TextOK(Front(nest), OutOfScope)
  BY <1>1, <1>2, <1>5, <1>6, TextPop
<1> QED BY <1>1, <1>3, <1>4, <1>5, <1>7

(* The brace that opens a block.                                             *)
LEMMA BeginBlockStep ==
  ASSUME IInv, BeginBlock
  PROVE  IInv'
<1> DEFINE e == Nesting("block", "", Level, Len(env))
           c2 == beginScope(current)
<1>1. /\ Good(compilers, classes, nest, frames) /\ TextOK(nest, env) /\ hadError \in BOOLEAN
  BY DEF IInv
<1>2. /\ Chained(compilers) /\ Fits(compilers) /\ compilers # <<>> /\ Level \in 1 .. Level
      /\ Last(compilers) = compilers[Len(compilers)] /\ Level = Len(compilers)
      /\ \A k \in 1 .. Level : compilers[k] \in CompilerSet
      /\ frames \in Seq(FrameSet) /\ Len(frames) = Level
      /\ nest \in Seq(NestSet) /\ Level \in Nat
  BY <1>1, GoodParts DEF Level
<1>3. /\ Kind(nest) # "var" /\ Kind(nest) # "class"
      /\ LevelOK(current, frames[Level], FALSE, Depth(nest, classes, Level), 0, 0)
      /\ Depth(nest, classes, Level) \in Nat
  BY Opening DEF BeginBlock, CanOpen
<1>4. env \in Seq(BindingSet) /\ Len(env) \in Nat
  BY <1>1 DEF TextOK
<1>5. /\ nest' = Append(nest, e) /\ e \in NestSet
      /\ e.kind = "block" /\ e.level = Level /\ e.mark = Len(env)
  <2>1. nest' = Append(nest, e)
    BY DEF BeginBlock, Opened, Nesting
  <2>2. "block" \in {"block", "var", "fun", "method", "class"} /\ "" \in Names \union {""}
    OBVIOUS
  <2>3. /\ e \in NestSet /\ e.kind = "block"
        /\ e.level = Level /\ e.mark = Len(env)
    BY <1>2, <1>4, <2>2 DEF Nesting, NestSet
  <2> HIDE DEF e
  <2> QED BY <2>1, <2>3
<1>6. /\ compilers' = [compilers EXCEPT ![Len(compilers)] = c2]
      /\ UNCHANGED <<classes, hadError, env, frames>>
  BY <1>2 DEF BeginBlock, current
<1>7. current \in CompilerSet /\ current = compilers[Len(compilers)]
  BY <1>2 DEF current
<1>8. /\ c2 \in CompilerSet /\ c2.upvalues = current.upvalues
      /\ c2.locals = current.locals /\ c2.scopeDepth = current.scopeDepth + 1
  BY <1>7, Begun DEF Keeps
<1> HIDE DEF c2, e
<1>9. /\ Chained(compilers') /\ Fits(compilers') /\ Len(compilers') = Len(compilers)
      /\ compilers'[Len(compilers)] = c2
      /\ \A k \in 1 .. Len(compilers) - 1 : Extended(compilers'[k], compilers[k])
  <2>1. /\ Chained(compilers) /\ Fits(compilers) /\ compilers # <<>> /\ c2 \in CompilerSet
        /\ compilers' = [compilers EXCEPT ![Len(compilers)] = c2]
    BY <1>2, <1>6, <1>8
  <2>2. c2.upvalues = compilers[Len(compilers)].upvalues
    BY <1>7, <1>8
  <2> QED BY <2>1, <2>2, TopReplaced
<1>10. LevelOK(c2, frames[Level], FALSE, Depth(nest, classes, Level) + 1, 0, 0)
  <2>1. /\ LocalsOK(current, FALSE) /\ current.scopeDepth = Depth(nest, classes, Level)
        /\ frames[Level].height
             = Len(current.locals) - (IF current.scopeDepth > 0 THEN 0 ELSE 0) + 0
        /\ frames[Level].open \subseteq CapturedSlots(current)
        /\ frames[Level].open \subseteq 0 .. frames[Level].height - 1
    BY <1>3 DEF LevelOK
  <2>2. LocalsOK(c2, FALSE)
    <3>1. \A x \in Int : x \in 0 .. current.scopeDepth => x \in 0 .. current.scopeDepth + 1
      BY <1>3, <2>1
    <3> QED BY <1>8, <2>1, <3>1 DEF LocalsOK, Ordered
  <2>3. CapturedSlots(c2) = CapturedSlots(current)
    BY <1>8 DEF CapturedSlots
  <2>4. frames[Level].height = Len(c2.locals) - (IF c2.scopeDepth > 0 THEN 0 ELSE 0) + 0
    <3>1. \A b \in BOOLEAN : (IF b THEN 0 ELSE 0) = 0
      OBVIOUS
    <3>2. /\ (IF c2.scopeDepth > 0 THEN 0 ELSE 0) = 0
          /\ (IF current.scopeDepth > 0 THEN 0 ELSE 0) = 0
      OBVIOUS
    <3> QED BY <1>8, <2>1, <3>2
  <2> QED BY <1>8, <2>1, <2>2, <2>3, <2>4 DEF LevelOK
<1>11. AddsClass(classes, e, classes) /\ Deepens(e, classes) = 1
       /\ Adds(e, "var") = 0 /\ Adds(e, "class") = 0
  BY <1>5 DEF AddsClass, Deepens, Scoped, Adds
<1>12. Good(compilers', classes, Append(nest, e), frames)
  <2>1. FALSE <=> e.kind = "var" /\ compilers'[Len(compilers)].scopeDepth > 0
    BY <1>5
  <2>2. LevelOK(compilers'[Len(compilers)], frames[Len(compilers)], FALSE,
                Depth(nest, classes, Len(compilers)) + Deepens(e, classes),
                Adds(e, "var"), Adds(e, "class"))
    BY <1>2, <1>9, <1>10, <1>11
  <2>3. e.level = Len(compilers) /\ e.kind \in {"block", "var", "class"}
    BY <1>2, <1>5
  <2>4. Stay(compilers', frames, compilers, frames)
    BY <1>9 DEF Stay
  <2>5. frames \in Seq(FrameSet) /\ Len(frames) = Len(compilers)
    BY <1>2
  <2> QED BY <1>1, <1>3, <1>5, <1>9, <1>11, <2>1, <2>2, <2>3, <2>4, <2>5, GoodPush
<1>13. TextOK(Append(nest, e), env)
  <2>1. Len(env) <= e.mark /\ e.mark <= Len(env)
    BY <1>4, <1>5
  <2> QED BY <1>1, <1>2, <1>4, <1>5, <2>1, TextPush
<1> QED BY <1>1, <1>5, <1>6, <1>12, <1>13 DEF IInv

(* A scope ends: locals and stack go together.                               *)
LEMMA LeavesScope ==
  ASSUME NEW c \in CompilerSet, NEW f \in FrameSet, NEW d \in Nat,
         LevelOK(c, f, FALSE, d + 1, 0, 0)
  PROVE  /\ LevelOK(endScope(c), Popped(f, c), FALSE, d, 0, 0)
         /\ endScope(c) \in CompilerSet /\ endScope(c).upvalues = c.upvalues
         /\ Popped(f, c) \in FrameSet
<1>1. /\ LocalsOK(c, FALSE) /\ c.scopeDepth = d + 1 /\ c.scopeDepth > 0
      /\ f.height = Len(c.locals) - (IF c.scopeDepth > 0 THEN 0 ELSE 0) + 0
      /\ f.open \subseteq CapturedSlots(c)
  <2>1. /\ LocalsOK(c, FALSE) /\ c.scopeDepth = d + 1
        /\ f.height = Len(c.locals) - (IF c.scopeDepth > 0 THEN 0 ELSE 0) + 0
        /\ f.open \subseteq CapturedSlots(c)
    BY DEF LevelOK
  <2>2. d + 1 > 0
    OBVIOUS
  <2> QED BY <2>1, <2>2
<1>2. Len(c.locals) \in Nat /\ c.scopeDepth - 1 = d
  <2>1. Len(c.locals) \in Nat
    BY Fields
  <2> QED BY <1>1, <2>1
<1>3. f.height = Len(c.locals)
  BY <1>1, <1>2
<1>4. /\ endScope(c) \in CompilerSet /\ endScope(c).upvalues = c.upvalues
      /\ endScope(c).scopeDepth = c.scopeDepth - 1 /\ LocalsOK(endScope(c), FALSE)
      /\ Popped(f, c) \in FrameSet /\ Popped(f, c).height = Len(endScope(c).locals)
      /\ Popped(f, c).open \subseteq CapturedSlots(endScope(c))
      /\ Popped(f, c).open \subseteq 0 .. Popped(f, c).height - 1
  BY <1>1, <1>3, EndedScope
<1>5. Len(endScope(c).locals) \in Nat
  BY <1>4, Fields
<1>6. Popped(f, c).height
        = Len(endScope(c).locals) - (IF endScope(c).scopeDepth > 0 THEN 0 ELSE 0) + 0
  BY <1>4, <1>5
<1>7. endScope(c).scopeDepth = d
  BY <1>2, <1>4
<1> QED BY <1>4, <1>6, <1>7 DEF LevelOK

(* Those before the last are not the last.                                   *)
LEMMA BelowLast ==
  ASSUME NEW N \in Nat
  PROVE  \A k \in 1 .. N - 1 : k \in 1 .. N /\ k # N
OBVIOUS

(* A block, a declaration or a class ends, and changes its own function.     *)
LEMMA GoodOwn ==
  ASSUME NEW cs, NEW cl, NEW ns, NEW fs, Good(cs, cl, ns, fs), ns # <<>>,
         Last(ns).kind \in {"block", "var", "class"},
         NEW c2 \in CompilerSet, c2.upvalues = cs[Len(cs)].upvalues, NEW f2 \in FrameSet,
         NEW cs2, cs2 = [cs EXCEPT ![Len(cs)] = c2],
         NEW fs2, fs2 = [fs EXCEPT ![Len(cs)] = f2],
         LevelOK(c2, f2, FALSE, Depth(Front(ns), ClassesAround(ns, cl), Len(cs)), 0, 0)
  PROVE  Good(cs2, ClassesAround(ns, cl), Front(ns), fs2)
<1>1. /\ Chained(cs) /\ Fits(cs) /\ cs # <<>> /\ Len(cs) \in Nat
      /\ fs \in Seq(FrameSet) /\ Len(fs) = Len(cs)
      /\ DOMAIN fs = 1 .. Len(cs) /\ Len(cs) \in DOMAIN fs
  <2>1. /\ Chained(cs) /\ Fits(cs) /\ cs # <<>> /\ Len(cs) \in Nat
        /\ fs \in Seq(FrameSet) /\ Len(fs) = Len(cs)
        /\ DOMAIN fs = 1 .. Len(cs) /\ Len(cs) \in 1 .. Len(cs)
    BY GoodParts
  <2> QED BY <2>1
<1>3. /\ Chained(cs2) /\ Fits(cs2) /\ Len(cs2) = Len(cs) /\ cs2[Len(cs)] = c2
      /\ \A k \in 1 .. Len(cs) - 1 : Extended(cs2[k], cs[k])
  BY <1>1, TopReplaced
<1>4. /\ fs2 \in Seq(FrameSet) /\ Len(fs2) = Len(fs) /\ fs2[Len(cs)] = f2
      /\ \A k \in DOMAIN fs : k # Len(cs) => fs2[k] = fs[k]
  BY <1>1, FrameReplaced
<1>5. /\ Len(fs2) = Len(cs)
      /\ LevelOK(cs2[Len(cs)], fs2[Len(cs)], FALSE,
                 Depth(Front(ns), ClassesAround(ns, cl), Len(cs)), 0, 0)
  BY <1>1, <1>3, <1>4
<1>6. \A k \in 1 .. Len(cs) - 1 : k \in 1 .. Len(cs) /\ k # Len(cs)
  BY <1>1, BelowLast
<1>7. Stay(cs2, fs2, cs, fs)
  BY <1>1, <1>3, <1>4, <1>6 DEF Stay
<1> QED BY <1>1, <1>3, <1>4, <1>5, <1>7, GoodPop

(* So it keeps the invariant.                                                *)
LEMMA EndsOwn ==
  ASSUME IInv, nest # <<>>, Last(nest).kind \in {"block", "var", "class"},
         NEW c2 \in CompilerSet, c2.upvalues = current.upvalues, NEW f2 \in FrameSet,
         compilers' = [compilers EXCEPT ![Len(compilers)] = c2],
         frames' = [frames EXCEPT ![Level] = f2],
         classes' = ClassesAround(nest, classes), nest' = Front(nest),
         hadError' = hadError, TextOK(Front(nest), env'),
         LevelOK(c2, f2, FALSE, Depth(Front(nest), ClassesAround(nest, classes), Level), 0, 0)
  PROVE  IInv'
<1>1. /\ Good(compilers, classes, nest, frames) /\ hadError \in BOOLEAN
      /\ Level = Len(compilers) /\ current = compilers[Len(compilers)]
  BY Here
<1>2. /\ c2.upvalues = compilers[Len(compilers)].upvalues
      /\ LevelOK(c2, f2, FALSE,
                 Depth(Front(nest), ClassesAround(nest, classes), Len(compilers)), 0, 0)
      /\ frames' = [frames EXCEPT ![Len(compilers)] = f2]
  BY <1>1
<1>3. Good(compilers', ClassesAround(nest, classes), Front(nest), frames')
  BY <1>1, <1>2, GoodOwn
<1> QED BY <1>1, <1>3 DEF IInv

(* `}' of a block.                                                           *)
LEMMA EndBlockStep ==
  ASSUME IInv, EndBlock
  PROVE  IInv'
<1> DEFINE d == Depth(Front(nest), ClassesAround(nest, classes), Level)
           f == frames[Level]
<1>1. /\ nest # <<>> /\ Last(nest).kind = "block" /\ Kind(nest) = "block"
      /\ TextOK(Front(nest), OutOfScope)
  <2>1. Innermost({"block"})
    BY DEF EndBlock
  <2>2. /\ nest # <<>> /\ Last(nest).kind \in {"block"} /\ Kind(nest) = Last(nest).kind
        /\ TextOK(Front(nest), OutOfScope)
    BY <2>1, InnermostKind
  <2> QED BY <2>2
<1>2. /\ Good(compilers, classes, nest, frames) /\ Level = Len(compilers)
      /\ current = compilers[Len(compilers)] /\ current \in CompilerSet /\ f \in FrameSet
  BY Here
<1>3. /\ compilers' = [compilers EXCEPT ![Len(compilers)] = endScope(current)]
      /\ frames' = [frames EXCEPT ![Level] = Popped(f, current)]
      /\ env' = OutOfScope /\ nest' = Front(nest)
      /\ classes' = classes /\ hadError' = hadError
  BY <1>2 DEF EndBlock
<1>4. /\ ClassesAround(nest, classes) = classes
      /\ Deepens(Last(nest), classes) = 1 /\ Adds(Last(nest), "var") = 0
      /\ Adds(Last(nest), "class") = 0
  BY <1>1 DEF ClassesAround, Deepens, Scoped, Adds
<1>5. Last(nest).kind \in {"block", "var", "class"}
  BY <1>1
<1>6. /\ LevelOK(compilers[Len(compilers)], frames[Len(compilers)],
                 Last(nest).kind = "var" /\ compilers[Len(compilers)].scopeDepth > 0,
                 Depth(Front(nest), ClassesAround(nest, classes), Len(compilers))
                   + Deepens(Last(nest), classes),
                 Adds(Last(nest), "var"), Adds(Last(nest), "class"))
      /\ Depth(Front(nest), ClassesAround(nest, classes), Len(compilers)) \in Nat
  BY <1>1, <1>2, <1>5, TopEnds
<1>7. (Last(nest).kind = "var" /\ compilers[Len(compilers)].scopeDepth > 0) = FALSE
  BY <1>1
<1>8. LevelOK(current, f, FALSE, d + 1, 0, 0) /\ d \in Nat
  BY <1>2, <1>4, <1>6, <1>7
<1> HIDE DEF f, d
<1>9. /\ LevelOK(endScope(current), Popped(f, current), FALSE, d, 0, 0)
      /\ endScope(current) \in CompilerSet /\ endScope(current).upvalues = current.upvalues
      /\ Popped(f, current) \in FrameSet
  BY <1>2, <1>8, LeavesScope
<1>10. TextOK(Front(nest), env') /\ classes' = ClassesAround(nest, classes)
  BY <1>1, <1>3, <1>4
<1>11. LevelOK(endScope(current), Popped(f, current), FALSE,
               Depth(Front(nest), ClassesAround(nest, classes), Level), 0, 0)
  BY <1>9 DEF d
<1> QED BY <1>1, <1>3, <1>5, <1>9, <1>10, <1>11, EndsOwn

(* A construct opens; its own function may change.                           *)
LEMMA OpensOwn ==
  ASSUME IInv, InStatements, NEW kind \in {"block", "var", "class"},
         NEW e \in NestSet, e.kind = kind, e.level = Level,
         NEW cl2, AddsClass(classes, e, cl2),
         NEW cs2, Chained(cs2), Fits(cs2), Len(cs2) = Len(compilers),
         NEW fs2 \in Seq(FrameSet), Len(fs2) = Len(compilers),
         Stay(cs2, fs2, compilers, frames),
         NEW w \in BOOLEAN, w <=> e.kind = "var" /\ cs2[Level].scopeDepth > 0,
         LevelOK(cs2[Level], fs2[Level], w, Depth(nest, classes, Level) + Deepens(e, cl2),
                 Adds(e, "var"), Adds(e, "class")),
         NEW e2 \in Seq(BindingSet), Len(env) <= e.mark, e.mark <= Len(e2),
         compilers' = cs2, classes' = cl2, nest' = Append(nest, e), frames' = fs2,
         env' = e2, hadError' = hadError
  PROVE  IInv'
<1>1. /\ Good(compilers, classes, nest, frames) /\ TextOK(nest, env) /\ hadError \in BOOLEAN
      /\ Level = Len(compilers) /\ nest \in Seq(NestSet)
  BY Here
<1>2. Kind(nest) # "var" /\ Kind(nest) # "class"
  BY Opening
<1>3. /\ e.level = Len(compilers) /\ e.kind \in {"block", "var", "class"}
      /\ w <=> e.kind = "var" /\ cs2[Len(compilers)].scopeDepth > 0
      /\ LevelOK(cs2[Len(compilers)], fs2[Len(compilers)], w,
                 Depth(nest, classes, Len(compilers)) + Deepens(e, cl2),
                 Adds(e, "var"), Adds(e, "class"))
  BY <1>1
<1>4. Good(cs2, cl2, Append(nest, e), fs2)
  BY <1>1, <1>2, <1>3, GoodPush
<1>5. TextOK(Append(nest, e), e2)
  BY <1>1, TextPush
<1> QED BY <1>1, <1>4, <1>5 DEF IInv

(* `var' and its name, up to the initializer.                                *)
LEMMA VarDeclarationStep ==
  ASSUME IInv, NEW n \in Names, varDeclaration(n)
  PROVE  IInv'
<1>1. CASE ~ CanDeclare(current, n)
  BY <1>1, AfreshStep DEF varDeclaration, Error
<1>2. CASE CanDeclare(current, n)
  <2> DEFINE e == Nesting("var", n, Level, Len(env))
             c2 == declareVariable(current, n)
             cs2 == [compilers EXCEPT ![Len(compilers)] = c2]
             d == Depth(nest, classes, Level)
             w == c2.scopeDepth > 0
  <2>1. /\ Chained(compilers) /\ Fits(compilers) /\ compilers # <<>>
        /\ Level = Len(compilers) /\ Level \in Nat
        /\ current = compilers[Len(compilers)] /\ current \in CompilerSet
        /\ frames \in Seq(FrameSet) /\ Len(frames) = Len(compilers)
        /\ env \in Seq(BindingSet) /\ Len(env) \in Nat
    BY Here
  <2>2. InStatements
    BY DEF varDeclaration, CanOpen
  <2>3. LevelOK(current, frames[Level], FALSE, d, 0, 0) /\ d \in Nat
    BY <2>2, Opening
  <2>4. /\ compilers' = cs2 /\ nest' = Append(nest, e)
        /\ classes' = classes /\ hadError' = hadError /\ env' = env /\ frames' = frames
    BY <1>2, <2>1 DEF varDeclaration, Opened, Nesting
  <2>5. e \in NestSet /\ e.kind = "var" /\ e.level = Level /\ e.mark = Len(env)
    BY <2>1 DEF Nesting, NestSet
  <2>6. /\ LocalsOK(current, FALSE) /\ current.scopeDepth = d
        /\ frames[Level].height
             = Len(current.locals) - (IF current.scopeDepth > 0 THEN 0 ELSE 0) + 0
        /\ frames[Level].open \subseteq CapturedSlots(current)
        /\ frames[Level].open \subseteq 0 .. frames[Level].height - 1
    BY <2>3 DEF LevelOK
  <2>7. /\ Keeps(c2, current) /\ c2.scopeDepth = current.scopeDepth
        /\ Len(c2.locals) = Len(current.locals) + (IF current.scopeDepth > 0 THEN 1 ELSE 0)
        /\ LocalsOK(c2, current.scopeDepth > 0)
    <3>1. n \in LocalName
      BY DEF LocalName
    <3>2. current.scopeDepth = 0 \/ ~ Full(current)
      BY <1>2 DEF CanDeclare
    <3>3. current.scopeDepth > 0 => ~ Full(current)
      BY <3>2
    <3> QED BY <2>1, <2>6, <3>1, <3>3, Waiting
  <2> HIDE DEF c2, e
  <2>8. Len(current.locals) \in Nat /\ c2 \in CompilerSet /\ c2.upvalues = current.upvalues
    BY <2>1, <2>7, Fields DEF Keeps
  <2>9. /\ Chained(cs2) /\ Fits(cs2) /\ Len(cs2) = Len(compilers) /\ cs2[Level] = c2
        /\ \A k \in 1 .. Len(compilers) - 1 : Extended(cs2[k], compilers[k])
    <3>1. c2.upvalues = compilers[Len(compilers)].upvalues
      BY <2>1, <2>8
    <3>2. cs2 = [compilers EXCEPT ![Len(compilers)] = c2]
      OBVIOUS
    <3> HIDE DEF cs2
    <3>3. /\ Chained(cs2) /\ Fits(cs2) /\ Len(cs2) = Len(compilers)
          /\ cs2[Len(compilers)] = c2
          /\ \A k \in 1 .. Len(compilers) - 1 : Extended(cs2[k], compilers[k])
      BY <2>1, <2>8, <3>1, <3>2, TopReplaced
    <3> QED BY <2>1, <3>3
  <2> HIDE DEF cs2
  <2>10. LevelOK(c2, frames[Level], w, d + 0, 1, 0)
    <3>1. d + 0 = d
      BY <2>3
    <3>2. frames[Level].height = Len(c2.locals) - (IF c2.scopeDepth > 0 THEN 1 ELSE 0) + 0
      BY <2>6, <2>7, <2>8
    <3>3. frames[Level].open \subseteq CapturedSlots(c2)
      BY <2>6, <2>7 DEF Keeps
    <3>4. LocalsOK(c2, w) /\ c2.scopeDepth = d + 0
      BY <2>6, <2>7, <3>1
    <3> QED BY <2>6, <3>2, <3>3, <3>4 DEF LevelOK
  <2>11. AddsClass(classes, e, classes) /\ Deepens(e, classes) = 0
         /\ Adds(e, "var") = 1 /\ Adds(e, "class") = 0
    BY <2>5 DEF AddsClass, Deepens, Scoped, Adds
  <2>12. LevelOK(cs2[Level], frames[Level], w, d + Deepens(e, classes),
                 Adds(e, "var"), Adds(e, "class"))
    BY <2>9, <2>10, <2>11
  <2>13. w \in BOOLEAN /\ (w <=> e.kind = "var" /\ cs2[Level].scopeDepth > 0)
    BY <2>5, <2>9
  <2>14. Stay(cs2, frames, compilers, frames)
    BY <2>9 DEF Stay
  <2>15. Len(env) <= e.mark /\ e.mark <= Len(env)
    BY <2>1, <2>5
  <2> HIDE DEF w
  <2> QED BY <2>1, <2>2, <2>4, <2>5, <2>9, <2>11, <2>12, <2>13, <2>14, <2>15, OpensOwn DEF d
<1> QED BY <1>1, <1>2

(* The value of a declaration stays on the stack when it is a local's.       *)
LEMMA ValuedOK ==
  ASSUME IInv
  PROVE  /\ Valued(frames) = [frames EXCEPT ![Level] = Valued(frames)[Level]]
         /\ Valued(frames)[Level] \in FrameSet
         /\ Valued(frames)[Level].height
              = frames[Level].height + (IF current.scopeDepth > 0 THEN 1 ELSE 0)
         /\ Valued(frames)[Level].open = frames[Level].open
         /\ Valued(frames) \in Seq(FrameSet) /\ Len(Valued(frames)) = Len(frames)
         /\ \A k \in DOMAIN frames : k # Level => Valued(frames)[k] = frames[k]
<1> DEFINE f == frames[Level]
<1>1. /\ frames \in Seq(FrameSet) /\ Level \in DOMAIN frames /\ f \in FrameSet
  BY Here
<1>2. f.height \in Nat /\ f.height + 0 = f.height
  <2>1. f.height \in Nat
    BY <1>1 DEF FrameSet
  <2> QED BY <2>1
<1>3. CASE current.scopeDepth > 0
  <2> DEFINE g == Pushed(f)
  <2>1. /\ g \in FrameSet /\ g.height = f.height + 1 /\ g.open = f.open
    <3>1. f \in FrameSet /\ f.height + 1 \in Nat
      BY <1>1, <1>2
    <3> HIDE DEF f
    <3> QED BY <3>1 DEF Pushed, FrameSet
  <2>2. Valued(frames) = [frames EXCEPT ![Level] = g]
    BY <1>3 DEF Valued, IsLocal
  <2> HIDE DEF g
  <2>3. /\ Valued(frames) \in Seq(FrameSet) /\ Len(Valued(frames)) = Len(frames)
        /\ Valued(frames)[Level] = g
        /\ \A k \in DOMAIN frames : k # Level => Valued(frames)[k] = frames[k]
    BY <1>1, <2>1, <2>2, FrameReplaced
  <2> QED BY <1>3, <2>1, <2>2, <2>3
<1>4. CASE ~ (current.scopeDepth > 0)
  <2>1. Valued(frames) = frames
    BY <1>4 DEF Valued, IsLocal
  <2>2. frames = [frames EXCEPT ![Level] = frames[Level]]
    <3>1. frames \in [DOMAIN frames -> FrameSet]
      BY <1>1, Elements
    <3> QED BY <1>1, <3>1
  <2> QED BY <1>1, <1>2, <1>4, <2>1, <2>2
<1> QED BY <1>3, <1>4

(* And its name is in scope.                                                 *)
LEMMA DefinedOK ==
  ASSUME IInv, NEW n \in LocalName, NEW e \in Seq(BindingSet)
  PROVE  /\ Defined(e, n) \in Seq(BindingSet) /\ Len(Defined(e, n)) \in Nat
         /\ Len(e) \in Nat /\ Len(e) <= Len(Defined(e, n))
<1>1. Level \in Nat /\ Last(frames).height \in Nat
  <2>1. Level \in Nat /\ Last(frames) = frames[Level] /\ frames[Level] \in FrameSet
    BY Here
  <2> QED BY <2>1 DEF FrameSet
<1>2. Len(e) \in Nat
  BY Elements
<1> DEFINE b == Binding(n, Level, Last(frames).height)
<1>3. b \in BindingSet
  BY <1>1 DEF Binding, BindingSet
<1> HIDE DEF b
<1>4. Append(e, b) \in Seq(BindingSet) /\ Len(Append(e, b)) = Len(e) + 1
  BY <1>3, Appended
<1>5. CASE IsLocal
  <2>1. Defined(e, n) = Append(e, b)
    BY <1>5 DEF Defined, b
  <2> QED BY <1>2, <1>4, <2>1
<1>6. CASE ~ IsLocal
  <2>1. Defined(e, n) = e
    BY <1>6 DEF Defined
  <2> QED BY <1>2, <2>1
<1> QED BY <1>5, <1>6

(* The end of a declaration's initializer.                                   *)
LEMMA DefineVariableStep ==
  ASSUME IInv, defineVariable
  PROVE  IInv'
<1> DEFINE d == Depth(Front(nest), ClassesAround(nest, classes), Level)
           f == frames[Level]
           c2 == markInitialized(current)
           f2 == Valued(frames)[Level]
           w == current.scopeDepth > 0
<1>1. /\ nest # <<>> /\ Last(nest).kind = "var" /\ Kind(nest) = "var"
      /\ Last(nest) \in NestSet /\ Last(nest).mark \in 0 .. Len(env)
  <2>1. Innermost({"var"})
    BY DEF defineVariable
  <2>2. /\ nest # <<>> /\ Last(nest).kind \in {"var"} /\ Kind(nest) = Last(nest).kind
        /\ Last(nest) \in NestSet /\ Last(nest).mark \in 0 .. Len(env)
    BY <2>1, InnermostKind
  <2> QED BY <2>2
<1>2. /\ Good(compilers, classes, nest, frames) /\ Level = Len(compilers)
      /\ current = compilers[Len(compilers)] /\ current \in CompilerSet /\ f \in FrameSet
      /\ nest \in Seq(NestSet) /\ TextOK(nest, env) /\ env \in Seq(BindingSet)
  BY Here
<1>3. /\ compilers' = [compilers EXCEPT ![Len(compilers)] = c2]
      /\ frames' = Valued(frames) /\ env' = Defined(env, Last(nest).name)
      /\ nest' = Front(nest) /\ classes' = classes /\ hadError' = hadError
  BY <1>2 DEF defineVariable
<1>4. /\ ClassesAround(nest, classes) = classes
      /\ Deepens(Last(nest), classes) = 0 /\ Adds(Last(nest), "var") = 1
      /\ Adds(Last(nest), "class") = 0
  BY <1>1 DEF ClassesAround, Deepens, Scoped, Adds
<1>5. Last(nest).kind \in {"block", "var", "class"}
  BY <1>1
<1>6. /\ LevelOK(compilers[Len(compilers)], frames[Len(compilers)],
                 Last(nest).kind = "var" /\ compilers[Len(compilers)].scopeDepth > 0,
                 Depth(Front(nest), ClassesAround(nest, classes), Len(compilers))
                   + Deepens(Last(nest), classes),
                 Adds(Last(nest), "var"), Adds(Last(nest), "class"))
      /\ Depth(Front(nest), ClassesAround(nest, classes), Len(compilers)) \in Nat
  BY <1>1, <1>2, <1>5, TopEnds
<1>7. (Last(nest).kind = "var" /\ compilers[Len(compilers)].scopeDepth > 0) = w
  BY <1>1, <1>2
<1>8. LevelOK(current, f, w, d + 0, 1, 0) /\ d \in Nat
  BY <1>2, <1>4, <1>6, <1>7
<1> HIDE DEF d
<1>9. /\ LocalsOK(current, w) /\ current.scopeDepth = d + 0
      /\ f.height = Len(current.locals) - (IF current.scopeDepth > 0 THEN 1 ELSE 0) + 0
      /\ f.open \subseteq CapturedSlots(current) /\ f.open \subseteq 0 .. f.height - 1
  BY <1>8 DEF LevelOK
<1>10. /\ Keeps(c2, current) /\ c2.scopeDepth = current.scopeDepth
       /\ Len(c2.locals) = Len(current.locals) /\ LocalsOK(c2, FALSE)
  BY <1>2, <1>9, Initialized
<1>11. /\ frames' = [frames EXCEPT ![Level] = f2] /\ f2 \in FrameSet
       /\ f2.height = f.height + (IF current.scopeDepth > 0 THEN 1 ELSE 0)
       /\ f2.open = f.open
  BY <1>3, ValuedOK
<1>12. Len(current.locals) \in Nat /\ f.height \in Nat
  BY <1>2, Fields DEF FrameSet
<1> HIDE DEF c2, f2, f, w
<1>13. LevelOK(c2, f2, FALSE, d, 0, 0)
  <2>1. c2.scopeDepth = d
    BY <1>8, <1>9, <1>10
  <2>2. f2.height = Len(current.locals)
    BY <1>9, <1>11, <1>12
  <2>3. f2.height = Len(c2.locals) - (IF c2.scopeDepth > 0 THEN 0 ELSE 0) + 0
    BY <1>10, <1>12, <2>2
  <2>4. f2.open \subseteq CapturedSlots(c2)
    BY <1>9, <1>10, <1>11 DEF Keeps
  <2>5. f2.open \subseteq 0 .. f2.height - 1
    <3>1. f.height <= f2.height /\ f2.height \in Nat
      BY <1>11, <1>12
    <3>2. 0 .. f.height - 1 \subseteq 0 .. f2.height - 1
      BY <1>12, <3>1
    <3> QED BY <1>9, <1>11, <3>2
  <2> QED BY <1>10, <2>1, <2>3, <2>4, <2>5 DEF LevelOK
<1>14. TextOK(Front(nest), env')
  <2>1. Last(nest).name \in LocalName
    BY <1>1 DEF NestSet, LocalName
  <2>2. /\ env' \in Seq(BindingSet) /\ Len(env') \in Nat
        /\ Len(env) \in Nat /\ Len(env) <= Len(env')
    BY <1>2, <1>3, <2>1, DefinedOK
  <2>3. Last(nest).mark <= Len(env')
    BY <1>1, <2>2
  <2> QED BY <1>1, <1>2, <2>2, <2>3, TextPop
<1>15. c2 \in CompilerSet /\ c2.upvalues = current.upvalues
  BY <1>10 DEF Keeps
<1>16. classes' = ClassesAround(nest, classes)
  BY <1>3, <1>4
<1>17. LevelOK(c2, f2, FALSE, Depth(Front(nest), ClassesAround(nest, classes), Level), 0, 0)
  BY <1>13 DEF d
<1> QED BY <1>1, <1>3, <1>5, <1>11, <1>14, <1>15, <1>16, <1>17, EndsOwn

(* A parameter list is so many names.                                        *)
LEMMA ParamList ==
  ASSUME NEW ps \in ParamLists
  PROVE  Len(ps) \in Nat /\ ps \in [1 .. Len(ps) -> Names] /\ DOMAIN ps = 1 .. Len(ps)
<1>1. PICK k \in 0 .. MaxParams : ps \in [1 .. k -> Names]
  BY DEF ParamLists
<1>2. k \in Nat
  OBVIOUS
<1>3. ps \in Seq(Names) /\ Len(ps) = k
  BY <1>1, <1>2
<1> QED BY <1>1, <1>2, <1>3

(* The callee's slots are bound above the text around it.                    *)
LEMMA CalleeOK ==
  ASSUME NEW type, NEW ps \in ParamLists, Level \in Nat, NEW e \in Seq(BindingSet)
  PROVE  /\ e \o Callee(type, ps) \in Seq(BindingSet)
         /\ Len(e) \in Nat /\ Len(e \o Callee(type, ps)) \in Nat
         /\ Len(e) <= Len(e \o Callee(type, ps))
<1> DEFINE a == IF type = "function" THEN <<>> ELSE <<Binding("this", Level + 1, 0)>>
           b == [i \in DOMAIN ps |-> Binding(ps[i], Level + 1, i)]
<1>1. Len(ps) \in Nat /\ ps \in [1 .. Len(ps) -> Names] /\ DOMAIN ps = 1 .. Len(ps)
  BY ParamList
<1>2. Level + 1 \in Nat /\ 0 \in Nat
  OBVIOUS
<1>3. a \in Seq(BindingSet)
  <2>1. Binding("this", Level + 1, 0) \in BindingSet
    BY <1>2 DEF Binding, BindingSet, LocalName
  <2> QED BY <2>1
<1>4. b \in Seq(BindingSet)
  <2>1. ASSUME NEW i \in 1 .. Len(ps) PROVE Binding(ps[i], Level + 1, i) \in BindingSet
    <3>1. ps[i] \in LocalName
      BY <1>1 DEF LocalName
    <3>2. i \in Nat
      BY <1>1
    <3> QED BY <1>2, <3>1, <3>2 DEF Binding, BindingSet
  <2>2. b \in [1 .. Len(ps) -> BindingSet]
    BY <1>1, <2>1
  <2> HIDE DEF b
  <2> QED BY <1>1, <2>2
<1>5. Callee(type, ps) = a \o b
  BY DEF Callee
<1> HIDE DEF a, b
<1>6. a \o b \in Seq(BindingSet)
  BY <1>3, <1>4, ConcatProperties
<1> DEFINE c == a \o b
<1>7. c \in Seq(BindingSet) /\ Callee(type, ps) = c
  BY <1>5, <1>6
<1> HIDE DEF c
<1>8. e \o c \in Seq(BindingSet) /\ Len(e \o c) = Len(e) + Len(c)
  BY <1>7, ConcatProperties
<1>9. Len(e) \in Nat /\ Len(c) \in Nat
  BY <1>7
<1> QED BY <1>7, <1>8, <1>9

(* A function opens: its parameters are its locals, and its frame.           *)
LEMMA EnterStep ==
  ASSUME IInv, NEW kind \in {"fun", "method"}, Kind(nest) # "var",
         Kind(nest) = "class" => kind = "method",
         NEW type \in {"function", "method", "initializer"}, NEW ps \in ParamLists,
         NEW cs2, Chained(cs2), Fits(cs2), Len(cs2) = Len(compilers),
         Stay(cs2, frames, compilers, frames),
         LevelOK(cs2[Level], frames[Level], FALSE, Depth(nest, classes, Level),
                 IF kind = "fun" THEN 1 ELSE 0, Building(nest, Level)),
         NEW e2 \in Seq(BindingSet), Len(env) <= Len(e2),
         Enter(cs2, kind, type, ps, e2)
  PROVE  IInv'
<1>1. CASE ParametersClash(type, ps)
  BY <1>1, AfreshStep DEF Enter, Error
<1>2. CASE ~ ParametersClash(type, ps)
  <2> DEFINE e == Nesting(kind, "", Level, Len(e2))
             c == Parameters(type, ps)
             f == [height |-> 1 + Len(ps), open |-> {}]
             t2 == e2 \o Callee(type, ps)
  <2>1. /\ Good(compilers, classes, nest, frames) /\ TextOK(nest, env) /\ hadError \in BOOLEAN
        /\ Level = Len(compilers) /\ Level \in Nat /\ nest \in Seq(NestSet)
        /\ Len(env) \in Nat
    BY Here
  <2>2. Len(ps) \in Nat /\ ps \in [1 .. Len(ps) -> Names]
    BY ParamList
  <2>3. Taking(c, Len(ps))
    BY <1>2, <2>2, ParametersOK
  <2>4. /\ t2 \in Seq(BindingSet) /\ Len(e2) \in Nat /\ Len(t2) \in Nat /\ Len(e2) <= Len(t2)
    BY <2>1, CalleeOK
  <2>5. /\ e \in NestSet /\ e.kind = kind /\ e.level = Level /\ e.mark = Len(e2)
    BY <2>1, <2>4 DEF Nesting, NestSet
  <2>6. f \in FrameSet /\ f.height = Len(ps) + 1 /\ f.open = {}
    BY <2>2 DEF FrameSet
  <2>7. /\ compilers' = Append(cs2, c) /\ frames' = Append(frames, f)
        /\ nest' = Append(nest, e) /\ env' = t2
        /\ classes' = classes /\ hadError' = hadError
    BY <1>2 DEF Enter, Opened, Nesting
  <2> HIDE DEF e, c, f, t2
  <2>8. /\ e.level = Len(compilers) /\ e.kind \in {"fun", "method"}
        /\ Kind(nest) = "class" => e.kind = "method"
    BY <2>1, <2>5
  <2>9. LevelOK(cs2[Len(compilers)], frames[Len(compilers)], FALSE,
                Depth(nest, classes, Len(compilers)), Adds(e, "fun"),
                Building(nest, Len(compilers)))
    <3>1. Adds(e, "fun") = IF kind = "fun" THEN 1 ELSE 0
      BY <2>5 DEF Adds
    <3> QED BY <2>1, <3>1
  <2>10. Good(Append(cs2, c), classes, Append(nest, e), Append(frames, f))
    BY <2>1, <2>2, <2>3, <2>5, <2>6, <2>8, <2>9, GoodEnter
  <2>11. TextOK(Append(nest, e), t2)
    <3>1. Len(env) <= e.mark /\ e.mark <= Len(t2)
      BY <2>4, <2>5
    <3> QED BY <2>1, <2>4, <2>5, <3>1, TextPush
  <2> QED BY <2>1, <2>7, <2>10, <2>11 DEF IInv
<1> QED BY <1>1, <1>2

(* A declaration whose value is about to be pushed.                          *)
LEMMA DeclaresTop ==
  ASSUME IInv, InStatements, NEW n \in Names, CanDeclare(current, n)
  PROVE  /\ Declared(current, n) \in CompilerSet
         /\ Declared(current, n).upvalues = current.upvalues
         /\ LevelOK(Declared(current, n), frames[Level], FALSE,
                    Depth(nest, classes, Level), 1, 0)
<1> DEFINE d == Depth(nest, classes, Level)
           c == current
           f == frames[Level]
           c2 == Declared(c, n)
<1>1. LevelOK(c, f, FALSE, d, 0, 0) /\ d \in Nat
  BY Opening
<1>2. /\ LocalsOK(c, FALSE) /\ c.scopeDepth = d
      /\ f.height = Len(c.locals) - (IF c.scopeDepth > 0 THEN 0 ELSE 0) + 0
      /\ f.open \subseteq CapturedSlots(c) /\ f.open \subseteq 0 .. f.height - 1
  BY <1>1 DEF LevelOK
<1>3. c \in CompilerSet
  BY Here
<1>4. n \in LocalName
  BY DEF LocalName
<1>5. c.scopeDepth = 0 \/ ~ Full(c)
  BY DEF CanDeclare
<1>6. c.scopeDepth > 0 => ~ Full(c)
  BY <1>5
<1> HIDE DEF c
<1>7. /\ Keeps(c2, c) /\ c2.scopeDepth = c.scopeDepth
      /\ Len(c2.locals) = Len(c.locals) + (IF c.scopeDepth > 0 THEN 1 ELSE 0)
      /\ LocalsOK(c2, FALSE)
  BY <1>2, <1>3, <1>4, <1>6, DeclaredOK
<1>8. Len(c.locals) \in Nat
  BY <1>3, Fields
<1> HIDE DEF c2, f, d
<1>9. f.height = Len(c2.locals) - (IF c2.scopeDepth > 0 THEN 1 ELSE 0) + 0
  BY <1>2, <1>7, <1>8
<1>10. LevelOK(c2, f, FALSE, d, 1, 0)
  BY <1>2, <1>7, <1>9 DEF LevelOK, Keeps
<1>11. c2 \in CompilerSet /\ c2.upvalues = c.upvalues
  BY <1>7 DEF Keeps
<1> QED BY <1>10, <1>11 DEF c2, c, f, d

(* One compiler replaced: the others stay.                                   *)
LEMMA ReplacedStays ==
  ASSUME IInv, NEW c2 \in CompilerSet, c2.upvalues = current.upvalues,
         NEW cs2, cs2 = [compilers EXCEPT ![Len(compilers)] = c2]
  PROVE  /\ Chained(cs2) /\ Fits(cs2) /\ cs2 # <<>> /\ Len(cs2) = Len(compilers)
         /\ cs2[Level] = c2 /\ Stay(cs2, frames, compilers, frames)
<1>1. /\ Chained(compilers) /\ Fits(compilers) /\ compilers # <<>>
      /\ Level = Len(compilers) /\ current = compilers[Len(compilers)]
  BY Here
<1>2. c2.upvalues = compilers[Len(compilers)].upvalues
  BY <1>1
<1>3. /\ Chained(cs2) /\ Fits(cs2) /\ cs2 # <<>> /\ Len(cs2) = Len(compilers)
      /\ cs2[Len(compilers)] = c2
      /\ \A k \in 1 .. Len(compilers) - 1 : Extended(cs2[k], compilers[k])
  BY <1>1, <1>2, TopReplaced
<1>4. Stay(cs2, frames, compilers, frames)
  BY <1>3 DEF Stay
<1> QED BY <1>1, <1>3, <1>4

(* `fun', its name and its parameters.                                       *)
LEMMA FunDeclarationStep ==
  ASSUME IInv, NEW n \in Names, NEW ps \in ParamLists, funDeclaration(n, ps)
  PROVE  IInv'
<1>1. CASE ~ CanDeclare(current, n)
  BY <1>1, AfreshStep DEF funDeclaration, Error
<1>2. CASE CanDeclare(current, n)
  <2> DEFINE c2 == Declared(current, n)
             cs2 == [compilers EXCEPT ![Len(compilers)] = c2]
             e2 == Defined(env, n)
  <2>1. /\ Level = Len(compilers) /\ current = compilers[Len(compilers)]
        /\ nest \in Seq(NestSet) /\ NestOK(nest, Level)
        /\ env \in Seq(BindingSet) /\ Len(env) \in Nat
    <3>1. /\ Good(compilers, classes, nest, frames) /\ Level = Len(compilers)
          /\ current = compilers[Len(compilers)]
          /\ env \in Seq(BindingSet) /\ Len(env) \in Nat
      BY Here
    <3>2. nest \in Seq(NestSet) /\ NestOK(nest, Len(compilers))
      BY <3>1, GoodParts
    <3> QED BY <3>1, <3>2
  <2>2. InStatements
    BY DEF funDeclaration, CanOpen
  <2>3. Kind(nest) # "var" /\ Kind(nest) # "class"
    BY <2>2, Opening
  <2>4. Building(nest, Level) = 0
    BY <2>1, <2>3, CountsTop
  <2>5. /\ c2 \in CompilerSet /\ c2.upvalues = current.upvalues
        /\ LevelOK(c2, frames[Level], FALSE, Depth(nest, classes, Level), 1, 0)
    BY <1>2, <2>2, DeclaresTop
  <2>6. Enter(cs2, "fun", "function", ps, e2)
    BY <1>2, <2>1 DEF funDeclaration, Declared
  <2>7. e2 \in Seq(BindingSet) /\ Len(env) <= Len(e2)
    <3>1. n \in LocalName
      BY DEF LocalName
    <3> QED BY <2>1, <3>1, DefinedOK
  <2> HIDE DEF c2, e2
  <2>8. cs2 = [compilers EXCEPT ![Len(compilers)] = c2]
    OBVIOUS
  <2> HIDE DEF cs2
  <2>9. /\ Chained(cs2) /\ Fits(cs2) /\ Len(cs2) = Len(compilers)
        /\ cs2[Level] = c2 /\ Stay(cs2, frames, compilers, frames)
    BY <2>5, <2>8, ReplacedStays
  <2> DEFINE kind == "fun"
             type == "function"
  <2>10. /\ kind \in {"fun", "method"} /\ (Kind(nest) = "class" => kind = "method")
         /\ type \in {"function", "method", "initializer"}
    BY <2>3
  <2>11. LevelOK(cs2[Level], frames[Level], FALSE, Depth(nest, classes, Level),
                 IF kind = "fun" THEN 1 ELSE 0, Building(nest, Level))
    BY <2>4, <2>5, <2>9
  <2>12. Enter(cs2, kind, type, ps, e2)
    BY <2>6
  <2> HIDE DEF kind, type
  <2> QED BY <2>3, <2>7, <2>9, <2>10, <2>11, <2>12, EnterStep
<1> QED BY <1>1, <1>2

(* A method or initializer of the class being compiled.                      *)
LEMMA MethodStep ==
  ASSUME IInv, NEW type \in {"method", "initializer"}, NEW ps \in ParamLists, method(type, ps)
  PROVE  IInv'
<1>1. /\ Good(compilers, classes, nest, frames) /\ Level = Len(compilers)
      /\ Chained(compilers) /\ Fits(compilers) /\ Level \in 1 .. Level
      /\ \A k \in 1 .. Len(compilers) : compilers[k] \in CompilerSet
      /\ env \in Seq(BindingSet) /\ Len(env) \in Nat
  BY Here
<1>2. /\ nest \in Seq(NestSet) /\ NestOK(nest, Level)
      /\ LevelGood(compilers, classes, nest, frames, Level)
  <2>1. /\ nest \in Seq(NestSet) /\ NestOK(nest, Len(compilers))
        /\ \A k \in 1 .. Len(compilers) : LevelGood(compilers, classes, nest, frames, k)
    BY <1>1, GoodParts
  <2> QED BY <1>1, <2>1
<1>3. Kind(nest) = "class"
  <2>1. Innermost({"class"})
    BY DEF method
  <2>2. Last(nest).kind \in {"class"} /\ Kind(nest) = Last(nest).kind
    BY <2>1, InnermostKind
  <2> QED BY <2>2
<1>4. Kind(nest) # "var"
  BY <1>3
<1>5. Awaited(nest, Level) = 0 /\ Waits(compilers, nest, Level) = FALSE
  BY <1>2, <1>4, CountsTop, Waiters
<1>6. Stay(compilers, frames, compilers, frames)
  <2>1. \A c \in CompilerSet : Extended(c, c)
    BY DEF Extended
  <2>2. Level \in Nat
    BY Here
  <2>3. \A k \in 1 .. Len(compilers) - 1 : k \in 1 .. Len(compilers) /\ k # Len(compilers)
    BY <1>1, <2>2, BelowLast
  <2> QED BY <1>1, <2>1, <2>3 DEF Stay
<1> DEFINE kind == "method"
<1>7. /\ kind \in {"fun", "method"} /\ (Kind(nest) = "class" => kind = "method")
      /\ type \in {"function", "method", "initializer"}
  OBVIOUS
<1>8. LevelOK(compilers[Level], frames[Level], FALSE, Depth(nest, classes, Level),
              IF kind = "fun" THEN 1 ELSE 0, Building(nest, Level))
  BY <1>2, <1>5 DEF LevelGood
<1>9. Enter(compilers, kind, type, ps, env)
  BY DEF method
<1>10. Len(env) <= Len(env)
  BY <1>1
<1> HIDE DEF kind
<1> QED BY <1>1, <1>4, <1>6, <1>7, <1>8, <1>9, <1>10, EnterStep

(* What a closure captures are slots of the function around it.              *)
LEMMA CaughtOK ==
  ASSUME NEW cs, Chained(cs), NEW k \in DOMAIN cs, NEW caught,
         caught = {u.index : u \in {v \in ToSet(cs[k].upvalues) : v.isLocal}}
  PROVE  caught \subseteq CapturedSlots(cs[k - 1])
<1>1. UpvaluesOK(cs, k)
  BY DEF Chained
<1>2. SUFFICES ASSUME NEW x \in caught PROVE x \in CapturedSlots(cs[k - 1])
  OBVIOUS
<1>3. PICK u \in ToSet(cs[k].upvalues) : u.isLocal /\ x = u.index
  OBVIOUS
<1>4. PICK i \in DOMAIN cs[k].upvalues : u = cs[k].upvalues[i]
  BY <1>3 DEF ToSet
<1> QED BY <1>1, <1>3, <1>4 DEF UpvaluesOK

(* Captured slots are slots.                                                 *)
LEMMA CapturedBelow ==
  ASSUME NEW c \in CompilerSet, NEW h \in Nat, Len(c.locals) <= h
  PROVE  CapturedSlots(c) \subseteq 0 .. h - 1
<1>1. Len(c.locals) \in Nat /\ DOMAIN c.locals = 1 .. Len(c.locals)
  BY Fields
<1>2. \A i \in 1 .. Len(c.locals) : i - 1 \in 0 .. h - 1
  BY <1>1
<1> QED BY <1>1, <1>2 DEF CapturedSlots

(* The frame around, when a function's value is on it.                       *)
LEMMA ValueHeld ==
  ASSUME NEW c \in CompilerSet, NEW f \in FrameSet, NEW d, NEW a \in {0, 1}, NEW b \in Nat,
         LevelOK(c, f, FALSE, d, a, b),
         NEW f2 \in FrameSet, f2.height = f.height + (IF c.scopeDepth > 0 THEN a ELSE 0),
         f2.open \subseteq CapturedSlots(c)
  PROVE  LevelOK(c, f2, FALSE, d, 0, b)
<1>1. /\ LocalsOK(c, FALSE) /\ c.scopeDepth = d
      /\ f.height = Len(c.locals) - (IF c.scopeDepth > 0 THEN a ELSE 0) + b
  BY DEF LevelOK
<1>2. Len(c.locals) \in Nat
  BY Fields
<1>3. f2.height = Len(c.locals) + b
  <2> DEFINE m == IF c.scopeDepth > 0 THEN a ELSE 0
  <2>1. m \in Int /\ f.height = Len(c.locals) - m + b /\ f2.height = f.height + m
    BY <1>1
  <2> HIDE DEF m
  <2>2. \A l, x, y \in Int : l - x + y + x = l + y
    OBVIOUS
  <2>3. Len(c.locals) - m + b + m = Len(c.locals) + b
    BY <1>2, <2>1, <2>2
  <2> QED BY <2>1, <2>3
<1>4. f2.height = Len(c.locals) - (IF c.scopeDepth > 0 THEN 0 ELSE 0) + b
  BY <1>2, <1>3
<1>5. f2.height \in Nat /\ Len(c.locals) <= f2.height
  BY <1>2, <1>3
<1>6. f2.open \subseteq 0 .. f2.height - 1
  BY <1>5, CapturedBelow
<1> QED BY <1>1, <1>4, <1>6 DEF LevelOK

(* The end of a function's body.                                             *)
LEMMA EndCompilerStep ==
  ASSUME IInv, endCompiler
  PROVE  IInv'
<1> DEFINE M == Len(compilers) - 1
           c == compilers[M]
           f == frames[M]
           e == Last(nest)
           caught == {u.index : u \in {v \in ToSet(compilers[Len(compilers)].upvalues) : v.isLocal}}
           add == IF c.scopeDepth > 0 THEN Adds(e, "fun") ELSE 0
           f2 == [height |-> f.height + add, open |-> f.open \union caught]
           B == Building(Front(nest), M)
           d == Depth(Front(nest), classes, M)
<1>1. /\ nest # <<>> /\ e.kind \in {"fun", "method"} /\ Kind(nest) = e.kind
      /\ TextOK(Front(nest), OutOfScope)
  <2>1. Innermost({"fun", "method"})
    BY DEF endCompiler
  <2> QED BY <2>1, InnermostKind
<1>2. /\ Good(compilers, classes, nest, frames) /\ Level = Len(compilers)
      /\ Level \in Nat /\ Level \in 1 .. Level /\ Chained(compilers)
      /\ current = compilers[Len(compilers)] /\ hadError \in BOOLEAN
      /\ \A k \in 1 .. Len(compilers) : compilers[k] \in CompilerSet
      /\ frames \in Seq(FrameSet) /\ Len(frames) = Len(compilers)
  BY Here
<1>3. /\ M \in 1 .. M /\ e.level = M
      /\ LevelOK(c, f, FALSE, d, Adds(e, "fun"), B) /\ B \in Nat
  BY <1>1, <1>2, AroundEnds
<1>4. M \in Nat /\ M \in 1 .. Len(compilers) /\ M # Len(compilers) /\ Len(compilers) - 1 = M
  BY <1>2, <1>3
<1>5. /\ Front(frames) \in Seq(FrameSet) /\ Len(Front(frames)) = M
      /\ DOMAIN Front(frames) = 1 .. M
      /\ \A k \in 1 .. M : Front(frames)[k] = frames[k]
  <2>1. frames # <<>>
    BY <1>2
  <2> QED BY <1>2, <2>1, WithoutLast
<1>6. /\ compilers' = Front(compilers) /\ nest' = Front(nest) /\ env' = OutOfScope
      /\ classes' = classes /\ hadError' = hadError
  BY DEF endCompiler
<1>7. frames' = [Front(frames) EXCEPT ![M] = f2]
  <2>1. frames' = [Front(frames) EXCEPT
                     ![M] = [height |-> Front(frames)[M].height
                                + (IF e.kind = "fun" /\ c.scopeDepth > 0 THEN 1 ELSE 0),
                             open |-> Front(frames)[M].open \union caught]]
    BY <1>2, <1>3, <1>4, <1>5 DEF endCompiler
  <2>2. add = IF e.kind = "fun" /\ c.scopeDepth > 0 THEN 1 ELSE 0
    BY DEF Adds
  <2>3. Front(frames)[M] = f
    BY <1>3, <1>5
  <2> QED BY <2>1, <2>2, <2>3
<1>8. c \in CompilerSet /\ f \in FrameSet
  <2>1. f \in FrameSet
    BY <1>2, <1>4, Elements
  <2> QED BY <1>2, <1>4, <2>1
<1>9. Len(compilers) \in DOMAIN compilers /\ M = Len(compilers) - 1
  <2>1. compilers \in Seq(CompilerSet)
    BY <1>2 DEF Chained
  <2>2. DOMAIN compilers = 1 .. Len(compilers)
    BY <2>1, Elements
  <2> QED BY <1>2, <2>2
<1>10. caught \subseteq CapturedSlots(c)
  BY <1>2, <1>9, CaughtOK
<1>11. Adds(e, "fun") \in {0, 1}
  BY DEF Adds
<1>12. f.height \in Nat /\ f.open \in SUBSET Nat /\ f.open \subseteq CapturedSlots(c)
  BY <1>3, <1>8 DEF FrameSet, LevelOK
<1>13. CapturedSlots(c) \subseteq Nat
  <2>1. \A i \in DOMAIN c.locals : i - 1 \in Nat
    <3>1. Len(c.locals) \in Nat /\ DOMAIN c.locals = 1 .. Len(c.locals)
      BY <1>8, Fields
    <3> QED BY <3>1
  <2> QED BY <2>1 DEF CapturedSlots
<1> HIDE DEF caught
<1>14. /\ f2 \in FrameSet /\ f2.open \subseteq CapturedSlots(c)
       /\ f2.height = f.height + (IF c.scopeDepth > 0 THEN Adds(e, "fun") ELSE 0)
  <2>1. f.height + add \in Nat
    BY <1>11, <1>12
  <2>2. f.open \union caught \in SUBSET Nat /\ f.open \union caught \subseteq CapturedSlots(c)
    BY <1>10, <1>12, <1>13
  <2> HIDE DEF f, c
  <2>3. f2 \in FrameSet
    BY <2>1, <2>2 DEF FrameSet
  <2> QED BY <2>2, <2>3
<1> HIDE DEF f2, add
<1>15. LevelOK(c, f2, FALSE, d, 0, B)
  BY <1>3, <1>8, <1>11, <1>14, ValueHeld
<1>16. /\ frames' \in Seq(FrameSet) /\ Len(frames') = Len(Front(frames)) /\ frames'[M] = f2
       /\ \A k \in DOMAIN Front(frames) : k # M => frames'[k] = Front(frames)[k]
  <2>1. M \in DOMAIN Front(frames)
    BY <1>3, <1>5
  <2> QED BY <1>5, <1>7, <1>14, <2>1, FrameReplaced
<1>17. SameBelow(frames', frames, M) /\ Len(frames') = Len(compilers) - 1
  BY <1>4, <1>5, <1>16 DEF SameBelow
<1>18. LevelOK(compilers[Len(compilers) - 1], frames'[Len(compilers) - 1], FALSE,
               Depth(Front(nest), classes, Len(compilers) - 1), 0,
               Building(Front(nest), Len(compilers) - 1))
  BY <1>15, <1>16
<1>19. Good(Front(compilers), classes, Front(nest), frames')
  BY <1>1, <1>2, <1>16, <1>17, <1>18, GoodLeave
<1> QED BY <1>1, <1>2, <1>6, <1>19 DEF IInv

(* As many functions.                                                        *)
AsMany(cs2, cs) ==
  cs2 \in Seq(CompilerSet) /\ cs \in Seq(CompilerSet) /\ Len(cs2) = Len(cs)

(* Steps of one construct, one after the other.                              *)
LEMMA StaysOn ==
  ASSUME NEW cs, NEW cs2, AsMany(cs2, cs), NEW cs3,
         NEW fs, NEW fs2, NEW fs3, Stay(cs2, fs2, cs, fs), Stay(cs3, fs3, cs2, fs2)
  PROVE  Stay(cs3, fs3, cs, fs)
<1> USE DEF AsMany
<1>1. ASSUME NEW k \in 1 .. Len(cs) - 1
      PROVE  Extended(cs3[k], cs[k]) /\ fs3[k] = fs[k]
  <2>1. Len(cs) \in Nat /\ DOMAIN cs = 1 .. Len(cs)
    BY Elements
  <2>2. k \in DOMAIN cs
    BY <2>1
  <2>3. cs[k] \in CompilerSet
    BY <2>2, Elements
  <2>4. Extended(cs2[k], cs[k]) /\ fs2[k] = fs[k] /\ Extended(cs3[k], cs2[k]) /\ fs3[k] = fs2[k]
    BY DEF Stay
  <2> QED BY <2>3, <2>4, ExtendedTwice
<1> QED BY <1>1 DEF Stay

(* Naming a variable is a step of that kind.                                 *)
LEMMA ExtendsStay ==
  ASSUME NEW cs \in Seq(CompilerSet), NEW cs2, Extends(cs2, cs), NEW fs
  PROVE  Stay(cs2, fs, cs, fs)
<1>1. Len(cs) \in Nat /\ DOMAIN cs = 1 .. Len(cs)
  BY Elements
<1>2. \A k \in 1 .. Len(cs) - 1 : k \in 1 .. Len(cs) /\ k # Len(cs)
  BY <1>1, BelowLast
<1> QED BY <1>1, <1>2 DEF Stay, Extends

(* The class value on top of the locals.                                     *)
LEMMA PushedLevel ==
  ASSUME NEW c \in CompilerSet, NEW f \in FrameSet, NEW d, LevelOK(c, f, FALSE, d, 0, 0)
  PROVE  Pushed(f) \in FrameSet /\ LevelOK(c, Pushed(f), FALSE, d, 0, 1)
<1>1. /\ LocalsOK(c, FALSE) /\ c.scopeDepth = d
      /\ f.height = Len(c.locals) - (IF c.scopeDepth > 0 THEN 0 ELSE 0) + 0
      /\ f.open \subseteq CapturedSlots(c)
  BY DEF LevelOK
<1>2. f.height \in Nat /\ f.height + 1 \in Nat /\ Len(c.locals) \in Nat
  <2>1. f.height \in Nat /\ Len(c.locals) \in Nat
    BY Fields DEF FrameSet
  <2> QED BY <2>1
<1>3. Pushed(f) \in FrameSet /\ Pushed(f).height = f.height + 1 /\ Pushed(f).open = f.open
  BY <1>2 DEF Pushed, FrameSet
<1>4. Pushed(f).height = Len(c.locals) - (IF c.scopeDepth > 0 THEN 0 ELSE 0) + 1
  BY <1>1, <1>2, <1>3
<1>5. Len(c.locals) <= Pushed(f).height /\ Pushed(f).height \in Nat
  BY <1>1, <1>2, <1>3
<1>6. Pushed(f).open \subseteq 0 .. Pushed(f).height - 1
  BY <1>1, <1>3, <1>5, CapturedBelow
<1> QED BY <1>1, <1>3, <1>4, <1>6 DEF LevelOK

(* The superclass's value is that of the local `super'.                      *)
LEMMA SupersLevel ==
  ASSUME NEW c \in CompilerSet, NEW f \in FrameSet, NEW d \in Nat, LevelOK(c, f, FALSE, d, 0, 0),
         ~ Full(c)
  PROVE  /\ Pushed(f) \in FrameSet /\ Supers(c) \in CompilerSet
         /\ Supers(c).upvalues = c.upvalues
         /\ LevelOK(Supers(c), Pushed(f), FALSE, d + 1, 0, 0)
<1>1. /\ LocalsOK(c, FALSE) /\ c.scopeDepth = d
      /\ f.height = Len(c.locals) - (IF c.scopeDepth > 0 THEN 0 ELSE 0) + 0
      /\ f.open \subseteq CapturedSlots(c)
  BY DEF LevelOK
<1>2. /\ Keeps(Supers(c), c) /\ Supers(c).scopeDepth = c.scopeDepth + 1
      /\ Len(Supers(c).locals) = Len(c.locals) + 1 /\ LocalsOK(Supers(c), FALSE)
  BY <1>1, SupersOK
<1>3. /\ Supers(c) \in CompilerSet /\ Supers(c).upvalues = c.upvalues
      /\ CapturedSlots(c) \subseteq CapturedSlots(Supers(c))
  BY <1>2 DEF Keeps
<1>4. Len(c.locals) \in Nat
  BY Fields
<1>5. /\ Pushed(f) \in FrameSet /\ LevelOK(c, Pushed(f), FALSE, d, 0, 1)
  BY PushedLevel
<1>6. /\ Pushed(f).height = Len(c.locals) - (IF c.scopeDepth > 0 THEN 0 ELSE 0) + 1
      /\ Pushed(f).open \subseteq CapturedSlots(c)
      /\ Pushed(f).open \subseteq 0 .. Pushed(f).height - 1
  BY <1>5 DEF LevelOK
<1>7. Pushed(f).height = Len(Supers(c).locals) - (IF Supers(c).scopeDepth > 0 THEN 0 ELSE 0) + 0
  BY <1>2, <1>4, <1>6
<1>8. Pushed(f).open \subseteq CapturedSlots(Supers(c))
  BY <1>3, <1>6
<1>9. Supers(c).scopeDepth = d + 1
  BY <1>1, <1>2
<1> QED BY <1>2, <1>3, <1>5, <1>6, <1>7, <1>8, <1>9 DEF LevelOK

(* A class's name is declared, its value pushed and a name resolved: its own *)
(* or its superclass's.                                                      *)
LEMMA ClassNamed ==
  ASSUME IInv, InStatements, NEW n \in Names, CanDeclare(current, n),
         NEW cs, cs = [compilers EXCEPT ![Len(compilers)] = Declared(current, n)],
         NEW m, Resolves(cs, m), NEW cs3, cs3 = namedVariable(cs, m).cs
  PROVE  /\ Chained(cs3) /\ Fits(cs3) /\ cs3 # <<>> /\ Len(cs3) = Len(compilers)
         /\ cs3 \in Seq(CompilerSet) /\ cs3[Level] \in CompilerSet
         /\ Stay(cs3, Valued(frames), compilers, frames)
         /\ LevelOK(cs3[Level], Valued(frames)[Level], FALSE, Depth(nest, classes, Level), 0, 0)
<1> DEFINE c2 == Declared(current, n)
           d == Depth(nest, classes, Level)
           f == frames[Level]
           g == Valued(frames)[Level]
<1>1. /\ c2 \in CompilerSet /\ c2.upvalues = current.upvalues
      /\ LevelOK(c2, f, FALSE, d, 1, 0)
  BY DeclaresTop
<1>2. cs = [compilers EXCEPT ![Len(compilers)] = c2]
  OBVIOUS
<1> HIDE DEF c2
<1>3. /\ Chained(cs) /\ Fits(cs) /\ cs # <<>> /\ Len(cs) = Len(compilers)
      /\ cs[Level] = c2 /\ Stay(cs, frames, compilers, frames)
  BY <1>1, <1>2, ReplacedStays
<1>4. Extends(cs3, cs) /\ Chained(cs3) /\ Fits(cs3)
  BY <1>3, ResolvesOK
<1>5. /\ compilers \in Seq(CompilerSet) /\ Level = Len(compilers) /\ Level \in 1 .. Level
      /\ f \in FrameSet /\ frames \in Seq(FrameSet) /\ Len(frames) = Len(compilers)
      /\ DOMAIN frames = 1 .. Len(compilers) /\ Level \in Nat
  BY Here DEF Chained
<1>6. /\ cs \in Seq(CompilerSet) /\ cs3 \in Seq(CompilerSet) /\ Len(cs3) = Len(cs)
      /\ Level \in DOMAIN cs /\ Level \in DOMAIN cs3
  <2>1. cs \in Seq(CompilerSet) /\ cs3 \in Seq(CompilerSet) /\ Len(cs3) = Len(cs)
    BY <1>3, <1>4 DEF Chained, Extends
  <2>2. DOMAIN cs = 1 .. Len(cs) /\ DOMAIN cs3 = 1 .. Len(cs3)
    BY <2>1, Elements
  <2> QED BY <1>3, <1>5, <2>1, <2>2
<1>7. Extended(cs3[Level], c2)
  BY <1>3, <1>4, <1>6 DEF Extends
<1>8. cs3[Level] \in CompilerSet
  BY <1>6, Elements
<1>9. cs3 # <<>>
  <2>1. (cs = <<>> <=> Len(cs) = 0) /\ (cs3 = <<>> <=> Len(cs3) = 0)
    BY <1>6, Elements
  <2> QED BY <1>3, <1>6, <2>1
<1>10. /\ g \in FrameSet /\ g.height = f.height + (IF current.scopeDepth > 0 THEN 1 ELSE 0)
       /\ g.open = f.open /\ \A k \in DOMAIN frames : k # Level => Valued(frames)[k] = frames[k]
  BY ValuedOK
<1>11. current.scopeDepth = d /\ c2.scopeDepth = d /\ f.open \subseteq CapturedSlots(c2)
  <2>1. LevelOK(current, f, FALSE, d, 0, 0)
    BY Opening
  <2> QED BY <1>1, <2>1 DEF LevelOK
<1>12. LevelOK(c2, g, FALSE, d, 0, 0)
  <2>1. g.height = f.height + (IF c2.scopeDepth > 0 THEN 1 ELSE 0) /\ g.open \subseteq CapturedSlots(c2)
    BY <1>10, <1>11
  <2>2. 1 \in {0, 1} /\ 0 \in Nat
    OBVIOUS
  <2> HIDE DEF g, f, d
  <2> QED BY <1>1, <1>5, <1>10, <2>1, <2>2, ValueHeld
<1>13. LevelOK(cs3[Level], g, FALSE, d, 0, 0)
  BY <1>1, <1>7, <1>12, ExtendedLevel
<1>14. Stay(cs3, frames, compilers, frames)
  <2>1. Stay(cs3, frames, cs, frames)
    BY <1>4, <1>6, ExtendsStay
  <2>2. /\ compilers \in Seq(CompilerSet) /\ cs \in Seq(CompilerSet)
        /\ Len(cs) = Len(compilers) /\ Stay(cs, frames, compilers, frames)
    BY <1>3, <1>5, <1>6
  <2> HIDE DEF d, f, g
  <2>3. AsMany(cs, compilers)
    BY <2>2 DEF AsMany
  <2>4. Stay(cs, frames, compilers, frames) /\ Stay(cs3, frames, cs, frames)
    BY <2>1, <2>2
  <2> QED BY <2>3, <2>4, StaysOn
<1>15. \A k \in 1 .. Len(compilers) - 1 : k \in DOMAIN frames /\ k # Level
  <2>1. \A k \in 1 .. Len(compilers) - 1 : k \in 1 .. Len(compilers) /\ k # Len(compilers)
    BY <1>5, BelowLast
  <2> QED BY <1>5, <2>1
<1>16. Stay(cs3, Valued(frames), compilers, frames)
  BY <1>10, <1>14, <1>15 DEF Stay
<1> QED BY <1>3, <1>4, <1>6, <1>8, <1>9, <1>13, <1>16

(* `class' and its name, up to `{'.                                          *)
LEMMA ClassDeclarationStep ==
  ASSUME IInv, NEW n \in Names, classDeclaration(n)
  PROVE  IInv'
<1> DEFINE cs == [compilers EXCEPT ![Len(compilers)] = Declared(current, n)]
           cs3 == namedVariable(cs, n).cs
<1>1. CASE ~ CanDeclare(current, n)
  BY <1>1, AfreshStep DEF classDeclaration, Error
<1>2. Level = Len(compilers) /\ current = compilers[Len(compilers)]
  BY Here
<1>3. cs = [compilers EXCEPT ![Level] = markInitialized(declareVariable(@, n))]
  BY <1>2 DEF Declared
<1> HIDE DEF cs
<1>4. CASE CanDeclare(current, n) /\ ~ Resolves(cs, n)
  <2>1. Error
    BY <1>3, <1>4 DEF classDeclaration
  <2> QED BY <2>1, AfreshStep DEF Error
<1>5. CASE CanDeclare(current, n) /\ Resolves(cs, n)
  <2> DEFINE v == Valued(frames)
             g == v[Level]
             fs2 == [v EXCEPT ![Level] = Pushed(g)]
             e2 == Defined(env, n)
             e == Nesting("class", n, Level, Len(e2))
             cl2 == Append(classes, FALSE)
             d == Depth(nest, classes, Level)
  <2>1. InStatements
    BY DEF classDeclaration, CanOpen
  <2>2. /\ env \in Seq(BindingSet) /\ Level \in Nat /\ Level \in DOMAIN frames
        /\ Len(frames) = Len(compilers) /\ classes \in Seq(BOOLEAN) /\ n \in LocalName
        /\ compilers \in Seq(CompilerSet)
    BY Here DEF LocalName, Chained
  <2>3. e2 \in Seq(BindingSet) /\ Len(e2) \in Nat /\ Len(env) \in Nat /\ Len(env) <= Len(e2)
    BY <2>2, DefinedOK
  <2>4. /\ compilers' = cs3 /\ frames' = fs2 /\ env' = e2 /\ nest' = Append(nest, e)
        /\ classes' = cl2 /\ hadError' = hadError
    BY <1>3, <1>5 DEF classDeclaration, Opened, Nesting
  <2>5. /\ e \in NestSet /\ e.kind = "class" /\ e.level = Level /\ e.mark = Len(e2)
    BY <2>2, <2>3 DEF Nesting, NestSet
  <2> HIDE DEF e2, e
  <2>6. /\ Chained(cs3) /\ Fits(cs3) /\ Len(cs3) = Len(compilers)
        /\ cs3 \in Seq(CompilerSet) /\ cs3[Level] \in CompilerSet
        /\ Stay(cs3, v, compilers, frames)
        /\ LevelOK(cs3[Level], g, FALSE, d, 0, 0)
    <3>1. cs = [compilers EXCEPT ![Len(compilers)] = Declared(current, n)]
      BY DEF cs
    <3>2. cs3 = namedVariable(cs, n).cs
      OBVIOUS
    <3> HIDE DEF cs3
    <3> QED BY <1>5, <2>1, <3>1, <3>2, ClassNamed
  <2> HIDE DEF cs3
  <2>7. /\ v \in Seq(FrameSet) /\ Len(v) = Len(frames) /\ g \in FrameSet
    BY ValuedOK
  <2>8. Pushed(g) \in FrameSet /\ LevelOK(cs3[Level], Pushed(g), FALSE, d, 0, 1)
    BY <2>6, <2>7, PushedLevel
  <2>9. Level \in DOMAIN v /\ DOMAIN v = DOMAIN frames
    <3>1. DOMAIN v = 1 .. Len(v) /\ DOMAIN frames = 1 .. Len(frames)
      BY <2>7, Elements, Here
    <3> QED BY <2>2, <2>7, <3>1
  <2>10. fs2 = [v EXCEPT ![Level] = Pushed(g)]
    OBVIOUS
  <2> HIDE DEF fs2
  <2>11. /\ fs2 \in Seq(FrameSet) /\ Len(fs2) = Len(v) /\ fs2[Level] = Pushed(g)
         /\ \A k \in DOMAIN v : k # Level => fs2[k] = v[k]
    BY <2>7, <2>8, <2>9, <2>10, FrameReplaced
  <2>12. Stay(cs3, fs2, compilers, frames)
    <3>1. \A k \in 1 .. Len(compilers) - 1 : k \in DOMAIN v /\ k # Level
      <4>1. \A k \in 1 .. Len(compilers) - 1 : k \in 1 .. Len(compilers) /\ k # Len(compilers)
        BY <1>2, <2>2, BelowLast
      <4>2. DOMAIN v = 1 .. Len(compilers)
        BY <2>9, Here
      <4> QED BY <1>2, <4>1, <4>2
    <3> QED BY <2>6, <2>11, <3>1 DEF Stay
  <2>13. /\ AddsClass(classes, e, cl2) /\ Deepens(e, cl2) = 0
         /\ Adds(e, "var") = 0 /\ Adds(e, "class") = 1
    <3>1. AddsClass(classes, e, cl2)
      BY <2>5 DEF AddsClass
    <3>2. cl2[Len(cl2)] = FALSE
      BY <2>2
    <3>3. Deepens(e, cl2) = 0
      BY <2>5, <3>2 DEF Deepens, Scoped
    <3> QED BY <2>5, <3>1, <3>3 DEF Adds
  <2> HIDE DEF cl2
  <2>14. LevelOK(cs3[Level], fs2[Level], FALSE, d + Deepens(e, cl2), Adds(e, "var"),
                 Adds(e, "class"))
    <3>1. d + Deepens(e, cl2) = d
      <4>1. d \in Nat
        BY <2>1, Opening
      <4> QED BY <2>13, <4>1
    <3> QED BY <2>8, <2>11, <2>13, <3>1
  <2> DEFINE w == FALSE
  <2>15. w \in BOOLEAN /\ (w <=> e.kind = "var" /\ cs3[Level].scopeDepth > 0)
    BY <2>5
  <2>16. LevelOK(cs3[Level], fs2[Level], w, Depth(nest, classes, Level) + Deepens(e, cl2),
                 Adds(e, "var"), Adds(e, "class"))
    BY <2>14
  <2>17. Len(env) <= e.mark /\ e.mark <= Len(e2)
    BY <2>3, <2>5
  <2>18. "class" \in {"block", "var", "class"} /\ Len(fs2) = Len(compilers)
    BY <2>2, <2>7, <2>11
  <2> HIDE DEF w, d, v, g
  <2> QED BY <2>1, <2>3, <2>4, <2>5, <2>6, <2>11, <2>12, <2>13, <2>15, <2>16, <2>17, <2>18,
             OpensOwn
<1> QED BY <1>1, <1>4, <1>5

(* `}' of a class.                                                           *)
LEMMA EndClassStep ==
  ASSUME IInv, EndClass
  PROVE  IInv'
<1> DEFINE cl2 == ClassesAround(nest, classes)
           d == Depth(Front(nest), cl2, Level)
           f == frames[Level]
           f1 == [f EXCEPT !.height = @ - 1]
           c2 == IF Last(classes) THEN endScope(current) ELSE current
           f2 == IF Last(classes) THEN Popped(f1, current) ELSE f1
<1>1. /\ nest # <<>> /\ Last(nest).kind = "class" /\ Kind(nest) = "class"
      /\ TextOK(Front(nest), OutOfScope)
  <2>1. Innermost({"class"})
    BY DEF EndClass
  <2>2. /\ nest # <<>> /\ Last(nest).kind \in {"class"} /\ Kind(nest) = Last(nest).kind
        /\ TextOK(Front(nest), OutOfScope)
    BY <2>1, InnermostKind
  <2> QED BY <2>2
<1>2. /\ Good(compilers, classes, nest, frames) /\ Level = Len(compilers)
      /\ current = compilers[Len(compilers)] /\ current \in CompilerSet /\ f \in FrameSet
      /\ frames \in Seq(FrameSet) /\ Level \in DOMAIN frames /\ classes \in Seq(BOOLEAN)
      /\ compilers \in Seq(CompilerSet) /\ Level \in 1 .. Level
  BY Here DEF Chained
<1>3. cl2 = Front(classes)
  BY <1>1 DEF ClassesAround
<1>4. /\ env' = OutOfScope /\ nest' = Front(nest) /\ classes' = cl2 /\ hadError' = hadError
  BY <1>3 DEF EndClass
<1>5. /\ compilers' = [compilers EXCEPT ![Len(compilers)] = c2]
      /\ frames' = [frames EXCEPT ![Level] = f2]
  <2> DEFINE popped == [frames EXCEPT ![Level].height = @ - 1]
  <2>1. popped = [frames EXCEPT ![Level] = f1] /\ popped[Level] = f1
    BY <1>2
  <2>2. CASE Last(classes)
    <3>1. /\ compilers' = [compilers EXCEPT ![Level] = endScope(@)]
          /\ frames' = [popped EXCEPT ![Level] = Popped(@, current)]
      BY <2>2 DEF EndClass
    <3>2. frames' = [popped EXCEPT ![Level] = Popped(f1, current)]
      BY <2>1, <3>1
    <3>3. frames' = [frames EXCEPT ![Level] = Popped(f1, current)]
      BY <2>1, <3>2
    <3> QED BY <1>2, <2>2, <3>1, <3>3
  <2>3. CASE ~ Last(classes)
    <3>1. compilers' = compilers /\ frames' = popped
      BY <2>3 DEF EndClass
    <3>2. compilers = [compilers EXCEPT ![Len(compilers)] = current]
      <4>1. compilers \in [DOMAIN compilers -> CompilerSet] /\ Len(compilers) \in DOMAIN compilers
        BY <1>2, Elements
      <4> QED BY <1>2, <4>1
    <3> QED BY <2>1, <2>3, <3>1, <3>2
  <2> QED BY <2>2, <2>3
<1>6. Last(nest).kind \in {"block", "var", "class"}
  BY <1>1
<1>7. /\ LevelOK(compilers[Len(compilers)], frames[Len(compilers)],
                 Last(nest).kind = "var" /\ compilers[Len(compilers)].scopeDepth > 0,
                 Depth(Front(nest), ClassesAround(nest, classes), Len(compilers))
                   + Deepens(Last(nest), classes),
                 Adds(Last(nest), "var"), Adds(Last(nest), "class"))
      /\ Depth(Front(nest), ClassesAround(nest, classes), Len(compilers)) \in Nat
  BY <1>1, <1>2, <1>6, TopEnds
<1>8. (Last(nest).kind = "var" /\ compilers[Len(compilers)].scopeDepth > 0) = FALSE
  BY <1>1
<1>9. Adds(Last(nest), "var") = 0 /\ Adds(Last(nest), "class") = 1
  BY <1>1 DEF Adds
<1>10. LevelOK(current, f, FALSE, d + Deepens(Last(nest), classes), 0, 1) /\ d \in Nat
  BY <1>2, <1>7, <1>8, <1>9
<1>11. Deepens(Last(nest), classes) = IF Last(classes) THEN 1 ELSE 0
  <2>1. Last(classes) = classes[Len(classes)]
    BY DEF Last
  <2> QED BY <1>1, <2>1 DEF Deepens, Scoped
<1> DEFINE D == d + (IF Last(classes) THEN 1 ELSE 0)
<1>12. LevelOK(current, f, FALSE, D, 0, 1)
  BY <1>10, <1>11
<1> HIDE DEF d, D
<1>13. /\ LocalsOK(current, FALSE) /\ current.scopeDepth = D
       /\ f.height = Len(current.locals) - (IF current.scopeDepth > 0 THEN 0 ELSE 0) + 1
       /\ f.open \subseteq CapturedSlots(current)
  BY <1>12 DEF LevelOK
<1>14. Len(current.locals) \in Nat /\ f.height \in Nat
  BY <1>2, Fields DEF FrameSet
<1>15. f.height - 1 = Len(current.locals) /\ f.height - 1 \in Nat
  BY <1>13, <1>14
<1>16. f1 \in FrameSet /\ f1.height = f.height - 1 /\ f1.open = f.open
  BY <1>2, <1>15 DEF FrameSet
<1> HIDE DEF f1, f
<1>17. LevelOK(current, f1, FALSE, D, 0, 0)
  <2>1. f1.height = Len(current.locals) - (IF current.scopeDepth > 0 THEN 0 ELSE 0) + 0
    BY <1>14, <1>15, <1>16
  <2>2. f1.open \subseteq 0 .. f1.height - 1
    <3>1. f1.height \in Nat /\ Len(current.locals) <= f1.height
      BY <1>14, <1>15, <1>16
    <3>2. CapturedSlots(current) \subseteq 0 .. f1.height - 1
      BY <1>2, <3>1, CapturedBelow
    <3> QED BY <1>13, <1>16, <3>2
  <2> QED BY <1>13, <1>16, <2>1, <2>2 DEF LevelOK
<1>18. /\ c2 \in CompilerSet /\ c2.upvalues = current.upvalues /\ f2 \in FrameSet
       /\ LevelOK(c2, f2, FALSE, d, 0, 0)
  <2>1. CASE Last(classes)
    <3>1. LevelOK(current, f1, FALSE, d + 1, 0, 0)
      BY <1>17, <2>1 DEF D
    <3>2. /\ LevelOK(endScope(current), Popped(f1, current), FALSE, d, 0, 0)
          /\ endScope(current) \in CompilerSet /\ endScope(current).upvalues = current.upvalues
          /\ Popped(f1, current) \in FrameSet
      BY <1>2, <1>10, <1>16, <3>1, LeavesScope
    <3> QED BY <2>1, <3>2
  <2>2. CASE ~ Last(classes)
    <3>1. D = d
      BY <1>10, <2>2 DEF D
    <3>2. c2 = current /\ f2 = f1
      BY <2>2
    <3> QED BY <1>2, <1>16, <1>17, <3>1, <3>2
  <2> QED BY <2>1, <2>2
<1> HIDE DEF c2, f2
<1>19. TextOK(Front(nest), env')
  BY <1>1, <1>4
<1>20. LevelOK(c2, f2, FALSE, Depth(Front(nest), ClassesAround(nest, classes), Level), 0, 0)
  BY <1>18 DEF d
<1> QED BY <1>1, <1>4, <1>5, <1>6, <1>18, <1>19, <1>20, EndsOwn

(* `class', its name and its superclass, up to `{'.                          *)
LEMMA ClassWithSuperStep ==
  ASSUME IInv, NEW n \in Names, NEW s \in Names, classWithSuper(n, s)
  PROVE  IInv'
<1> DEFINE cs == [compilers EXCEPT ![Len(compilers)] = Declared(current, n)]
           cs3 == namedVariable(cs, s).cs
           inner == [cs3 EXCEPT ![Level] = Supers(cs3[Level])]
           cs4 == namedVariable(inner, n).cs
           fails == n = s \/ ~ Resolves(cs, s) \/ Full(cs3[Level]) \/ ~ Resolves(inner, n)
           v == Valued(frames)
           g == v[Level]
           e1 == Defined(env, n)
           b == Binding("super", Level, g.height)
           e2 == Append(e1, b)
           e == Nesting("class", n, Level, Len(e1))
           cl2 == Append(classes, TRUE)
           fs2 == [v EXCEPT ![Level] = Pushed(Pushed(g))]
           d == Depth(nest, classes, Level)
<1>1. CASE ~ CanDeclare(current, n)
  BY <1>1, AfreshStep DEF classWithSuper, Error
<1>2. Level = Len(compilers) /\ current = compilers[Len(compilers)]
  BY Here
<1>3. cs = [compilers EXCEPT ![Level] = markInitialized(declareVariable(@, n))]
  BY <1>2 DEF Declared
<1> HIDE DEF cs
<1>4. inner = WithSuper(cs3)
  BY DEF WithSuper, Supers
<1> HIDE DEF inner
<1>5. CASE CanDeclare(current, n) /\ fails
  <2>1. Error
    BY <1>3, <1>4, <1>5 DEF classWithSuper
  <2> QED BY <2>1, AfreshStep DEF Error
<1>6. CASE CanDeclare(current, n) /\ ~ fails
  <2>1. InStatements
    BY DEF classWithSuper, CanOpen
  <2>2. /\ env \in Seq(BindingSet) /\ Level \in Nat /\ Level \in DOMAIN frames
        /\ Len(frames) = Len(compilers) /\ classes \in Seq(BOOLEAN) /\ n \in LocalName
        /\ compilers \in Seq(CompilerSet) /\ Level \in 1 .. Level
    BY Here DEF LocalName, Chained
  <2>3. e1 \in Seq(BindingSet) /\ Len(e1) \in Nat /\ Len(env) \in Nat /\ Len(env) <= Len(e1)
    BY <2>2, DefinedOK
  <2>4. /\ compilers' = cs4 /\ frames' = fs2 /\ env' = e2 /\ nest' = Append(nest, e)
        /\ classes' = cl2 /\ hadError' = hadError
    BY <1>3, <1>4, <1>6 DEF classWithSuper, Opened, Nesting
  <2>5. /\ e \in NestSet /\ e.kind = "class" /\ e.level = Level /\ e.mark = Len(e1)
    BY <2>2, <2>3 DEF Nesting, NestSet
  <2>6. /\ v \in Seq(FrameSet) /\ Len(v) = Len(frames) /\ g \in FrameSet
    BY ValuedOK
  <2>7. e2 \in Seq(BindingSet) /\ Len(e2) = Len(e1) + 1
    <3>1. g.height \in Nat
      BY <2>6 DEF FrameSet
    <3>2. b \in BindingSet
      <4> HIDE DEF g
      <4> QED BY <2>2, <3>1 DEF Binding, BindingSet, LocalName
    <3> HIDE DEF b, e1
    <3> QED BY <2>3, <3>2, Appended
  <2> HIDE DEF e2, e, b, e1
  <2>8. Resolves(cs, s) /\ ~ Full(cs3[Level]) /\ Resolves(inner, n)
    BY <1>6
  <2>9. /\ Chained(cs3) /\ Fits(cs3) /\ cs3 # <<>> /\ Len(cs3) = Len(compilers)
        /\ cs3 \in Seq(CompilerSet) /\ cs3[Level] \in CompilerSet
        /\ Stay(cs3, v, compilers, frames)
        /\ LevelOK(cs3[Level], g, FALSE, d, 0, 0)
    <3>1. cs = [compilers EXCEPT ![Len(compilers)] = Declared(current, n)]
      BY DEF cs
    <3>2. cs3 = namedVariable(cs, s).cs
      OBVIOUS
    <3> HIDE DEF cs3
    <3> QED BY <1>6, <2>1, <2>8, <3>1, <3>2, ClassNamed
  <2> DEFINE c == cs3[Level]
             c2 == Supers(c)
  <2>10. d \in Nat
    BY <2>1, Opening
  <2>11. inner = [cs3 EXCEPT ![Len(cs3)] = c2] /\ Level = Len(cs3)
    BY <1>2, <2>9 DEF inner
  <2> HIDE DEF cs3
  <2>12. /\ Pushed(g) \in FrameSet /\ c2 \in CompilerSet
         /\ c2.upvalues = c.upvalues /\ LevelOK(c2, Pushed(g), FALSE, d + 1, 0, 0)
    <3>1. c \in CompilerSet /\ LevelOK(c, g, FALSE, d, 0, 0) /\ ~ Full(c)
      BY <2>8, <2>9
    <3> HIDE DEF c, d, g
    <3> QED BY <2>6, <2>10, <3>1, SupersLevel
  <2>13. /\ Chained(inner) /\ Fits(inner) /\ inner # <<>> /\ Len(inner) = Len(cs3)
         /\ inner[Level] = c2
         /\ Stay(inner, v, cs3, v)
    <3>1. c2.upvalues = cs3[Len(cs3)].upvalues
      BY <2>11, <2>12
    <3> HIDE DEF c2
    <3>2. /\ Chained(inner) /\ Fits(inner) /\ inner # <<>> /\ Len(inner) = Len(cs3)
          /\ inner[Len(cs3)] = c2
          /\ \A k \in 1 .. Len(cs3) - 1 : Extended(inner[k], cs3[k])
      BY <2>9, <2>11, <2>12, <3>1, TopReplaced
    <3> QED BY <2>11, <3>2 DEF Stay
  <2> HIDE DEF c2, c
  <2>14. Extends(cs4, inner) /\ Chained(cs4) /\ Fits(cs4)
    BY <2>8, <2>13, ResolvesOK
  <2> HIDE DEF cs4
  <2>15. /\ inner \in Seq(CompilerSet) /\ cs4 \in Seq(CompilerSet) /\ Len(cs4) = Len(inner)
         /\ Level \in DOMAIN inner /\ Level \in DOMAIN cs4
    <3>1. inner \in Seq(CompilerSet) /\ cs4 \in Seq(CompilerSet) /\ Len(cs4) = Len(inner)
      BY <2>13, <2>14 DEF Chained, Extends
    <3>2. DOMAIN inner = 1 .. Len(inner) /\ DOMAIN cs4 = 1 .. Len(cs4)
      BY <3>1, Elements
    <3> QED BY <1>2, <2>2, <2>9, <2>13, <3>1, <3>2
  <2>16. cs4[Level] \in CompilerSet /\ Extended(cs4[Level], c2)
    <3>1. cs4[Level] \in CompilerSet
      BY <2>15, Elements
    <3>2. Extended(cs4[Level], inner[Level])
      BY <2>14, <2>15 DEF Extends
    <3> QED BY <2>13, <3>1, <3>2
  <2>17. LevelOK(cs4[Level], Pushed(g), FALSE, d + 1, 0, 0)
    BY <2>12, <2>16, ExtendedLevel
  <2>18. /\ Pushed(Pushed(g)) \in FrameSet
         /\ LevelOK(cs4[Level], Pushed(Pushed(g)), FALSE, d + 1, 0, 1)
    <3> DEFINE h == Pushed(g)
               d1 == d + 1
    <3>1. h \in FrameSet /\ LevelOK(cs4[Level], h, FALSE, d1, 0, 0)
      BY <2>12, <2>17
    <3> HIDE DEF h, d1
    <3>2. Pushed(h) \in FrameSet /\ LevelOK(cs4[Level], Pushed(h), FALSE, d1, 0, 1)
      BY <2>16, <3>1, PushedLevel
    <3> QED BY <3>2 DEF h, d1
  <2>19. Stay(cs4, v, compilers, frames)
    <3>1. Stay(cs4, v, inner, v)
      BY <2>14, <2>15, ExtendsStay
    <3>2. AsMany(inner, cs3) /\ Stay(inner, v, cs3, v)
      BY <2>9, <2>13, <2>15 DEF AsMany
    <3>3. Stay(cs4, v, cs3, v)
      BY <3>1, <3>2, StaysOn
    <3>4. AsMany(cs3, compilers) /\ Stay(cs3, v, compilers, frames)
      BY <2>2, <2>9 DEF AsMany
    <3> HIDE DEF v
    <3> QED BY <3>3, <3>4, StaysOn
  <2>20. DOMAIN v = 1 .. Len(compilers) /\ Level \in DOMAIN v
    <3>1. DOMAIN v = 1 .. Len(v) /\ DOMAIN frames = 1 .. Len(frames)
      BY <2>6, Elements, Here
    <3> QED BY <2>2, <2>6, <3>1
  <2> DEFINE h == Pushed(Pushed(g))
  <2>21. fs2 = [v EXCEPT ![Level] = h] /\ h \in FrameSet
    BY <2>18
  <2> HIDE DEF fs2, h
  <2>22. /\ fs2 \in Seq(FrameSet) /\ Len(fs2) = Len(v) /\ fs2[Level] = h
         /\ \A k \in DOMAIN v : k # Level => fs2[k] = v[k]
    BY <2>6, <2>20, <2>21, FrameReplaced
  <2>23. Stay(cs4, fs2, compilers, frames)
    <3>1. \A k \in 1 .. Len(compilers) - 1 : k \in DOMAIN v /\ k # Level
      <4>1. \A k \in 1 .. Len(compilers) - 1 : k \in 1 .. Len(compilers) /\ k # Len(compilers)
        BY <1>2, <2>2, BelowLast
      <4> QED BY <1>2, <2>20, <4>1
    <3> QED BY <2>19, <2>22, <3>1 DEF Stay
  <2>24. /\ AddsClass(classes, e, cl2) /\ Deepens(e, cl2) = 1
         /\ Adds(e, "var") = 0 /\ Adds(e, "class") = 1
    <3>1. AddsClass(classes, e, cl2)
      BY <2>5 DEF AddsClass
    <3>2. cl2[Len(cl2)] = TRUE
      BY <2>2
    <3>3. Deepens(e, cl2) = 1
      BY <2>5, <3>2 DEF Deepens, Scoped
    <3> QED BY <2>5, <3>1, <3>3 DEF Adds
  <2> HIDE DEF cl2
  <2>25. LevelOK(cs4[Level], fs2[Level], FALSE, d + Deepens(e, cl2), Adds(e, "var"),
                 Adds(e, "class"))
    BY <2>18, <2>22, <2>24 DEF h
  <2> DEFINE w == FALSE
  <2>26. w \in BOOLEAN /\ (w <=> e.kind = "var" /\ cs4[Level].scopeDepth > 0)
    BY <2>5
  <2>27. LevelOK(cs4[Level], fs2[Level], w, Depth(nest, classes, Level) + Deepens(e, cl2),
                 Adds(e, "var"), Adds(e, "class"))
    BY <2>25
  <2>28. Len(env) <= e.mark /\ e.mark <= Len(e2)
    BY <2>3, <2>5, <2>7
  <2>29. "class" \in {"block", "var", "class"} /\ Len(fs2) = Len(compilers)
         /\ Len(cs4) = Len(compilers)
    BY <2>2, <2>6, <2>9, <2>13, <2>15, <2>22
  <2> HIDE DEF w, d, v, g
  <2> QED BY <2>1, <2>4, <2>5, <2>7, <2>14, <2>22, <2>23, <2>24, <2>26, <2>27, <2>28,
             <2>29, OpensOwn
<1> QED BY <1>1, <1>5, <1>6

-----------------------------------------------------------------------------
(* The invariant, and what follows from it.                                  *)

(* The script, before its first declaration.                                 *)
LEMMA InitHolds == Init => IInv
<1> SUFFICES ASSUME Init PROVE IInv
  OBVIOUS
<1>1. /\ compilers = <<initCompiler("script")>> /\ classes = <<>> /\ nest = <<>>
      /\ frames = <<EmptyFrame>> /\ env = <<>> /\ hadError = FALSE
  BY DEF Init
<1>2. Good(compilers, classes, nest, frames)
  BY <1>1, GoodAfresh
<1>3. TextOK(nest, env)
  BY <1>1 DEF TextOK
<1> QED BY <1>1, <1>2, <1>3 DEF IInv

(* Each construct keeps it.                                                  *)
LEMMA NextHolds == IInv /\ [Next]_vars => IInv'
<1> SUFFICES ASSUME IInv, [Next]_vars PROVE IInv'
  OBVIOUS
<1>1. CASE \E n \in Names : variable(n)
  BY <1>1, VariableStep
<1>2. CASE this_
  BY <1>2, ThisStep
<1>3. CASE super_
  BY <1>3, SuperStep
<1>4. CASE BeginBlock
  BY <1>4, BeginBlockStep
<1>5. CASE EndBlock
  BY <1>5, EndBlockStep
<1>6. CASE \E n \in Names : varDeclaration(n)
  BY <1>6, VarDeclarationStep
<1>7. CASE defineVariable
  BY <1>7, DefineVariableStep
<1>8. CASE \E n \in Names, ps \in ParamLists : funDeclaration(n, ps)
  BY <1>8, FunDeclarationStep
<1>9. CASE \E t \in {"method", "initializer"}, ps \in ParamLists : method(t, ps)
  BY <1>9, MethodStep
<1>10. CASE endCompiler
  BY <1>10, EndCompilerStep
<1>11. CASE \E n \in Names : classDeclaration(n)
  BY <1>11, ClassDeclarationStep
<1>12. CASE \E n, s \in Names : classWithSuper(n, s)
  BY <1>12, ClassWithSuperStep
<1>13. CASE EndClass
  BY <1>13, EndClassStep
<1>14. CASE \E v \in BOOLEAN : returnStatement(v)
  BY <1>14, ReturnStep
<1>15. CASE compile
  <2>1. Afresh /\ hadError' \in BOOLEAN
    BY <1>15 DEF compile
  <2> QED BY <2>1, AfreshStep
<1>16. CASE UNCHANGED vars
  BY <1>16 DEF vars, IInv
<1> QED BY <1>1, <1>2, <1>3, <1>4, <1>5, <1>6, <1>7, <1>8, <1>9, <1>10, <1>11, <1>12, <1>13,
           <1>14, <1>15, <1>16 DEF Next

(* In every program: the compilers are a chain, each function's locals are   *)
(* ordered by scope, its frame holds exactly them, and only captured slots   *)
(* that are on the stack are open.                                           *)
THEOREM Invariance == Spec => []IInv
BY InitHolds, NextHolds, PTL DEF Spec

(* What the invariant says of each function, in the words of the properties. *)
LEMMA EachFunction ==
  ASSUME IInv, NEW k \in DOMAIN compilers
  PROVE  /\ compilers[k] \in CompilerSet /\ k \in 1 .. Len(compilers)
         /\ Len(compilers[k].upvalues) <= MaxUpvalues /\ UpvaluesOK(compilers, k)
         /\ \E w \in BOOLEAN : LocalsOK(compilers[k], w)
         /\ frames[k].height = Len(compilers[k].locals)
              - (IF compilers[k].scopeDepth > 0 THEN Awaited(nest, k) ELSE 0)
              + Building(nest, k)
         /\ frames[k].open \subseteq 0 .. frames[k].height - 1
<1>1. Good(compilers, classes, nest, frames)
  BY DEF IInv
<1>2. /\ Len(compilers[k].upvalues) <= MaxUpvalues /\ UpvaluesOK(compilers, k)
      /\ LevelOK(compilers[k], frames[k], Waits(compilers, nest, k), Depth(nest, classes, k),
                 Awaited(nest, k), Building(nest, k))
  BY <1>1 DEF Good
<1>3. compilers[k] \in CompilerSet /\ k \in 1 .. Len(compilers)
  BY <1>1, GoodParts
<1>4. Waits(compilers, nest, k) \in BOOLEAN
  BY Waiters
<1> QED BY <1>2, <1>3, <1>4 DEF LevelOK

(* A local's depth is at most that of its function, or it waits.             *)
LEMMA LocalDepths ==
  ASSUME NEW c \in CompilerSet, NEW w \in BOOLEAN, LocalsOK(c, w), NEW i \in DOMAIN c.locals
  PROVE  c.locals[i].depth \in Uninit .. c.scopeDepth /\ Len(c.locals) \in 1 .. MaxLocals
<1>1. /\ Len(c.locals) \in Nat /\ DOMAIN c.locals = 1 .. Len(c.locals) /\ c.scopeDepth \in Nat
  BY Fields
<1>2. Len(c.locals) \in 1 .. MaxLocals
  BY DEF LocalsOK
<1>3. \A x : x \in 0 .. c.scopeDepth => x \in Uninit .. c.scopeDepth
  BY <1>1 DEF Uninit
<1>4. Uninit \in Uninit .. c.scopeDepth
  BY <1>1 DEF Uninit
<1>5. CASE w = FALSE
  <2>1. c.locals[i].depth \in 0 .. c.scopeDepth
    BY <1>1, <1>5 DEF LocalsOK, Ordered
  <2> QED BY <1>2, <1>3, <2>1
<1>6. CASE w = TRUE
  <2>1. CASE i = Len(c.locals)
    BY <1>2, <1>4, <1>6, <2>1 DEF LocalsOK
  <2>2. CASE i # Len(c.locals)
    <3>1. i \in 1 .. Len(c.locals) - 1
      BY <1>1, <2>2
    <3>2. c.locals[i].depth \in 0 .. c.scopeDepth
      BY <1>6, <3>1 DEF LocalsOK, Ordered
    <3> QED BY <1>2, <1>3, <3>2
  <2> QED BY <2>1, <2>2
<1> QED BY <1>5, <1>6

(* An upvalue names a local or an upvalue of the function around.            *)
LEMMA UpvalueRange ==
  ASSUME IInv, NEW k \in DOMAIN compilers, NEW i \in DOMAIN compilers[k].upvalues
  PROVE  /\ compilers[k].upvalues[i].index
              \in 0 .. (IF compilers[k].upvalues[i].isLocal THEN MaxLocals ELSE MaxUpvalues) - 1
         /\ compilers[k].upvalues[i].isLocal \in BOOLEAN
<1> DEFINE u == compilers[k].upvalues[i]
           p == compilers[k - 1]
<1>1. /\ compilers[k] \in CompilerSet /\ k \in 1 .. Len(compilers) /\ UpvaluesOK(compilers, k)
  BY EachFunction
<1>2. u \in UpvalueSet
  <2>1. compilers[k].upvalues \in Seq(UpvalueSet)
    BY <1>1, Fields
  <2> QED BY <2>1, Elements
<1>3. u.index \in Nat /\ u.isLocal \in BOOLEAN
  BY <1>2 DEF UpvalueSet
<1>4. k - 1 \in DOMAIN compilers
  <2>1. compilers[k].upvalues # <<>>
    OBVIOUS
  <2>2. k # 1
    BY <1>1, <2>1 DEF UpvaluesOK
  <2>3. DOMAIN compilers = 1 .. Len(compilers) /\ Len(compilers) \in Nat
    BY GoodParts DEF IInv
  <2> QED BY <2>2, <2>3
<1>5. /\ p \in CompilerSet /\ Len(p.upvalues) <= MaxUpvalues
      /\ \E w \in BOOLEAN : LocalsOK(p, w)
  BY <1>4, EachFunction
<1>6. Len(p.locals) <= MaxLocals /\ Len(p.locals) \in Nat /\ DOMAIN p.locals = 1 .. Len(p.locals)
  <2>1. Len(p.locals) \in Nat /\ DOMAIN p.locals = 1 .. Len(p.locals)
    BY <1>5, Fields
  <2>2. Len(p.locals) \in 1 .. MaxLocals
    BY <1>5 DEF LocalsOK
  <2>3. MaxLocals \in Nat
    BY CompilerAssumption
  <2> QED BY <2>1, <2>2, <2>3
<1>7. /\ Len(p.upvalues) \in Nat /\ DOMAIN p.upvalues = 1 .. Len(p.upvalues)
  <2>1. p.upvalues \in Seq(UpvalueSet)
    BY <1>5, Fields
  <2> QED BY <2>1, Elements
<1>8. MaxLocals \in Nat /\ MaxUpvalues \in Nat
  BY CompilerAssumption
<1>9. /\ u.isLocal => u.index \in CapturedSlots(p)
      /\ ~ u.isLocal => u.index + 1 \in DOMAIN p.upvalues
  BY <1>1 DEF UpvaluesOK
<1> HIDE DEF u, p
<1>10. CASE u.isLocal
  <2>1. PICK j \in DOMAIN p.locals : u.index = j - 1
    BY <1>9, <1>10 DEF CapturedSlots
  <2>2. u.index \in 0 .. MaxLocals - 1
    BY <1>3, <1>6, <1>8, <2>1
  <2> QED BY <1>3, <1>10, <2>2 DEF u
<1>11. CASE ~ u.isLocal
  <2>1. u.index + 1 \in 1 .. Len(p.upvalues)
    BY <1>7, <1>9, <1>11
  <2>2. u.index \in 0 .. MaxUpvalues - 1
    BY <1>3, <1>5, <1>7, <1>8, <2>1
  <2> QED BY <1>3, <1>11, <2>2 DEF u
<1> QED BY <1>10, <1>11

(* The compilers are well formed, and no function outgrows the byte that     *)
(* names a local or an upvalue.                                              *)
THEOREM Types == Spec => []TypeOK
<1>1. IInv => TypeOK
  <2> SUFFICES ASSUME IInv PROVE TypeOK
    OBVIOUS
  <2>1. Len(frames) = Level /\ hadError \in BOOLEAN
    BY Here
  <2>2. ASSUME NEW k \in DOMAIN compilers
        PROVE  /\ compilers[k].type \in {"script", "function", "method", "initializer"}
               /\ compilers[k].scopeDepth \in Nat
               /\ \A l \in ToSet(compilers[k].locals) :
                    /\ l.name \in Names \union {"this", "super", ""}
                    /\ l.depth \in Uninit .. compilers[k].scopeDepth
               /\ Len(compilers[k].locals) \in 1 .. MaxLocals
               /\ Len(compilers[k].upvalues) <= MaxUpvalues
               /\ \A u \in ToSet(compilers[k].upvalues) :
                    /\ u.index \in 0 .. (IF u.isLocal THEN MaxLocals ELSE MaxUpvalues) - 1
                    /\ u.isLocal \in BOOLEAN
    <3> DEFINE c == compilers[k]
    <3>1. /\ c \in CompilerSet /\ Len(c.upvalues) <= MaxUpvalues
          /\ \E w \in BOOLEAN : LocalsOK(c, w)
      BY EachFunction
    <3>2. PICK w \in BOOLEAN : LocalsOK(c, w)
      BY <3>1
    <3>3. c.type \in {"script", "function", "method", "initializer"} /\ c.scopeDepth \in Nat
      BY <3>1 DEF CompilerSet
    <3>4. Len(c.locals) \in 1 .. MaxLocals
      BY <3>2 DEF LocalsOK
    <3>5. ASSUME NEW l \in ToSet(c.locals)
          PROVE  l.name \in Names \union {"this", "super", ""} /\ l.depth \in Uninit .. c.scopeDepth
      <4>1. PICK i \in DOMAIN c.locals : l = c.locals[i]
        BY <3>5 DEF ToSet
      <4>2. l \in LocalSet
        BY <3>1, <4>1, Fields
      <4>3. l.name \in Names \union {"this", "super", ""}
        BY <4>2 DEF LocalSet, LocalName
      <4>4. l.depth \in Uninit .. c.scopeDepth
        BY <3>1, <3>2, <4>1, LocalDepths
      <4> QED BY <4>3, <4>4
    <3>6. ASSUME NEW u \in ToSet(c.upvalues)
          PROVE  /\ u.index \in 0 .. (IF u.isLocal THEN MaxLocals ELSE MaxUpvalues) - 1
                 /\ u.isLocal \in BOOLEAN
      <4>1. PICK i \in DOMAIN c.upvalues : u = c.upvalues[i]
        BY <3>6 DEF ToSet
      <4> QED BY <4>1, UpvalueRange
    <3> QED BY <3>1, <3>3, <3>4, <3>5, <3>6
  <2> QED BY <2>1, <2>2 DEF TypeOK
<1> QED BY <1>1, Invariance, PTL

(* In every function, at every point of the text, the frame of the running   *)
(* code holds exactly the locals of the table: a block pops what it pushed,  *)
(* on every path.                                                            *)
THEOREM FrameIsTable == Spec => []LocalsMatchStack
<1>1. IInv => LocalsMatchStack
  <2> SUFFICES ASSUME IInv, NEW k \in DOMAIN compilers
               PROVE  frames[k].height = Len(compilers[k].locals)
                        - (IF compilers[k].scopeDepth > 0
                           THEN Cardinality(Nested({"var", "fun"}, k)) ELSE 0)
                        + Cardinality(Nested({"class"}, k))
    BY DEF LocalsMatchStack
  <2>1. Of(nest, {"var", "fun"}, k) = Nested({"var", "fun"}, k)
        /\ Of(nest, {"class"}, k) = Nested({"class"}, k)
    BY DEF Of, Nested
  <2>2. /\ Awaited(nest, k) = Cardinality(Nested({"var", "fun"}, k))
        /\ Building(nest, k) = Cardinality(Nested({"class"}, k))
    BY <2>1 DEF Awaited, Building
  <2> QED BY <2>2, EachFunction
<1> QED BY <1>1, Invariance, PTL

(* A slot a closure captured is on the stack while it is open: it leaves by  *)
(* OP_CLOSE_UPVALUE, never by OP_POP.                                        *)
THEOREM CapturedAreClosed == Spec => []NoOpenSlotPopped
<1>1. IInv => NoOpenSlotPopped
  <2> SUFFICES ASSUME IInv, NEW k \in DOMAIN frames
               PROVE  frames[k].open \subseteq 0 .. frames[k].height - 1
    BY DEF NoOpenSlotPopped
  <2>1. k \in DOMAIN compilers
    <3>1. /\ DOMAIN frames = 1 .. Len(compilers)
          /\ DOMAIN compilers = 1 .. Len(compilers)
      BY GoodParts DEF IInv
    <3> QED BY <3>1
  <2> QED BY <2>1, EachFunction
<1> QED BY <1>1, Invariance, PTL
=============================================================================

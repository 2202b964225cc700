---------------------------- MODULE ScopingProof ----------------------------
(* That names are resolved as the text scopes them, for any program: a       *)
(* second invariant of the compiler, beside that of CompilerProof.           *)
EXTENDS CompilerProof

-----------------------------------------------------------------------------
(* The second invariant: the text, env, lists the variables of the tables.   *)

(* The locals a name can mean: those that have their value, and of the       *)
(* callee's slots those that hold `this'.                                    *)
VariableSet == [name : LocalName, level : Nat, slot : Nat, depth : Nat]
IsNamed(n) == n # ""
Holds(c, v) ==
  /\ v.slot + 1 \in DOMAIN c.locals
  /\ c.locals[v.slot + 1].name = v.name /\ c.locals[v.slot + 1].depth = v.depth
  /\ IsNamed(v.name)
Variables(cs) ==
  {v \in VariableSet : v.level \in DOMAIN cs /\ Holds(cs[v.level], v)
                       /\ (v.level = 1 => v.slot # 0)}

(* The text e lists the variables V, from the outermost to the innermost.    *)
At(b, v) == b.name = v.name /\ b.level = v.level /\ b.slot = v.slot
Precedes(u, v) == u.level < v.level \/ (u.level = v.level /\ u.slot < v.slot)
Lists(e, V) ==
  /\ \A j \in DOMAIN e : \E v \in V : At(e[j], v)
  /\ \A v \in V : \E j \in DOMAIN e : At(e[j], v)
  /\ \A i, j \in DOMAIN e : i < j => Precedes(e[i], e[j])

(* How deep the scopes were when construct i opened; the variables of the    *)
(* scopes around it are those in its mark.                                   *)
ScopesBefore(ns, cl, i) == {j \in ScopesOf(ns, cl, ns[i].level) : j < i}
Before(ns, cl, i) ==
  (IF ns[i].level = 1 THEN 0 ELSE 1) + Cardinality(ScopesBefore(ns, cl, i))
Around(v, level, depth) == v.level < level \/ (v.level = level /\ v.depth <= depth)
Marks(V, cl, ns, e) ==
  \A i \in DOMAIN ns, j \in DOMAIN e, v \in V :
    At(e[j], v) => (j <= ns[i].mark <=> Around(v, ns[i].level, Before(ns, cl, i)))

(* A construct that opens does not change what was around the others.        *)
LEMMA BeforePush ==
  ASSUME NEW ns \in Seq(NestSet), NEW x \in NestSet, NEW cl \in Seq(BOOLEAN),
         Len(cl) = Rank(ns, Len(ns)), NEW cl2, AddsClass(cl, x, cl2)
  PROVE  /\ \A i \in DOMAIN ns : Before(Append(ns, x), cl2, i) = Before(ns, cl, i)
         /\ Before(Append(ns, x), cl2, Len(ns) + 1) = Depth(ns, cl, x.level)
<1> DEFINE N == Len(ns)
           r == Append(ns, x)
<1>1. /\ N \in Nat /\ DOMAIN ns = 1 .. N /\ DOMAIN r = (DOMAIN ns) \union {N + 1}
      /\ r[N + 1] = x /\ \A i \in DOMAIN ns : r[i] = ns[i]
  BY Elements, Appended
<1>2. r = Append(ns, x) /\ N = Len(ns)
  OBVIOUS
<1>3. /\ cl2 \in Seq(BOOLEAN) /\ Len(cl) \in Nat /\ \A i \in 1 .. Len(cl) : cl2[i] = cl[i]
  <2>1. CASE x.kind = "class"
    <3>1. PICK b \in BOOLEAN : cl2 = Append(cl, b)
      BY <2>1 DEF AddsClass
    <3> QED BY <2>1, <3>1
  <2>2. CASE x.kind # "class"
    <3>1. cl2 = cl
      BY <2>2 DEF AddsClass
    <3> QED BY <2>2, <3>1
  <2> QED BY <2>1, <2>2
<1>4. /\ \A i \in DOMAIN ns : Rank(r, i) = Rank(ns, i)
      /\ \A i \in DOMAIN ns : ns[i].kind = "class" => Rank(ns, i) \in 1 .. Len(cl)
  BY RankPush
<1> HIDE DEF N, r
<1>5. ASSUME NEW k, NEW i \in DOMAIN ns
      PROVE  i \in ScopesOf(r, cl2, k) <=> i \in ScopesOf(ns, cl, k)
  <2>1. r[i] = ns[i] /\ i \in DOMAIN r /\ Rank(r, i) = Rank(ns, i)
    BY <1>1, <1>4
  <2>2. ns[i].kind = "class" => cl2[Rank(ns, i)] = cl[Rank(ns, i)]
    BY <1>3, <1>4
  <2> QED BY <2>1, <2>2 DEF ScopesOf
<1>6. \A k : /\ ScopesOf(ns, cl, k) \subseteq DOMAIN ns
             /\ ScopesOf(r, cl2, k) \subseteq (DOMAIN ns) \union {N + 1}
  BY <1>1 DEF ScopesOf
<1>7. ASSUME NEW i \in DOMAIN ns PROVE Before(r, cl2, i) = Before(ns, cl, i)
  <2>1. r[i].level = ns[i].level /\ ~ (N + 1 < i)
    BY <1>1
  <2>2. ScopesBefore(r, cl2, i) = ScopesBefore(ns, cl, i)
    BY <1>5, <1>6, <2>1 DEF ScopesBefore
  <2> QED BY <2>1, <2>2 DEF Before
<1>8. Before(r, cl2, N + 1) = Depth(ns, cl, x.level)
  <2>1. r[N + 1].level = x.level /\ ~ (N + 1 < N + 1) /\ \A j \in DOMAIN ns : j < N + 1
    BY <1>1
  <2>2. ScopesBefore(r, cl2, N + 1) = ScopesOf(ns, cl, x.level)
    BY <1>5, <1>6, <2>1 DEF ScopesBefore
  <2> QED BY <2>1, <2>2 DEF Before, Depth
<1> QED BY <1>2, <1>7, <1>8

(* Where statements may stand, only blocks of the function itself are open.  *)
LEMMA OwnBlocks ==
  ASSUME NEW ns \in Seq(NestSet), NEW L, NestOK(ns, L), Kind(ns) # "var", Kind(ns) # "class",
         NEW i \in DOMAIN ns, ns[i].level = L
  PROVE  ns[i].kind = "block"
<1> DEFINE N == Len(ns)
<1>1. N \in Nat /\ DOMAIN ns = 1 .. N /\ (ns = <<>> <=> N = 0) /\ \A j \in DOMAIN ns : ns[j] \in NestSet
  BY Elements
<1>2. ns[i].kind \in {"block", "var", "fun", "method", "class"}
  BY <1>1 DEF NestSet
<1>3. /\ L \in Nat \ {0} /\ ns[i].kind # "fun" /\ ns[i].kind # "var" /\ ns[i].kind # "class"
      /\ \A j \in DOMAIN ns : ns[j].level <= L /\ ns[j].level \in Nat
  <2>1. /\ L \in Nat \ {0}
        /\ \A j \in DOMAIN ns :
             /\ ns[j].level <= L /\ ns[j].level \in Nat
             /\ ns[j].kind = "fun" => ns[j].level < L
             /\ ns[j].kind = "var" => j = Len(ns) /\ Kind(ns) = "var"
             /\ ns[j].kind = "class" => ns[j].level < L \/ (j = Len(ns) /\ Kind(ns) = "class")
    BY NestTop
  <2>2. ~ (L < L)
    BY <2>1
  <2> QED BY <2>1, <2>2
<1>4. ns[i].kind # "method"
  <2> SUFFICES ASSUME ns[i].kind = "method" PROVE FALSE
    OBVIOUS
  <2>1. Inside(ns[i]) = L + 1
    BY DEF Inside
  <2>2. CASE i = N
    <3>1. L = Inside(ns[i])
      BY <1>1, <2>2 DEF NestOK
    <3> QED BY <1>3, <2>1, <3>1
  <2>3. CASE i # N
    <3>1. i < N /\ N \in DOMAIN ns
      BY <1>1, <2>3
    <3>2. Inside(ns[i]) <= ns[N].level
      BY <3>1 DEF NestOK
    <3> QED BY <1>3, <2>1, <3>1, <3>2
  <2> QED BY <2>2, <2>3
<1> QED BY <1>2, <1>3, <1>4

(* So a new variable is in none of the scopes that were around them.         *)
LEMMA BeforeNow ==
  ASSUME NEW ns \in Seq(NestSet), NEW L, NestOK(ns, L), Kind(ns) # "var", Kind(ns) # "class",
         NEW cl, NEW i \in DOMAIN ns
  PROVE  /\ Before(ns, cl, i) \in Nat /\ Depth(ns, cl, L) \in Nat
         /\ ns[i].level <= L /\ ns[i].level \in Nat /\ L \in Nat
         /\ ns[i].level = L => Before(ns, cl, i) < Depth(ns, cl, L)
<1> DEFINE N == Len(ns)
           S == ScopesOf(ns, cl, ns[i].level)
           B == ScopesBefore(ns, cl, i)
<1>1. N \in Nat /\ DOMAIN ns = 1 .. N
  BY Elements
<1>2. ns[i].level <= L /\ ns[i].level \in Nat /\ L \in Nat
  <2>1. /\ L \in Nat \ {0}
        /\ \A j \in DOMAIN ns :
             /\ ns[j].level <= L /\ ns[j].level \in Nat
             /\ ns[j].kind = "fun" => ns[j].level < L
             /\ ns[j].kind = "var" => j = Len(ns) /\ Kind(ns) = "var"
             /\ ns[j].kind = "class" => ns[j].level < L \/ (j = Len(ns) /\ Kind(ns) = "class")
    BY NestTop
  <2> QED BY <2>1
<1>3. S \in SUBSET (1 .. N) /\ B \in SUBSET (1 .. N) /\ B \subseteq S /\ i \notin B
  <2>1. ~ (i < i)
    BY <1>1
  <2> QED BY <1>1, <2>1 DEF ScopesOf, ScopesBefore
<1> HIDE DEF S, B, N
<1>4. Cardinality(B) \in Nat /\ Cardinality(S) \in Nat /\ IsFiniteSet(S)
  BY <1>1, <1>3, Counted
<1>5. Before(ns, cl, i) = (IF ns[i].level = 1 THEN 0 ELSE 1) + Cardinality(B)
  BY DEF Before, B
<1>6. \A k : Depth(ns, cl, k) \in Nat
  BY CountsTop
<1>7. ASSUME ns[i].level = L PROVE Before(ns, cl, i) < Depth(ns, cl, L)
  <2>1. ns[i].kind = "block"
    BY <1>7, OwnBlocks
  <2>2. i \in S
    BY <2>1 DEF ScopesOf, S
  <2>3. B \subseteq S \ {i}
    BY <1>3
  <2>4. IsFiniteSet(S \ {i}) /\ Cardinality(S \ {i}) = Cardinality(S) - 1
    BY <1>4, <2>2, FS_RemoveElement
  <2>5. Cardinality(B) <= Cardinality(S \ {i})
    BY <2>3, <2>4, FS_Subset
  <2>6. Cardinality(B) < Cardinality(S)
    BY <1>4, <2>4, <2>5
  <2>7. Depth(ns, cl, L) = (IF ns[i].level = 1 THEN 0 ELSE 1) + Cardinality(S)
    BY <1>7 DEF Depth, S
  <2> QED BY <1>4, <1>5, <2>6, <2>7
<1>8. Before(ns, cl, i) \in Nat
  BY <1>4, <1>5
<1> QED BY <1>2, <1>6, <1>7, <1>8

(* All variables are in scope when a construct opens.                        *)
AllAround(V, level, depth) == \A v \in V : Around(v, level, depth)

(* The marks, when a construct opens: its own is all of the text.            *)
LEMMA MarksPush ==
  ASSUME NEW ns \in Seq(NestSet), NEW x \in NestSet, NEW cl \in Seq(BOOLEAN),
         Len(cl) = Rank(ns, Len(ns)), NEW cl2, AddsClass(cl, x, cl2),
         NEW V, NEW e \in Seq(BindingSet), Marks(V, cl, ns, e), x.mark = Len(e),
         AllAround(V, x.level, Depth(ns, cl, x.level))
  PROVE  Marks(V, cl2, Append(ns, x), e)
<1> DEFINE N == Len(ns)
           r == Append(ns, x)
<1>1. /\ N \in Nat /\ DOMAIN ns = 1 .. N /\ DOMAIN r = (DOMAIN ns) \union {N + 1}
      /\ r[N + 1] = x /\ \A i \in DOMAIN ns : r[i] = ns[i]
  BY Elements, Appended
<1>2. r = Append(ns, x) /\ N = Len(ns)
  OBVIOUS
<1>3. /\ \A i \in DOMAIN ns : Before(r, cl2, i) = Before(ns, cl, i)
      /\ Before(r, cl2, N + 1) = Depth(ns, cl, x.level)
  BY BeforePush
<1> HIDE DEF N, r
<1>4. ASSUME NEW i \in DOMAIN r, NEW j \in DOMAIN e, NEW v \in V, At(e[j], v)
      PROVE  j <= r[i].mark <=> Around(v, r[i].level, Before(r, cl2, i))
  <2>1. CASE i \in DOMAIN ns
    <3>1. r[i] = ns[i] /\ Before(r, cl2, i) = Before(ns, cl, i)
      BY <1>1, <1>3, <2>1
    <3>2. j <= ns[i].mark <=> Around(v, ns[i].level, Before(ns, cl, i))
      BY <1>4, <2>1 DEF Marks
    <3> QED BY <3>1, <3>2
  <2>2. CASE i = N + 1
    <3>1. r[i] = x /\ Before(r, cl2, i) = Depth(ns, cl, x.level)
      BY <1>1, <1>3, <2>2
    <3>2. Around(v, x.level, Depth(ns, cl, x.level))
      BY DEF AllAround
    <3>3. j <= Len(e)
      OBVIOUS
    <3> QED BY <3>1, <3>2, <3>3
  <2> QED BY <1>1, <2>1, <2>2
<1> QED BY <1>2, <1>4 DEF Marks

(* What the innermost construct leaves, when it ends.                        *)
Left(V, ns, cl2) ==
  {v \in V : Around(v, Last(ns).level, Depth(Front(ns), cl2, Last(ns).level))}

(* The marks, when it ends: its own tells what it leaves.                    *)
LEMMA MarksPop ==
  ASSUME NEW ns \in Seq(NestSet), ns # <<>>, NEW cl2 \in Seq(BOOLEAN),
         Len(cl2) = Rank(Front(ns), Len(Front(ns))), NEW cl, AddsClass(cl2, Last(ns), cl),
         NEW V, NEW e, Marks(V, cl, ns, e)
  PROVE  /\ Marks(V, cl2, Front(ns), e)
         /\ \A j \in DOMAIN e, v \in V :
              At(e[j], v) => (j <= Last(ns).mark <=> v \in Left(V, ns, cl2))
<1> DEFINE N == Len(ns)
           r == Front(ns)
           x == Last(ns)
<1>1. /\ N \in Nat /\ DOMAIN ns = 1 .. N /\ DOMAIN r = 1 .. N - 1 /\ Len(r) = N - 1
      /\ r \in Seq(NestSet) /\ x = ns[N] /\ N \in DOMAIN ns /\ x \in NestSet
      /\ \A i \in DOMAIN r : i \in DOMAIN ns /\ r[i] = ns[i]
      /\ ns = Append(r, x)
  BY Elements, WithoutLast
<1>2. r = Front(ns) /\ N = Len(ns) /\ x = Last(ns)
  OBVIOUS
<1>3. /\ \A i \in DOMAIN r : Before(Append(r, x), cl, i) = Before(r, cl2, i)
      /\ Before(Append(r, x), cl, Len(r) + 1) = Depth(r, cl2, x.level)
  <2> HIDE DEF r, x
  <2> QED BY <1>1, <1>2, BeforePush
<1> HIDE DEF N, r, x
<1>4. /\ \A i \in DOMAIN r : Before(ns, cl, i) = Before(r, cl2, i)
      /\ Before(ns, cl, N) = Depth(r, cl2, x.level)
  <2>1. Len(r) + 1 = N
    BY <1>1
  <2> QED BY <1>1, <1>3, <2>1
<1>5. Marks(V, cl2, r, e)
  BY <1>1, <1>4 DEF Marks
<1>6. ASSUME NEW j \in DOMAIN e, NEW v \in V, At(e[j], v)
      PROVE  j <= x.mark <=> Around(v, x.level, Depth(r, cl2, x.level))
  BY <1>1, <1>4, <1>6 DEF Marks
<1> QED BY <1>2, <1>5, <1>6 DEF Left

(* The text up to the mark lists what is left.                               *)
LEMMA TextCut ==
  ASSUME NEW ns \in Seq(NestSet), ns # <<>>, NEW cl2 \in Seq(BOOLEAN),
         Len(cl2) = Rank(Front(ns), Len(Front(ns))), NEW cl, AddsClass(cl2, Last(ns), cl),
         NEW V, NEW e, TextOK(ns, e), Lists(e, V), Marks(V, cl, ns, e)
  PROVE  /\ Lists(SubSeq(e, 1, Last(ns).mark), Left(V, ns, cl2))
         /\ Marks(Left(V, ns, cl2), cl2, Front(ns), SubSeq(e, 1, Last(ns).mark))
<1> DEFINE m == Last(ns).mark
           f == SubSeq(e, 1, m)
           W == Left(V, ns, cl2)
<1>1. /\ f \in Seq(BindingSet) /\ Len(f) = m /\ m \in 0 .. Len(e)
      /\ \A i \in 1 .. m : i \in DOMAIN e /\ f[i] = e[i]
  BY TextBefore
<1>2. DOMAIN f = 1 .. m
  <2> HIDE DEF f
  <2> QED BY <1>1, Elements
<1>3. /\ Marks(V, cl2, Front(ns), e)
      /\ \A j \in DOMAIN e, v \in V : At(e[j], v) => (j <= m <=> v \in W)
  BY MarksPop
<1>4. W \subseteq V
  BY DEF Left
<1>5. f = SubSeq(e, 1, Last(ns).mark) /\ W = Left(V, ns, cl2)
  OBVIOUS
<1>6. e \in Seq(BindingSet) /\ Len(e) \in Nat /\ DOMAIN e = 1 .. Len(e)
  <2>1. e \in Seq(BindingSet)
    BY DEF TextOK
  <2> QED BY <2>1, Elements
<1> HIDE DEF f, m, W
<1>7. \A j \in DOMAIN f : j \in DOMAIN e /\ f[j] = e[j] /\ j <= m
  BY <1>1, <1>2
<1>8. ASSUME NEW j \in DOMAIN f PROVE \E v \in W : At(f[j], v)
  <2>1. PICK v \in V : At(e[j], v)
    BY <1>7 DEF Lists
  <2>2. v \in W
    BY <1>3, <1>7, <2>1
  <2> QED BY <1>7, <2>1, <2>2
<1>9. ASSUME NEW v \in W PROVE \E j \in DOMAIN f : At(f[j], v)
  <2>1. PICK j \in DOMAIN e : At(e[j], v)
    BY <1>4 DEF Lists
  <2>2. j <= m
    BY <1>3, <1>4, <2>1
  <2>3. j \in DOMAIN f
    BY <1>1, <1>2, <1>6, <2>2
  <2> QED BY <1>7, <2>1, <2>3
<1>10. \A i, j \in DOMAIN f : i < j => Precedes(f[i], f[j])
  BY <1>7 DEF Lists
<1>11. Marks(W, cl2, Front(ns), f)
  BY <1>3, <1>4, <1>7 DEF Marks
<1> QED BY <1>5, <1>8, <1>9, <1>10, <1>11 DEF Lists

(* New variables come after the others, and are in none of the scopes        *)
(* around the constructs that are open.                                      *)
Follows(W, V, cl, ns) ==
  /\ \A v \in V, w \in W : Precedes(v, w)
  /\ \A w \in W, i \in DOMAIN ns : ~ Around(w, ns[i].level, Before(ns, cl, i))

(* Text that lists them is appended.                                         *)
LEMMA TextGrows ==
  ASSUME NEW ns \in Seq(NestSet), NEW cl, NEW V \in SUBSET VariableSet, NEW e, TextOK(ns, e),
         Lists(e, V), Marks(V, cl, ns, e),
         NEW W \in SUBSET VariableSet, NEW f \in Seq(BindingSet), Lists(f, W),
         Follows(W, V, cl, ns)
  PROVE  Lists(e \o f, V \union W) /\ Marks(V \union W, cl, ns, e \o f)
<1> DEFINE n == Len(e)
           g == e \o f
<1>1. /\ e \in Seq(BindingSet) /\ n \in Nat /\ DOMAIN e = 1 .. n
      /\ Len(f) \in Nat /\ DOMAIN f = 1 .. Len(f)
  <2>1. e \in Seq(BindingSet)
    BY DEF TextOK
  <2> QED BY <2>1, Elements
<1>2. /\ DOMAIN g = 1 .. n + Len(f)
      /\ \A j \in 1 .. n : g[j] = e[j]
      /\ \A j \in n + 1 .. n + Len(f) : g[j] = f[j - n]
  BY <1>1
<1>3. g = e \o f /\ n = Len(e)
  OBVIOUS
<1> HIDE DEF n, g
<1>4. \A j \in DOMAIN g : j \in DOMAIN e \/ (j - n \in DOMAIN f /\ j > n)
  BY <1>1, <1>2
<1>5. \A j \in DOMAIN e : j \in DOMAIN g /\ g[j] = e[j] /\ j <= n
  BY <1>1, <1>2
<1>6. \A j \in DOMAIN f : /\ j + n \in DOMAIN g /\ j + n \in n + 1 .. n + Len(f)
                          /\ j + n - n = j
  BY <1>1, <1>2
<1>7. ASSUME NEW j \in DOMAIN f PROVE g[j + n] = f[j]
  <2>1. \E k \in n + 1 .. n + Len(f) : k = j + n /\ k - n = j
    BY <1>1
  <2>2. PICK k \in n + 1 .. n + Len(f) : k = j + n /\ k - n = j
    BY <2>1
  <2>3. g[k] = f[k - n]
    BY <1>2
  <2> QED BY <2>2, <2>3
<1>8. \A j \in DOMAIN g : j - n \in DOMAIN f /\ j > n => g[j] = f[j - n]
  BY <1>1, <1>2
<1>9. \A b, v, w : At(b, v) /\ At(b, w) /\ v \in VariableSet /\ w \in VariableSet
                     => ~ Precedes(v, w)
  BY DEF At, Precedes, VariableSet
<1>10. ASSUME NEW j \in DOMAIN g PROVE \E v \in V \union W : At(g[j], v)
  <2>1. CASE j \in DOMAIN e
    <3>1. PICK v \in V : At(e[j], v)
      BY <2>1 DEF Lists
    <3> QED BY <1>5, <2>1, <3>1
  <2>2. CASE j - n \in DOMAIN f /\ j > n
    <3>1. PICK v \in W : At(f[j - n], v)
      BY <2>2 DEF Lists
    <3> QED BY <1>8, <2>2, <3>1
  <2> QED BY <1>4, <2>1, <2>2
<1>11. ASSUME NEW v \in V \union W PROVE \E j \in DOMAIN g : At(g[j], v)
  <2>1. CASE v \in V
    <3>1. PICK j \in DOMAIN e : At(e[j], v)
      BY <2>1 DEF Lists
    <3> QED BY <1>5, <3>1
  <2>2. CASE v \in W
    <3>1. PICK j \in DOMAIN f : At(f[j], v)
      BY <2>2 DEF Lists
    <3>2. j + n \in DOMAIN g /\ g[j + n] = f[j]
      BY <1>6, <1>7
    <3> QED BY <3>1, <3>2
  <2> QED BY <2>1, <2>2
<1>12. ASSUME NEW i \in DOMAIN g, NEW j \in DOMAIN g, i < j PROVE Precedes(g[i], g[j])
  <2>1. CASE j \in DOMAIN e
    <3>1. i \in DOMAIN e
      BY <1>1, <1>2, <1>12, <2>1
    <3> QED BY <1>5, <1>12, <2>1, <3>1 DEF Lists
  <2>2. CASE i \in DOMAIN e /\ j - n \in DOMAIN f /\ j > n
    <3>1. PICK v \in V : At(e[i], v)
      BY <2>2 DEF Lists
    <3>2. PICK w \in W : At(f[j - n], w)
      BY <2>2 DEF Lists
    <3>3. Precedes(v, w)
      BY DEF Follows
    <3>4. g[i] = e[i] /\ g[j] = f[j - n]
      BY <1>5, <1>8, <2>2
    <3> QED BY <3>1, <3>2, <3>3, <3>4 DEF At, Precedes
  <2>3. CASE i - n \in DOMAIN f /\ i > n /\ j - n \in DOMAIN f /\ j > n
    <3>1. i - n < j - n
      BY <1>1, <1>2, <1>12
    <3>2. g[i] = f[i - n] /\ g[j] = f[j - n]
      BY <1>8, <2>3
    <3> QED BY <2>3, <3>1, <3>2 DEF Lists
  <2> QED BY <1>4, <2>1, <2>2, <2>3
<1>13. ASSUME NEW i \in DOMAIN ns, NEW j \in DOMAIN g, NEW v \in V \union W, At(g[j], v)
       PROVE  j <= ns[i].mark <=> Around(v, ns[i].level, Before(ns, cl, i))
  <2>1. CASE j \in DOMAIN e
    <3>1. At(e[j], v)
      BY <1>5, <1>13, <2>1
    <3>2. PICK u \in V : At(e[j], u)
      BY <2>1 DEF Lists
    <3>3. v \in W => Precedes(u, v)
      BY DEF Follows
    <3>4. v \in V
      BY <1>9, <3>1, <3>2, <3>3
    <3> QED BY <2>1, <3>1, <3>4 DEF Marks
  <2>2. CASE j - n \in DOMAIN f /\ j > n
    <3>1. At(f[j - n], v)
      BY <1>8, <1>13, <2>2
    <3>2. PICK u \in W : At(f[j - n], u)
      BY <2>2 DEF Lists
    <3>3. v \in V => Precedes(v, u)
      BY DEF Follows
    <3>4. v \in W
      BY <1>9, <3>1, <3>2, <3>3
    <3>5. ~ Around(v, ns[i].level, Before(ns, cl, i))
      BY <3>4 DEF Follows
    <3>6. ns[i].mark <= n /\ ns[i].mark \in Nat
      <4>1. ns[i] \in NestSet
        BY Elements
      <4> QED BY <1>3, <4>1 DEF TextOK, NestSet
    <3>7. ~ (j <= ns[i].mark)
      BY <1>1, <1>2, <2>2, <3>6
    <3> QED BY <3>5, <3>7
  <2> QED BY <1>4, <2>1, <2>2
<1>14. Lists(g, V \union W)
  BY <1>10, <1>11, <1>12 DEF Lists
<1>15. Marks(V \union W, cl, ns, g)
  BY <1>13 DEF Marks
<1> QED BY <1>3, <1>14, <1>15

(* One name more: a variable w, and its binding.                             *)
LEMMA TextAppend ==
  ASSUME NEW ns \in Seq(NestSet), NEW cl, NEW V \in SUBSET VariableSet, NEW e, TextOK(ns, e),
         Lists(e, V), Marks(V, cl, ns, e),
         NEW w \in VariableSet, NEW b \in BindingSet, At(b, w), Follows({w}, V, cl, ns)
  PROVE  Lists(Append(e, b), V \union {w}) /\ Marks(V \union {w}, cl, ns, Append(e, b))
<1>1. e \in Seq(BindingSet) /\ Append(e, b) = e \o <<b>> /\ <<b>> \in Seq(BindingSet)
  BY DEF TextOK
<1>2. Lists(<<b>>, {w})
  <2>1. DOMAIN <<b>> = {1} /\ <<b>>[1] = b
    OBVIOUS
  <2>2. ~ (1 < 1)
    OBVIOUS
  <2> QED BY <2>1, <2>2 DEF Lists
<1>3. Lists(e \o <<b>>, V \union {w}) /\ Marks(V \union {w}, cl, ns, e \o <<b>>)
  BY <1>1, <1>2, TextGrows
<1> QED BY <1>1, <1>3

(* The names of a compiler's locals: of the callee's slot, and of the        *)
(* others.                                                                   *)
CalleeName(type) == IF type = "function" THEN "" ELSE "this"
NamedLocals(c) ==
  /\ c.locals[1].name = CalleeName(c.type)
  /\ \A x \in DOMAIN c.locals : x > 1 => c.locals[x].name \in Names \union {"super"}

(* addLocal names the new local.                                             *)
LEMMA AddedName ==
  ASSUME NEW c \in CompilerSet, NEW n \in LocalName
  PROVE  addLocal(c, n).locals[Len(c.locals) + 1].name = n
<1> DEFINE l == NewLocal(n, Uninit)
<1>1. l \in LocalSet /\ l.name = n
  BY DEF NewLocal, LocalSet, Uninit
<1>2. c.locals \in Seq(LocalSet)
  BY Fields
<1> HIDE DEF l
<1>3. Append(c.locals, l)[Len(c.locals) + 1] = l
  BY <1>1, <1>2, Appended
<1>4. addLocal(c, n).locals = Append(c.locals, l)
  BY DEF addLocal, CompilerSet, l
<1> QED BY <1>1, <1>3, <1>4

(* markInitialized names none.                                               *)
LEMMA MarkedNames ==
  ASSUME NEW c \in CompilerSet, c.locals # <<>>
  PROVE  \A i \in DOMAIN c.locals : markInitialized(c).locals[i].name = c.locals[i].name
<1> DEFINE N == Len(c.locals)
<1>1. /\ c.scopeDepth \in Nat /\ N \in DOMAIN c.locals
      /\ \A i \in DOMAIN c.locals : c.locals[i] \in LocalSet
  <2>1. c.locals \in Seq(LocalSet)
    BY Fields
  <2>2. N \in DOMAIN c.locals
    BY <2>1, Elements
  <2> QED BY <2>1, <2>2, Fields
<1>2. CASE c.scopeDepth = 0
  BY <1>2 DEF markInitialized
<1>3. CASE c.scopeDepth # 0
  <2> DEFINE l == [c.locals[N] EXCEPT !.depth = c.scopeDepth]
             ls == [c.locals EXCEPT ![N] = l]
  <2>1. l.name = c.locals[N].name
    BY <1>1 DEF LocalSet
  <2>2. markInitialized(c).locals = ls
    BY <1>3 DEF markInitialized, CompilerSet
  <2> HIDE DEF l
  <2>3. \A i \in DOMAIN c.locals : ls[i] = IF i = N THEN l ELSE c.locals[i]
    OBVIOUS
  <2> HIDE DEF ls, N
  <2> QED BY <2>1, <2>2, <2>3
<1> QED BY <1>2, <1>3

(* What a variable is made of.                                               *)
LEMMA VariableFields ==
  ASSUME NEW v \in VariableSet
  PROVE  v.name \in LocalName /\ v.level \in Nat /\ v.slot \in Nat /\ v.depth \in Nat
BY DEF VariableSet

(* A local that waits cannot be meant.                                       *)
LEMMA AddedHolds ==
  ASSUME NEW c \in CompilerSet, NEW n \in LocalName, NEW v \in VariableSet
  PROVE  Holds(addLocal(c, n), v) <=> Holds(c, v)
<1> DEFINE c2 == addLocal(c, n)
           N == Len(c.locals)
           x == v.slot + 1
<1>1. /\ c2 \in CompilerSet /\ Len(c2.locals) = N + 1
      /\ \A i \in DOMAIN c.locals : c2.locals[i] = c.locals[i]
      /\ c2.locals[N + 1].depth = Uninit
  BY Added DEF Keeps
<1>2. DOMAIN c.locals = 1 .. N /\ DOMAIN c2.locals = 1 .. N + 1 /\ N \in Nat
  <2>1. DOMAIN c2.locals = 1 .. Len(c2.locals)
    BY <1>1, Fields
  <2> QED BY <1>1, <2>1, Fields
<1>3. v.depth # Uninit /\ x \in Nat
  BY VariableFields DEF Uninit
<1> HIDE DEF c2, N, x
<1>4. CASE x \in DOMAIN c.locals
  <2>1. x \in DOMAIN c2.locals /\ c2.locals[x] = c.locals[x]
    BY <1>1, <1>2, <1>4
  <2> QED BY <1>4, <2>1 DEF Holds, c2, x
<1>5. CASE x \notin DOMAIN c.locals
  <2>1. x \in DOMAIN c2.locals => x = N + 1
    BY <1>2, <1>3, <1>5
  <2>2. ~ (x \in DOMAIN c2.locals /\ c2.locals[x].depth = v.depth)
    BY <1>1, <1>3, <2>1
  <2> QED BY <1>5, <2>2 DEF Holds, c2, x
<1> QED BY <1>4, <1>5

(* The variable that a local of this name becomes, once it has its value.    *)
NewHere(v, n, slot, depth) == v.name = n /\ v.slot = slot /\ v.depth = depth

(* With its depth, it can.                                                   *)
LEMMA MarkedHolds ==
  ASSUME NEW c \in CompilerSet, c.locals # <<>>, c.scopeDepth > 0,
         c.locals[Len(c.locals)].depth = Uninit, IsNamed(c.locals[Len(c.locals)].name),
         NEW v \in VariableSet
  PROVE  Holds(markInitialized(c), v)
           <=> \/ Holds(c, v)
               \/ NewHere(v, c.locals[Len(c.locals)].name, Len(c.locals) - 1, c.scopeDepth)
<1> DEFINE c2 == markInitialized(c)
           N == Len(c.locals)
           x == v.slot + 1
<1>1. /\ c2 \in CompilerSet /\ Len(c2.locals) = N
      /\ \A i \in DOMAIN c.locals :
           /\ c2.locals[i].depth = IF i = N THEN c.scopeDepth ELSE c.locals[i].depth
           /\ c2.locals[i].name = c.locals[i].name
  BY Marked, MarkedNames DEF Keeps
<1>2. DOMAIN c.locals = 1 .. N /\ DOMAIN c2.locals = 1 .. N /\ N \in Nat /\ N \in DOMAIN c.locals
  <2>1. DOMAIN c2.locals = 1 .. Len(c2.locals)
    BY <1>1, Fields
  <2>2. c.locals \in Seq(LocalSet) /\ DOMAIN c.locals = 1 .. Len(c.locals)
    BY Fields
  <2>3. Len(c.locals) \in DOMAIN c.locals
    BY <2>2, Elements
  <2> QED BY <1>1, <2>1, <2>2, <2>3, Fields
<1>3. v.depth # Uninit /\ x \in Nat /\ v.slot \in Nat
  <2>1. v.depth \in Nat /\ v.slot \in Nat
    BY VariableFields
  <2>2. v.depth # Uninit
    BY <2>1 DEF Uninit
  <2> QED BY <2>1, <2>2
<1>4. x = v.slot + 1 /\ N = Len(c.locals)
  OBVIOUS
<1> HIDE DEF c2, N, x
<1>5. x = N <=> v.slot = N - 1
  <2>1. N \in Nat /\ v.slot \in Nat /\ x = v.slot + 1
    BY <1>2, <1>3, <1>4
  <2> QED BY <2>1
<1>6. CASE x # N
  <2>1. ~ NewHere(v, c.locals[N].name, N - 1, c.scopeDepth)
    BY <1>5, <1>6 DEF NewHere
  <2>2. x \in DOMAIN c.locals => c2.locals[x].depth = c.locals[x].depth /\ c2.locals[x].name = c.locals[x].name
    BY <1>1, <1>6
  <2> QED BY <1>2, <1>4, <2>1, <2>2 DEF Holds, c2
<1>7. CASE x = N
  <2>1. ~ Holds(c, v)
    BY <1>3, <1>4, <1>7 DEF Holds
  <2>2. c2.locals[x].depth = c.scopeDepth /\ c2.locals[x].name = c.locals[N].name
        /\ x \in DOMAIN c2.locals
    BY <1>1, <1>2, <1>7
  <2>3. Holds(c2, v) <=> v.name = c.locals[N].name /\ v.depth = c.scopeDepth
    BY <1>4, <2>2 DEF Holds
  <2> QED BY <1>4, <1>5, <1>7, <2>1, <2>3 DEF NewHere, c2
<1> QED BY <1>6, <1>7

(* A declaration with its value: one variable more.                          *)
LEMMA DeclaredHolds ==
  ASSUME NEW c \in CompilerSet, c.scopeDepth > 0, NEW n \in LocalName, IsNamed(n),
         NEW v \in VariableSet
  PROVE  Holds(Declared(c, n), v)
           <=> Holds(c, v) \/ NewHere(v, n, Len(c.locals), c.scopeDepth)
<1> DEFINE c2 == addLocal(c, n)
           N == Len(c.locals)
<1>1. /\ c2 \in CompilerSet /\ Len(c2.locals) = N + 1 /\ c2.scopeDepth = c.scopeDepth
      /\ c2.locals[N + 1].depth = Uninit /\ c2.locals[N + 1].name = n
  BY Added, AddedName DEF Keeps
<1>2. Declared(c, n) = markInitialized(c2)
  <2>1. c.scopeDepth \in Nat
    BY Fields
  <2>2. c.scopeDepth # 0
    BY <2>1
  <2> QED BY <2>2 DEF Declared, declareVariable
<1>3. Holds(c2, v) <=> Holds(c, v)
  BY AddedHolds
<1>4. N \in Nat
  BY Fields
<1> HIDE DEF c2, N
<1>5. c2.locals # <<>>
  <2>1. c2.locals \in Seq(LocalSet)
    BY <1>1, Fields
  <2>2. N + 1 # 0
    BY <1>4
  <2> QED BY <1>1, <2>1, <2>2, Elements
<1>6. Holds(markInitialized(c2), v)
        <=> \/ Holds(c2, v)
            \/ NewHere(v, c2.locals[Len(c2.locals)].name, Len(c2.locals) - 1, c2.scopeDepth)
  BY <1>1, <1>5, MarkedHolds
<1>7. Len(c2.locals) - 1 = N
  <2>1. \A y : y = N + 1 => y - 1 = N
    BY <1>4
  <2>2. Len(c2.locals) = N + 1
    BY <1>1
  <2> QED BY <2>1, <2>2
<1> QED BY <1>1, <1>2, <1>3, <1>6, <1>7 DEF N

(* So is the superclass, one scope deeper.                                   *)
LEMMA SupersHolds ==
  ASSUME NEW c \in CompilerSet, NEW v \in VariableSet
  PROVE  Holds(Supers(c), v)
           <=> Holds(c, v) \/ NewHere(v, "super", Len(c.locals), c.scopeDepth + 1)
<1> DEFINE b == beginScope(c)
<1>1. b \in CompilerSet /\ b.scopeDepth = c.scopeDepth + 1 /\ b.locals = c.locals
  BY Begun DEF Keeps
<1>2. c.scopeDepth \in Nat
  BY Fields
<1> HIDE DEF b
<1>3. b.scopeDepth > 0 /\ b.scopeDepth # 0
  BY <1>1, <1>2
<1>4. "super" \in LocalName /\ IsNamed("super")
  BY DEF LocalName, IsNamed
<1>5. Holds(Declared(b, "super"), v)
        <=> Holds(b, v) \/ NewHere(v, "super", Len(b.locals), b.scopeDepth)
  BY <1>1, <1>3, <1>4, DeclaredHolds
<1>6. Supers(c) = Declared(b, "super")
  BY <1>3 DEF Supers, Declared, declareVariable, b
<1>7. Holds(b, v) <=> Holds(c, v)
  BY <1>1 DEF Holds
<1> QED BY <1>1, <1>5, <1>6, <1>7

(* The locals that endScope keeps.                                           *)
LEMMA EndedLocals ==
  ASSUME NEW c \in CompilerSet, LocalsOK(c, FALSE), c.scopeDepth > 0
  PROVE  /\ Kept(c) \in 1 .. Len(c.locals) /\ endScope(c).type = c.type
         /\ DOMAIN endScope(c).locals = 1 .. Kept(c)
         /\ \A i \in 1 .. Kept(c) : endScope(c).locals[i] = c.locals[i]
<1> DEFINE K == Kept(c)
           ls == SubSeq(c.locals, 1, K)
<1>1. K \in 1 .. Len(c.locals)
  BY KeptOK
<1>2. endScope(c).locals = ls /\ endScope(c).type = c.type
  BY DEF endScope, CompilerSet
<1>3. /\ c.locals \in Seq(LocalSet) /\ Len(c.locals) \in Nat
      /\ DOMAIN c.locals = 1 .. Len(c.locals)
  BY Fields
<1>4. ls \in Seq(LocalSet) /\ Len(ls) = K /\ \A i \in 1 .. K : ls[i] = c.locals[i]
  <2>1. \A i \in 1 .. K : c.locals[i] \in LocalSet
    BY <1>1, <1>3, Elements
  <2>2. 1 \in Int /\ K \in Int /\ 1 <= K /\ K - 1 + 1 = K
    BY <1>1
  <2> HIDE DEF K
  <2>3. /\ ls \in Seq(LocalSet) /\ Len(ls) = K - 1 + 1
        /\ \A i \in 1 .. K - 1 + 1 : ls[i] = c.locals[1 + i - 1]
    BY <2>1, <2>2, SubSeqProperties
  <2>4. \A i \in 1 .. K : 1 + i - 1 = i
    BY <2>2
  <2> QED BY <2>2, <2>3, <2>4
<1>5. DOMAIN ls = 1 .. K
  <2> HIDE DEF ls
  <2> QED BY <1>4, Elements
<1> QED BY <1>1, <1>2, <1>4, <1>5

(* Its variables are those of the scopes around.                             *)
LEMMA EndedHolds ==
  ASSUME NEW c \in CompilerSet, LocalsOK(c, FALSE), NEW d \in Nat, c.scopeDepth = d + 1,
         NEW v \in VariableSet
  PROVE  Holds(endScope(c), v) <=> Holds(c, v) /\ v.depth <= d
<1> DEFINE c2 == endScope(c)
           N == Len(c.locals)
           K == Kept(c)
           x == v.slot + 1
<1>0. c.scopeDepth > 0 /\ c.scopeDepth - 1 = d
  OBVIOUS
<1>1. /\ K \in 1 .. N /\ DOMAIN c2.locals = 1 .. K
      /\ \A i \in 1 .. K : c2.locals[i] = c.locals[i]
  BY <1>0, EndedLocals
<1>2. /\ \A i \in 1 .. K : c.locals[i].depth \in 0 .. d
      /\ \A i \in K + 1 .. N : c.locals[i].depth = d + 1
  BY <1>0, KeptOK
<1>3. DOMAIN c.locals = 1 .. N /\ N \in Nat
  BY Fields
<1>4. v.depth \in Nat /\ x \in Nat
  BY VariableFields
<1>5. x = v.slot + 1
  OBVIOUS
<1> HIDE DEF c2, N, K, x
<1>6. CASE x \in 1 .. K
  <2>1. x \in DOMAIN c.locals /\ x \in DOMAIN c2.locals /\ c2.locals[x] = c.locals[x]
    BY <1>1, <1>3, <1>6
  <2>2. c.locals[x].depth \in 0 .. d
    BY <1>2, <1>6
  <2>3. c.locals[x].depth = v.depth => v.depth <= d
    BY <1>4, <2>2
  <2> QED BY <1>5, <2>1, <2>3 DEF Holds, c2
<1>7. CASE x \notin 1 .. K
  <2>1. ~ Holds(c2, v)
    BY <1>1, <1>5, <1>7 DEF Holds
  <2>2. x \in DOMAIN c.locals => c.locals[x].depth = d + 1
    BY <1>1, <1>2, <1>3, <1>4, <1>7
  <2>3. ~ (v.depth = d + 1 /\ v.depth <= d)
    BY <1>4
  <2>4. ~ (Holds(c, v) /\ v.depth <= d)
    BY <1>5, <2>2, <2>3 DEF Holds
  <2> QED BY <2>1, <2>4 DEF c2
<1> QED BY <1>6, <1>7

(* Naming a variable changes none.                                           *)
LEMMA ExtendedHolds ==
  ASSUME NEW c \in CompilerSet, NEW c2, Extended(c2, c)
  PROVE  /\ \A v : Holds(c2, v) <=> Holds(c, v)
         /\ c.locals # <<>> /\ NamedLocals(c) => NamedLocals(c2)
<1>1. /\ c2 \in CompilerSet /\ c2.type = c.type /\ Len(c2.locals) = Len(c.locals)
      /\ \A i \in DOMAIN c.locals :
           /\ c2.locals[i].name = c.locals[i].name /\ c2.locals[i].depth = c.locals[i].depth
  BY DEF Extended
<1>2. DOMAIN c2.locals = DOMAIN c.locals /\ c.locals \in Seq(LocalSet)
  <2>1. DOMAIN c2.locals = 1 .. Len(c2.locals)
    BY <1>1, Fields
  <2> QED BY <1>1, <2>1, Fields
<1>3. c.locals # <<>> => 1 \in DOMAIN c.locals
  BY <1>2, Elements
<1>4. \A v : Holds(c2, v) <=> Holds(c, v)
  BY <1>1, <1>2 DEF Holds
<1> QED BY <1>1, <1>2, <1>3, <1>4 DEF NamedLocals

(* The same variables of a function.                                         *)
SameHolds(c2, c) == \A v \in VariableSet : Holds(c2, v) <=> Holds(c, v)
MoreHolds(c2, c, n, slot, depth) ==
  \A v \in VariableSet : Holds(c2, v) <=> Holds(c, v) \/ NewHere(v, n, slot, depth)
OuterHolds(c2, c, d) == \A v \in VariableSet : Holds(c2, v) <=> Holds(c, v) /\ v.depth <= d

(* All functions but the innermost have the same variables.                  *)
TopOnly(cs2, cs) ==
  /\ cs2 \in Seq(CompilerSet) /\ cs \in Seq(CompilerSet) /\ cs # <<>> /\ Len(cs2) = Len(cs)
  /\ \A k \in 1 .. Len(cs) - 1 : SameHolds(cs2[k], cs[k])

(* A level is the innermost one or below.                                    *)
LEMMA Levels ==
  ASSUME NEW cs2, NEW cs, TopOnly(cs2, cs)
  PROVE  /\ Len(cs) \in Nat \ {0} /\ DOMAIN cs = 1 .. Len(cs) /\ DOMAIN cs2 = 1 .. Len(cs)
         /\ Len(cs) \in DOMAIN cs
         /\ \A k \in DOMAIN cs : k # Len(cs) => SameHolds(cs2[k], cs[k]) /\ k < Len(cs)
<1>1. /\ cs2 \in Seq(CompilerSet) /\ cs \in Seq(CompilerSet) /\ cs # <<>> /\ Len(cs2) = Len(cs)
      /\ \A k \in 1 .. Len(cs) - 1 : SameHolds(cs2[k], cs[k])
  BY DEF TopOnly
<1>2. /\ Len(cs) \in Nat /\ DOMAIN cs = 1 .. Len(cs) /\ DOMAIN cs2 = 1 .. Len(cs)
      /\ Len(cs) # 0 /\ Len(cs) \in DOMAIN cs
  BY <1>1, Elements
<1>3. \A k \in 1 .. Len(cs) : k # Len(cs) => k \in 1 .. Len(cs) - 1 /\ k < Len(cs)
  <2>1. Len(cs) \in Nat
    BY <1>2
  <2> QED BY <2>1
<1> QED BY <1>1, <1>2, <1>3

(* Nothing changed.                                                          *)
LEMMA SameVariables ==
  ASSUME NEW cs2, NEW cs, TopOnly(cs2, cs), SameHolds(cs2[Len(cs)], cs[Len(cs)])
  PROVE  Variables(cs2) = Variables(cs)
<1>1. /\ DOMAIN cs2 = DOMAIN cs
      /\ \A k \in DOMAIN cs : SameHolds(cs2[k], cs[k])
  BY Levels
<1> QED BY <1>1 DEF Variables, SameHolds

(* The variable a local of this name becomes.                                *)
Variable(n, level, slot, depth) ==
  [name |-> n, level |-> level, slot |-> slot, depth |-> depth]

(* What such a variable is.                                                  *)
LEMMA VariableMade ==
  ASSUME NEW n \in LocalName, NEW level \in Nat, NEW slot \in Nat, NEW depth \in Nat
  PROVE  /\ Variable(n, level, slot, depth) \in VariableSet
         /\ Variable(n, level, slot, depth).name = n
         /\ Variable(n, level, slot, depth).level = level
         /\ Variable(n, level, slot, depth).slot = slot
         /\ Variable(n, level, slot, depth).depth = depth
BY DEF Variable, VariableSet

(* And which it is.                                                          *)
LEMMA VariableIs ==
  ASSUME NEW n \in LocalName, NEW level \in Nat, NEW slot \in Nat, NEW depth \in Nat,
         NEW v \in VariableSet
  PROVE  v = Variable(n, level, slot, depth) <=> v.level = level /\ NewHere(v, n, slot, depth)
BY DEF Variable, VariableSet, NewHere

(* A local was declared.                                                     *)
LEMMA MoreVariables ==
  ASSUME NEW cs2, NEW cs, TopOnly(cs2, cs), NEW n \in LocalName, NEW slot \in Nat, slot # 0,
         NEW depth \in Nat, MoreHolds(cs2[Len(cs)], cs[Len(cs)], n, slot, depth)
  PROVE  Variables(cs2) = Variables(cs) \union {Variable(n, Len(cs), slot, depth)}
<1> DEFINE L == Len(cs)
           w == Variable(n, L, slot, depth)
<1>1. /\ L \in Nat /\ DOMAIN cs2 = DOMAIN cs /\ L \in DOMAIN cs
      /\ \A k \in DOMAIN cs : k # L => SameHolds(cs2[k], cs[k])
  BY Levels
<1>2. w \in VariableSet /\ \A v \in VariableSet : v = w <=> v.level = L /\ NewHere(v, n, slot, depth)
  BY <1>1, VariableMade, VariableIs
<1>3. \A v \in VariableSet : Holds(cs2[L], v) <=> Holds(cs[L], v) \/ NewHere(v, n, slot, depth)
  BY DEF MoreHolds
<1> HIDE DEF L, w
<1>4. ASSUME NEW v \in VariableSet PROVE v \in Variables(cs2) <=> v \in Variables(cs) \/ v = w
  <2>1. CASE v.level = L
    <3>1. Holds(cs2[L], v) <=> Holds(cs[L], v) \/ v = w
      BY <1>2, <1>3, <2>1
    <3>2. v = w => v.slot # 0
      BY <1>2 DEF NewHere
    <3> QED BY <1>1, <2>1, <3>1, <3>2 DEF Variables
  <2>2. CASE v.level # L
    <3>1. v # w
      BY <1>2, <2>2
    <3>2. v.level \in DOMAIN cs => (Holds(cs2[v.level], v) <=> Holds(cs[v.level], v))
      BY <1>1, <2>2 DEF SameHolds
    <3> QED BY <1>1, <3>1, <3>2 DEF Variables
  <2> QED BY <2>1, <2>2
<1>5. Variables(cs2) \subseteq VariableSet /\ Variables(cs) \subseteq VariableSet
  BY DEF Variables
<1>6. Variables(cs2) = Variables(cs) \union {w}
  BY <1>2, <1>4, <1>5
<1> QED BY <1>6 DEF w, L

(* A scope ended.                                                            *)
LEMMA OuterVariables ==
  ASSUME NEW cs2, NEW cs, TopOnly(cs2, cs), NEW d,
         OuterHolds(cs2[Len(cs)], cs[Len(cs)], d)
  PROVE  Variables(cs2) = {v \in Variables(cs) : Around(v, Len(cs), d)}
<1> DEFINE L == Len(cs)
<1>1. /\ L \in Nat /\ DOMAIN cs2 = DOMAIN cs /\ L \in DOMAIN cs
      /\ \A k \in DOMAIN cs : k # L => SameHolds(cs2[k], cs[k]) /\ k < L
  BY Levels
<1>2. \A v \in VariableSet : Holds(cs2[L], v) <=> Holds(cs[L], v) /\ v.depth <= d
  BY DEF OuterHolds
<1> HIDE DEF L
<1>3. ASSUME NEW v \in VariableSet
      PROVE  v \in Variables(cs2) <=> v \in Variables(cs) /\ Around(v, L, d)
  <2>1. CASE v.level = L
    <3>1. Around(v, L, d) <=> v.depth <= d
      BY <1>1, <2>1 DEF Around
    <3>2. Holds(cs2[v.level], v) <=> Holds(cs[v.level], v) /\ v.depth <= d
      BY <1>2, <2>1
    <3> QED BY <1>1, <3>1, <3>2 DEF Variables
  <2>2. CASE v.level # L
    <3>1. v.level \in DOMAIN cs =>
            (Holds(cs2[v.level], v) <=> Holds(cs[v.level], v)) /\ Around(v, L, d)
      BY <1>1, <2>2 DEF SameHolds, Around
    <3> QED BY <1>1, <3>1 DEF Variables
  <2> QED BY <2>1, <2>2
<1>4. Variables(cs2) \subseteq VariableSet /\ Variables(cs) \subseteq VariableSet
  BY DEF Variables
<1>5. Variables(cs2) = {v \in Variables(cs) : Around(v, L, d)}
  BY <1>3, <1>4
<1> QED BY <1>5 DEF L

(* A function's variables lie in its frame and in its scopes.                *)
LEMMA HeldWithin ==
  ASSUME NEW c \in CompilerSet, NEW w \in BOOLEAN, LocalsOK(c, w), NEW v \in VariableSet,
         Holds(c, v)
  PROVE  v.slot < Len(c.locals) /\ v.depth <= c.scopeDepth
<1> DEFINE N == Len(c.locals)
           x == v.slot + 1
<1>1. /\ N \in Nat /\ DOMAIN c.locals = 1 .. N /\ c.scopeDepth \in Nat
  BY Fields
<1>2. v.slot \in Nat /\ v.depth \in Nat
  BY VariableFields
<1>3. x \in 1 .. N /\ c.locals[x].depth = v.depth /\ x = v.slot + 1
  BY <1>1 DEF Holds
<1>4. v.depth # Uninit
  BY <1>2 DEF Uninit
<1> HIDE DEF N, x
<1>5. v.slot < N
  BY <1>1, <1>2, <1>3
<1>6. v.depth \in 0 .. c.scopeDepth
  <2>1. CASE w
    <3>1. x # N /\ Ordered(c.locals, N - 1, c.scopeDepth)
      BY <1>3, <1>4, <2>1 DEF LocalsOK, N
    <3>2. x \in 1 .. N - 1
      BY <1>1, <1>3, <3>1
    <3> QED BY <1>3, <3>1, <3>2 DEF Ordered
  <2>2. CASE ~ w
    <3>1. Ordered(c.locals, N, c.scopeDepth)
      BY <2>2 DEF LocalsOK, N
    <3> QED BY <1>3, <3>1 DEF Ordered
  <2> QED BY <2>1, <2>2
<1>7. v.depth <= c.scopeDepth
  BY <1>1, <1>2, <1>6
<1> QED BY <1>5, <1>7 DEF N

(* The variables of all functions.                                           *)
LEMMA VariablesWithin ==
  ASSUME NEW cs, NEW cl, NEW ns, NEW fs, Good(cs, cl, ns, fs)
  PROVE  /\ Variables(cs) \in SUBSET VariableSet
         /\ \A v \in Variables(cs) :
              /\ v.level \in 1 .. Len(cs) /\ v.slot \in Nat /\ v.depth \in Nat
              /\ v.slot < Len(cs[v.level].locals)
              /\ v.depth <= Depth(ns, cl, v.level)
         /\ AllAround(Variables(cs), Len(cs), Depth(ns, cl, Len(cs)))
<1>1. /\ DOMAIN cs = 1 .. Len(cs) /\ Len(cs) \in Nat
      /\ \A k \in 1 .. Len(cs) : cs[k] \in CompilerSet
      /\ \A k \in 1 .. Len(cs) : LevelGood(cs, cl, ns, fs, k)
  BY GoodParts
<1>2. ASSUME NEW k \in 1 .. Len(cs)
      PROVE  /\ \E w \in BOOLEAN : LocalsOK(cs[k], w)
             /\ cs[k].scopeDepth = Depth(ns, cl, k)
  <2>1. Waits(cs, ns, k) \in BOOLEAN
    BY Waiters
  <2>2. LocalsOK(cs[k], Waits(cs, ns, k)) /\ cs[k].scopeDepth = Depth(ns, cl, k)
    BY <1>1 DEF LevelGood, LevelOK
  <2> QED BY <2>1, <2>2
<1>3. ASSUME NEW v \in Variables(cs)
      PROVE  /\ v.level \in 1 .. Len(cs) /\ v.slot \in Nat /\ v.depth \in Nat
             /\ v.slot < Len(cs[v.level].locals)
             /\ v.depth <= Depth(ns, cl, v.level)
  <2>1. v \in VariableSet /\ v.level \in 1 .. Len(cs) /\ Holds(cs[v.level], v)
    BY <1>1 DEF Variables
  <2>2. PICK w \in BOOLEAN : LocalsOK(cs[v.level], w)
    BY <1>2, <2>1
  <2>3. cs[v.level] \in CompilerSet
    BY <1>1, <2>1
  <2>4. v.slot < Len(cs[v.level].locals) /\ v.depth <= cs[v.level].scopeDepth
    BY <2>1, <2>2, <2>3, HeldWithin
  <2>5. v.slot \in Nat /\ v.depth \in Nat
    BY <2>1, VariableFields
  <2> QED BY <1>2, <2>1, <2>4, <2>5
<1>4. AllAround(Variables(cs), Len(cs), Depth(ns, cl, Len(cs)))
  BY <1>1, <1>3 DEF AllAround, Around
<1>5. Variables(cs) \in SUBSET VariableSet
  BY DEF Variables
<1> QED BY <1>3, <1>4, <1>5

(* A new local comes after all of them, and in no scope around what is open. *)
LEMMA NewFollows ==
  ASSUME NEW ns \in Seq(NestSet), NEW L, NestOK(ns, L), Kind(ns) # "var", Kind(ns) # "class",
         NEW cl, NEW V, NEW w \in VariableSet, w.level = L, w.depth >= Depth(ns, cl, L),
         \A v \in V : Precedes(v, w)
  PROVE  Follows({w}, V, cl, ns)
<1>1. ASSUME NEW i \in DOMAIN ns PROVE ~ Around(w, ns[i].level, Before(ns, cl, i))
  <2>1. /\ Before(ns, cl, i) \in Nat /\ Depth(ns, cl, L) \in Nat
        /\ ns[i].level <= L /\ ns[i].level \in Nat /\ L \in Nat
        /\ ns[i].level = L => Before(ns, cl, i) < Depth(ns, cl, L)
    BY BeforeNow
  <2>2. w.depth \in Nat
    BY VariableFields
  <2>3. ~ (w.level < ns[i].level)
    BY <2>1
  <2>4. w.level = ns[i].level => ~ (w.depth <= Before(ns, cl, i))
    BY <2>1, <2>2
  <2> QED BY <2>3, <2>4 DEF Around
<1> QED BY <1>1 DEF Follows

(* So do those of a function inside.                                         *)
LEMMA InnerFollows ==
  ASSUME NEW ns \in Seq(NestSet), NEW L \in Nat, NEW cl, NEW V, NEW W,
         \A i \in DOMAIN ns : ns[i].level \in Nat /\ ns[i].level <= L,
         \A v \in V : v.level \in Nat /\ v.level <= L,
         \A w \in W : w.level = L + 1
  PROVE  Follows(W, V, cl, ns)
<1>1. \A v \in V, w \in W : Precedes(v, w)
  BY DEF Precedes
<1>2. ASSUME NEW w \in W, NEW i \in DOMAIN ns
      PROVE  ~ Around(w, ns[i].level, Before(ns, cl, i))
  BY DEF Around
<1> QED BY <1>1, <1>2 DEF Follows

(* The innermost function goes, with its variables.                          *)
LEMMA FrontVariables ==
  ASSUME NEW cs \in Seq(CompilerSet), cs # <<>>
  PROVE  Variables(Front(cs)) = {v \in Variables(cs) : v.level # Len(cs)}
<1>1. /\ DOMAIN cs = 1 .. Len(cs) /\ Len(cs) \in Nat /\ DOMAIN Front(cs) = 1 .. Len(cs) - 1
      /\ \A k \in DOMAIN Front(cs) : Front(cs)[k] = cs[k]
  BY Elements, WithoutLast
<1>2. \A k \in DOMAIN cs : k \in DOMAIN Front(cs) <=> k # Len(cs)
  BY <1>1
<1>3. \A k \in DOMAIN Front(cs) : k \in DOMAIN cs
  BY <1>1
<1> QED BY <1>1, <1>2, <1>3 DEF Variables

Own(c, level) == {v \in VariableSet : v.level = level /\ Holds(c, v)}

(* A function comes, with its own.                                           *)
LEMMA EnterVariables ==
  ASSUME NEW cs \in Seq(CompilerSet), cs # <<>>, NEW c \in CompilerSet
  PROVE  Variables(Append(cs, c)) = Variables(cs) \union Own(c, Len(cs) + 1)
<1> DEFINE L == Len(cs)
           r == Append(cs, c)
<1>1. /\ L \in Nat \ {0} /\ DOMAIN cs = 1 .. L /\ DOMAIN r = DOMAIN cs \union {L + 1}
      /\ r[L + 1] = c /\ \A k \in DOMAIN cs : k # L + 1 /\ r[k] = cs[k]
  <2>1. L \in Nat /\ L # 0 /\ DOMAIN cs = 1 .. L
    BY Elements
  <2>2. /\ DOMAIN r = DOMAIN cs \union {L + 1}
        /\ r[L + 1] = c /\ \A k \in DOMAIN cs : k # L + 1 /\ r[k] = cs[k]
    BY Appended
  <2> QED BY <2>1, <2>2
<1> HIDE DEF r, L
<1>2. L + 1 # 1
  BY <1>1
<1>3. ASSUME NEW v \in VariableSet
      PROVE  v \in Variables(r) <=> v \in Variables(cs) \/ v \in Own(c, L + 1)
  <2>1. CASE v.level = L + 1
    BY <1>1, <1>2, <2>1 DEF Variables, Own
  <2>2. CASE v.level # L + 1
    BY <1>1, <2>2 DEF Variables, Own
  <2> QED BY <2>1, <2>2
<1>4. /\ Variables(r) \subseteq VariableSet /\ Variables(cs) \subseteq VariableSet
      /\ Own(c, L + 1) \subseteq VariableSet
  BY DEF Variables, Own
<1>5. Variables(r) = Variables(cs) \union Own(c, L + 1)
  BY <1>3, <1>4
<1> QED BY <1>5 DEF r, L

-----------------------------------------------------------------------------
(* What a reference reaches.                                                 *)

(* The function f tells where the upvalues of the first n functions lead.    *)
Followed(cs, f, n) ==
  f = [k \in 1 .. n |->
         [i \in DOMAIN cs[k].upvalues |-> Through(f, k, cs[k].upvalues[i])]]

(* Upvalues can be followed through one function more.                       *)
LEMMA FollowedOn ==
  ASSUME NEW cs, Chained(cs), NEW n \in 1 .. Len(cs), NEW f, Followed(cs, f, n - 1)
  PROVE  \E g : Followed(cs, g, n)
<1> DEFINE row(k) == [i \in DOMAIN cs[k].upvalues |-> Through(f, k, cs[k].upvalues[i])]
           g == [k \in 1 .. n |-> row(k)]
<1>1. /\ DOMAIN f = 1 .. n - 1 /\ \A k \in 1 .. n - 1 : f[k] = row(k)
  BY DEF Followed
<1>2. n \in Nat
  <2>1. cs \in Seq(CompilerSet)
    BY DEF Chained
  <2> QED BY <2>1, Elements
<1>3. \A k \in 1 .. n : k \in Nat /\ (k # 1 => k - 1 \in 1 .. n - 1 /\ k - 1 \in 1 .. n)
  BY <1>2
<1>4. \A k \in 1 .. n : k \in 1 .. Len(cs)
  BY DEF Chained
<1>5. g = [k \in 1 .. n |-> row(k)] /\ \A k \in 1 .. n : g[k] = row(k)
  OBVIOUS
<1> HIDE DEF g
<1>6. \A k \in 1 .. n : k # 1 => g[k - 1] = f[k - 1]
  BY <1>1, <1>3, <1>5
<1>7. ASSUME NEW k \in 1 .. n
      PROVE  row(k) = [i \in DOMAIN cs[k].upvalues |-> Through(g, k, cs[k].upvalues[i])]
  <2>1. CASE k = 1
    <3>1. cs[1].upvalues = <<>>
      <4>1. 1 \in DOMAIN cs
        BY <1>4, <2>1, Elements DEF Chained
      <4> QED BY <4>1 DEF Chained, UpvaluesOK
    <3>2. DOMAIN cs[k].upvalues = {}
      BY <2>1, <3>1
    <3> QED BY <3>2
  <2>2. CASE k # 1
    <3>1. \A u : Through(f, k, u) = Through(g, k, u)
      BY <1>6, <2>2 DEF Through
    <3> QED BY <3>1
  <2> QED BY <2>1, <2>2
<1>8. Followed(cs, g, n)
  BY <1>5, <1>7 DEF Followed
<1> HIDE DEF Followed
<1> QED BY <1>8

(* So through all.                                                           *)
LEMMA FollowedAll ==
  ASSUME NEW cs, Chained(cs)
  PROVE  \E f : Followed(cs, f, Len(cs))
<1> DEFINE L == Len(cs)
           S == {n \in 0 .. L : \E f : Followed(cs, f, n)}
<1>1. L \in Nat
  <2>1. cs \in Seq(CompilerSet)
    BY DEF Chained
  <2> QED BY <2>1, Elements
<1>2. 0 \in S
  <2> DEFINE f == [k \in 1 .. 0 |-> k]
  <2>1. 1 .. 0 = {}
    OBVIOUS
  <2>2. Followed(cs, f, 0)
    BY <2>1 DEF Followed
  <2> QED BY <1>1, <2>2
<1>3. ASSUME NEW n \in 1 .. L, n - 1 \in S PROVE n \in S
  <2>1. PICK f : Followed(cs, f, n - 1)
    BY <1>3
  <2>2. \E g : Followed(cs, g, n)
    BY <2>1, FollowedOn
  <2>3. n \in 0 .. L
    BY <1>1
  <2> QED BY <2>2, <2>3
<1> HIDE DEF S
<1>4. \A n \in 0 .. L : n \in S
  <2> HIDE DEF L
  <2> QED BY <1>1, <1>2, <1>3, UpTo
<1>5. L \in S
  BY <1>1, <1>4
<1> QED BY <1>5 DEF S

(* Chase follows them.                                                       *)
LEMMA Chased ==
  ASSUME NEW cs, Chained(cs)
  PROVE  \E f : /\ \A k \in DOMAIN cs : \A i \in DOMAIN cs[k].upvalues :
                     f[k][i] = Through(f, k, cs[k].upvalues[i])
                /\ \A level, index : Chase(cs, level, index) = f[level][index + 1]
<1> DEFINE Is(f) == f = [k \in DOMAIN cs |->
                          [i \in DOMAIN cs[k].upvalues |-> Through(f, k, cs[k].upvalues[i])]]
           reaches == CHOOSE f : Is(f)
<1>1. \A level, index : Chase(cs, level, index) = reaches[level][index + 1]
  BY DEF Chase
<1>2. reaches = CHOOSE f : Is(f)
  OBVIOUS
<1> HIDE DEF reaches
<1>3. PICK g : Followed(cs, g, Len(cs))
  BY FollowedAll
<1>4. DOMAIN cs = 1 .. Len(cs)
  <2>1. cs \in Seq(CompilerSet)
    BY DEF Chained
  <2> QED BY <2>1, Elements
<1>5. Is(g)
  BY <1>3, <1>4 DEF Followed
<1>6. Is(reaches)
  <2> HIDE DEF Is
  <2> QED BY <1>2, <1>5
<1>7. ASSUME NEW k \in DOMAIN cs, NEW i \in DOMAIN cs[k].upvalues
      PROVE  reaches[k][i] = Through(reaches, k, cs[k].upvalues[i])
  BY <1>6
<1> QED BY <1>1, <1>7

(* The slot that a path of upvalues leads to, by induction along it.         *)
LEMMA LeadsThere ==
  ASSUME NEW cs, Chained(cs), NEW k \in DOMAIN cs, NEW o \in Nat, o < k, NEW x, NEW s,
         Leads(cs, k, x, o, s)
  PROVE  Chase(cs, k, x) = [level |-> o, slot |-> s]
<1> DEFINE N == k - o - 1
           there == [level |-> o, slot |-> s]
<1>1. DOMAIN cs = 1 .. Len(cs) /\ Len(cs) \in Nat
  <2>1. cs \in Seq(CompilerSet)
    BY DEF Chained
  <2> QED BY <2>1, Elements
<1>2. k \in Nat /\ N \in Nat
  <2>1. k \in Nat
    BY <1>1
  <2> QED BY <2>1
<1>3. PICK f : /\ \A j \in DOMAIN cs : \A i \in DOMAIN cs[j].upvalues :
                    f[j][i] = Through(f, j, cs[j].upvalues[i])
               /\ \A level, index : Chase(cs, level, index) = f[level][index + 1]
  BY Chased
<1>4. PICK p \in [o + 1 .. k -> Nat] : p[k] = x /\ Path(cs, k, o, s, p)
  BY DEF Leads
<1> DEFINE S == {m \in 0 .. N : f[o + 1 + m][p[o + 1 + m] + 1] = there}
<1>5. ASSUME NEW m \in 0 .. N
      PROVE  /\ o + 1 + m \in o + 1 .. k /\ o + 1 + m \in DOMAIN cs
             /\ (m # 0 => o + 1 + m # o + 1) /\ o + 1 + m - 1 = o + m
             /\ (m = 0 => o + 1 + m = o + 1) /\ (m # 0 => m - 1 \in 0 .. N /\ o + 1 + (m - 1) = o + m)
  <2>1. m \in Nat /\ m <= k - o - 1 /\ k <= Len(cs) /\ Len(cs) \in Nat /\ k \in Nat
    BY <1>1, <1>2
  <2>2. o + 1 + m \in 1 .. Len(cs)
    BY <2>1
  <2> QED BY <1>1, <2>1, <2>2
<1> HIDE DEF N, there
<1>6. ASSUME NEW m \in 0 .. N
      PROVE  f[o + 1 + m][p[o + 1 + m] + 1]
               = Through(f, o + 1 + m, IF m = 0 THEN Entry(s, TRUE) ELSE Entry(p[o + m], FALSE))
  <2> DEFINE j == o + 1 + m
  <2>1. j \in o + 1 .. k /\ j \in DOMAIN cs /\ (j = o + 1 <=> m = 0) /\ j - 1 = o + m
    BY <1>5
  <2> HIDE DEF j
  <2>2. /\ p[j] + 1 \in DOMAIN cs[j].upvalues
        /\ cs[j].upvalues[p[j] + 1] = IF j = o + 1 THEN Entry(s, TRUE) ELSE Entry(p[j - 1], FALSE)
    BY <1>4, <2>1 DEF Path
  <2>3. f[j][p[j] + 1] = Through(f, j, cs[j].upvalues[p[j] + 1])
    BY <1>3, <2>1, <2>2
  <2> QED BY <2>1, <2>2, <2>3 DEF j
<1>7. 0 \in S
  <2>1. 0 \in 0 .. N /\ o + 1 + 0 - 1 = o
    BY <1>2
  <2>2. f[o + 1 + 0][p[o + 1 + 0] + 1] = Through(f, o + 1 + 0, Entry(s, TRUE))
    BY <1>6, <2>1
  <2>3. Through(f, o + 1 + 0, Entry(s, TRUE)) = there
    BY <2>1 DEF Through, Entry, there
  <2> QED BY <2>1, <2>2, <2>3
<1>8. ASSUME NEW m \in 1 .. N, m - 1 \in S PROVE m \in S
  <2>1. m \in 0 .. N /\ m # 0
    BY <1>2
  <2>2. f[o + 1 + m][p[o + 1 + m] + 1] = Through(f, o + 1 + m, Entry(p[o + m], FALSE))
    BY <1>6, <2>1
  <2>3. o + 1 + m - 1 = o + m /\ o + 1 + (m - 1) = o + m
    BY <1>5, <2>1
  <2>4. Through(f, o + 1 + m, Entry(p[o + m], FALSE)) = f[o + m][p[o + m] + 1]
    BY <2>3 DEF Through, Entry
  <2>5. f[o + 1 + (m - 1)][p[o + 1 + (m - 1)] + 1] = there
    BY <1>8
  <2>6. f[o + m][p[o + m] + 1] = there
    BY <2>3, <2>5
  <2> QED BY <2>1, <2>2, <2>4, <2>6
<1>9. \A m \in 0 .. N : m \in S
  <2> HIDE DEF S
  <2> QED BY <1>2, <1>7, <1>8, UpTo
<1>10. f[o + 1 + N][p[o + 1 + N] + 1] = there /\ o + 1 + N = k
  <2>1. N \in 0 .. N /\ o + 1 + N = k
    BY <1>2 DEF N
  <2> QED BY <1>9, <2>1
<1> QED BY <1>3, <1>4, <1>10 DEF there

(* A local of the name is among the variables, but one that waits and the    *)
(* script's first slot.                                                      *)
LEMMA NamedVariable ==
  ASSUME NEW cs \in Seq(CompilerSet), NEW k \in DOMAIN cs, NEW x \in DOMAIN cs[k].locals,
         cs[k].locals[x].depth \in Nat, IsNamed(cs[k].locals[x].name), k = 1 => x # 1
  PROVE  /\ Variable(cs[k].locals[x].name, k, x - 1, cs[k].locals[x].depth) \in Variables(cs)
<1> DEFINE n == cs[k].locals[x].name
           d == cs[k].locals[x].depth
           s == x - 1
           w == Variable(n, k, s, d)
<1>1. /\ cs[k] \in CompilerSet /\ k \in Nat /\ s \in Nat /\ s + 1 = x
      /\ (k = 1 => s # 0)
  <2>1. cs[k] \in CompilerSet /\ k \in Nat
    BY Elements
  <2>2. x \in 1 .. Len(cs[k].locals) /\ Len(cs[k].locals) \in Nat
    BY <2>1, Fields
  <2>3. x \in Nat \ {0}
    BY <2>2
  <2> QED BY <2>1, <2>3
<1>2. n \in LocalName
  <2>1. cs[k].locals[x] \in LocalSet
    BY <1>1, Fields
  <2> QED BY <2>1 DEF LocalSet
<1>3. n = cs[k].locals[x].name /\ d = cs[k].locals[x].depth
  OBVIOUS
<1> HIDE DEF n, d, s, w
<1>4. d \in Nat /\ IsNamed(n)
  BY <1>3
<1>5. w \in VariableSet /\ w.name = n /\ w.level = k /\ w.slot = s /\ w.depth = d
  <2>1. n \in LocalName /\ k \in Nat /\ s \in Nat /\ d \in Nat
    BY <1>1, <1>2, <1>4
  <2>2. /\ Variable(n, k, s, d) \in VariableSet /\ Variable(n, k, s, d).name = n
        /\ Variable(n, k, s, d).level = k /\ Variable(n, k, s, d).slot = s
        /\ Variable(n, k, s, d).depth = d
    BY <2>1 DEF Variable, VariableSet
  <2> QED BY <2>2 DEF w
<1>6. w.slot + 1 = x
  BY <1>1, <1>5
<1>7. Holds(cs[k], w)
  BY <1>3, <1>4, <1>5, <1>6 DEF Holds
<1>8. w \in Variables(cs)
  BY <1>1, <1>5, <1>7 DEF Variables
<1> QED BY <1>8 DEF n, d, s, w

(* Every function's locals are named as they should be, and have a depth or  *)
(* wait.                                                                     *)
AllNamed(cs) == \A k \in DOMAIN cs : NamedLocals(cs[k])
DepthsOK(cs) ==
  \A k \in DOMAIN cs : \A i \in DOMAIN cs[k].locals :
    cs[k].locals[i].depth \in Nat \/ cs[k].locals[i].depth = Uninit

(* A name that does not stand for the script's first slot.                   *)
Usable(cs, n) == IsNamed(n) /\ (n = "this" => Owner(cs, n) # 1)

Place(cs, n) == [level |-> Owner(cs, n), slot |-> LocalOf(cs[Owner(cs, n)], n) - 1]

(* What the text means is what resolving finds: the innermost variable of    *)
(* the name is the last local of the innermost function that has one.        *)
LEMMA MeantIs ==
  ASSUME NEW cs \in Seq(CompilerSet), AllNamed(cs), DepthsOK(cs), NEW n, Usable(cs, n),
         ~ OwnInitializer(cs, n), NEW e \in Seq(BindingSet), Lists(e, Variables(cs))
  PROVE  Meant(e, n) = IF Owner(cs, n) = 0 THEN {} ELSE {Place(cs, n)}
<1> DEFINE o == Owner(cs, n)
           x == LocalOf(cs[o], n)
           found == {i \in DOMAIN e : e[i].name = n}
<1>1. /\ o \in 0 .. Len(cs) /\ (o # 0 => o \in DOMAIN cs /\ x # 0)
      /\ \A k \in DOMAIN cs : LocalOf(cs[k], n) # 0 => k <= o
  BY OwnerFound
<1>2. DOMAIN cs = 1 .. Len(cs) /\ Len(cs) \in Nat /\ \A k \in DOMAIN cs : cs[k] \in CompilerSet
  BY Elements
<1>3. Len(e) \in Nat /\ DOMAIN e = 1 .. Len(e)
  BY Elements
<1>4. ASSUME NEW v \in Variables(cs), v.name = n
      PROVE  /\ v.level \in DOMAIN cs /\ v.level <= o /\ v.slot \in Nat /\ v.slot + 1 # 0
             /\ v.slot + 1 <= LocalOf(cs[v.level], n)
  <2>1. v \in VariableSet /\ v.level \in DOMAIN cs /\ Holds(cs[v.level], v)
    BY DEF Variables
  <2>2. v.slot \in Nat
    BY <2>1, VariableFields
  <2>3. v.slot + 1 \in DOMAIN cs[v.level].locals /\ cs[v.level].locals[v.slot + 1].name = n
    BY <1>4, <2>1 DEF Holds
  <2>4. v.slot + 1 <= LocalOf(cs[v.level], n) /\ LocalOf(cs[v.level], n) \in 0 .. Len(cs[v.level].locals)
    BY <1>2, <2>1, <2>3, LocalFound
  <2>5. Len(cs[v.level].locals) \in Nat
    BY <1>2, <2>1, Fields
  <2>6. LocalOf(cs[v.level], n) # 0 /\ v.slot + 1 # 0
    BY <2>2, <2>4, <2>5
  <2>7. v.level <= o
    BY <1>1, <2>1, <2>6
  <2> QED BY <2>1, <2>2, <2>4, <2>6, <2>7
<1>5. Meant(e, n) = IF found = {} THEN {}
                    ELSE {[level |-> e[Max(found)].level, slot |-> e[Max(found)].slot]}
  BY DEF Meant
<1>6. o = Owner(cs, n) /\ x = LocalOf(cs[o], n)
  OBVIOUS
<1> HIDE DEF o, x
<1>7. CASE o = 0
  <2>1. ASSUME NEW i \in DOMAIN e, e[i].name = n PROVE FALSE
    <3>1. PICK v \in Variables(cs) : At(e[i], v)
      BY DEF Lists
    <3>2. v.name = n
      BY <2>1, <3>1 DEF At
    <3>3. v.level \in DOMAIN cs /\ v.level <= o
      BY <1>4, <3>2
    <3> QED BY <1>2, <1>7, <3>3
  <2>2. found = {}
    BY <2>1
  <2> QED BY <1>5, <1>6, <1>7, <2>2
<1>8. CASE o # 0
  <2>1. /\ o \in DOMAIN cs /\ cs[o] \in CompilerSet /\ x \in DOMAIN cs[o].locals
        /\ cs[o].locals[x].name = n
    <3>1. o \in DOMAIN cs /\ cs[o] \in CompilerSet /\ x # 0
      BY <1>1, <1>2, <1>8
    <3> QED BY <1>6, <3>1, LocalFound
  <2>2. cs[o].locals[x].depth \in Nat
    <3>1. cs[o].locals[x].depth # Uninit
      BY <1>6, <1>8 DEF OwnInitializer
    <3> QED BY <2>1, <3>1 DEF DepthsOK
  <2>3. o = 1 => x # 1
    <3> SUFFICES ASSUME o = 1, x = 1 PROVE FALSE
      OBVIOUS
    <3>1. n = CalleeName(cs[1].type)
      BY <2>1 DEF AllNamed, NamedLocals
    <3>2. n = "this" \/ ~ IsNamed(n)
      BY <3>1 DEF CalleeName, IsNamed
    <3> QED BY <1>6, <3>2 DEF Usable
  <2> DEFINE w == Variable(n, o, x - 1, cs[o].locals[x].depth)
  <2>4. w \in Variables(cs)
    <3>1. IsNamed(cs[o].locals[x].name)
      BY <2>1 DEF Usable
    <3> QED BY <2>1, <2>2, <2>3, <3>1, NamedVariable
  <2>5. w.name = n /\ w.level = o /\ w.slot = x - 1
    BY DEF Variable
  <2> HIDE DEF w
  <2>6. PICK j \in DOMAIN e : At(e[j], w)
    BY <2>4 DEF Lists
  <2>7. j \in found /\ e[j].level = o /\ e[j].slot = x - 1
    BY <2>5, <2>6 DEF At
  <2>8. ASSUME NEW i \in found PROVE i <= j
    <3> SUFFICES ASSUME j < i PROVE FALSE
      BY <1>3
    <3>1. PICK v \in Variables(cs) : At(e[i], v)
      BY DEF Lists
    <3>2. v.name = n /\ e[i].level = v.level /\ e[i].slot = v.slot
      BY <3>1 DEF At
    <3>3. /\ v.level \in DOMAIN cs /\ v.level <= o /\ v.slot \in Nat
          /\ v.slot + 1 <= LocalOf(cs[v.level], n)
      BY <1>4, <3>2
    <3>4. Precedes(e[j], e[i])
      BY DEF Lists
    <3>5. o < v.level \/ (o = v.level /\ x - 1 < v.slot)
      BY <2>7, <3>2, <3>4 DEF Precedes
    <3>6. o \in Nat /\ v.level \in Nat
      BY <1>1, <1>2, <3>3
    <3>7. o = v.level /\ x - 1 < v.slot
      BY <3>3, <3>5, <3>6
    <3>8. v.slot + 1 <= x
      BY <1>6, <3>3, <3>7
    <3>9. x \in Nat
      BY <2>1, Fields
    <3> QED BY <3>3, <3>7, <3>8, <3>9
  <2>9. Max(found) = j
    <3>1. found \in SUBSET (0 .. Len(e)) /\ found # {}
      BY <1>3, <2>7
    <3> HIDE DEF found
    <3>2. Max(found) \in found /\ \A y \in found : y <= Max(found)
      BY <1>3, <3>1, Greatest
    <3>3. Max(found) <= j /\ j <= Max(found) /\ Max(found) \in Nat /\ j \in Nat
      BY <1>3, <2>7, <2>8, <3>1, <3>2
    <3> QED BY <3>3
  <2>10. Meant(e, n) = {[level |-> o, slot |-> x - 1]}
    <3>1. found # {}
      BY <2>7
    <3> HIDE DEF found
    <3> QED BY <1>5, <2>7, <2>9, <3>1
  <2> QED BY <1>6, <1>8, <2>10 DEF Place
<1> QED BY <1>7, <1>8

(* What the reference reaches is it too, when the compilers it was emitted   *)
(* with have been extended since.                                            *)
LEMMA ReachedIs ==
  ASSUME NEW cs, Chained(cs), cs # <<>>, NEW n, NEW r, RefersTo(r, cs, n),
         NEW cs2, Chained(cs2), Len(cs2) = Len(cs),
         Owner(cs, n) # 0 /\ Owner(cs, n) # Len(cs)
           => Leads(cs2, Len(cs), r.ref.index, Owner(cs, n), LocalOf(cs[Owner(cs, n)], n) - 1)
  PROVE  Reached(cs2, r.ref) = IF Owner(cs, n) = 0 THEN {} ELSE {Place(cs, n)}
<1> DEFINE o == Owner(cs, n)
           s == LocalOf(cs[o], n) - 1
<1>1. /\ cs \in Seq(CompilerSet) /\ Len(cs) \in Nat /\ Len(cs) # 0
      /\ DOMAIN cs2 = 1 .. Len(cs)
  <2>1. cs \in Seq(CompilerSet) /\ cs2 \in Seq(CompilerSet)
    BY DEF Chained
  <2> QED BY <2>1, Elements
<1>2. o \in 0 .. Len(cs)
  BY <1>1, OwnerFound
<1>3. o = Owner(cs, n) /\ s = LocalOf(cs[o], n) - 1
  OBVIOUS
<1> HIDE DEF o, s
<1>4. CASE o = 0
  <2>1. r.ref.op = "global"
    BY <1>3, <1>4 DEF RefersTo
  <2> QED BY <1>3, <1>4, <2>1 DEF Reached
<1>5. CASE o # 0 /\ o = Len(cs)
  <2>1. r.ref.op = "local" /\ r.ref.index = s
    BY <1>3, <1>5 DEF RefersTo
  <2>2. Reached(cs2, r.ref) = {[level |-> o, slot |-> s]}
    BY <1>5, <2>1 DEF Reached
  <2> QED BY <1>3, <1>5, <2>2 DEF Place
<1>6. CASE o # 0 /\ o # Len(cs)
  <2>1. r.ref.op = "upvalue" /\ Leads(cs2, Len(cs), r.ref.index, o, s)
    BY <1>3, <1>6 DEF RefersTo
  <2>2. o \in Nat /\ o < Len(cs) /\ Len(cs) \in DOMAIN cs2
    <3>1. Len(cs) \in Nat /\ Len(cs) # 0 /\ Len(cs) \in 1 .. Len(cs)
      BY <1>1
    <3>2. o \in Nat /\ o <= Len(cs) /\ o # Len(cs)
      BY <1>2, <1>6
    <3>3. o < Len(cs)
      BY <3>1, <3>2
    <3> QED BY <1>1, <3>1, <3>2, <3>3
  <2>3. Chase(cs2, Len(cs), r.ref.index) = [level |-> o, slot |-> s]
    BY <2>1, <2>2, LeadsThere
  <2>4. Reached(cs2, r.ref) = {[level |-> o, slot |-> s]}
    BY <2>1, <2>3 DEF Reached
  <2> QED BY <1>3, <1>6, <2>4 DEF Place
<1> QED BY <1>4, <1>5, <1>6

-----------------------------------------------------------------------------
(* What the names of the locals tell: the script is the first function,      *)
(* methods have a receiver, and the local that waits is the one declared.    *)
MethodsNamed(cs, ns) ==
  \A i \in DOMAIN ns : ns[i].kind = "method" => cs[Inside(ns[i])].type # "function"
AwaitsName(cs, ns) ==
  Waits(cs, ns, Len(cs)) => cs[Len(cs)].locals[Len(cs[Len(cs)].locals)].name = ns[Len(ns)].name
NamesOK(cs, ns) ==
  /\ cs[1].type = "script" /\ AllNamed(cs) /\ MethodsNamed(cs, ns) /\ AwaitsName(cs, ns)

(* The second invariant, of compilers cs, classes cl, constructs ns and      *)
(* text e.                                                                   *)
Lexical(cs, cl, ns, e) ==
  Lists(e, Variables(cs)) /\ Marks(Variables(cs), cl, ns, e) /\ NamesOK(cs, ns)

LInv == Lexical(compilers, classes, nest, env)

(* The names of the program are none of the compiler's own.                  *)
LEMMA NamesNamed ==
  ASSUME NEW n \in Names
  PROVE  IsNamed(n) /\ n # "this" /\ n # "super" /\ n \in LocalName
<1>1. n \notin {"this", "super", ""}
  BY CompilerAssumption, Zenon
<1>2. IsNamed(n)
  BY <1>1, Zenon DEF IsNamed
<1>3. n # "this" /\ n # "super"
  BY <1>1, Zenon
<1>4. n \in LocalName
  BY Zenon DEF LocalName
<1> QED BY <1>2, <1>3, <1>4

(* Every construct's inside is an open function.                             *)
LEMMA InsideOpen ==
  ASSUME NEW ns \in Seq(NestSet), NEW L, NestOK(ns, L), NEW i \in DOMAIN ns
  PROVE  /\ L \in Nat \ {0} /\ Inside(ns[i]) \in 1 .. L
         /\ ns[i].level \in Nat /\ ns[i].level <= L
         /\ i # Len(ns) => Inside(ns[i]) <= ns[Len(ns)].level
<1> DEFINE N == Len(ns)
<1>1. N \in Nat /\ DOMAIN ns = 1 .. N /\ (ns = <<>> <=> N = 0) /\ N \in DOMAIN ns
  <2>1. N \in Nat /\ DOMAIN ns = 1 .. N /\ (ns = <<>> <=> N = 0)
    BY Elements
  <2>2. N \in DOMAIN ns
    BY <2>1
  <2> QED BY <2>1, <2>2
<1>2. L \in Nat \ {0} /\ \A j \in DOMAIN ns : ns[j].level <= L /\ ns[j].level \in Nat
  <2>1. /\ L \in Nat \ {0}
        /\ \A j \in DOMAIN ns :
             /\ ns[j].level <= L /\ ns[j].level \in Nat
             /\ ns[j].kind = "fun" => ns[j].level < L
             /\ ns[j].kind = "var" => j = Len(ns) /\ Kind(ns) = "var"
             /\ ns[j].kind = "class" => ns[j].level < L \/ (j = Len(ns) /\ Kind(ns) = "class")
    BY NestTop
  <2> QED BY <2>1
<1>3. L = Inside(ns[N])
  BY <1>1 DEF NestOK
<1>4. i # N => Inside(ns[i]) <= ns[N].level
  <2>1. i # N => i < N
    BY <1>1
  <2> QED BY <1>1, <2>1 DEF NestOK
<1>5. ns[1].level = 1 /\ \A j \in DOMAIN ns : ns[1].level <= ns[j].level
  <2>1. ns[1].level = 1 /\ ns # <<>> /\ 1 \in DOMAIN ns
    BY <1>1 DEF NestOK
  <2>2. ASSUME NEW j \in DOMAIN ns PROVE 1 <= ns[j].level
    <3>1. CASE j = 1
      BY <2>1, <3>1
    <3>2. CASE j # 1
      <4>1. 1 < j
        BY <1>1, <3>2
      <4>2. Inside(ns[1]) <= ns[j].level
        BY <2>1, <4>1 DEF NestOK
      <4>3. Inside(ns[1]) = 1 \/ Inside(ns[1]) = 2
        BY <2>1 DEF Inside
      <4> QED BY <1>2, <4>2, <4>3
    <3> QED BY <3>1, <3>2
  <2> QED BY <2>1, <2>2
<1>6. Inside(ns[i]) \in Nat /\ ns[i].level <= Inside(ns[i])
  BY <1>2 DEF Inside
<1>7. Inside(ns[i]) <= L
  <2>1. CASE i = N
    BY <1>2, <1>3, <2>1
  <2>2. CASE i # N
    BY <1>1, <1>2, <1>4, <1>6, <2>2
  <2> QED BY <2>1, <2>2
<1>8. 1 <= Inside(ns[i])
  BY <1>2, <1>5, <1>6
<1> QED BY <1>2, <1>4, <1>6, <1>7, <1>8

(* The functions around the innermost one are as they were, but for what     *)
(* was captured in them and handed down.                                     *)
OthersStay(cs2, cs) ==
  /\ cs \in Seq(CompilerSet) /\ cs # <<>> /\ cs2 \in Seq(CompilerSet) /\ Len(cs2) = Len(cs)
  /\ \A k \in 1 .. Len(cs) - 1 : Extended(cs2[k], cs[k])
TopStays(cs2, cs) ==
  /\ OthersStay(cs2, cs)
  /\ cs2[Len(cs)].type = cs[Len(cs)].type /\ NamedLocals(cs2[Len(cs)])

(* A level is the innermost one or below, once more.                         *)
LEMMA OtherLevels ==
  ASSUME NEW cs2, NEW cs, OthersStay(cs2, cs)
  PROVE  /\ Len(cs) \in Nat \ {0} /\ DOMAIN cs = 1 .. Len(cs) /\ DOMAIN cs2 = 1 .. Len(cs)
         /\ Len(cs) \in DOMAIN cs /\ Len(cs2) = Len(cs)
         /\ \A k \in DOMAIN cs : cs[k] \in CompilerSet /\ cs2[k] \in CompilerSet
         /\ \A k \in DOMAIN cs : k # Len(cs) => Extended(cs2[k], cs[k])
<1>1. /\ cs2 \in Seq(CompilerSet) /\ cs \in Seq(CompilerSet) /\ cs # <<>> /\ Len(cs2) = Len(cs)
      /\ \A k \in 1 .. Len(cs) - 1 : Extended(cs2[k], cs[k])
  BY DEF OthersStay
<1>2. /\ Len(cs) \in Nat /\ DOMAIN cs = 1 .. Len(cs) /\ DOMAIN cs2 = 1 .. Len(cs)
      /\ Len(cs) # 0 /\ Len(cs) \in DOMAIN cs
      /\ \A k \in DOMAIN cs : cs[k] \in CompilerSet
      /\ \A k \in DOMAIN cs2 : cs2[k] \in CompilerSet
  BY <1>1, Elements
<1>3. \A k \in 1 .. Len(cs) : k # Len(cs) => k \in 1 .. Len(cs) - 1
  <2>1. Len(cs) \in Nat
    BY <1>2
  <2> QED BY <2>1
<1> QED BY <1>1, <1>2, <1>3

(* So their variables are the same.                                          *)
LEMMA OthersSame ==
  ASSUME NEW cs2, NEW cs, OthersStay(cs2, cs)
  PROVE  TopOnly(cs2, cs)
<1>1. \A k \in 1 .. Len(cs) - 1 : k \in DOMAIN cs
  BY OtherLevels
<1>2. ASSUME NEW k \in 1 .. Len(cs) - 1 PROVE SameHolds(cs2[k], cs[k])
  <2>1. cs[k] \in CompilerSet /\ Extended(cs2[k], cs[k])
    BY <1>1, OtherLevels DEF OthersStay
  <2> QED BY <2>1, ExtendedHolds DEF SameHolds
<1> QED BY <1>2 DEF TopOnly, OthersStay

(* A compiler with locals has one at 1.                                      *)
LEMMA SomeLocals ==
  ASSUME NEW c \in CompilerSet, NEW w, LocalsOK(c, w)
  PROVE  c.locals # <<>> /\ Len(c.locals) \in DOMAIN c.locals /\ 1 \in DOMAIN c.locals
<1>1. c.locals \in Seq(LocalSet) /\ Len(c.locals) \in Nat
  BY Fields
<1>2. Len(c.locals) # 0
  BY <1>1 DEF LocalsOK
<1> QED BY <1>1, <1>2, Elements

(* And every function has.                                                   *)
LEMMA GoodLocals ==
  ASSUME NEW cs, NEW cl, NEW ns, NEW fs, Good(cs, cl, ns, fs)
  PROVE  \A k \in DOMAIN cs : /\ cs[k] \in CompilerSet /\ cs[k].locals # <<>>
                              /\ \E w \in BOOLEAN : LocalsOK(cs[k], w)
<1> SUFFICES ASSUME NEW k \in DOMAIN cs
             PROVE  /\ cs[k] \in CompilerSet /\ cs[k].locals # <<>>
                    /\ \E w \in BOOLEAN : LocalsOK(cs[k], w)
  OBVIOUS
<1>1. cs[k] \in CompilerSet /\ LevelGood(cs, cl, ns, fs, k)
  BY GoodParts
<1>2. Waits(cs, ns, k) \in BOOLEAN
  BY Waiters
<1>3. LocalsOK(cs[k], Waits(cs, ns, k))
  BY <1>1 DEF LevelGood, LevelOK
<1> QED BY <1>1, <1>2, <1>3, SomeLocals

(* So depths are numbers, or wait.                                           *)
LEMMA LocalsDepths ==
  ASSUME NEW c \in CompilerSet, NEW w \in BOOLEAN, LocalsOK(c, w), NEW i \in DOMAIN c.locals
  PROVE  c.locals[i].depth \in Nat \/ c.locals[i].depth = Uninit
<1>1. c.locals[i].depth \in Uninit .. c.scopeDepth
  BY LocalDepths
<1> QED BY <1>1 DEF Uninit

(* In all functions.                                                         *)
LEMMA GoodDepths ==
  ASSUME NEW cs, NEW cl, NEW ns, NEW fs, Good(cs, cl, ns, fs)
  PROVE  DepthsOK(cs)
BY GoodLocals, LocalsDepths DEF DepthsOK

(* And after the innermost one changes.                                      *)
LEMMA DepthsOn ==
  ASSUME NEW cs2, NEW cs, OthersStay(cs2, cs), DepthsOK(cs),
         NEW w \in BOOLEAN, LocalsOK(cs2[Len(cs)], w)
  PROVE  DepthsOK(cs2)
<1>1. ASSUME NEW k \in DOMAIN cs2, NEW i \in DOMAIN cs2[k].locals
      PROVE  cs2[k].locals[i].depth \in Nat \/ cs2[k].locals[i].depth = Uninit
  <2>1. k \in DOMAIN cs /\ cs2[k] \in CompilerSet /\ cs[k] \in CompilerSet
    BY OtherLevels
  <2>2. CASE k = Len(cs)
    BY <2>1, <2>2, LocalsDepths
  <2>3. CASE k # Len(cs)
    <3>1. Extended(cs2[k], cs[k])
      BY <2>1, <2>3, OtherLevels
    <3>2. DOMAIN cs2[k].locals = 1 .. Len(cs2[k].locals) /\ DOMAIN cs[k].locals = 1 .. Len(cs[k].locals)
      BY <2>1, Fields
    <3>3. i \in DOMAIN cs[k].locals /\ cs2[k].locals[i].depth = cs[k].locals[i].depth
      BY <3>1, <3>2 DEF Extended
    <3> QED BY <2>1, <3>3 DEF DepthsOK
  <2> QED BY <2>2, <2>3
<1> QED BY <1>1 DEF DepthsOK

(* The methods among the constructs were open already.                       *)
MethodsOf(ns2, ns) ==
  \A i \in DOMAIN ns2 : ns2[i].kind = "method" => \E j \in DOMAIN ns : ns[j] = ns2[i]

(* The names stay right when the innermost function's do.                    *)
LEMMA NamesOn ==
  ASSUME NEW cs2, NEW cs, TopStays(cs2, cs), \A k \in DOMAIN cs : cs[k].locals # <<>>,
         NEW ns \in Seq(NestSet), NestOK(ns, Len(cs)), NamesOK(cs, ns),
         NEW ns2, MethodsOf(ns2, ns), AwaitsName(cs2, ns2)
  PROVE  NamesOK(cs2, ns2)
<1>1. /\ Len(cs) \in Nat \ {0} /\ DOMAIN cs = 1 .. Len(cs) /\ DOMAIN cs2 = 1 .. Len(cs)
      /\ \A k \in DOMAIN cs : cs[k] \in CompilerSet
      /\ \A k \in DOMAIN cs : k # Len(cs) => Extended(cs2[k], cs[k])
  BY OtherLevels DEF TopStays
<1>2. ASSUME NEW k \in DOMAIN cs PROVE cs2[k].type = cs[k].type /\ NamedLocals(cs2[k])
  <2>1. CASE k = Len(cs)
    BY <2>1 DEF TopStays
  <2>2. CASE k # Len(cs)
    <3>1. Extended(cs2[k], cs[k]) /\ cs[k] \in CompilerSet /\ cs[k].locals # <<>>
      BY <1>1, <2>2
    <3>2. NamedLocals(cs[k])
      BY DEF NamesOK, AllNamed
    <3>3. NamedLocals(cs2[k])
      BY <3>1, <3>2, ExtendedHolds
    <3> QED BY <3>1, <3>3 DEF Extended
  <2> QED BY <2>1, <2>2
<1>3. 1 \in DOMAIN cs
  BY <1>1
<1>4. cs2[1].type = "script"
  BY <1>2, <1>3 DEF NamesOK
<1>5. AllNamed(cs2)
  BY <1>1, <1>2 DEF AllNamed
<1>6. ASSUME NEW i \in DOMAIN ns2, ns2[i].kind = "method" PROVE cs2[Inside(ns2[i])].type # "function"
  <2>1. PICK j \in DOMAIN ns : ns[j] = ns2[i]
    BY <1>6 DEF MethodsOf
  <2>2. Inside(ns[j]) \in DOMAIN cs
    BY <1>1, InsideOpen
  <2>3. cs[Inside(ns[j])].type # "function"
    BY <1>6, <2>1 DEF NamesOK, MethodsNamed
  <2> QED BY <1>2, <2>1, <2>2, <2>3
<1>7. MethodsNamed(cs2, ns2)
  BY <1>6 DEF MethodsNamed
<1> QED BY <1>4, <1>5, <1>7 DEF NamesOK

(* Nothing waits unless `var' is innermost.                                  *)
LEMMA NoneWaits ==
  ASSUME NEW cs, NEW ns, Kind(ns) # "var"
  PROVE  AwaitsName(cs, ns)
BY Waiters DEF AwaitsName

(* Naming a variable keeps the second invariant.                             *)
LEMMA LexicalNamed ==
  ASSUME NEW cs \in Seq(CompilerSet), cs # <<>>, \A k \in DOMAIN cs : cs[k].locals # <<>>,
         NEW ns \in Seq(NestSet), NestOK(ns, Len(cs)), NEW cl, NEW e, Lexical(cs, cl, ns, e),
         NEW cs2, Extends(cs2, cs)
  PROVE  Lexical(cs2, cl, ns, e) /\ Variables(cs2) = Variables(cs)
<1> DEFINE L == Len(cs)
<1>1. L \in DOMAIN cs /\ DOMAIN cs = 1 .. L /\ cs[L] \in CompilerSet /\ L \in Nat
  BY Elements
<1>2. cs2 \in Seq(CompilerSet) /\ Len(cs2) = L /\ Extended(cs2[L], cs[L])
  BY <1>1 DEF Extends
<1>3. OthersStay(cs2, cs)
  <2>1. \A k \in 1 .. Len(cs) - 1 : k \in DOMAIN cs
    BY <1>1
  <2> QED BY <1>2, <2>1 DEF OthersStay, Extends
<1>4. NamedLocals(cs2[L]) /\ SameHolds(cs2[L], cs[L])
  <2>1. NamedLocals(cs[L]) /\ cs[L].locals # <<>>
    BY <1>1 DEF Lexical, NamesOK, AllNamed
  <2> QED BY <1>1, <1>2, <2>1, ExtendedHolds DEF SameHolds
<1>5. Variables(cs2) = Variables(cs)
  BY <1>3, <1>4, OthersSame, SameVariables
<1>6. TopStays(cs2, cs)
  BY <1>2, <1>3, <1>4 DEF TopStays, Extended
<1>7. AwaitsName(cs2, ns)
  <2>1. /\ cs2[L].scopeDepth = cs[L].scopeDepth /\ Len(cs2[L].locals) = Len(cs[L].locals)
        /\ \A i \in DOMAIN cs[L].locals : cs2[L].locals[i].name = cs[L].locals[i].name
    BY <1>2 DEF Extended
  <2>2. Len(cs[L].locals) \in DOMAIN cs[L].locals
    <3>1. cs[L].locals \in Seq(LocalSet) /\ cs[L].locals # <<>>
      BY <1>1, Fields
    <3> QED BY <3>1, Elements
  <2>3. AwaitsName(cs, ns)
    BY DEF Lexical, NamesOK
  <2> QED BY <1>2, <2>1, <2>2, <2>3 DEF AwaitsName, Waits
<1>8. MethodsOf(ns, ns)
  BY DEF MethodsOf
<1>9. NamesOK(cs2, ns)
  BY <1>6, <1>7, <1>8, NamesOn DEF Lexical
<1> QED BY <1>5, <1>9 DEF Lexical

(* The locals of a compiler stay named when one is added.                    *)
LEMMA AddedNames ==
  ASSUME NEW c \in CompilerSet, c.locals # <<>>, NamedLocals(c),
         NEW n \in Names \union {"super"}
  PROVE  addLocal(c, n).type = c.type /\ NamedLocals(addLocal(c, n))
<1> DEFINE c2 == addLocal(c, n)
           N == Len(c.locals)
<1>1. n \in LocalName
  BY Zenon DEF LocalName
<1>2. /\ c2 \in CompilerSet /\ c2.type = c.type /\ Len(c2.locals) = N + 1
      /\ \A i \in DOMAIN c.locals : c2.locals[i] = c.locals[i]
      /\ c2.locals[N + 1].name = n
  BY <1>1, Added, AddedName DEF Keeps
<1>3. DOMAIN c.locals = 1 .. N /\ DOMAIN c2.locals = 1 .. N + 1 /\ N \in Nat /\ 1 \in DOMAIN c.locals
  <2>1. DOMAIN c2.locals = 1 .. Len(c2.locals)
    BY <1>2, Fields
  <2>2. c.locals \in Seq(LocalSet) /\ DOMAIN c.locals = 1 .. N /\ N \in Nat
    BY Fields
  <2>3. 1 \in DOMAIN c.locals
    BY <2>2, Elements
  <2> QED BY <1>2, <2>1, <2>2, <2>3
<1> HIDE DEF c2, N
<1>4. \A i \in DOMAIN c2.locals : i \in DOMAIN c.locals \/ i = N + 1
  BY <1>3
<1>5. c2.locals[1].name = CalleeName(c2.type)
  BY <1>2, <1>3 DEF NamedLocals
<1>6. \A i \in DOMAIN c2.locals : i > 1 => c2.locals[i].name \in Names \union {"super"}
  BY <1>2, <1>4 DEF NamedLocals
<1> QED BY <1>2, <1>5, <1>6 DEF NamedLocals, c2

(* And when one gets its depth.                                              *)
LEMMA MarkedNamed ==
  ASSUME NEW c \in CompilerSet, c.locals # <<>>, NamedLocals(c)
  PROVE  markInitialized(c).type = c.type /\ NamedLocals(markInitialized(c))
<1> DEFINE c2 == markInitialized(c)
<1>1. /\ c2 \in CompilerSet /\ c2.type = c.type /\ Len(c2.locals) = Len(c.locals)
      /\ \A i \in DOMAIN c.locals : c2.locals[i].name = c.locals[i].name
  BY Marked, MarkedNames DEF Keeps
<1>2. DOMAIN c2.locals = DOMAIN c.locals /\ 1 \in DOMAIN c.locals
  <2>1. DOMAIN c2.locals = 1 .. Len(c2.locals) /\ DOMAIN c.locals = 1 .. Len(c.locals)
        /\ c.locals \in Seq(LocalSet)
    BY <1>1, Fields
  <2> QED BY <1>1, <2>1, Elements
<1> HIDE DEF c2
<1> QED BY <1>1, <1>2 DEF NamedLocals, c2

(* A declaration, with its value or without.                                 *)
LEMMA DeclaredNames ==
  ASSUME NEW c \in CompilerSet, c.locals # <<>>, NamedLocals(c), NEW n \in Names \union {"super"}
  PROVE  /\ declareVariable(c, n).type = c.type /\ NamedLocals(declareVariable(c, n))
         /\ Declared(c, n).type = c.type /\ NamedLocals(Declared(c, n))
<1> DEFINE c2 == declareVariable(c, n)
<1>1. n \in LocalName
  BY Zenon DEF LocalName
<1>2. c2 \in CompilerSet /\ c2.locals # <<>> /\ c2.type = c.type /\ NamedLocals(c2)
  <2>1. CASE c.scopeDepth = 0
    BY <2>1 DEF declareVariable
  <2>2. CASE c.scopeDepth # 0
    <3>1. c2 = addLocal(c, n)
      BY <2>2 DEF declareVariable
    <3>2. c2 \in CompilerSet /\ Len(c2.locals) = Len(c.locals) + 1 /\ c2.type = c.type
      BY <1>1, <3>1, Added DEF Keeps
    <3>3. NamedLocals(c2)
      BY <3>1, AddedNames
    <3>4. c2.locals \in Seq(LocalSet) /\ Len(c.locals) \in Nat
      BY <3>2, Fields
    <3> HIDE DEF c2
    <3>5. c2.locals # <<>>
      <4>1. Len(c2.locals) # 0
        BY <3>2, <3>4
      <4> QED BY <3>4, <4>1, Elements
    <3> QED BY <3>2, <3>3, <3>5
  <2> QED BY <2>1, <2>2
<1> HIDE DEF c2
<1>3. markInitialized(c2).type = c2.type /\ NamedLocals(markInitialized(c2))
  BY <1>2, MarkedNamed
<1> QED BY <1>2, <1>3 DEF c2, Declared

(* A scope that begins.                                                      *)
LEMMA BegunNames ==
  ASSUME NEW c \in CompilerSet, NamedLocals(c)
  PROVE  beginScope(c).type = c.type /\ NamedLocals(beginScope(c))
BY Begun DEF Keeps, NamedLocals

(* The superclass.                                                           *)
LEMMA SupersNames ==
  ASSUME NEW c \in CompilerSet, c.locals # <<>>, NamedLocals(c)
  PROVE  Supers(c).type = c.type /\ NamedLocals(Supers(c))
<1> DEFINE b == beginScope(c)
           a == addLocal(b, "super")
<1>1. b \in CompilerSet /\ b.locals = c.locals /\ b.type = c.type /\ NamedLocals(b)
  BY Begun, BegunNames DEF Keeps
<1>2. "super" \in Names \union {"super"} /\ "super" \in LocalName
  BY Zenon DEF LocalName
<1> HIDE DEF b
<1>3. a.type = b.type /\ NamedLocals(a)
  BY <1>1, <1>2, AddedNames
<1>4. a \in CompilerSet /\ a.locals # <<>>
  <2>1. a \in CompilerSet /\ Len(a.locals) = Len(b.locals) + 1
    BY <1>1, <1>2, Added DEF Keeps
  <2>2. a.locals \in Seq(LocalSet) /\ Len(b.locals) \in Nat
    BY <1>1, <2>1, Fields
  <2> HIDE DEF a
  <2>3. Len(a.locals) # 0
    BY <2>1, <2>2
  <2> QED BY <2>1, <2>2, <2>3, Elements
<1> HIDE DEF a
<1>5. markInitialized(a).type = a.type /\ NamedLocals(markInitialized(a))
  BY <1>3, <1>4, MarkedNamed
<1> QED BY <1>1, <1>3, <1>5 DEF a, b, Supers

(* A scope that ends.                                                        *)
LEMMA EndedNames ==
  ASSUME NEW c \in CompilerSet, LocalsOK(c, FALSE), c.scopeDepth > 0, NamedLocals(c)
  PROVE  endScope(c).type = c.type /\ NamedLocals(endScope(c))
<1> DEFINE c2 == endScope(c)
           K == Kept(c)
<1>1. /\ K \in 1 .. Len(c.locals) /\ c2.type = c.type /\ DOMAIN c2.locals = 1 .. K
      /\ \A i \in 1 .. K : c2.locals[i] = c.locals[i]
  BY EndedLocals
<1>2. DOMAIN c.locals = 1 .. Len(c.locals) /\ Len(c.locals) \in Nat
  BY Fields
<1> HIDE DEF c2, K
<1>3. 1 \in 1 .. K /\ \A i \in 1 .. K : i \in DOMAIN c.locals
  BY <1>1, <1>2
<1> QED BY <1>1, <1>3 DEF NamedLocals, c2

-----------------------------------------------------------------------------
(* References.                                                               *)

(* The upvalues of cs are those of cs2, where they were.                     *)
Carries(cs2, cs) ==
  /\ Len(cs2) = Len(cs)
  /\ \A k \in DOMAIN cs : \A i \in DOMAIN cs[k].upvalues :
       i \in DOMAIN cs2[k].upvalues /\ cs2[k].upvalues[i] = cs[k].upvalues[i]

(* So a path of upvalues stays.                                              *)
LEMMA LeadsCarried ==
  ASSUME NEW cs \in Seq(CompilerSet), NEW cs2, Carries(cs2, cs), NEW o \in Nat,
         NEW k \in DOMAIN cs, NEW x, NEW s, Leads(cs, k, x, o, s)
  PROVE  Leads(cs2, k, x, o, s)
<1>1. PICK p \in [o + 1 .. k -> Nat] : p[k] = x /\ Path(cs, k, o, s, p)
  BY DEF Leads
<1>2. DOMAIN cs = 1 .. Len(cs) /\ Len(cs) \in Nat
  BY Elements
<1>3. \A j \in o + 1 .. k : j \in DOMAIN cs
  BY <1>2
<1>4. Path(cs2, k, o, s, p)
  <2> SUFFICES ASSUME NEW j \in o + 1 .. k
               PROVE  /\ p[j] + 1 \in DOMAIN cs2[j].upvalues
                      /\ cs2[j].upvalues[p[j] + 1]
                           = IF j = o + 1 THEN Entry(s, TRUE) ELSE Entry(p[j - 1], FALSE)
    BY DEF Path
  <2>1. /\ p[j] + 1 \in DOMAIN cs[j].upvalues
        /\ cs[j].upvalues[p[j] + 1]
             = IF j = o + 1 THEN Entry(s, TRUE) ELSE Entry(p[j - 1], FALSE)
    BY <1>1 DEF Path
  <2>2. j \in DOMAIN cs
    BY <1>3
  <2>3. /\ p[j] + 1 \in DOMAIN cs2[j].upvalues
        /\ cs2[j].upvalues[p[j] + 1] = cs[j].upvalues[p[j] + 1]
    BY <2>1, <2>2 DEF Carries
  <2> QED BY <2>1, <2>3
<1> QED BY <1>1, <1>4 DEF Leads

(* Extended compilers carry them.                                            *)
LEMMA ExtendsCarries ==
  ASSUME NEW cs, NEW cs2, Extends(cs2, cs)
  PROVE  Carries(cs2, cs)
BY DEF Extends, Extended, Carries

(* And those whose innermost keeps its upvalues.                             *)
LEMMA OthersCarry ==
  ASSUME NEW cs, NEW cs2, OthersStay(cs2, cs), cs2[Len(cs)].upvalues = cs[Len(cs)].upvalues
  PROVE  Carries(cs2, cs)
<1>1. /\ Len(cs2) = Len(cs)
      /\ \A k \in DOMAIN cs : k # Len(cs) => Extended(cs2[k], cs[k])
  BY OtherLevels
<1>2. ASSUME NEW k \in DOMAIN cs, NEW i \in DOMAIN cs[k].upvalues
      PROVE  i \in DOMAIN cs2[k].upvalues /\ cs2[k].upvalues[i] = cs[k].upvalues[i]
  <2>1. CASE k = Len(cs)
    BY <2>1
  <2>2. CASE k # Len(cs)
    <3>1. Extended(cs2[k], cs[k])
      BY <1>1, <2>2
    <3> QED BY <3>1 DEF Extended
  <2> QED BY <2>1, <2>2
<1> QED BY <1>1, <1>2 DEF Carries

(* One step after the other.                                                 *)
LEMMA CarriesTwice ==
  ASSUME NEW cs, NEW cs2, NEW cs3, cs \in Seq(CompilerSet), cs2 \in Seq(CompilerSet),
         Carries(cs2, cs), Carries(cs3, cs2)
  PROVE  Carries(cs3, cs)
<1>1. DOMAIN cs = 1 .. Len(cs) /\ DOMAIN cs2 = 1 .. Len(cs2) /\ Len(cs2) = Len(cs)
  BY Elements DEF Carries
<1>2. ASSUME NEW k \in DOMAIN cs, NEW i \in DOMAIN cs[k].upvalues
      PROVE  i \in DOMAIN cs3[k].upvalues /\ cs3[k].upvalues[i] = cs[k].upvalues[i]
  <2>1. k \in DOMAIN cs2
    BY <1>1
  <2>2. i \in DOMAIN cs2[k].upvalues /\ cs2[k].upvalues[i] = cs[k].upvalues[i]
    BY DEF Carries
  <2>3. i \in DOMAIN cs3[k].upvalues /\ cs3[k].upvalues[i] = cs2[k].upvalues[i]
    BY <2>1, <2>2 DEF Carries
  <2> QED BY <2>2, <2>3
<1>3. Len(cs3) = Len(cs)
  BY DEF Carries
<1> QED BY <1>2, <1>3 DEF Carries

(* The compilers a name is resolved in.                                      *)
Resolving(cs, n, e) ==
  /\ Chained(cs) /\ cs # <<>> /\ AllNamed(cs) /\ DepthsOK(cs) /\ Usable(cs, n)
  /\ Resolves(cs, n) /\ e \in Seq(BindingSet) /\ Lists(e, Variables(cs))

(* Every reference reaches what the text means, now and when the compilers   *)
(* have grown.                                                               *)
LEMMA ReferenceMeant ==
  ASSUME NEW cs, NEW n, NEW e, Resolving(cs, n, e),
         NEW cs2, Chained(cs2), Carries(cs2, namedVariable(cs, n).cs)
  PROVE  /\ Reached(cs2, namedVariable(cs, n).ref) = Meant(e, n)
         /\ namedVariable(cs, n).ref.name = n
<1> DEFINE r == namedVariable(cs, n)
           o == Owner(cs, n)
           s == LocalOf(cs[o], n) - 1
<1>1. /\ Chained(cs) /\ cs # <<>> /\ AllNamed(cs) /\ DepthsOK(cs) /\ Usable(cs, n)
      /\ Resolves(cs, n) /\ e \in Seq(BindingSet) /\ Lists(e, Variables(cs))
      /\ cs \in Seq(CompilerSet)
  BY DEF Resolving, Chained
<1>2. Extends(r.cs, cs) /\ Chained(r.cs) /\ RefersTo(r, cs, n)
  BY <1>1, NamedOK
<1>3. ~ OwnInitializer(cs, n)
  BY <1>1 DEF Resolves
<1>4. r = namedVariable(cs, n) /\ o = Owner(cs, n) /\ s = LocalOf(cs[Owner(cs, n)], n) - 1
  OBVIOUS
<1> HIDE DEF r, o, s
<1>5. Meant(e, n) = IF o = 0 THEN {} ELSE {Place(cs, n)}
  BY <1>1, <1>3, <1>4, MeantIs
<1>6. r.cs \in Seq(CompilerSet) /\ Len(r.cs) = Len(cs) /\ Len(cs2) = Len(cs)
  BY <1>2, <1>4 DEF Extends, Carries
<1>7. Owner(cs, n) # 0 /\ Owner(cs, n) # Len(cs)
        => Leads(cs2, Len(cs), r.ref.index, Owner(cs, n), LocalOf(cs[Owner(cs, n)], n) - 1)
  <2> SUFFICES ASSUME o # 0, o # Len(cs) PROVE Leads(cs2, Len(cs), r.ref.index, o, s)
    BY <1>4
  <2>1. Leads(r.cs, Len(cs), r.ref.index, o, s)
    BY <1>2, <1>4 DEF RefersTo
  <2>2. o \in Nat /\ Len(cs) \in DOMAIN r.cs
    <3>1. o \in 0 .. Len(cs) /\ Len(cs) \in Nat /\ DOMAIN r.cs = 1 .. Len(cs)
      BY <1>1, <1>4, <1>6, OwnerFound, Elements
    <3> QED BY <3>1
  <2> QED BY <1>4, <1>6, <2>1, <2>2, LeadsCarried
<1>8. Reached(cs2, r.ref) = IF o = 0 THEN {} ELSE {Place(cs, n)}
  BY <1>1, <1>2, <1>4, <1>6, <1>7, ReachedIs
<1>9. r.ref.name = n
  BY <1>2 DEF RefersTo
<1> QED BY <1>4, <1>5, <1>8, <1>9

(* A new compiler's only local is the callee's.                              *)
LEMMA CalleeNamed ==
  ASSUME NEW type \in {"script", "function", "method", "initializer"}
  PROVE  /\ initCompiler(type).type = type /\ NamedLocals(initCompiler(type))
         /\ DOMAIN initCompiler(type).locals = {1} /\ initCompiler(type).locals[1].depth = 0
<1> DEFINE c == initCompiler(type)
           l == NewLocal(CalleeName(type), 0)
<1>1. l.name = CalleeName(type) /\ l.depth = 0
  BY DEF NewLocal
<1>2. c = [type |-> type, scopeDepth |-> 0, upvalues |-> <<>>, locals |-> <<l>>]
  BY Zenon DEF initCompiler, CalleeName
<1> HIDE DEF l
<1>3. c.type = type /\ c.locals = <<l>>
  BY <1>2
<1> HIDE DEF c
<1>4. DOMAIN c.locals = {1} /\ c.locals[1] = l
  BY <1>3
<1>5. \A x \in DOMAIN c.locals : ~ (x > 1)
  BY <1>4
<1> QED BY <1>1, <1>3, <1>4, <1>5 DEF NamedLocals, c

(* The script has no variables yet.                                          *)
LEMMA NoVariables ==
  ASSUME NEW cs, cs = <<initCompiler("script")>>
  PROVE  Variables(cs) = {} /\ \A cl : Lexical(cs, cl, <<>>, <<>>)
<1> DEFINE c == initCompiler("script")
<1>1. /\ c.type = "script" /\ NamedLocals(c) /\ DOMAIN c.locals = {1}
  BY CalleeNamed
<1> HIDE DEF c
<1>2. cs = <<c>>
  BY DEF c
<1>3. DOMAIN cs = {1} /\ cs[1] = c
  BY <1>2
<1>4. ASSUME NEW v \in Variables(cs) PROVE FALSE
  <2>1. v \in VariableSet /\ v.level = 1 /\ v.slot # 0 /\ Holds(c, v)
    BY <1>3 DEF Variables
  <2>2. v.slot + 1 = 1 /\ v.slot \in Nat
    BY <1>1, <2>1, VariableFields DEF Holds
  <2> QED BY <2>1, <2>2
<1>5. Variables(cs) = {}
  BY <1>4
<1>6. DOMAIN << >> = {}
  OBVIOUS
<1>7. Lists(<<>>, Variables(cs)) /\ \A cl : Marks(Variables(cs), cl, <<>>, <<>>)
  BY <1>5, <1>6 DEF Lists, Marks
<1>8. NamesOK(cs, <<>>)
  <2>1. AllNamed(cs)
    BY <1>1, <1>3 DEF AllNamed
  <2>2. MethodsNamed(cs, <<>>)
    BY <1>6 DEF MethodsNamed
  <2>3. AwaitsName(cs, <<>>)
    BY DEF AwaitsName, Waits
  <2> QED BY <1>1, <1>3, <2>1, <2>2, <2>3 DEF NamesOK
<1> QED BY <1>5, <1>7, <1>8 DEF Lexical

(* So after an error, and in the next call of compile.                       *)
LEMMA AfreshLexical ==
  ASSUME Afresh
  PROVE  LInv' /\ ReferencesAreLexical'
<1>1. compilers' = <<initCompiler("script")>> /\ nest' = <<>> /\ env' = <<>> /\ refs' = {}
  BY DEF Afresh
<1>2. Lexical(compilers', classes', nest', env')
  BY <1>1, NoVariables
<1> QED BY <1>1, <1>2 DEF LInv, ReferencesAreLexical

(* The program's names, and super, can be resolved anywhere.                 *)
LEMMA NamesUsable ==
  ASSUME NEW cs
  PROVE  (\A n \in Names : Usable(cs, n)) /\ Usable(cs, "super")
<1>1. \A n \in Names : Usable(cs, n)
  BY NamesNamed DEF Usable
<1>2. IsNamed("super")
  BY DEF IsNamed
<1> QED BY <1>1, <1>2 DEF Usable

(* this can where a class is open: the innermost function or one around it   *)
(* is a method.                                                              *)
LEMMA ThisUsable ==
  ASSUME IInv, LInv, classes # <<>>, Kind(nest) # "class"
  PROVE  Usable(compilers, "this") /\ Owner(compilers, "this") # 0
<1> DEFINE N == Len(nest)
           L == Len(compilers)
<1>1. /\ nest \in Seq(NestSet) /\ NestOK(nest, L) /\ classes \in Seq(BOOLEAN)
      /\ Len(classes) = Rank(nest, N) /\ compilers \in Seq(CompilerSet)
      /\ DOMAIN compilers = 1 .. L /\ \A k \in 1 .. L : compilers[k] \in CompilerSet
  BY GoodParts DEF IInv
<1>2. N \in Nat /\ DOMAIN nest = 1 .. N /\ (nest = <<>> <=> N = 0) /\ L \in Nat
  BY <1>1, Elements
<1>3. Len(classes) # 0
  BY <1>1, Elements
<1>4. PICK j \in DOMAIN nest : nest[j].kind = "class"
  <2>1. ClassesTo(nest, N) \in SUBSET (1 .. N)
    BY <1>2 DEF ClassesTo
  <2>2. Cardinality(ClassesTo(nest, N)) # 0
    BY <1>1, <1>3 DEF Rank
  <2>3. ClassesTo(nest, N) # {}
    <3>1. \A S \in SUBSET (1 .. N) : Cardinality(S) = 0 <=> S = {}
      BY <1>2, Counted
    <3> QED BY <2>1, <2>2, <3>1
  <2> QED BY <2>3 DEF ClassesTo
<1>5. j # N
  BY <1>2, <1>4 DEF Kind
<1>6. j + 1 \in DOMAIN nest /\ 1 \in DOMAIN nest
  BY <1>2, <1>5
<1> DEFINE i == j + 1
           k == Inside(nest[i])
<1>7. nest[i].kind = "method" /\ nest[i].level = Inside(nest[j])
  BY <1>1, <1>4, <1>6 DEF NestOK
<1> HIDE DEF i
<1>8. i \in DOMAIN nest
  BY <1>6 DEF i
<1>9. k \in 1 .. L /\ k # 1
  <2>1. k \in 1 .. L /\ Inside(nest[j]) \in 1 .. L
    BY <1>1, <1>8, InsideOpen
  <2>2. k = nest[i].level + 1
    BY <1>7 DEF Inside
  <2> QED BY <1>2, <1>7, <2>1, <2>2
<1>10. compilers[k].type # "function"
  BY <1>7, <1>8 DEF LInv, Lexical, NamesOK, MethodsNamed
<1> HIDE DEF k
<1>11. compilers[k].locals[1].name = "this" /\ 1 \in DOMAIN compilers[k].locals
  <2>1. NamedLocals(compilers[k])
    BY <1>1, <1>9 DEF LInv, Lexical, NamesOK, AllNamed
  <2>2. compilers[k].locals[1].name = CalleeName(compilers[k].type)
    BY <2>1 DEF NamedLocals
  <2>3. CalleeName(compilers[k].type) = "this"
    BY <1>10, Zenon DEF CalleeName
  <2>4. compilers[k].locals # <<>> /\ compilers[k] \in CompilerSet
    BY <1>1, <1>9, GoodLocals DEF IInv
  <2>5. 1 \in DOMAIN compilers[k].locals
    BY <2>4, Fields, Elements
  <2> QED BY <2>2, <2>3, <2>5
<1>12. LocalOf(compilers[k], "this") # 0
  <2>1. compilers[k] \in CompilerSet
    BY <1>1, <1>9
  <2>2. LocalOf(compilers[k], "this") \in 0 .. Len(compilers[k].locals) /\ 1 <= LocalOf(compilers[k], "this")
    BY <1>11, <2>1, LocalFound
  <2> QED BY <2>2
<1>13. k <= Owner(compilers, "this") /\ Owner(compilers, "this") \in 0 .. L
  BY <1>1, <1>9, <1>12, OwnerFound
<1>14. Owner(compilers, "this") # 1 /\ Owner(compilers, "this") # 0
  BY <1>2, <1>9, <1>13
<1>15. IsNamed("this")
  BY DEF IsNamed
<1> QED BY <1>14, <1>15 DEF Usable

(* Where an expression may stand, no class is innermost.                     *)
LEMMA ExpressionPlace ==
  ASSUME IInv, InExpression
  PROVE  Kind(nest) # "class"
<1>1. nest \in Seq(NestSet)
  BY Here
<1>2. nest # <<>> => Last(nest) = nest[Len(nest)]
  BY <1>1, Elements
<1>3. CASE nest = <<>>
  BY <1>3 DEF Kind
<1>4. CASE nest # <<>>
  <2>1. Last(nest).kind \in {"block", "fun", "method", "var"}
    BY <1>4 DEF InExpression, InStatements, Innermost
  <2> QED BY <1>2, <1>4, <2>1 DEF Kind
<1> QED BY <1>3, <1>4

(* The state a name is resolved in.                                          *)
LEMMA ResolvingHere ==
  ASSUME IInv, LInv, NEW n, Usable(compilers, n), Resolves(compilers, n)
  PROVE  Resolving(compilers, n, env)
<1>1. Chained(compilers) /\ compilers # <<>> /\ env \in Seq(BindingSet)
  BY Here
<1>2. DepthsOK(compilers)
  BY GoodDepths DEF IInv
<1> QED BY <1>1, <1>2 DEF Resolving, LInv, Lexical, NamesOK

(* Naming variables keeps what the text says.                                *)
LEMMA NamedLexical ==
  ASSUME IInv, LInv, NEW cs2, Extends(cs2, compilers), compilers' = cs2,
         UNCHANGED <<classes, hadError, nest, env, frames>>
  PROVE  LInv'
<1>1. /\ compilers \in Seq(CompilerSet) /\ compilers # <<>> /\ nest \in Seq(NestSet)
      /\ NestOK(nest, Len(compilers)) /\ \A k \in DOMAIN compilers : compilers[k].locals # <<>>
  BY GoodParts, GoodLocals DEF IInv
<1>2. Lexical(cs2, classes, nest, env)
  BY <1>1, LexicalNamed DEF LInv
<1> QED BY <1>2 DEF LInv

(* A variable read or assigned.                                              *)
LEMMA VariableLexical ==
  ASSUME IInv, LInv, NEW n \in Names, variable(n)
  PROVE  LInv' /\ ReferencesAreLexical'
<1>1. CASE ~ Resolves(compilers, n)
  BY <1>1, AfreshLexical DEF variable, Error
<1>2. CASE Resolves(compilers, n)
  <2> DEFINE r == namedVariable(compilers, n)
  <2>1. /\ compilers' = r.cs /\ refs' = {r.ref}
        /\ UNCHANGED <<classes, hadError, nest, env, frames>>
    BY <1>2 DEF variable
  <2>2. Chained(compilers) /\ compilers # <<>>
    BY Here
  <2>3. Extends(r.cs, compilers) /\ Chained(r.cs)
    BY <1>2, <2>2, ResolvesOK
  <2>4. Resolving(compilers, n, env)
    BY <1>2, NamesUsable, ResolvingHere
  <2>5. Carries(r.cs, r.cs)
    BY DEF Carries
  <2>6. Reached(r.cs, r.ref) = Meant(env, n) /\ r.ref.name = n
    BY <2>3, <2>4, <2>5, ReferenceMeant
  <2> HIDE DEF r
  <2>7. LInv'
    BY <2>1, <2>3, NamedLexical
  <2> QED BY <2>1, <2>6, <2>7 DEF ReferencesAreLexical
<1> QED BY <1>1, <1>2

(* this is the receiver of the innermost method.                             *)
LEMMA ThisLexical ==
  ASSUME IInv, LInv, this_
  PROVE  LInv' /\ ReferencesAreLexical'
<1>1. CASE classes = <<>> \/ ~ Resolves(compilers, "this")
  BY <1>1, AfreshLexical DEF this_, Error
<1>2. CASE ~ (classes = <<>> \/ ~ Resolves(compilers, "this"))
  <2> DEFINE r == namedVariable(compilers, "this")
  <2>1. /\ compilers' = r.cs /\ refs' = {r.ref}
        /\ UNCHANGED <<classes, hadError, nest, env, frames>>
    BY <1>2 DEF this_
  <2>2. Chained(compilers) /\ compilers # <<>>
    BY Here
  <2>3. Extends(r.cs, compilers) /\ Chained(r.cs)
    BY <1>2, <2>2, ResolvesOK
  <2>4. Resolving(compilers, "this", env)
    <3>1. Usable(compilers, "this")
      BY <1>2, ExpressionPlace, ThisUsable DEF this_
    <3> QED BY <1>2, <3>1, ResolvingHere
  <2>5. Carries(r.cs, r.cs)
    BY DEF Carries
  <2>6. Reached(r.cs, r.ref) = Meant(env, "this") /\ r.ref.name = "this"
    BY <2>3, <2>4, <2>5, ReferenceMeant
  <2> HIDE DEF r
  <2>7. LInv'
    BY <2>1, <2>3, NamedLexical
  <2> QED BY <2>1, <2>6, <2>7 DEF ReferencesAreLexical
<1> QED BY <1>1, <1>2

(* super names the receiver too.                                             *)
LEMMA SuperLexical ==
  ASSUME IInv, LInv, super_
  PROVE  LInv' /\ ReferencesAreLexical'
<1> DEFINE r1 == namedVariable(compilers, "this")
           r2 == namedVariable(r1.cs, "super")
           fails == \/ classes = <<>> \/ ~ Last(classes)
                    \/ ~ Resolves(compilers, "this") \/ ~ Resolves(r1.cs, "super")
<1>1. CASE fails
  <2>1. Error
    BY <1>1 DEF super_
  <2> QED BY <2>1, AfreshLexical DEF Error
<1>2. CASE ~ fails
  <2>1. /\ compilers' = r2.cs /\ refs' = {r1.ref, r2.ref}
        /\ UNCHANGED <<classes, hadError, nest, env, frames>>
    BY <1>2 DEF super_
  <2>2. Chained(compilers) /\ compilers # <<>> /\ compilers \in Seq(CompilerSet)
        /\ env \in Seq(BindingSet) /\ nest \in Seq(NestSet)
    BY Here DEF Chained
  <2>3. Extends(r1.cs, compilers) /\ Chained(r1.cs) /\ Fits(r1.cs)
    BY <1>2, <2>2, ResolvesOK
  <2>4. Resolving(compilers, "this", env)
    <3>1. Usable(compilers, "this")
      BY <1>2, ExpressionPlace, ThisUsable DEF super_
    <3> QED BY <1>2, <3>1, ResolvingHere
  <2>5. Resolves(r1.cs, "super")
    BY <1>2
  <2>6. r1 = namedVariable(compilers, "this") /\ r2 = namedVariable(r1.cs, "super")
    OBVIOUS
  <2> HIDE DEF r1, r2, fails
  <2>7. Good(r1.cs, classes, nest, frames)
    BY <2>3, GoodNamed DEF IInv
  <2>8. r1.cs # <<>> /\ DepthsOK(r1.cs) /\ r1.cs \in Seq(CompilerSet)
    BY <2>7, GoodParts, GoodDepths
  <2>9. Lexical(r1.cs, classes, nest, env)
    <3>1. /\ NestOK(nest, Len(compilers)) /\ \A k \in DOMAIN compilers : compilers[k].locals # <<>>
      BY GoodParts, GoodLocals DEF IInv
    <3> QED BY <2>2, <2>3, <3>1, LexicalNamed DEF LInv
  <2>10. Resolving(r1.cs, "super", env)
    <3>1. Lists(env, Variables(r1.cs)) /\ AllNamed(r1.cs)
      BY <2>9 DEF Lexical, NamesOK
    <3>2. Usable(r1.cs, "super")
      BY NamesUsable
    <3> QED BY <2>2, <2>3, <2>5, <2>8, <3>1, <3>2 DEF Resolving
  <2>11. Extends(r2.cs, r1.cs) /\ Chained(r2.cs)
    BY <2>3, <2>5, <2>6, <2>8, ResolvesOK
  <2>12. Carries(r2.cs, r2.cs) /\ Carries(r2.cs, r1.cs)
    BY <2>11, ExtendsCarries DEF Carries
  <2>13. Reached(r2.cs, r1.ref) = Meant(env, "this") /\ r1.ref.name = "this"
    BY <2>4, <2>6, <2>11, <2>12, ReferenceMeant
  <2>14. Reached(r2.cs, r2.ref) = Meant(env, "super") /\ r2.ref.name = "super"
    BY <2>6, <2>10, <2>11, <2>12, ReferenceMeant
  <2>15. Extends(r2.cs, compilers)
    BY <2>2, <2>3, <2>11, ExtendsTwice
  <2>16. LInv'
    BY <2>1, <2>15, NamedLexical
  <2> QED BY <2>1, <2>13, <2>14, <2>16 DEF ReferencesAreLexical
<1> QED BY <1>1, <1>2

(* In a method, `this' is the function's own first slot.                     *)
LEMMA OwnThis ==
  ASSUME IInv, LInv, current.type # "function", current.type # "script"
  PROVE  Meant(env, "this") = {[level |-> Len(compilers), slot |-> 0]}
<1> DEFINE L == Len(compilers)
<1>1. /\ compilers \in Seq(CompilerSet) /\ compilers # <<>> /\ L \in Nat /\ L # 0
      /\ DOMAIN compilers = 1 .. L /\ L \in DOMAIN compilers
      /\ current = compilers[L] /\ compilers[L] \in CompilerSet /\ env \in Seq(BindingSet)
  <2>1. /\ compilers \in Seq(CompilerSet) /\ compilers # <<>> /\ current = compilers[L]
        /\ env \in Seq(BindingSet)
    BY Here DEF Chained
  <2> QED BY <2>1, Elements
<1>2. AllNamed(compilers) /\ compilers[1].type = "script" /\ Lists(env, Variables(compilers))
  BY DEF LInv, Lexical, NamesOK
<1>3. /\ compilers[L].locals[1].name = "this" /\ compilers[L].locals[1].depth = 0
      /\ 1 \in DOMAIN compilers[L].locals
      /\ \A x \in DOMAIN compilers[L].locals : x > 1 => compilers[L].locals[x].name # "this"
  <2>1. NamedLocals(compilers[L])
    BY <1>1, <1>2 DEF AllNamed
  <2>2. CalleeName(compilers[L].type) = "this"
    BY <1>1, Zenon DEF CalleeName
  <2>3. PICK w \in BOOLEAN : LocalsOK(compilers[L], w)
    BY <1>1, GoodLocals DEF IInv
  <2>4. compilers[L].locals[1].depth = 0 /\ 1 \in DOMAIN compilers[L].locals
    BY <1>1, <2>3, SomeLocals DEF LocalsOK
  <2>5. compilers[L].locals[1].name = CalleeName(compilers[L].type)
    BY <2>1 DEF NamedLocals
  <2>6. ASSUME NEW x \in DOMAIN compilers[L].locals, x > 1
        PROVE  compilers[L].locals[x].name # "this"
    <3>1. compilers[L].locals[x].name \in Names \union {"super"}
      BY <2>1, <2>6 DEF NamedLocals
    <3> QED BY <3>1, NamesNamed
  <2> QED BY <2>2, <2>4, <2>5, <2>6
<1> HIDE DEF L
<1>4. LocalOf(compilers[L], "this") = 1
  <2>1. /\ LocalOf(compilers[L], "this") \in 0 .. Len(compilers[L].locals)
        /\ 1 <= LocalOf(compilers[L], "this")
        /\ LocalOf(compilers[L], "this") # 0 =>
             /\ LocalOf(compilers[L], "this") \in DOMAIN compilers[L].locals
             /\ compilers[L].locals[LocalOf(compilers[L], "this")].name = "this"
    BY <1>1, <1>3, LocalFound
  <2>2. LocalOf(compilers[L], "this") # 0 /\ LocalOf(compilers[L], "this") \in Nat
    BY <2>1
  <2>3. ~ (LocalOf(compilers[L], "this") > 1)
    BY <1>3, <2>1, <2>2
  <2> QED BY <2>1, <2>2, <2>3
<1>5. Owner(compilers, "this") = L
  <2>1. Owner(compilers, "this") \in 0 .. Len(compilers) /\ L <= Owner(compilers, "this")
    BY <1>1, <1>4, OwnerFound
  <2> QED BY <1>1, <2>1 DEF L
<1>6. L # 1
  BY <1>1, <1>2
<1>7. IsNamed("this")
  BY DEF IsNamed
<1>8. Usable(compilers, "this")
  BY <1>5, <1>6, <1>7 DEF Usable
<1>9. ~ OwnInitializer(compilers, "this")
  BY <1>3, <1>4, <1>5 DEF OwnInitializer, Uninit
<1>10. DepthsOK(compilers)
  BY GoodDepths DEF IInv
<1>11. Meant(env, "this") = {Place(compilers, "this")}
  BY <1>1, <1>2, <1>5, <1>8, <1>9, <1>10, MeantIs
<1>12. Place(compilers, "this") = [level |-> L, slot |-> 0]
  BY <1>4, <1>5 DEF Place
<1> QED BY <1>11, <1>12 DEF L

(* An initializer's return gives its receiver.                               *)
LEMMA ReturnLexical ==
  ASSUME IInv, LInv, NEW v \in BOOLEAN, returnStatement(v)
  PROVE  LInv' /\ ReferencesAreLexical'
<1>1. CASE Error
  BY <1>1, AfreshLexical DEF Error
<1>2. CASE ~ Error
  <2>1. /\ current.type # "script"
        /\ refs' = IF current.type = "initializer"
                   THEN {[name |-> "this", op |-> "local", index |-> 0]} ELSE {}
        /\ UNCHANGED <<compilers, classes, hadError, nest, env, frames>>
    BY <1>2 DEF returnStatement
  <2>2. LInv'
    BY <2>1 DEF LInv
  <2>3. CASE current.type = "initializer"
    <3> DEFINE r == [name |-> "this", op |-> "local", index |-> 0]
    <3>1. r.name = "this" /\ r.op = "local" /\ r.index = 0
      OBVIOUS
    <3>2. refs' = {r}
      BY <2>1, <2>3
    <3> HIDE DEF r
    <3>3. Meant(env, "this") = {[level |-> Len(compilers), slot |-> 0]}
      BY <2>1, <2>3, OwnThis
    <3>4. Reached(compilers, r) = {[level |-> Len(compilers), slot |-> 0]}
      BY <3>1 DEF Reached
    <3> QED BY <2>1, <2>2, <3>1, <3>2, <3>3, <3>4 DEF ReferencesAreLexical
  <2>4. CASE current.type # "initializer"
    BY <2>1, <2>2, <2>4 DEF ReferencesAreLexical
  <2> QED BY <2>3, <2>4
<1> QED BY <1>1, <1>2

(* A step that names nothing.                                                *)
LEMMA NoReference ==
  ASSUME refs' = {}
  PROVE  ReferencesAreLexical'
BY DEF ReferencesAreLexical

-----------------------------------------------------------------------------
(* Each step, once more.                                                     *)

(* What the two invariants give.                                             *)
LEMMA HereLexical ==
  ASSUME IInv, LInv
  PROVE  /\ compilers \in Seq(CompilerSet) /\ compilers # <<>> /\ Chained(compilers)
         /\ Len(compilers) \in Nat /\ Len(compilers) \in DOMAIN compilers
         /\ Level = Len(compilers) /\ current = compilers[Len(compilers)]
         /\ current \in CompilerSet /\ current.locals # <<>> /\ NamedLocals(current)
         /\ \A k \in DOMAIN compilers : compilers[k].locals # <<>>
         /\ nest \in Seq(NestSet) /\ NestOK(nest, Len(compilers)) /\ NamesOK(compilers, nest)
         /\ classes \in Seq(BOOLEAN) /\ Len(classes) = Rank(nest, Len(nest))
         /\ env \in Seq(BindingSet) /\ Len(env) \in Nat /\ TextOK(nest, env)
         /\ Lists(env, Variables(compilers)) /\ Marks(Variables(compilers), classes, nest, env)
         /\ Variables(compilers) \in SUBSET VariableSet
         /\ AllAround(Variables(compilers), Len(compilers),
                      Depth(nest, classes, Len(compilers)))
         /\ DepthsOK(compilers)
<1>1. Good(compilers, classes, nest, frames) /\ TextOK(nest, env)
  BY DEF IInv
<1>2. /\ Chained(compilers) /\ compilers # <<>> /\ Level = Len(compilers)
      /\ current = compilers[Len(compilers)] /\ current \in CompilerSet
      /\ nest \in Seq(NestSet) /\ classes \in Seq(BOOLEAN)
      /\ env \in Seq(BindingSet) /\ Len(env) \in Nat /\ compilers \in Seq(CompilerSet)
  BY Here DEF Chained
<1>3. Len(compilers) \in Nat /\ Len(compilers) \in DOMAIN compilers
  BY <1>2, Elements
<1>4. NestOK(nest, Len(compilers)) /\ Len(classes) = Rank(nest, Len(nest))
  BY <1>1, GoodParts
<1>5. \A k \in DOMAIN compilers : compilers[k].locals # <<>>
  BY <1>1, GoodLocals
<1>6. /\ Variables(compilers) \in SUBSET VariableSet
      /\ AllAround(Variables(compilers), Len(compilers),
                   Depth(nest, classes, Len(compilers)))
  BY <1>1, VariablesWithin
<1>7. /\ Lists(env, Variables(compilers)) /\ Marks(Variables(compilers), classes, nest, env)
      /\ NamesOK(compilers, nest)
  BY DEF LInv, Lexical
<1>8. NamedLocals(current)
  BY <1>2, <1>3, <1>7 DEF NamesOK, AllNamed
<1>9. DepthsOK(compilers)
  BY <1>1, GoodDepths
<1> QED BY <1>1, <1>2, <1>3, <1>4, <1>5, <1>6, <1>7, <1>8, <1>9

(* The innermost compiler is replaced by one of the same function.           *)
LEMMA TopReplacedStays ==
  ASSUME IInv, LInv, NEW c2 \in CompilerSet, c2.type = current.type,
         c2.upvalues = current.upvalues, NamedLocals(c2),
         NEW cs2, cs2 = [compilers EXCEPT ![Len(compilers)] = c2]
  PROVE  /\ TopStays(cs2, compilers) /\ TopOnly(cs2, compilers) /\ Chained(cs2)
         /\ cs2[Len(compilers)] = c2 /\ Len(cs2) = Len(compilers) /\ cs2 \in Seq(CompilerSet)
         /\ OthersStay(cs2, compilers) /\ cs2 # <<>>
<1>1. /\ compilers \in Seq(CompilerSet) /\ compilers # <<>>
      /\ current = compilers[Len(compilers)] /\ Chained(compilers) /\ Fits(compilers)
  BY HereLexical, Here
<1>2. /\ Chained(cs2) /\ cs2 # <<>> /\ Len(cs2) = Len(compilers) /\ cs2[Len(compilers)] = c2
      /\ \A k \in 1 .. Len(compilers) - 1 : Extended(cs2[k], compilers[k])
  BY <1>1, TopReplaced
<1>3. cs2 \in Seq(CompilerSet)
  BY <1>2 DEF Chained
<1>4. OthersStay(cs2, compilers)
  BY <1>1, <1>2, <1>3 DEF OthersStay
<1>5. TopStays(cs2, compilers)
  BY <1>1, <1>2, <1>4 DEF TopStays
<1>6. TopOnly(cs2, compilers)
  BY <1>4, OthersSame
<1> QED BY <1>2, <1>3, <1>4, <1>5, <1>6

(* The names, when a construct opens.                                        *)
LEMMA NamesOpen ==
  ASSUME IInv, LInv, NEW cs2, TopStays(cs2, compilers),
         NEW x \in NestSet, x.kind # "method", AwaitsName(cs2, Append(nest, x))
  PROVE  NamesOK(cs2, Append(nest, x))
<1>1. /\ nest \in Seq(NestSet) /\ NestOK(nest, Len(compilers)) /\ NamesOK(compilers, nest)
      /\ \A k \in DOMAIN compilers : compilers[k].locals # <<>>
  BY HereLexical
<1> DEFINE r == Append(nest, x)
<1>2. /\ DOMAIN r = DOMAIN nest \union {Len(nest) + 1} /\ r[Len(nest) + 1] = x
      /\ \A i \in DOMAIN nest : r[i] = nest[i]
  BY <1>1, Appended
<1>3. AwaitsName(cs2, r)
  OBVIOUS
<1> HIDE DEF r
<1>4. MethodsOf(r, nest)
  BY <1>2 DEF MethodsOf
<1>5. NamesOK(cs2, r)
  BY <1>1, <1>3, <1>4, NamesOn
<1> QED BY <1>5 DEF r

(* And when one ends.                                                        *)
LEMMA NamesClose ==
  ASSUME IInv, LInv, nest # <<>>, NEW cs2, TopStays(cs2, compilers)
  PROVE  NamesOK(cs2, Front(nest))
<1>1. /\ nest \in Seq(NestSet) /\ NestOK(nest, Len(compilers)) /\ NamesOK(compilers, nest)
      /\ \A k \in DOMAIN compilers : compilers[k].locals # <<>>
  BY HereLexical
<1>2. \A k \in DOMAIN Front(nest) : k \in DOMAIN nest /\ Front(nest)[k] = nest[k]
  BY <1>1, WithoutLast
<1>3. MethodsOf(Front(nest), nest)
  BY <1>2 DEF MethodsOf
<1>4. Kind(Front(nest)) # "var"
  <2>1. Good(compilers, classes, nest, frames)
    BY DEF IInv
  <2>2. /\ AddsClass(ClassesAround(nest, classes), Last(nest), classes)
        /\ ClassesAround(nest, classes) \in Seq(BOOLEAN)
        /\ Len(ClassesAround(nest, classes)) = Rank(Front(nest), Len(Front(nest)))
    BY <2>1, ClassesPopped
  <2> QED BY <2>1, <2>2, Ends
<1>5. AwaitsName(cs2, Front(nest))
  BY <1>4, NoneWaits
<1> QED BY <1>1, <1>3, <1>5, NamesOn

(* `{' of a block: no variable comes or goes.                                *)
LEMMA BeginBlockLexical ==
  ASSUME IInv, LInv, BeginBlock
  PROVE  LInv' /\ ReferencesAreLexical'
<1> DEFINE x == Nesting("block", "", Level, Len(env))
           c2 == beginScope(current)
           L == Len(compilers)
<1>1. /\ compilers \in Seq(CompilerSet) /\ compilers # <<>> /\ Level = L
      /\ current \in CompilerSet /\ NamedLocals(current) /\ current = compilers[L]
      /\ nest \in Seq(NestSet) /\ classes \in Seq(BOOLEAN) /\ env \in Seq(BindingSet)
      /\ Len(env) \in Nat /\ L \in Nat /\ Len(classes) = Rank(nest, Len(nest))
  BY HereLexical
<1>2. x \in NestSet /\ x.kind = "block" /\ x.level = L /\ x.mark = Len(env)
  <2>1. "block" \in {"block", "var", "fun", "method", "class"} /\ "" \in Names \union {""}
    OBVIOUS
  <2> QED BY <1>1, <2>1 DEF Nesting, NestSet
<1>3. /\ compilers' = [compilers EXCEPT ![L] = c2] /\ nest' = Append(nest, x)
      /\ refs' = {} /\ classes' = classes /\ env' = env
  BY <1>1 DEF BeginBlock, Opened, Nesting, current
<1>4. /\ c2 \in CompilerSet /\ c2.locals = current.locals /\ c2.upvalues = current.upvalues
      /\ c2.type = current.type /\ NamedLocals(c2)
  BY <1>1, Begun, BegunNames DEF Keeps
<1> HIDE DEF x, c2
<1>5. TopStays(compilers', compilers) /\ TopOnly(compilers', compilers) /\ compilers'[L] = c2
  BY <1>3, <1>4, TopReplacedStays
<1>6. Variables(compilers') = Variables(compilers)
  <2>1. SameHolds(c2, current)
    BY <1>4 DEF SameHolds, Holds
  <2> QED BY <1>1, <1>5, <2>1, SameVariables
<1>7. AddsClass(classes, x, classes)
  BY <1>2 DEF AddsClass
<1>8. /\ Lists(env, Variables(compilers)) /\ Marks(Variables(compilers), classes, nest, env)
      /\ AllAround(Variables(compilers), L, Depth(nest, classes, L))
  BY HereLexical
<1>9. Marks(Variables(compilers), classes, Append(nest, x), env)
  BY <1>1, <1>2, <1>7, <1>8, MarksPush
<1>10. NamesOK(compilers', Append(nest, x))
  <2>1. Kind(Append(nest, x)) = "block"
    BY <1>1, <1>2, Appended DEF Kind
  <2>2. AwaitsName(compilers', Append(nest, x))
    BY <2>1, NoneWaits
  <2> QED BY <1>2, <1>5, <2>2, NamesOpen
<1>11. Lexical(compilers', classes', nest', env')
  BY <1>3, <1>6, <1>8, <1>9, <1>10 DEF Lexical
<1> QED BY <1>3, <1>11, NoReference DEF LInv

(* A construct of the function being compiled ends: what it leaves.          *)
LEMMA TextLeft ==
  ASSUME IInv, LInv, nest # <<>>
  PROVE  /\ Lists(OutOfScope, Left(Variables(compilers), nest, ClassesAround(nest, classes)))
         /\ Marks(Left(Variables(compilers), nest, ClassesAround(nest, classes)),
                  ClassesAround(nest, classes), Front(nest), OutOfScope)
<1>1. /\ nest \in Seq(NestSet) /\ TextOK(nest, env) /\ Lists(env, Variables(compilers))
      /\ Marks(Variables(compilers), classes, nest, env)
  BY HereLexical
<1>2. /\ AddsClass(ClassesAround(nest, classes), Last(nest), classes)
      /\ ClassesAround(nest, classes) \in Seq(BOOLEAN)
      /\ Len(ClassesAround(nest, classes)) = Rank(Front(nest), Len(Front(nest)))
  BY ClassesPopped DEF IInv
<1> QED BY <1>1, <1>2, TextCut DEF OutOfScope

(* A scope ends: its locals go from the table and from the text.             *)
LEMMA ScopeLexical ==
  ASSUME IInv, LInv, nest # <<>>, Last(nest).kind \in {"block", "class"},
         Scoped(Last(nest), classes),
         compilers' = [compilers EXCEPT ![Len(compilers)] = endScope(current)],
         classes' = ClassesAround(nest, classes), nest' = Front(nest), env' = OutOfScope
  PROVE  LInv'
<1> DEFINE cl2 == ClassesAround(nest, classes)
           d == Depth(Front(nest), cl2, Len(compilers))
           c2 == endScope(current)
           L == Len(compilers)
<1>1. /\ compilers \in Seq(CompilerSet) /\ current \in CompilerSet /\ NamedLocals(current)
      /\ current = compilers[L] /\ nest \in Seq(NestSet)
  BY HereLexical
<1>2. Last(nest).level = L
  <2>1. L = Inside(Last(nest))
    BY <1>1, NestPop, HereLexical
  <2> QED BY <2>1 DEF Inside
<1>3. LocalsOK(current, FALSE) /\ current.scopeDepth = d + 1 /\ d \in Nat
  <2>1. Deepens(Last(nest), classes) = 1
    BY DEF Deepens
  <2>2. (Last(nest).kind = "var" /\ compilers[L].scopeDepth > 0) = FALSE
    OBVIOUS
  <2>3. /\ LevelOK(compilers[Len(compilers)], frames[Len(compilers)],
                   Last(nest).kind = "var" /\ compilers[Len(compilers)].scopeDepth > 0,
                   Depth(Front(nest), ClassesAround(nest, classes), Len(compilers))
                     + Deepens(Last(nest), classes),
                   Adds(Last(nest), "var"), Adds(Last(nest), "class"))
        /\ Depth(Front(nest), ClassesAround(nest, classes), Len(compilers)) \in Nat
    <3>1. Last(nest).kind \in {"block", "var", "class"}
      OBVIOUS
    <3> QED BY <3>1, TopEnds DEF IInv
  <2> QED BY <1>1, <2>1, <2>2, <2>3 DEF LevelOK
<1>4. /\ c2 \in CompilerSet /\ c2.upvalues = current.upvalues /\ c2.type = current.type
      /\ NamedLocals(c2)
  <2>1. current.scopeDepth > 0
    BY <1>3
  <2>2. c2.type = current.type /\ NamedLocals(c2)
    BY <1>1, <1>3, <2>1, EndedNames
  <2>3. c2 \in CompilerSet /\ c2.upvalues = current.upvalues
    <3>1. endScope(current).locals = SubSeq(current.locals, 1, Kept(current))
      BY <1>1 DEF endScope, CompilerSet
    <3>2. SubSeq(current.locals, 1, Kept(current)) \in Seq(LocalSet)
      <4>1. Kept(current) \in 1 .. Len(current.locals)
        BY <1>1, <1>3, <2>1, KeptOK
      <4>2. current.locals \in Seq(LocalSet) /\ Len(current.locals) \in Nat
        BY <1>1, Fields
      <4>3. /\ 1 \in Int /\ Kept(current) \in Int
            /\ \A i \in 1 .. Kept(current) : current.locals[i] \in LocalSet
        BY <4>1, <4>2, Elements
      <4> QED BY <4>3, SubSeqProperties
    <3>3. current.scopeDepth - 1 \in Nat
      BY <1>3
    <3> QED BY <1>1, <3>2, <3>3 DEF endScope, CompilerSet
  <2> QED BY <2>2, <2>3
<1>5. OuterHolds(c2, current, d)
  BY <1>1, <1>3, EndedHolds DEF OuterHolds
<1> HIDE DEF c2, d
<1>6. compilers' = [compilers EXCEPT ![L] = c2]
  BY DEF c2
<1>7. TopStays(compilers', compilers) /\ TopOnly(compilers', compilers) /\ compilers'[L] = c2
  BY <1>4, <1>6, TopReplacedStays
<1>8. Variables(compilers') = {v \in Variables(compilers) : Around(v, L, d)}
  <2>1. OuterHolds(compilers'[L], compilers[L], d)
    BY <1>1, <1>5, <1>7
  <2>2. TopOnly(compilers', compilers)
    BY <1>7
  <2> QED BY <2>1, <2>2, OuterVariables
<1>9. Left(Variables(compilers), nest, cl2) = Variables(compilers')
  BY <1>2, <1>8 DEF Left, d
<1>10. NamesOK(compilers', Front(nest))
  BY <1>7, NamesClose
<1>11. Lexical(compilers', classes', nest', env')
  <2>1. /\ Lists(OutOfScope, Left(Variables(compilers), nest, cl2))
        /\ Marks(Left(Variables(compilers), nest, cl2), cl2, Front(nest), OutOfScope)
    BY TextLeft
  <2> QED BY <1>9, <1>10, <2>1 DEF Lexical
<1> QED BY <1>11 DEF LInv

(* `}' of a block.                                                           *)
LEMMA EndBlockLexical ==
  ASSUME IInv, LInv, EndBlock
  PROVE  LInv' /\ ReferencesAreLexical'
<1>1. /\ nest # <<>> /\ Last(nest).kind = "block" /\ Kind(nest) = "block"
  <2>1. Innermost({"block"})
    BY DEF EndBlock
  <2>2. nest # <<>> /\ Last(nest).kind \in {"block"} /\ Kind(nest) = Last(nest).kind
    BY <2>1, InnermostKind
  <2> QED BY <2>2
<1>2. /\ compilers' = [compilers EXCEPT ![Len(compilers)] = endScope(current)]
      /\ env' = OutOfScope /\ nest' = Front(nest) /\ classes' = classes /\ refs' = {}
  BY HereLexical DEF EndBlock
<1>3. ClassesAround(nest, classes) = classes /\ Scoped(Last(nest), classes)
  BY <1>1 DEF ClassesAround, Scoped
<1>4. Last(nest).kind \in {"block", "class"} /\ classes' = ClassesAround(nest, classes)
  BY <1>1, <1>2, <1>3
<1>5. LInv'
  BY <1>1, <1>2, <1>3, <1>4, ScopeLexical
<1> QED BY <1>2, <1>5, NoReference

(* `}' of a class: the superclass goes too.                                  *)
LEMMA EndClassLexical ==
  ASSUME IInv, LInv, EndClass
  PROVE  LInv' /\ ReferencesAreLexical'
<1>1. /\ nest # <<>> /\ Last(nest).kind = "class" /\ Kind(nest) = "class"
  <2>1. Innermost({"class"})
    BY DEF EndClass
  <2>2. nest # <<>> /\ Last(nest).kind \in {"class"} /\ Kind(nest) = Last(nest).kind
    BY <2>1, InnermostKind
  <2> QED BY <2>2
<1>2. env' = OutOfScope /\ nest' = Front(nest) /\ classes' = Front(classes) /\ refs' = {}
  BY DEF EndClass
<1>3. ClassesAround(nest, classes) = Front(classes)
  BY <1>1 DEF ClassesAround
<1> DEFINE cl2 == ClassesAround(nest, classes)
<1>4. Good(compilers, classes, nest, frames)
  BY DEF IInv
<1>5. /\ cl2 \in Seq(BOOLEAN) /\ AddsClass(cl2, Last(nest), classes)
      /\ Len(cl2) = Rank(Front(nest), Len(Front(nest)))
  BY <1>1, <1>4, ClassesPopped
<1>6. classes # <<>> /\ Last(classes) = classes[Len(classes)]
  <2>1. PICK b \in BOOLEAN : classes = Append(cl2, b)
    BY <1>1, <1>5 DEF AddsClass
  <2>2. classes # <<>>
    BY <1>5, <2>1, Appended
  <2> QED BY <2>2, Elements, HereLexical
<1>7. CASE Last(classes)
  <2>1. compilers' = [compilers EXCEPT ![Len(compilers)] = endScope(current)]
    BY <1>7, HereLexical DEF EndClass
  <2>2. Scoped(Last(nest), classes)
    BY <1>1, <1>6, <1>7 DEF Scoped
  <2>3. Last(nest).kind \in {"block", "class"} /\ classes' = ClassesAround(nest, classes)
    BY <1>1, <1>2, <1>3
  <2>4. LInv'
    BY <1>1, <1>2, <2>1, <2>2, <2>3, ScopeLexical
  <2> QED BY <1>2, <2>4, NoReference
<1>8. CASE ~ Last(classes)
  <2>1. compilers' = compilers
    BY <1>8 DEF EndClass
  <2>2. ~ Scoped(Last(nest), classes)
    BY <1>1, <1>6, <1>8 DEF Scoped
  <2>3. /\ Len(compilers) = Inside(Last(nest))
        /\ Depth(nest, classes, Len(compilers))
             = Depth(Front(nest), cl2, Len(compilers))
                 + (IF Last(nest).level = Len(compilers) /\ Scoped(Last(nest), classes)
                    THEN 1 ELSE 0)
    BY <1>1, <1>4, <1>5, Ends
  <2>4. Last(nest).level = Len(compilers)
    BY <1>1, <2>3 DEF Inside
  <2>5. Depth(nest, classes, Len(compilers)) = Depth(Front(nest), cl2, Len(compilers))
    <3>1. Depth(nest, classes, Len(compilers)) = Depth(Front(nest), cl2, Len(compilers)) + 0
      BY <2>2, <2>3
    <3>2. Depth(Front(nest), cl2, Len(compilers)) \in Nat
      <4>1. Last(nest).kind \in {"block", "var", "class"}
        BY <1>1
      <4> QED BY <1>1, <1>4, <4>1, TopEnds
    <3> QED BY <3>1, <3>2
  <2>6. Left(Variables(compilers), nest, cl2) = Variables(compilers)
    <3>1. AllAround(Variables(compilers), Len(compilers), Depth(nest, classes, Len(compilers)))
      BY HereLexical
    <3> HIDE DEF cl2
    <3> QED BY <2>4, <2>5, <3>1 DEF Left, AllAround
  <2>7. NamesOK(compilers, Front(nest))
    <3>1. TopStays(compilers, compilers)
      <4>1. /\ compilers \in Seq(CompilerSet) /\ compilers # <<>> /\ NamedLocals(current)
            /\ current = compilers[Len(compilers)]
        BY HereLexical
      <4>2. \A k \in 1 .. Len(compilers) : compilers[k] \in CompilerSet
        BY Here
      <4>3. \A k \in 1 .. Len(compilers) - 1 : compilers[k] \in CompilerSet
        BY <4>2, BelowLast, HereLexical
      <4>4. \A k \in 1 .. Len(compilers) - 1 : Extended(compilers[k], compilers[k])
        BY <4>3 DEF Extended
      <4> QED BY <4>1, <4>4 DEF TopStays, OthersStay
    <3> QED BY <1>1, <3>1, NamesClose
  <2>8. /\ Lists(OutOfScope, Left(Variables(compilers), nest, cl2))
        /\ Marks(Left(Variables(compilers), nest, cl2), cl2, Front(nest), OutOfScope)
    BY <1>1, TextLeft
  <2>9. Lexical(compilers', classes', nest', env')
    BY <1>2, <1>3, <2>1, <2>6, <2>7, <2>8 DEF Lexical
  <2> QED BY <1>2, <2>9, NoReference DEF LInv
<1> QED BY <1>7, <1>8

(* `var' and its name: the local waits for its initializer.                  *)
LEMMA VarDeclarationLexical ==
  ASSUME IInv, LInv, NEW n \in Names, varDeclaration(n)
  PROVE  LInv' /\ ReferencesAreLexical'
<1>1. CASE ~ CanDeclare(current, n)
  BY <1>1, AfreshLexical DEF varDeclaration, Error
<1>2. CASE CanDeclare(current, n)
  <2> DEFINE x == Nesting("var", n, Level, Len(env))
             c2 == declareVariable(current, n)
             L == Len(compilers)
             N == Len(current.locals)
  <2>1. /\ compilers \in Seq(CompilerSet) /\ compilers # <<>> /\ Level = L
        /\ current \in CompilerSet /\ NamedLocals(current) /\ current = compilers[L]
        /\ nest \in Seq(NestSet) /\ classes \in Seq(BOOLEAN) /\ env \in Seq(BindingSet)
        /\ Len(env) \in Nat /\ L \in Nat /\ Len(classes) = Rank(nest, Len(nest))
        /\ current.locals # <<>>
    BY HereLexical
  <2>2. x \in NestSet /\ x.kind = "var" /\ x.level = L /\ x.mark = Len(env) /\ x.name = n
    BY <2>1 DEF Nesting, NestSet
  <2>3. /\ compilers' = [compilers EXCEPT ![L] = c2] /\ nest' = Append(nest, x)
        /\ refs' = {} /\ classes' = classes /\ env' = env
    BY <1>2, <2>1 DEF varDeclaration, Opened, Nesting
  <2>4. n \in LocalName /\ n \in Names \union {"super"}
    BY NamesNamed
  <2>5. c2.type = current.type /\ NamedLocals(c2)
    BY <2>1, <2>4, DeclaredNames
  <2>6. /\ c2 \in CompilerSet /\ c2.upvalues = current.upvalues
        /\ c2.scopeDepth = current.scopeDepth
    <3>1. InStatements
      BY DEF varDeclaration, CanOpen
    <3>2. LevelOK(current, frames[Level], FALSE, Depth(nest, classes, Level), 0, 0)
      BY <3>1, Opening
    <3>3. LocalsOK(current, FALSE)
      BY <3>2 DEF LevelOK
    <3>4. current.scopeDepth > 0 => ~ Full(current)
      BY <1>2 DEF CanDeclare
    <3>5. Keeps(c2, current) /\ c2.scopeDepth = current.scopeDepth
      BY <2>1, <2>4, <3>3, <3>4, Waiting
    <3> QED BY <3>5 DEF Keeps
  <2>7. current.scopeDepth > 0 => c2 = addLocal(current, n)
    <3>1. current.scopeDepth \in Nat
      BY <2>1, Fields
    <3> QED BY <3>1 DEF declareVariable
  <2>8. SameHolds(c2, current)
    <3>1. CASE current.scopeDepth = 0
      BY <3>1 DEF declareVariable, SameHolds
    <3>2. CASE current.scopeDepth # 0
      <4>1. c2 = addLocal(current, n)
        BY <3>2 DEF declareVariable
      <4> QED BY <2>1, <2>4, <4>1, AddedHolds DEF SameHolds
    <3> QED BY <3>1, <3>2
  <2>9. current.scopeDepth > 0 => c2.locals[Len(c2.locals)].name = n
    <3> SUFFICES ASSUME current.scopeDepth > 0 PROVE c2.locals[Len(c2.locals)].name = n
      OBVIOUS
    <3>1. Len(c2.locals) = N + 1 /\ c2.locals[N + 1].name = n
      BY <2>1, <2>4, <2>7, Added, AddedName
    <3> QED BY <3>1
  <2> HIDE DEF x, c2
  <2>10. TopStays(compilers', compilers) /\ TopOnly(compilers', compilers) /\ compilers'[L] = c2
         /\ Len(compilers') = L
    BY <2>3, <2>5, <2>6, TopReplacedStays
  <2>11. Variables(compilers') = Variables(compilers)
    BY <2>1, <2>8, <2>10, SameVariables
  <2>12. AddsClass(classes, x, classes)
    BY <2>2 DEF AddsClass
  <2>13. /\ Lists(env, Variables(compilers)) /\ Marks(Variables(compilers), classes, nest, env)
         /\ AllAround(Variables(compilers), L, Depth(nest, classes, L))
    BY HereLexical
  <2>14. Marks(Variables(compilers), classes, Append(nest, x), env)
    BY <2>1, <2>2, <2>12, <2>13, MarksPush
  <2>15. NamesOK(compilers', Append(nest, x))
    <3>1. /\ Append(nest, x) # <<>> /\ Append(nest, x)[Len(nest) + 1] = x
          /\ Len(Append(nest, x)) = Len(nest) + 1
      BY <2>1, <2>2, Appended
    <3>2. AwaitsName(compilers', Append(nest, x))
      BY <2>2, <2>6, <2>9, <2>10, <3>1 DEF AwaitsName, Waits
    <3> QED BY <2>2, <2>10, <3>2, NamesOpen
  <2>16. Lexical(compilers', classes', nest', env')
    BY <2>3, <2>11, <2>13, <2>14, <2>15 DEF Lexical
  <2> QED BY <2>3, <2>16, NoReference DEF LInv
<1> QED BY <1>1, <1>2

(* A variable that becomes the last of the innermost function.               *)
LEMMA LastFollows ==
  ASSUME NEW cs, NEW cl, NEW ns, NEW fs, Good(cs, cl, ns, fs), NEW w \in VariableSet,
         w.level = Len(cs), NEW s \in Nat, w.slot = s,
         \A v \in Variables(cs) : v.level = Len(cs) => v.slot < s
  PROVE  \A v \in Variables(cs) : Precedes(v, w)
<1> SUFFICES ASSUME NEW v \in Variables(cs) PROVE Precedes(v, w)
  OBVIOUS
<1>1. v.level \in 1 .. Len(cs) /\ Len(cs) \in Nat
  BY VariablesWithin, GoodParts
<1>2. v.level < Len(cs) \/ v.level = Len(cs)
  BY <1>1
<1> QED BY <1>2 DEF Precedes

(* The end of the initializer: the local can be meant from here on.          *)
LEMMA DefineVariableLexical ==
  ASSUME IInv, LInv, defineVariable
  PROVE  LInv' /\ ReferencesAreLexical'
<1> DEFINE c2 == markInitialized(current)
           L == Len(compilers)
           N == Len(current.locals)
           n == Last(nest).name
           V == Variables(compilers)
<1>1. /\ nest # <<>> /\ Last(nest).kind = "var" /\ Kind(nest) = "var"
      /\ Last(nest) \in NestSet /\ Last(nest).mark \in 0 .. Len(env)
  <2>1. Innermost({"var"})
    BY DEF defineVariable
  <2>2. /\ nest # <<>> /\ Last(nest).kind \in {"var"} /\ Kind(nest) = Last(nest).kind
        /\ Last(nest) \in NestSet /\ Last(nest).mark \in 0 .. Len(env)
    BY <2>1, InnermostKind
  <2> QED BY <2>2
<1>2. /\ compilers \in Seq(CompilerSet) /\ compilers # <<>> /\ Level = L
      /\ current \in CompilerSet /\ NamedLocals(current) /\ current = compilers[L]
      /\ nest \in Seq(NestSet) /\ NestOK(nest, L) /\ classes \in Seq(BOOLEAN)
      /\ env \in Seq(BindingSet) /\ TextOK(nest, env)
      /\ Len(env) \in Nat /\ L \in Nat /\ current.locals # <<>> /\ L \in DOMAIN compilers
      /\ Lists(env, V) /\ Marks(V, classes, nest, env) /\ V \in SUBSET VariableSet
  BY HereLexical
<1>3. /\ compilers' = [compilers EXCEPT ![L] = c2] /\ nest' = Front(nest)
      /\ env' = Defined(env, n) /\ refs' = {} /\ classes' = classes
  BY <1>2 DEF defineVariable
<1>4. Good(compilers, classes, nest, frames)
  BY DEF IInv
<1>5. /\ c2 \in CompilerSet /\ c2.type = current.type /\ c2.upvalues = current.upvalues
      /\ NamedLocals(c2)
  BY <1>2, Marked, MarkedNamed DEF Keeps
<1>6. TopStays(compilers', compilers) /\ TopOnly(compilers', compilers) /\ compilers'[L] = c2
  <2> HIDE DEF c2
  <2> QED BY <1>3, <1>5, TopReplacedStays
<1>7. /\ AddsClass(classes, Last(nest), classes) /\ Len(classes) = Rank(Front(nest), Len(Front(nest)))
      /\ ClassesAround(nest, classes) = classes
  <2>1. ClassesAround(nest, classes) = classes
    BY <1>1 DEF ClassesAround
  <2> QED BY <1>1, <1>4, <2>1, ClassesPopped
<1>8. Marks(V, classes, Front(nest), env)
  <2> HIDE DEF V
  <2> QED BY <1>1, <1>2, <1>7, MarksPop
<1>9. NamesOK(compilers', Front(nest))
  BY <1>1, <1>6, NamesClose
<1>10. CASE current.scopeDepth = 0
  <2>1. SameHolds(c2, current)
    BY <1>10 DEF markInitialized, SameHolds
  <2>2. Variables(compilers') = V
    <3> HIDE DEF c2
    <3> QED BY <1>2, <1>6, <2>1, SameVariables
  <2>3. env' = env
    BY <1>3, <1>10 DEF Defined, IsLocal
  <2>4. Lexical(compilers', classes', nest', env')
    BY <1>2, <1>3, <1>8, <1>9, <2>2, <2>3 DEF Lexical
  <2> QED BY <1>3, <2>4, NoReference DEF LInv
<1>11. CASE current.scopeDepth # 0
  <2>1. current.scopeDepth \in Nat /\ current.scopeDepth > 0
    BY <1>2, <1>11, Fields
  <2>2. /\ LocalsOK(current, TRUE)
        /\ current.scopeDepth = Depth(Front(nest), classes, L)
        /\ frames[L].height = N - 1
    <3>1. /\ Deepens(Last(nest), classes) = 0 /\ Adds(Last(nest), "var") = 1
          /\ Adds(Last(nest), "class") = 0
      BY <1>1 DEF Deepens, Scoped, Adds
    <3>2. (Last(nest).kind = "var" /\ compilers[L].scopeDepth > 0) = TRUE
      BY <1>1, <1>2, <2>1
    <3>3. /\ LevelOK(compilers[L], frames[L], TRUE, Depth(Front(nest), classes, L) + 0, 1, 0)
          /\ Depth(Front(nest), classes, L) \in Nat
      <4>1. Last(nest).kind \in {"block", "var", "class"}
        BY <1>1
      <4>2. /\ LevelOK(compilers[Len(compilers)], frames[Len(compilers)],
                       Last(nest).kind = "var" /\ compilers[Len(compilers)].scopeDepth > 0,
                       Depth(Front(nest), ClassesAround(nest, classes), Len(compilers))
                         + Deepens(Last(nest), classes),
                       Adds(Last(nest), "var"), Adds(Last(nest), "class"))
            /\ Depth(Front(nest), ClassesAround(nest, classes), Len(compilers)) \in Nat
        BY <1>1, <1>4, <4>1, TopEnds
      <4> QED BY <1>7, <3>1, <3>2, <4>2
    <3>4. /\ LocalsOK(current, TRUE) /\ current.scopeDepth = Depth(Front(nest), classes, L) + 0
          /\ frames[L].height = N - (IF current.scopeDepth > 0 THEN 1 ELSE 0) + 0
      BY <1>2, <3>3 DEF LevelOK
    <3>5. N \in Nat
      BY <1>2, Fields
    <3>6. current.scopeDepth = Depth(Front(nest), classes, L)
      BY <3>3, <3>4
    <3>7. (IF current.scopeDepth > 0 THEN 1 ELSE 0) = 1
      BY <2>1
    <3>8. frames[L].height = N - 1 + 0
      BY <3>4, <3>7
    <3>9. frames[L].height = N - 1
      BY <3>5, <3>8
    <3> QED BY <3>4, <3>6, <3>9
  <2>3. /\ N > 1 /\ current.locals[N].depth = Uninit /\ N \in Nat /\ N - 1 \in Nat /\ N - 1 # 0
        /\ N \in DOMAIN current.locals
    <3>1. N > 1 /\ current.locals[N].depth = Uninit
      BY <2>2 DEF LocalsOK
    <3>2. N \in Nat /\ DOMAIN current.locals = 1 .. N
      BY <1>2, Fields
    <3> QED BY <3>1, <3>2
  <2>4. current.locals[N].name = n /\ n \in LocalName /\ IsNamed(n)
    <3>1. Waits(compilers, nest, L)
      BY <1>1, <1>2, <2>1 DEF Waits, Last
    <3>2. current.locals[N].name = nest[Len(nest)].name
      BY <1>2, <3>1, HereLexical DEF NamesOK, AwaitsName
    <3>3. current.locals[N].name = n
      BY <3>2 DEF Last
    <3>4. n \in Names \union {"super"}
      BY <1>2, <2>3, <3>3 DEF NamedLocals
    <3>5. "super" \in LocalName /\ IsNamed("super")
      BY DEF LocalName, IsNamed
    <3>6. n \in LocalName /\ IsNamed(n)
      <4> HIDE DEF n
      <4> QED BY <3>4, <3>5, NamesNamed
    <3> QED BY <3>3, <3>6
  <2> DEFINE d == current.scopeDepth
             w == Variable(n, L, N - 1, d)
             b == Binding(n, L, N - 1)
  <2>5. MoreHolds(c2, current, n, N - 1, d)
    <3>1. ASSUME NEW v \in VariableSet
          PROVE  Holds(c2, v) <=> Holds(current, v) \/ NewHere(v, n, N - 1, d)
      <4>1. IsNamed(current.locals[Len(current.locals)].name)
        BY <2>4
      <4>2. Holds(c2, v) <=> \/ Holds(current, v)
                             \/ NewHere(v, current.locals[N].name, N - 1, d)
        BY <1>2, <2>1, <2>3, <4>1, MarkedHolds
      <4> QED BY <2>4, <4>2
    <3> QED BY <3>1 DEF MoreHolds
  <2> HIDE DEF c2
  <2>6. Variables(compilers') = V \union {w}
    <3>1. MoreHolds(compilers'[L], compilers[L], n, N - 1, d)
      BY <1>2, <1>6, <2>5
    <3>2. TopOnly(compilers', compilers) /\ n \in LocalName /\ N - 1 \in Nat /\ N - 1 # 0 /\ d \in Nat
      BY <1>6, <2>1, <2>3, <2>4
    <3>3. \A m \in LocalName, s \in Nat, e \in Nat :
            s # 0 /\ MoreHolds(compilers'[L], compilers[L], m, s, e)
              => Variables(compilers') = Variables(compilers) \union {Variable(m, L, s, e)}
      BY <3>2, MoreVariables
    <3> HIDE DEF n, N, d
    <3> QED BY <3>1, <3>2, <3>3
  <2>7. /\ w \in VariableSet /\ w.level = L /\ w.slot = N - 1 /\ w.depth = d /\ w.name = n
        /\ b \in BindingSet /\ At(b, w)
    <3>1. n \in LocalName /\ N - 1 \in Nat /\ d \in Nat /\ L \in Nat
      BY <1>2, <2>1, <2>3, <2>4
    <3> HIDE DEF n, N, d, L
    <3>2. w \in VariableSet /\ w.level = L /\ w.slot = N - 1 /\ w.depth = d /\ w.name = n
      BY <3>1, VariableMade
    <3>3. b \in BindingSet /\ b.name = n /\ b.level = L /\ b.slot = N - 1
      BY <3>1 DEF Binding, BindingSet
    <3> QED BY <3>2, <3>3 DEF At
  <2>8. env' = Append(env, b)
    <3>1. IsLocal
      BY <2>1 DEF IsLocal
    <3>2. Last(frames) = frames[Level]
      BY Here
    <3> QED BY <1>2, <1>3, <2>2, <3>1, <3>2 DEF Defined
  <2> HIDE DEF w, b
  <2>9. Follows({w}, V, classes, Front(nest))
    <3>1. ASSUME NEW v \in V, v.level = L PROVE v.slot < N - 1
      <4>1. v.slot \in Nat /\ v.slot < N /\ v.depth \in Nat
        BY <1>2, <1>4, <3>1, VariablesWithin
      <4>2. Holds(current, v)
        BY <1>2, <3>1 DEF Variables
      <4>3. current.locals[v.slot + 1].depth # Uninit
        BY <4>1, <4>2 DEF Holds, Uninit
      <4>4. v.slot + 1 # N
        BY <2>3, <4>3
      <4> HIDE DEF N
      <4> QED BY <2>3, <4>1, <4>4
    <3>2. \A v \in V : Precedes(v, w)
      <4>1. w \in VariableSet /\ w.level = Len(compilers) /\ N - 1 \in Nat /\ w.slot = N - 1
        BY <2>3, <2>7
      <4> HIDE DEF N
      <4> QED BY <1>4, <3>1, <4>1, LastFollows
    <3>3. /\ Front(nest) \in Seq(NestSet) /\ NestOK(Front(nest), L)
          /\ Kind(Front(nest)) # "var" /\ Kind(Front(nest)) # "class"
      <4>1. /\ Front(nest) \in Seq(NestSet) /\ NestOK(Front(nest), Last(nest).level)
            /\ Len(compilers) = Inside(Last(nest)) /\ Kind(Front(nest)) # "var"
            /\ (Kind(Front(nest)) = "class" => Last(nest).kind = "method")
        BY <1>1, <1>2, <1>4, <1>7, Ends
      <4>2. Last(nest).level = L
        BY <1>1, <4>1 DEF Inside
      <4> QED BY <1>1, <4>1, <4>2
    <3>4. w.level = L /\ w.depth >= Depth(Front(nest), classes, L)
      BY <2>1, <2>2, <2>7
    <3> HIDE DEF V, L
    <3> QED BY <2>7, <3>2, <3>3, <3>4, NewFollows
  <2>10. TextOK(Front(nest), env)
    <3>1. Last(nest).mark <= Len(env)
      BY <1>1, <1>2
    <3> QED BY <1>1, <1>2, <3>1, TextPop
  <2>11. /\ Lists(Append(env, b), V \union {w})
         /\ Marks(V \union {w}, classes, Front(nest), Append(env, b))
    <3>1. Front(nest) \in Seq(NestSet)
      BY <1>1, <1>2, WithoutLast
    <3> HIDE DEF V
    <3> QED BY <1>2, <1>8, <2>7, <2>9, <2>10, <3>1, TextAppend
  <2>12. Lexical(compilers', classes', nest', env')
    BY <1>3, <1>9, <2>6, <2>8, <2>11 DEF Lexical
  <2> QED BY <1>3, <2>12, NoReference DEF LInv
<1> QED BY <1>10, <1>11

(* The marks fit a longer text.                                              *)
LEMMA TextLonger ==
  ASSUME NEW ns \in Seq(NestSet), NEW e, TextOK(ns, e), NEW e2 \in Seq(BindingSet),
         Len(e) <= Len(e2)
  PROVE  TextOK(ns, e2)
<1>1. e \in Seq(BindingSet) /\ \A i \in DOMAIN ns : ns[i].mark <= Len(e)
  BY DEF TextOK
<1>2. Len(e) \in Nat /\ Len(e2) \in Nat
  BY <1>1, Elements
<1>3. \A i \in DOMAIN ns : ns[i].mark \in Nat
  <2>1. \A i \in DOMAIN ns : ns[i] \in NestSet
    BY Elements
  <2> QED BY <2>1 DEF NestSet
<1>4. \A i \in DOMAIN ns : ns[i].mark <= Len(e2)
  BY <1>1, <1>2, <1>3
<1> QED BY <1>4 DEF TextOK

(* What the invariants say once the name of a function or class is declared. *)
AsText(cs, e) ==
  /\ TopStays(cs, compilers) /\ Chained(cs) /\ cs # <<>> /\ DepthsOK(cs)
  /\ \A k \in DOMAIN cs : cs[k].locals # <<>>
  /\ Lexical(cs, classes, nest, e) /\ TextOK(nest, e)
  /\ Variables(cs) \in SUBSET VariableSet
  /\ AllAround(Variables(cs), Len(compilers), Depth(nest, classes, Len(compilers)))

(* The same, for the compiler of a level that has a name.                    *)
LEMMA MoreVariablesTop ==
  ASSUME NEW cs2, NEW cs, TopOnly(cs2, cs), NEW n \in LocalName, NEW slot \in Nat, slot # 0,
         NEW depth \in Nat, NEW k, k = Len(cs), MoreHolds(cs2[k], cs[k], n, slot, depth)
  PROVE  Variables(cs2) = Variables(cs) \union {Variable(n, k, slot, depth)}
BY MoreVariables

(* The compilers once n is declared.                                         *)
DeclaredAt(cs2, n) == cs2 = [compilers EXCEPT ![Len(compilers)] = Declared(current, n)]

(* The name of a function or class is in scope from here on.                 *)
LEMMA DeclaresText ==
  ASSUME IInv, LInv, InStatements, NEW n \in Names, CanDeclare(current, n),
         NEW cs2, DeclaredAt(cs2, n)
  PROVE  AsText(cs2, Defined(env, n))
<1> DEFINE c2 == Declared(current, n)
           L == Len(compilers)
           N == Len(current.locals)
           V == Variables(compilers)
           d == Depth(nest, classes, L)
           e2 == Defined(env, n)
<1>1. /\ compilers \in Seq(CompilerSet) /\ compilers # <<>> /\ Level = L
      /\ current \in CompilerSet /\ NamedLocals(current) /\ current = compilers[L]
      /\ nest \in Seq(NestSet) /\ NestOK(nest, L) /\ NamesOK(compilers, nest)
      /\ \A k \in DOMAIN compilers : compilers[k].locals # <<>>
      /\ env \in Seq(BindingSet) /\ TextOK(nest, env)
      /\ L \in Nat /\ current.locals # <<>> /\ L \in DOMAIN compilers
      /\ Lists(env, V) /\ Marks(V, classes, nest, env) /\ V \in SUBSET VariableSet
      /\ AllAround(V, L, d) /\ DepthsOK(compilers)
  BY HereLexical
<1>2. /\ Kind(nest) # "var" /\ Kind(nest) # "class" /\ d \in Nat
      /\ LocalsOK(current, FALSE) /\ current.scopeDepth = d /\ frames[L].height = N
  <2>1. /\ Kind(nest) # "var" /\ Kind(nest) # "class"
        /\ LevelOK(current, frames[Level], FALSE, Depth(nest, classes, Level), 0, 0)
        /\ Depth(nest, classes, Level) \in Nat
    BY Opening
  <2>2. /\ LocalsOK(current, FALSE) /\ current.scopeDepth = d
        /\ frames[L].height = N - (IF current.scopeDepth > 0 THEN 0 ELSE 0) + 0
    BY <1>1, <2>1 DEF LevelOK
  <2>3. (IF current.scopeDepth > 0 THEN 0 ELSE 0) = 0 /\ N \in Nat
    BY <1>1, Fields
  <2>4. frames[L].height = N
    BY <2>2, <2>3
  <2> QED BY <1>1, <2>1, <2>2, <2>4
<1>3. N \in Nat /\ N # 0
  BY <1>1, Fields, Elements
<1>4. n \in LocalName /\ IsNamed(n) /\ n \in Names \union {"super"}
  BY NamesNamed
<1>5. /\ c2 \in CompilerSet /\ c2.upvalues = current.upvalues /\ c2.type = current.type
      /\ NamedLocals(c2) /\ LocalsOK(c2, FALSE)
  <2>1. /\ c2 \in CompilerSet /\ c2.upvalues = current.upvalues
        /\ LevelOK(c2, frames[Level], FALSE, Depth(nest, classes, Level), 1, 0)
    BY DeclaresTop
  <2>2. LocalsOK(c2, FALSE)
    BY <2>1 DEF LevelOK
  <2>3. c2.type = current.type /\ NamedLocals(c2)
    BY <1>1, <1>4, DeclaredNames
  <2> QED BY <2>1, <2>2, <2>3
<1>6. cs2 = [compilers EXCEPT ![L] = c2]
  BY DEF DeclaredAt
<1> HIDE DEF c2
<1>7. /\ TopStays(cs2, compilers) /\ TopOnly(cs2, compilers) /\ Chained(cs2)
      /\ cs2[L] = c2 /\ Len(cs2) = L /\ cs2 \in Seq(CompilerSet)
      /\ OthersStay(cs2, compilers) /\ cs2 # <<>>
  BY <1>5, <1>6, TopReplacedStays
<1>8. DepthsOK(cs2)
  BY <1>1, <1>5, <1>7, DepthsOn
<1>9. \A k \in DOMAIN cs2 : cs2[k].locals # <<>>
  <2> SUFFICES ASSUME NEW k \in DOMAIN cs2 PROVE cs2[k].locals # <<>>
    OBVIOUS
  <2>1. k \in DOMAIN compilers /\ compilers[k] \in CompilerSet /\ cs2[k] \in CompilerSet
        /\ (k # L => Extended(cs2[k], compilers[k]))
    BY <1>7, OtherLevels
  <2>2. CASE k = L
    BY <1>5, <1>7, <2>2, SomeLocals
  <2>3. CASE k # L
    <3>1. Len(cs2[k].locals) = Len(compilers[k].locals) /\ compilers[k].locals # <<>>
      BY <1>1, <2>1, <2>3 DEF Extended
    <3>2. cs2[k].locals \in Seq(LocalSet) /\ compilers[k].locals \in Seq(LocalSet)
      BY <2>1, Fields
    <3>3. Len(compilers[k].locals) # 0
      BY <3>1, <3>2, Elements
    <3> QED BY <3>1, <3>2, <3>3, Elements
  <2> QED BY <2>2, <2>3
<1>10. NamesOK(cs2, nest)
  <2>1. MethodsOf(nest, nest)
    BY DEF MethodsOf
  <2>2. AwaitsName(cs2, nest)
    BY <1>2, NoneWaits
  <2> QED BY <1>1, <1>7, <2>1, <2>2, NamesOn
<1>11. /\ e2 \in Seq(BindingSet) /\ TextOK(nest, e2)
  <2>1. e2 \in Seq(BindingSet) /\ Len(env) <= Len(e2)
    BY <1>1, <1>4, DefinedOK
  <2> HIDE DEF e2
  <2> QED BY <1>1, <2>1, TextLonger
<1>12. /\ Lists(e2, Variables(cs2)) /\ Marks(Variables(cs2), classes, nest, e2)
       /\ Variables(cs2) \in SUBSET VariableSet /\ AllAround(Variables(cs2), L, d)
  <2>1. CASE d = 0
    <3>1. c2 = current
      BY <1>2, <2>1 DEF c2, Declared, declareVariable, markInitialized
    <3>2. SameHolds(cs2[L], compilers[L])
      BY <1>1, <1>7, <3>1 DEF SameHolds
    <3>3. Variables(cs2) = V
      BY <1>7, <3>2, SameVariables
    <3>4. e2 = env
      BY <1>2, <2>1 DEF Defined, IsLocal
    <3> QED BY <1>1, <3>3, <3>4
  <2>2. CASE d # 0
    <3> DEFINE w == Variable(n, L, N, d)
               b == Binding(n, L, N)
    <3>1. d > 0 /\ current.scopeDepth > 0
      BY <1>2, <2>2
    <3>2. MoreHolds(cs2[L], compilers[L], n, N, d)
      <4>1. ASSUME NEW v \in VariableSet
            PROVE  Holds(c2, v) <=> Holds(current, v) \/ NewHere(v, n, N, current.scopeDepth)
        BY <1>1, <1>4, <3>1, DeclaredHolds DEF c2
      <4> QED BY <1>1, <1>2, <1>7, <4>1 DEF MoreHolds
    <3>3. Variables(cs2) = V \union {w}
      <4>1. TopOnly(cs2, compilers) /\ n \in LocalName /\ N \in Nat /\ N # 0 /\ d \in Nat
        BY <1>2, <1>3, <1>4, <1>7
      <4>2. L = Len(compilers) /\ MoreHolds(cs2[L], compilers[L], n, N, d)
        BY <3>2
      <4>3. TopOnly(cs2, compilers)
        BY <4>1
      <4>4. n \in LocalName
        BY <4>1
      <4>5. N \in Nat /\ N # 0 /\ d \in Nat
        BY <4>1
      <4> HIDE DEF N, d, V, L, w
      <4>6. Variables(cs2) = Variables(compilers) \union {Variable(n, L, N, d)}
        BY <4>2, <4>3, <4>4, <4>5, MoreVariablesTop
      <4> QED BY <4>6 DEF V, w
    <3>4. /\ w \in VariableSet /\ w.level = L /\ w.slot = N /\ w.depth = d /\ w.name = n
          /\ b \in BindingSet /\ At(b, w)
      <4>0. n \in LocalName /\ N \in Nat /\ d \in Nat /\ L \in Nat
        BY <1>1, <1>2, <1>3, <1>4
      <4> HIDE DEF N, d, L
      <4>1. w \in VariableSet /\ w.level = L /\ w.slot = N /\ w.depth = d /\ w.name = n
        BY <4>0, VariableMade
      <4>2. b \in BindingSet /\ b.name = n /\ b.level = L /\ b.slot = N
        BY <4>0 DEF Binding, BindingSet
      <4> QED BY <4>1, <4>2 DEF At
    <3>5. e2 = Append(env, b)
      <4>1. IsLocal
        BY <3>1 DEF IsLocal
      <4>2. Last(frames) = frames[Level]
        BY Here
      <4> QED BY <1>1, <1>2, <4>1, <4>2 DEF Defined
    <3> HIDE DEF w, b, e2
    <3>6. Good(compilers, classes, nest, frames)
      BY DEF IInv
    <3>7. \A v \in V : Precedes(v, w)
      <4>1. \A v \in V : v.level = L => v.slot < N
        BY <1>1, <3>6, VariablesWithin
      <4>2. w \in VariableSet /\ w.level = Len(compilers) /\ N \in Nat /\ w.slot = N
        BY <1>3, <3>4
      <4> HIDE DEF N
      <4> QED BY <3>6, <4>1, <4>2, LastFollows
    <3>8. Follows({w}, V, classes, nest)
      <4>1. w.depth >= Depth(nest, classes, L)
        BY <1>2, <3>4
      <4> HIDE DEF V, L
      <4> QED BY <1>1, <1>2, <3>4, <3>7, <4>1, NewFollows
    <3>9. /\ Lists(Append(env, b), V \union {w}) /\ Marks(V \union {w}, classes, nest, Append(env, b))
      <4> HIDE DEF V
      <4> QED BY <1>1, <3>4, <3>8, TextAppend
    <3>10. AllAround(V \union {w}, L, d)
      <4>1. Around(w, L, d)
        BY <1>2, <3>4 DEF Around
      <4> QED BY <1>1, <4>1 DEF AllAround
    <3>11. V \union {w} \in SUBSET VariableSet
      BY <1>1, <3>4
    <3> QED BY <3>3, <3>5, <3>9, <3>10, <3>11
  <2> QED BY <2>1, <2>2
<1>13. Lexical(cs2, classes, nest, e2)
  BY <1>10, <1>12 DEF Lexical
<1> QED BY <1>7, <1>8, <1>9, <1>11, <1>12, <1>13 DEF AsText

-----------------------------------------------------------------------------
(* A function opens: its callee's slot and its parameters are in scope.      *)

(* A declaration in a scope adds one local, with the depth of the scope.     *)
LEMMA DeclaredLocals ==
  ASSUME NEW c \in CompilerSet, c.scopeDepth > 0, NEW n \in LocalName
  PROVE  /\ Declared(c, n) \in CompilerSet /\ Declared(c, n).scopeDepth = c.scopeDepth
         /\ Len(Declared(c, n).locals) = Len(c.locals) + 1
         /\ Declared(c, n).locals[Len(c.locals) + 1].name = n
         /\ Declared(c, n).locals[Len(c.locals) + 1].depth = c.scopeDepth
         /\ \A i \in DOMAIN c.locals :
              /\ Declared(c, n).locals[i].name = c.locals[i].name
              /\ Declared(c, n).locals[i].depth = c.locals[i].depth
<1> DEFINE a == addLocal(c, n)
           N == Len(c.locals)
<1>1. N \in Nat /\ DOMAIN c.locals = 1 .. N /\ c.scopeDepth \in Nat
  BY Fields
<1>2. /\ a \in CompilerSet /\ a.scopeDepth = c.scopeDepth /\ Len(a.locals) = N + 1
      /\ \A i \in DOMAIN c.locals : a.locals[i] = c.locals[i]
  BY Added DEF Keeps
<1>3. a.locals[N + 1].name = n
  BY AddedName
<1>4. Declared(c, n) = markInitialized(a)
  <2>1. c.scopeDepth # 0
    BY <1>1
  <2> QED BY <2>1 DEF Declared, declareVariable
<1> HIDE DEF a
<1>5. DOMAIN a.locals = 1 .. N + 1 /\ a.locals # <<>>
  BY <1>1, <1>2, Fields, Elements
<1>6. /\ markInitialized(a) \in CompilerSet /\ markInitialized(a).scopeDepth = a.scopeDepth
      /\ Len(markInitialized(a).locals) = Len(a.locals)
      /\ \A i \in DOMAIN a.locals :
           markInitialized(a).locals[i].depth
             = IF a.scopeDepth > 0 /\ i = Len(a.locals) THEN a.scopeDepth ELSE a.locals[i].depth
  BY <1>2, <1>5, Marked DEF Keeps
<1>7. \A i \in DOMAIN a.locals : markInitialized(a).locals[i].name = a.locals[i].name
  BY <1>2, <1>5, MarkedNames
<1>8. N + 1 \in DOMAIN a.locals /\ \A i \in 1 .. N : i \in DOMAIN a.locals /\ i # N + 1
  BY <1>1, <1>5
<1> HIDE DEF N
<1>9. /\ markInitialized(a).locals[N + 1].name = n
      /\ markInitialized(a).locals[N + 1].depth = c.scopeDepth
  BY <1>2, <1>3, <1>6, <1>7, <1>8
<1>10. ASSUME NEW i \in DOMAIN c.locals
       PROVE  /\ markInitialized(a).locals[i].name = c.locals[i].name
              /\ markInitialized(a).locals[i].depth = c.locals[i].depth
  BY <1>1, <1>2, <1>6, <1>7, <1>8
<1> QED BY <1>2, <1>4, <1>6, <1>9, <1>10 DEF N

(* A compiler whose locals are m of the parameters, above the callee's.      *)
Named(c, type, ps, m) ==
  /\ c \in CompilerSet /\ c.scopeDepth = 1 /\ c.type = type /\ NamedLocals(c)
  /\ Len(c.locals) = m + 1 /\ c.locals[1].depth = 0
  /\ \A i \in 1 .. m : c.locals[i + 1].name = ps[i] /\ c.locals[i + 1].depth = 1

(* One parameter more.                                                       *)
LEMMA NamedMore ==
  ASSUME NEW c, NEW type, NEW ps, NEW m \in Nat, Named(c, type, ps, m), ps[m + 1] \in Names
  PROVE  Named(Declared(c, ps[m + 1]), type, ps, m + 1)
<1> DEFINE n == ps[m + 1]
           c2 == Declared(c, n)
<1>1. /\ c \in CompilerSet /\ c.scopeDepth = 1 /\ c.type = type /\ NamedLocals(c)
      /\ Len(c.locals) = m + 1 /\ c.locals[1].depth = 0
      /\ \A i \in 1 .. m : c.locals[i + 1].name = ps[i] /\ c.locals[i + 1].depth = 1
  BY DEF Named
<1>2. n \in LocalName /\ n \in Names \union {"super"} /\ c.scopeDepth > 0
  BY <1>1, NamesNamed
<1>3. DOMAIN c.locals = 1 .. m + 1 /\ c.locals # <<>>
  BY <1>1, Fields, Elements
<1> HIDE DEF n
<1>4. /\ c2 \in CompilerSet /\ c2.scopeDepth = c.scopeDepth /\ Len(c2.locals) = Len(c.locals) + 1
      /\ c2.locals[Len(c.locals) + 1].name = n
      /\ c2.locals[Len(c.locals) + 1].depth = c.scopeDepth
      /\ \A i \in DOMAIN c.locals :
           c2.locals[i].name = c.locals[i].name /\ c2.locals[i].depth = c.locals[i].depth
  BY <1>1, <1>2, DeclaredLocals
<1>5. c2.type = c.type /\ NamedLocals(c2)
  BY <1>1, <1>2, <1>3, DeclaredNames
<1> HIDE DEF c2
<1>6. ASSUME NEW i \in 1 .. m + 1
      PROVE  c2.locals[i + 1].name = ps[i] /\ c2.locals[i + 1].depth = 1
  <2>1. CASE i = m + 1
    BY <1>1, <1>4, <2>1 DEF n
  <2>2. CASE i # m + 1
    <3>1. i \in 1 .. m /\ i + 1 \in 1 .. m + 1
      BY <2>2
    <3> QED BY <1>1, <1>3, <1>4, <3>1
  <2> QED BY <2>1, <2>2
<1>7. 1 \in DOMAIN c.locals
  BY <1>3
<1> QED BY <1>1, <1>4, <1>5, <1>6, <1>7 DEF Named, n, c2

(* So the parameters are locals 1 and on, in their order.                    *)
LEMMA ParameterNames ==
  ASSUME NEW type \in {"function", "method", "initializer"},
         NEW n \in Nat, NEW ps \in [1 .. n -> Names]
  PROVE  Named(Parameters(type, ps), type, ps, n)
<1>1. PICK f : Declares(f, type, ps, n) /\ Parameters(type, ps) = f[1 .. n]
  BY ParametersFold
<1> DEFINE S == {m \in 0 .. n : Named(f[1 .. m], type, ps, m)}
<1>2. 0 \in S
  <2> DEFINE c == initCompiler(type)
             b == beginScope(c)
  <2>1. /\ c \in CompilerSet /\ c.scopeDepth = 0 /\ c.upvalues = <<>> /\ Len(c.locals) = 1
        /\ c.locals[1].depth = 0
    BY NewCompiler
  <2>2. c.type = type /\ NamedLocals(c)
    BY CalleeNamed
  <2> HIDE DEF c
  <2>3. /\ b \in CompilerSet /\ b.scopeDepth = 1 /\ b.locals = c.locals
        /\ b.type = type /\ NamedLocals(b)
    BY <2>1, <2>2, Begun, BegunNames DEF Keeps
  <2>4. f[1 .. 0] = b
    BY <1>1 DEF Declares, c
  <2> HIDE DEF b
  <2>5. Len(b.locals) = 0 + 1 /\ b.locals[1].depth = 0
    BY <2>1, <2>3
  <2>6. \A i \in 1 .. 0 : FALSE
    OBVIOUS
  <2>7. Named(b, type, ps, 0)
    BY <2>3, <2>5, <2>6 DEF Named
  <2> QED BY <2>4, <2>7
<1>3. ASSUME NEW m \in 1 .. n, m - 1 \in S PROVE m \in S
  <2> DEFINE c == f[1 .. m - 1]
  <2>1. Named(c, type, ps, m - 1) /\ m - 1 \in Nat /\ m - 1 + 1 = m
    BY <1>3
  <2>2. f[1 .. m] = Declared(c, ps[m]) /\ ps[m] \in Names
    BY <1>1 DEF Declares
  <2> HIDE DEF c
  <2>3. Named(Declared(c, ps[m]), type, ps, m)
    BY <2>1, <2>2, NamedMore
  <2> QED BY <2>2, <2>3
<1>4. \A m \in 0 .. n : m \in S
  <2> HIDE DEF S
  <2> QED BY <1>2, <1>3, UpTo
<1>5. n \in S
  <2> HIDE DEF S
  <2> QED BY <1>4
<1> QED BY <1>1, <1>5

(* What the text says of them: of the callee only in a method, then of each. *)
LEMMA CalleeEach ==
  ASSUME NEW type, NEW ps \in ParamLists, Level \in Nat,
         NEW k \in {0, 1}, k = 0 <=> type = "function"
  PROVE  /\ Callee(type, ps) \in Seq(BindingSet) /\ Len(Callee(type, ps)) = k + Len(ps)
         /\ \A j \in 1 .. k + Len(ps) :
              Callee(type, ps)[j] = IF j = k THEN Binding("this", Level + 1, 0)
                                    ELSE Binding(ps[j - k], Level + 1, j - k)
<1> DEFINE a == IF type = "function" THEN <<>> ELSE <<Binding("this", Level + 1, 0)>>
           b == [i \in DOMAIN ps |-> Binding(ps[i], Level + 1, i)]
<1>1. Len(ps) \in Nat /\ ps \in [1 .. Len(ps) -> Names] /\ DOMAIN ps = 1 .. Len(ps)
  BY ParamList
<1>2. Level + 1 \in Nat /\ 0 \in Nat
  OBVIOUS
<1>3. a \in Seq(BindingSet) /\ Len(a) = k /\ (k = 1 => a[1] = Binding("this", Level + 1, 0))
  <2>1. Binding("this", Level + 1, 0) \in BindingSet
    BY <1>2 DEF Binding, BindingSet, LocalName
  <2>2. CASE k = 0
    BY <2>2
  <2>3. CASE k = 1
    <3>1. a = <<Binding("this", Level + 1, 0)>>
      BY <2>3
    <3> HIDE DEF a
    <3> QED BY <2>1, <2>3, <3>1
  <2> QED BY <2>2, <2>3
<1>4. b \in Seq(BindingSet) /\ Len(b) = Len(ps)
  <2>1. ASSUME NEW i \in 1 .. Len(ps) PROVE Binding(ps[i], Level + 1, i) \in BindingSet
    <3>1. ps[i] \in LocalName
      BY <1>1 DEF LocalName
    <3>2. i \in Nat
      BY <1>1
    <3> QED BY <1>2, <3>1, <3>2 DEF Binding, BindingSet
  <2>2. b \in [1 .. Len(ps) -> BindingSet]
    BY <1>1, <2>1
  <2> HIDE DEF b
  <2> QED BY <1>1, <2>2
<1>5. \A i \in 1 .. Len(ps) : b[i] = Binding(ps[i], Level + 1, i)
  BY <1>1
<1>6. Callee(type, ps) = a \o b
  BY DEF Callee
<1> HIDE DEF a, b
<1>7. /\ a \o b \in Seq(BindingSet) /\ Len(a \o b) = k + Len(ps)
      /\ \A i \in 1 .. k + Len(ps) : (a \o b)[i] = IF i <= k THEN a[i] ELSE b[i - k]
  BY <1>3, <1>4, ConcatProperties
<1> DEFINE c == a \o b
<1>8. /\ c \in Seq(BindingSet) /\ Len(c) = k + Len(ps) /\ Callee(type, ps) = c
      /\ \A i \in 1 .. k + Len(ps) : c[i] = IF i <= k THEN a[i] ELSE b[i - k]
  BY <1>6, <1>7
<1> HIDE DEF c
<1>9. ASSUME NEW j \in 1 .. k + Len(ps)
      PROVE  c[j] = IF j = k THEN Binding("this", Level + 1, 0)
                    ELSE Binding(ps[j - k], Level + 1, j - k)
  <2>1. CASE j = k
    <3>1. k = 1 /\ j = 1 /\ j <= k
      BY <2>1
    <3> QED BY <1>3, <1>8, <2>1, <3>1
  <2>2. CASE j # k
    <3>1. ~ (j <= k) /\ j - k \in 1 .. Len(ps)
      BY <1>1, <2>2
    <3> QED BY <1>5, <1>8, <2>2, <3>1
  <2> QED BY <2>1, <2>2
<1> QED BY <1>8, <1>9

(* The name of slot 0 can be meant when the callee is a method.              *)
LEMMA CalleeIs ==
  ASSUME NEW type
  PROVE  /\ type = "function" => ~ IsNamed(CalleeName(type))
         /\ type # "function" => CalleeName(type) = "this" /\ IsNamed(CalleeName(type))
<1>1. type = "function" => ~ IsNamed(CalleeName(type))
  BY Zenon DEF CalleeName, IsNamed
<1>2. type # "function" => CalleeName(type) = "this"
  BY Zenon DEF CalleeName
<1>3. "this" # ""
  OBVIOUS
<1> QED BY <1>1, <1>2, <1>3 DEF IsNamed

(* What a binding is.                                                        *)
LEMMA BindingIs ==
  ASSUME NEW n, NEW l, NEW s
  PROVE  Binding(n, l, s).name = n /\ Binding(n, l, s).level = l /\ Binding(n, l, s).slot = s
BY DEF Binding

(* The text has exactly the function's variables.                            *)
LEMMA CalleeLists ==
  ASSUME NEW type \in {"function", "method", "initializer"}, NEW ps \in ParamLists,
         Level \in Nat, NEW c, Named(c, type, ps, Len(ps))
  PROVE  Lists(Callee(type, ps), Own(c, Level + 1))
<1> DEFINE T == Callee(type, ps)
           n == Len(ps)
           l == Level + 1
           W == Own(c, l)
<1>1. n \in Nat /\ ps \in [1 .. n -> Names] /\ l \in Nat
  BY ParamList
<1>2. PICK k \in {0, 1} : k = 0 <=> type = "function"
  <2>1. CASE type = "function"
    BY <2>1
  <2>2. CASE type # "function"
    <3>1. 1 \in {0, 1} /\ 1 # 0
      OBVIOUS
    <3> QED BY <2>2, <3>1
  <2> QED BY <2>1, <2>2
<1>3. /\ T \in Seq(BindingSet) /\ Len(T) = k + n
      /\ \A j \in 1 .. k + n : T[j] = IF j = k THEN Binding("this", l, 0)
                                      ELSE Binding(ps[j - k], l, j - k)
  BY <1>2, CalleeEach
<1>4. /\ c \in CompilerSet /\ c.type = type /\ c.locals[1].name = CalleeName(type)
      /\ Len(c.locals) = n + 1 /\ c.locals[1].depth = 0 /\ DOMAIN c.locals = 1 .. n + 1
      /\ \A i \in 1 .. n : c.locals[i + 1].name = ps[i] /\ c.locals[i + 1].depth = 1
  BY Fields DEF Named, NamedLocals
<1> HIDE DEF T, n, l, W
<1>5. DOMAIN T = 1 .. k + n /\ k \in Nat
  <2>1. DOMAIN T = 1 .. Len(T)
    BY <1>3, Elements
  <2> QED BY <1>3, <2>1
<1>6. ASSUME NEW j \in 1 .. k + n
      PROVE  /\ T[j].level = l /\ T[j].slot = j - k /\ j - k \in Nat /\ j - k + 1 \in DOMAIN c.locals
             /\ c.locals[j - k + 1].name = T[j].name /\ IsNamed(T[j].name)
             /\ T[j].name \in LocalName /\ c.locals[j - k + 1].depth \in Nat
  <2>1. CASE j = k
    <3>1. k # 0 /\ j - k = 0 /\ j - k + 1 = 1 /\ 1 \in 1 .. n + 1 /\ 0 \in Nat
      BY <1>1, <2>1
    <3>2. T[j] = Binding("this", l, 0)
      BY <1>3, <2>1
    <3>3. T[j].level = l /\ T[j].slot = 0 /\ T[j].name = "this"
      BY <3>2, BindingIs
    <3>4. CalleeName(type) = "this" /\ IsNamed(CalleeName(type))
      BY <1>2, <3>1, CalleeIs
    <3>5. "this" \in LocalName
      BY DEF LocalName
    <3> QED BY <1>4, <3>1, <3>3, <3>4, <3>5
  <2>2. CASE j # k
    <3>1. j - k \in 1 .. n /\ j - k \in Nat /\ j - k + 1 \in 1 .. n + 1 /\ 1 \in Nat
      BY <1>1, <2>2
    <3>2. T[j] = Binding(ps[j - k], l, j - k) /\ ps[j - k] \in Names
      BY <1>1, <1>3, <2>2, <3>1
    <3>3. T[j].level = l /\ T[j].slot = j - k /\ T[j].name = ps[j - k]
      BY <3>2, BindingIs
    <3>4. ps[j - k] \in LocalName /\ IsNamed(ps[j - k])
      BY <3>2, NamesNamed
    <3>5. c.locals[j - k + 1].name = ps[j - k] /\ c.locals[j - k + 1].depth = 1
      BY <1>4, <3>1
    <3> QED BY <1>4, <3>1, <3>3, <3>4, <3>5
  <2> QED BY <2>1, <2>2
<1>7. ASSUME NEW j \in DOMAIN T PROVE \E v \in W : At(T[j], v)
  <2> DEFINE x == j - k + 1
             s == j - k
             m == T[j].name
             d == c.locals[x].depth
             v == Variable(m, l, s, d)
  <2>1. /\ T[j].level = l /\ T[j].slot = s /\ s \in Nat /\ x \in DOMAIN c.locals
        /\ c.locals[x].name = m /\ T[j].name = m /\ IsNamed(m)
        /\ m \in LocalName /\ c.locals[x].depth = d /\ d \in Nat /\ s + 1 = x
    BY <1>5, <1>6
  <2> HIDE DEF x, s, m, d
  <2>2. v \in VariableSet /\ v.name = m /\ v.level = l /\ v.slot = s /\ v.depth = d
    BY <1>1, <2>1, VariableMade
  <2> HIDE DEF v
  <2>3. Holds(c, v)
    BY <2>1, <2>2 DEF Holds
  <2>4. v \in W /\ At(T[j], v)
    BY <2>1, <2>2, <2>3 DEF W, Own, At
  <2> QED BY <2>4
<1>8. ASSUME NEW v \in W PROVE \E j \in DOMAIN T : At(T[j], v)
  <2> DEFINE s == v.slot
             j == s + k
  <2>1. v \in VariableSet /\ v.level = l /\ Holds(c, v)
    BY DEF W, Own
  <2>2. s \in Nat /\ s + 1 \in 1 .. n + 1 /\ c.locals[s + 1].name = v.name /\ IsNamed(v.name)
    BY <1>4, <2>1, VariableFields DEF Holds
  <2>3. s = 0 => k = 1
    <3> SUFFICES ASSUME s = 0 PROVE k = 1
      OBVIOUS
    <3>1. s + 1 = 1
      OBVIOUS
    <3>2. v.name = CalleeName(type)
      BY <1>4, <2>2, <3>1
    <3>3. type # "function"
      BY <2>2, <3>2, CalleeIs
    <3> QED BY <1>2, <3>3
  <2>4. j \in 1 .. k + n /\ j - k = s
    BY <1>1, <2>2, <2>3
  <2> HIDE DEF s, j
  <2>5. T[j].level = l /\ T[j].slot = s /\ c.locals[s + 1].name = T[j].name
    BY <1>6, <2>4
  <2>6. At(T[j], v)
    BY <2>1, <2>2, <2>5 DEF At, s
  <2> QED BY <1>5, <2>4, <2>6
<1>9. ASSUME NEW i \in DOMAIN T, NEW j \in DOMAIN T, i < j PROVE Precedes(T[i], T[j])
  <2>1. T[i].level = l /\ T[j].level = l /\ T[i].slot = i - k /\ T[j].slot = j - k
    BY <1>5, <1>6
  <2>2. i - k < j - k
    BY <1>1, <1>5, <1>9
  <2> QED BY <2>1, <2>2 DEF Precedes
<1>10. Lists(T, W)
  BY <1>7, <1>8, <1>9 DEF Lists
<1> QED BY <1>10 DEF T, W, l

(* The names, when a function opens.                                         *)
LEMMA NamesEnter ==
  ASSUME NEW cs \in Seq(CompilerSet), cs # <<>>, NEW ns \in Seq(NestSet), NestOK(ns, Len(cs)),
         NamesOK(cs, ns), NEW c \in CompilerSet, NamedLocals(c),
         NEW x \in NestSet, x.kind # "var", x.kind = "method" => Inside(x) = Len(cs) + 1,
         x.kind = "method" => c.type # "function"
  PROVE  NamesOK(Append(cs, c), Append(ns, x))
<1> DEFINE L == Len(cs)
           r == Append(cs, c)
           s == Append(ns, x)
<1>1. /\ L \in Nat \ {0} /\ DOMAIN cs = 1 .. L /\ DOMAIN r = DOMAIN cs \union {L + 1}
      /\ r[L + 1] = c /\ \A k \in DOMAIN cs : r[k] = cs[k]
  <2>1. Len(cs) \in Nat /\ DOMAIN cs = 1 .. Len(cs) /\ Len(cs) # 0
    BY Elements
  <2> QED BY <2>1, Appended
<1>2. /\ DOMAIN s = DOMAIN ns \union {Len(ns) + 1} /\ s[Len(ns) + 1] = x
      /\ \A i \in DOMAIN ns : s[i] = ns[i]
  BY Appended
<1>3. Kind(s) = x.kind
  BY Appended DEF Kind
<1>4. \A i \in DOMAIN ns : Inside(ns[i]) \in 1 .. L
  BY InsideOpen
<1> HIDE DEF r, s
<1>5. r[1].type = "script"
  <2>1. 1 \in DOMAIN cs
    BY <1>1
  <2> QED BY <1>1, <2>1 DEF NamesOK
<1>6. AllNamed(r)
  <2>1. \A k \in DOMAIN r : k \in DOMAIN cs \/ k = L + 1
    BY <1>1
  <2> HIDE DEF L
  <2> QED BY <1>1, <2>1 DEF NamesOK, AllNamed
<1>7. MethodsNamed(r, s)
  <2> SUFFICES ASSUME NEW i \in DOMAIN s, s[i].kind = "method"
               PROVE  r[Inside(s[i])].type # "function"
    BY DEF MethodsNamed
  <2>1. CASE i \in DOMAIN ns
    <3>1. s[i] = ns[i] /\ Inside(ns[i]) \in DOMAIN cs
      BY <1>1, <1>2, <1>4, <2>1
    <3>2. cs[Inside(ns[i])].type # "function"
      BY <2>1, <3>1 DEF NamesOK, MethodsNamed
    <3> QED BY <1>1, <3>1, <3>2
  <2>2. CASE i = Len(ns) + 1
    <3>1. s[i] = x /\ Inside(x) = L + 1
      BY <1>2, <2>2
    <3> QED BY <1>1, <3>1
  <2> QED BY <1>2, <2>1, <2>2
<1>8. AwaitsName(r, s)
  BY <1>3, NoneWaits
<1>9. NamesOK(r, s)
  BY <1>5, <1>6, <1>7, <1>8 DEF NamesOK
<1> QED BY <1>9 DEF r, s

(* A function or method opens, once its own name is declared.                *)
LEMMA EnterLexical ==
  ASSUME IInv, LInv, NEW kind \in {"fun", "method"},
         NEW type \in {"function", "method", "initializer"}, kind = "method" => type # "function",
         NEW ps \in ParamLists, NEW cs2, NEW e2, AsText(cs2, e2), Enter(cs2, kind, type, ps, e2)
  PROVE  LInv' /\ ReferencesAreLexical'
<1>1. CASE ParametersClash(type, ps)
  BY <1>1, AfreshLexical DEF Enter, Error
<1>2. CASE ~ ParametersClash(type, ps)
  <2> DEFINE x == Nesting(kind, "", Level, Len(e2))
             c == Parameters(type, ps)
             T == Callee(type, ps)
             L == Len(compilers)
             V == Variables(cs2)
             W == Own(c, L + 1)
             r == Append(nest, x)
  <2>1. /\ Level = L /\ L \in Nat /\ nest \in Seq(NestSet) /\ NestOK(nest, L)
        /\ classes \in Seq(BOOLEAN) /\ Len(classes) = Rank(nest, Len(nest))
    BY HereLexical
  <2>2. /\ TopStays(cs2, compilers) /\ cs2 # <<>> /\ TextOK(nest, e2)
        /\ Lists(e2, V) /\ Marks(V, classes, nest, e2) /\ NamesOK(cs2, nest)
        /\ V \in SUBSET VariableSet /\ AllAround(V, L, Depth(nest, classes, L))
    BY DEF AsText, Lexical
  <2>3. cs2 \in Seq(CompilerSet) /\ Len(cs2) = L
    BY <2>2 DEF TopStays, OthersStay
  <2>4. e2 \in Seq(BindingSet) /\ Len(e2) \in Nat
    BY <2>2, Elements DEF TextOK
  <2>5. x \in NestSet /\ x.kind = kind /\ x.level = L /\ x.mark = Len(e2)
    BY <2>1, <2>4 DEF Nesting, NestSet
  <2>6. /\ compilers' = Append(cs2, c) /\ nest' = r /\ env' = e2 \o T
        /\ classes' = classes /\ refs' = {}
    BY <1>2 DEF Enter, Opened, Nesting
  <2>7. Named(c, type, ps, Len(ps))
    BY ParamList, ParameterNames
  <2>8. c \in CompilerSet /\ c.type = type /\ NamedLocals(c)
    BY <2>7 DEF Named
  <2>9. T \in Seq(BindingSet)
    <3>1. CASE type = "function"
      BY <2>1, <3>1, CalleeEach
    <3>2. CASE type # "function"
      BY <2>1, <3>2, CalleeEach
    <3> QED BY <3>1, <3>2
  <2>10. Lists(T, W)
    <3>1. Lists(Callee(type, ps), Own(Parameters(type, ps), Level + 1))
      BY <2>1, <2>7, CalleeLists
    <3> QED BY <2>1, <3>1
  <2>11. W \in SUBSET VariableSet /\ \A w \in W : w.level = L + 1
    BY DEF Own
  <2> HIDE DEF x, c, T, V
  <2>12. Variables(Append(cs2, c)) = V \union W
    BY <2>2, <2>3, <2>8, EnterVariables DEF V
  <2> HIDE DEF W
  <2>13. AddsClass(classes, x, classes)
    BY <2>5 DEF AddsClass
  <2>14. Marks(V, classes, r, e2) /\ TextOK(r, e2) /\ r \in Seq(NestSet)
    <3>1. AllAround(V, x.level, Depth(nest, classes, x.level))
      BY <2>2, <2>5
    <3>2. Marks(V, classes, r, e2)
      BY <2>1, <2>2, <2>4, <2>5, <2>13, <3>1, MarksPush
    <3>3. Len(e2) <= x.mark /\ x.mark <= Len(e2)
      BY <2>4, <2>5
    <3> QED BY <2>1, <2>2, <2>4, <2>5, <3>2, <3>3, TextPush, Appended
  <2>15. \A i \in DOMAIN r : r[i].level \in Nat /\ r[i].level <= L
    <3>1. \A i \in DOMAIN nest : nest[i].level \in Nat /\ nest[i].level <= L
      BY <2>1, InsideOpen
    <3>2. /\ DOMAIN r = DOMAIN nest \union {Len(nest) + 1} /\ r[Len(nest) + 1] = x
          /\ \A i \in DOMAIN nest : r[i] = nest[i]
      BY <2>1, <2>5, Appended
    <3>3. x.level \in Nat /\ x.level <= L
      BY <2>1, <2>5
    <3> HIDE DEF r, L
    <3> QED BY <3>1, <3>2, <3>3
  <2>16. \A v \in V : v.level \in Nat /\ v.level <= L
    <3> SUFFICES ASSUME NEW v \in V PROVE v.level \in Nat /\ v.level <= L
      OBVIOUS
    <3>1. v.level \in Nat
      BY <2>2, VariableFields
    <3>2. v.level < L \/ v.level = L
      BY <2>2 DEF AllAround, Around
    <3> QED BY <2>1, <3>1, <3>2
  <2> HIDE DEF r
  <2>17. Follows(W, V, classes, r)
    <3> HIDE DEF L
    <3> QED BY <2>1, <2>11, <2>14, <2>15, <2>16, InnerFollows
  <2>18. Lists(e2 \o T, V \union W) /\ Marks(V \union W, classes, r, e2 \o T)
    BY <2>2, <2>9, <2>10, <2>11, <2>14, <2>17, TextGrows
  <2>19. NamesOK(Append(cs2, c), r)
    <3>1. x.kind = "method" => Inside(x) = Len(cs2) + 1
      BY <2>3, <2>5 DEF Inside
    <3>2. x.kind # "var" /\ (x.kind = "method" => c.type # "function")
      BY <2>5, <2>8
    <3>3. NestOK(nest, Len(cs2))
      BY <2>1, <2>3
    <3> QED BY <2>1, <2>2, <2>3, <2>5, <2>8, <3>1, <3>2, <3>3, NamesEnter DEF r
  <2>20. Lexical(compilers', classes', nest', env')
    BY <2>6, <2>12, <2>18, <2>19 DEF Lexical
  <2> QED BY <2>6, <2>20, NoReference DEF LInv
<1> QED BY <1>1, <1>2

(* `fun', its name and its parameters.                                       *)
LEMMA FunDeclarationLexical ==
  ASSUME IInv, LInv, NEW n \in Names, NEW ps \in ParamLists, funDeclaration(n, ps)
  PROVE  LInv' /\ ReferencesAreLexical'
<1>1. CASE ~ CanDeclare(current, n)
  BY <1>1, AfreshLexical DEF funDeclaration, Error
<1>2. CASE CanDeclare(current, n)
  <2> DEFINE cs2 == [compilers EXCEPT ![Len(compilers)] = Declared(current, n)]
             e2 == Defined(env, n)
             kind == "fun"
             type == "function"
  <2>1. Level = Len(compilers) /\ current = compilers[Len(compilers)]
    BY Here
  <2>2. InStatements
    BY DEF funDeclaration, CanOpen
  <2>3. Enter(cs2, kind, type, ps, e2)
    BY <1>2, <2>1 DEF funDeclaration, Declared
  <2>4. DeclaredAt(cs2, n)
    BY DEF DeclaredAt
  <2> HIDE DEF cs2
  <2>5. AsText(cs2, e2)
    BY <1>2, <2>2, <2>4, DeclaresText
  <2>6. /\ kind \in {"fun", "method"} /\ type \in {"function", "method", "initializer"}
        /\ kind = "method" => type # "function"
    OBVIOUS
  <2> HIDE DEF e2, kind, type
  <2> QED BY <2>3, <2>5, <2>6, EnterLexical
<1> QED BY <1>1, <1>2

(* What the invariants say as it stands.                                     *)
LEMMA HereText ==
  ASSUME IInv, LInv
  PROVE  AsText(compilers, env)
<1>1. OthersStay(compilers, compilers)
  <2>1. /\ compilers \in Seq(CompilerSet) /\ compilers # <<>>
    BY HereLexical
  <2>2. \A k \in 1 .. Len(compilers) - 1 : Extended(compilers[k], compilers[k])
    <3> SUFFICES ASSUME NEW k \in 1 .. Len(compilers) - 1
                 PROVE  Extended(compilers[k], compilers[k])
      OBVIOUS
    <3>1. compilers[k] \in CompilerSet
      BY <2>1, Elements
    <3> QED BY <3>1 DEF Extended
  <2> QED BY <2>1, <2>2 DEF OthersStay
<1>2. TopStays(compilers, compilers)
  BY <1>1, HereLexical DEF TopStays
<1> QED BY <1>2, HereLexical DEF AsText, LInv

(* A method or initializer of the class being compiled.                      *)
LEMMA MethodLexical ==
  ASSUME IInv, LInv, NEW type \in {"method", "initializer"}, NEW ps \in ParamLists,
         method(type, ps)
  PROVE  LInv' /\ ReferencesAreLexical'
<1> DEFINE kind == "method"
<1>1. Enter(compilers, kind, type, ps, env)
  BY DEF method
<1>2. /\ kind \in {"fun", "method"} /\ type \in {"function", "method", "initializer"}
      /\ kind = "method" => type # "function"
  OBVIOUS
<1>3. AsText(compilers, env)
  BY HereText
<1> HIDE DEF kind
<1> QED BY <1>1, <1>2, <1>3, EnterLexical

(* The end of a function's body: its own variables go, and no others.        *)
LEMMA EndCompilerLexical ==
  ASSUME IInv, LInv, endCompiler
  PROVE  LInv' /\ ReferencesAreLexical'
<1> DEFINE L == Len(compilers)
           V == Variables(compilers)
           x == Last(nest)
           cs2 == Front(compilers)
           r == Front(nest)
<1>1. nest # <<>> /\ x.kind \in {"fun", "method"} /\ Kind(nest) = x.kind
  <2>1. Innermost({"fun", "method"})
    BY DEF endCompiler
  <2> QED BY <2>1, InnermostKind
<1>2. /\ compilers' = cs2 /\ env' = OutOfScope /\ nest' = r /\ classes' = classes /\ refs' = {}
  BY DEF endCompiler
<1>3. Good(compilers, classes, nest, frames)
  BY DEF IInv
<1>4. /\ compilers \in Seq(CompilerSet) /\ compilers # <<>> /\ nest \in Seq(NestSet)
      /\ NestOK(nest, L) /\ NamesOK(compilers, nest)
  BY HereLexical
<1>5. ClassesAround(nest, classes) = classes
  <2>1. Kind(nest) # "class"
    BY <1>1
  <2> QED BY <2>1 DEF ClassesAround
<1>6. L - 1 \in 1 .. L - 1 /\ x.level = L - 1 /\ L \in Nat
  BY <1>1, <1>3, AroundEnds, GoodParts
<1>7. Depth(nest, classes, L - 1) = Depth(r, classes, L - 1) /\ Kind(r) # "var"
      /\ Depth(r, classes, L - 1) \in Nat
  <2>1. /\ AddsClass(classes, Last(nest), classes) /\ classes \in Seq(BOOLEAN)
        /\ Len(classes) = Rank(Front(nest), Len(Front(nest)))
    BY <1>1, <1>3, <1>5, ClassesPopped
  <2>2. ~ Scoped(x, classes)
    BY <1>1 DEF Scoped
  <2>3. /\ Depth(nest, classes, L - 1)
             = Depth(r, classes, L - 1)
                 + (IF x.level = L - 1 /\ Scoped(x, classes) THEN 1 ELSE 0)
        /\ Kind(r) # "var" /\ NestOK(r, x.level) /\ r \in Seq(NestSet)
    BY <1>1, <1>3, <2>1, Ends
  <2>4. Depth(r, classes, L - 1) \in Nat
    BY <2>3, CountsTop
  <2> HIDE DEF x, r, L
  <2>5. Depth(nest, classes, L - 1) = Depth(r, classes, L - 1) + 0
    BY <2>2, <2>3
  <2>6. Depth(nest, classes, L - 1) = Depth(r, classes, L - 1)
    BY <2>4, <2>5
  <2> QED BY <2>3, <2>4, <2>6
<1>8. Variables(cs2) = Left(V, nest, classes)
  <2>1. Variables(cs2) = {v \in V : v.level # L}
    BY <1>4, FrontVariables
  <2>2. \A v \in V : /\ v.level \in 1 .. L /\ v.depth \in Nat
                     /\ v.depth <= Depth(nest, classes, v.level)
    BY <1>3, VariablesWithin
  <2>3. Left(V, nest, classes)
          = {v \in V : Around(v, L - 1, Depth(r, classes, L - 1))}
    BY <1>6 DEF Left
  <2> HIDE DEF V, L, r, cs2
  <2>4. ASSUME NEW v \in V
        PROVE  v.level # L <=> Around(v, L - 1, Depth(r, classes, L - 1))
    <3>1. v.level \in 1 .. L /\ L \in Nat
      BY <1>6, <2>2
    <3>2. CASE v.level = L
      <4>1. ~ (v.level < L - 1) /\ v.level # L - 1
        BY <3>1, <3>2
      <4> QED BY <3>2, <4>1 DEF Around
    <3>3. CASE v.level = L - 1
      <4>1. v.level # L
        BY <3>1, <3>3
      <4>2. v.depth <= Depth(r, classes, L - 1)
        BY <1>7, <2>2, <3>3
      <4> QED BY <3>3, <4>1, <4>2 DEF Around
    <3>4. CASE v.level # L /\ v.level # L - 1
      <4>1. v.level < L - 1
        BY <3>1, <3>4
      <4> QED BY <3>4, <4>1 DEF Around
    <3> QED BY <3>2, <3>3, <3>4
  <2> QED BY <2>1, <2>3, <2>4
<1>9. /\ Len(cs2) = L - 1 /\ DOMAIN cs2 = 1 .. L - 1
      /\ \A k \in DOMAIN cs2 : k \in DOMAIN compilers /\ cs2[k] = compilers[k]
  BY <1>4, WithoutLast
<1>10. NamesOK(cs2, r)
  <2>1. /\ DOMAIN r = 1 .. Len(nest) - 1
        /\ \A i \in DOMAIN r : i \in DOMAIN nest /\ i < Len(nest) /\ r[i] = nest[i]
        /\ x = nest[Len(nest)] /\ Len(nest) \in Nat
    BY <1>1, <1>4, WithoutLast, Elements
  <2>2. \A i \in DOMAIN r : Inside(nest[i]) \in 1 .. L - 1
    <3> SUFFICES ASSUME NEW i \in DOMAIN r PROVE Inside(nest[i]) \in 1 .. L - 1
      OBVIOUS
    <3>1. i \in DOMAIN nest /\ i # Len(nest)
      BY <2>1
    <3>2. Inside(nest[i]) \in 1 .. L /\ Inside(nest[i]) <= nest[Len(nest)].level
      BY <1>4, <3>1, InsideOpen
    <3> QED BY <1>6, <2>1, <3>2
  <2> HIDE DEF cs2, r, L, x
  <2>3. cs2[1].type = "script"
    <3>1. 1 \in DOMAIN cs2
      BY <1>6, <1>9
    <3> QED BY <1>4, <1>9, <3>1 DEF NamesOK
  <2>4. AllNamed(cs2)
    BY <1>4, <1>9 DEF NamesOK, AllNamed
  <2>5. MethodsNamed(cs2, r)
    <3> SUFFICES ASSUME NEW i \in DOMAIN r, r[i].kind = "method"
                 PROVE  cs2[Inside(r[i])].type # "function"
      BY DEF MethodsNamed
    <3>1. /\ i \in DOMAIN nest /\ r[i] = nest[i] /\ Inside(nest[i]) \in DOMAIN cs2
      BY <1>9, <2>1, <2>2
    <3>2. compilers[Inside(nest[i])].type # "function"
      BY <1>4, <3>1 DEF NamesOK, MethodsNamed
    <3> QED BY <1>9, <3>1, <3>2
  <2>6. AwaitsName(cs2, r)
    BY <1>7, NoneWaits
  <2> QED BY <2>3, <2>4, <2>5, <2>6 DEF NamesOK
<1>11. Lists(OutOfScope, Left(V, nest, classes)) /\ Marks(Left(V, nest, classes), classes, r, OutOfScope)
  BY <1>1, <1>5, TextLeft
<1> HIDE DEF cs2, r, V
<1>12. Lexical(compilers', classes', nest', env')
  BY <1>2, <1>8, <1>10, <1>11 DEF Lexical
<1> QED BY <1>2, <1>12, NoReference DEF LInv

(* A class or a block opens and changes no variable.                         *)
LEMMA LexicalPush ==
  ASSUME NEW cs, NEW ns \in Seq(NestSet), NEW cl \in Seq(BOOLEAN), Len(cl) = Rank(ns, Len(ns)),
         NEW e \in Seq(BindingSet), Lexical(cs, cl, ns, e),
         NEW x \in NestSet, x.kind # "method", x.kind # "var", x.mark = Len(e),
         NEW cl2, AddsClass(cl, x, cl2),
         AllAround(Variables(cs), x.level, Depth(ns, cl, x.level))
  PROVE  Lexical(cs, cl2, Append(ns, x), e)
<1> DEFINE V == Variables(cs)
           r == Append(ns, x)
<1>1. Lists(e, V) /\ Marks(V, cl, ns, e) /\ NamesOK(cs, ns) /\ AllAround(V, x.level, Depth(ns, cl, x.level))
  BY DEF Lexical
<1>2. Marks(V, cl2, r, e)
  <2> HIDE DEF V
  <2> QED BY <1>1, MarksPush
<1>3. /\ DOMAIN r = DOMAIN ns \union {Len(ns) + 1} /\ r[Len(ns) + 1] = x
      /\ \A i \in DOMAIN ns : r[i] = ns[i]
  BY Appended
<1>4. Kind(r) # "var"
  BY Appended DEF Kind
<1> HIDE DEF r, V
<1>5. MethodsNamed(cs, r)
  <2>1. \A i \in DOMAIN r : r[i].kind = "method" => i \in DOMAIN ns /\ r[i] = ns[i]
    BY <1>3
  <2> QED BY <1>1, <2>1 DEF NamesOK, MethodsNamed
<1>6. AwaitsName(cs, r)
  BY <1>4, NoneWaits
<1>7. NamesOK(cs, r)
  BY <1>1, <1>5, <1>6 DEF NamesOK
<1> QED BY <1>1, <1>2, <1>7 DEF Lexical, V, r

(* Naming a variable changes no depth.                                       *)
LEMMA DepthsNamed ==
  ASSUME NEW cs \in Seq(CompilerSet), NEW cs2, Extends(cs2, cs), DepthsOK(cs)
  PROVE  DepthsOK(cs2)
<1> SUFFICES ASSUME NEW k \in DOMAIN cs2, NEW i \in DOMAIN cs2[k].locals
             PROVE  cs2[k].locals[i].depth \in Nat \/ cs2[k].locals[i].depth = Uninit
  BY DEF DepthsOK
<1>1. cs2 \in Seq(CompilerSet) /\ Len(cs2) = Len(cs)
  BY DEF Extends
<1>2. k \in DOMAIN cs /\ cs[k] \in CompilerSet
  BY <1>1, Elements
<1>3. Extended(cs2[k], cs[k])
  BY <1>2 DEF Extends
<1>4. /\ cs2[k] \in CompilerSet /\ Len(cs2[k].locals) = Len(cs[k].locals)
      /\ \A x \in DOMAIN cs[k].locals : cs2[k].locals[x].depth = cs[k].locals[x].depth
  BY <1>3 DEF Extended
<1>5. i \in DOMAIN cs[k].locals
  BY <1>2, <1>4, Fields
<1> QED BY <1>2, <1>4, <1>5 DEF DepthsOK

(* Naming a variable leaves no function without locals.                      *)
LEMMA SomeExtended ==
  ASSUME NEW cs, Chained(cs), \A k \in DOMAIN cs : cs[k].locals # <<>>,
         NEW cs2, Extends(cs2, cs)
  PROVE  \A k \in DOMAIN cs2 : cs2[k].locals # <<>>
<1> SUFFICES ASSUME NEW k \in DOMAIN cs2 PROVE cs2[k].locals # <<>>
  OBVIOUS
<1>1. cs2 \in Seq(CompilerSet) /\ Len(cs2) = Len(cs) /\ cs \in Seq(CompilerSet)
  BY DEF Extends, Chained
<1>2. k \in DOMAIN cs /\ cs[k] \in CompilerSet /\ cs2[k] \in CompilerSet
  BY <1>1, Elements
<1>3. Len(cs2[k].locals) = Len(cs[k].locals) /\ cs[k].locals # <<>>
  BY <1>2 DEF Extends, Extended
<1>4. cs2[k].locals \in Seq(LocalSet) /\ cs[k].locals \in Seq(LocalSet)
  BY <1>2, Fields
<1>5. Len(cs[k].locals) # 0
  BY <1>3, <1>4, Elements
<1> QED BY <1>3, <1>4, <1>5, Elements

(* A chain carries its own upvalues.                                         *)
LEMMA CarriesItself ==
  ASSUME NEW cs
  PROVE  Carries(cs, cs)
BY DEF Carries

(* A class's name is declared and a name resolved.                           *)
LEMMA ClassText ==
  ASSUME IInv, LInv, InStatements, NEW n \in Names, CanDeclare(current, n),
         NEW cs, DeclaredAt(cs, n), NEW m \in Names, Resolves(cs, m)
  PROVE  /\ Resolving(cs, m, Defined(env, n)) /\ DepthsOK(namedVariable(cs, m).cs)
         /\ Extends(namedVariable(cs, m).cs, cs) /\ Chained(namedVariable(cs, m).cs)
         /\ namedVariable(cs, m).cs \in Seq(CompilerSet) /\ namedVariable(cs, m).cs # <<>>
         /\ Len(namedVariable(cs, m).cs) = Len(compilers)
         /\ Lexical(namedVariable(cs, m).cs, classes, nest, Defined(env, n))
         /\ Defined(env, n) \in Seq(BindingSet) /\ TextOK(nest, Defined(env, n))
         /\ AllAround(Variables(namedVariable(cs, m).cs), Len(compilers),
                      Depth(nest, classes, Len(compilers)))
<1> DEFINE e == Defined(env, n)
           r == namedVariable(cs, m).cs
           L == Len(compilers)
<1>1. AsText(cs, e)
  BY DeclaresText
<1>2. /\ TopStays(cs, compilers) /\ Chained(cs) /\ cs # <<>> /\ DepthsOK(cs)
      /\ \A k \in DOMAIN cs : cs[k].locals # <<>>
      /\ Lexical(cs, classes, nest, e) /\ TextOK(nest, e)
      /\ AllAround(Variables(cs), L, Depth(nest, classes, L))
  BY <1>1 DEF AsText
<1>3. cs \in Seq(CompilerSet) /\ Len(cs) = L /\ nest \in Seq(NestSet) /\ NestOK(nest, L)
  BY <1>2, HereLexical DEF Chained, TopStays, OthersStay
<1>4. e \in Seq(BindingSet)
  BY <1>2 DEF TextOK
<1>5. Extends(r, cs) /\ Chained(r)
  BY <1>2, ResolvesOK
<1>6. Usable(cs, m)
  BY NamesUsable
<1> HIDE DEF e, r
<1>7. Resolving(cs, m, e)
  BY <1>2, <1>4, <1>6 DEF Resolving, Lexical, NamesOK
<1>8. r \in Seq(CompilerSet) /\ Len(r) = L /\ r # <<>>
  <2>1. r \in Seq(CompilerSet) /\ Len(r) = Len(cs)
    BY <1>5 DEF Extends
  <2>2. Len(cs) # 0
    BY <1>2, <1>3, Elements
  <2> QED BY <1>3, <2>1, <2>2, Elements
<1>9. Lexical(r, classes, nest, e) /\ Variables(r) = Variables(cs)
  <2>1. NestOK(nest, Len(cs))
    BY <1>3
  <2> QED BY <1>2, <1>3, <1>5, <2>1, LexicalNamed
<1>10. DepthsOK(r)
  BY <1>2, <1>3, <1>5, DepthsNamed
<1> QED BY <1>2, <1>4, <1>5, <1>7, <1>8, <1>9, <1>10 DEF e, r

(* The construct of a class.                                                 *)
LEMMA ClassOpens ==
  ASSUME IInv, LInv, NEW n \in Names, NEW m \in Nat, NEW b \in BOOLEAN
  PROVE  /\ Nesting("class", n, Level, m) \in NestSet
         /\ Nesting("class", n, Level, m).kind = "class"
         /\ Nesting("class", n, Level, m).level = Len(compilers)
         /\ Nesting("class", n, Level, m).mark = m
         /\ AddsClass(classes, Nesting("class", n, Level, m), Append(classes, b))
<1> DEFINE x == Nesting("class", n, Level, m)
<1>1. Level = Len(compilers) /\ Len(compilers) \in Nat
  BY HereLexical
<1>2. x \in NestSet /\ x.kind = "class" /\ x.level = Len(compilers) /\ x.mark = m
  BY <1>1 DEF Nesting, NestSet
<1> HIDE DEF x
<1>3. AddsClass(classes, x, Append(classes, b))
  BY <1>2 DEF AddsClass
<1> QED BY <1>2, <1>3 DEF x

(* `class' and its name, up to `{'.                                          *)
LEMMA ClassDeclarationLexical ==
  ASSUME IInv, LInv, NEW n \in Names, classDeclaration(n)
  PROVE  LInv' /\ ReferencesAreLexical'
<1> DEFINE cs == [compilers EXCEPT ![Len(compilers)] = Declared(current, n)]
           me == namedVariable(cs, n)
           e == Defined(env, n)
           x == Nesting("class", n, Level, Len(e))
<1>1. Level = Len(compilers) /\ current = compilers[Len(compilers)]
  BY Here
<1>2. cs = [compilers EXCEPT ![Level] = markInitialized(declareVariable(@, n))]
  BY <1>1 DEF Declared
<1>3. InStatements
  BY DEF classDeclaration, CanOpen
<1>4. CASE ~ CanDeclare(current, n)
  BY <1>4, AfreshLexical DEF classDeclaration, Error
<1>5. CASE CanDeclare(current, n) /\ ~ Resolves(cs, n)
  BY <1>2, <1>5, AfreshLexical DEF classDeclaration, Error
<1>6. CASE CanDeclare(current, n) /\ Resolves(cs, n)
  <2>1. /\ compilers' = me.cs /\ env' = e /\ nest' = Append(nest, x)
        /\ classes' = Append(classes, FALSE) /\ refs' = {me.ref}
    BY <1>2, <1>6 DEF classDeclaration, Opened, Nesting
  <2>2. DeclaredAt(cs, n)
    BY DEF DeclaredAt
  <2> HIDE DEF cs
  <2>3. /\ Resolving(cs, n, e) /\ Chained(me.cs)
        /\ Lexical(me.cs, classes, nest, e) /\ e \in Seq(BindingSet)
        /\ AllAround(Variables(me.cs), Len(compilers), Depth(nest, classes, Len(compilers)))
    BY <1>3, <1>6, <2>2, ClassText
  <2>4. Reached(me.cs, me.ref) = Meant(e, n) /\ me.ref.name = n
    BY <2>3, CarriesItself, ReferenceMeant
  <2>5. Len(e) \in Nat
    BY <2>3, Elements
  <2>6. /\ x \in NestSet /\ x.kind = "class" /\ x.level = Len(compilers) /\ x.mark = Len(e)
        /\ AddsClass(classes, x, Append(classes, FALSE))
    <3> HIDE DEF e
    <3> QED BY <2>5, ClassOpens
  <2>7. /\ nest \in Seq(NestSet) /\ classes \in Seq(BOOLEAN) /\ Len(classes) = Rank(nest, Len(nest))
    BY HereLexical
  <2> HIDE DEF me, e, x
  <2> DEFINE ms == me.cs
             cl2 == Append(classes, FALSE)
  <2>8. /\ Lexical(ms, classes, nest, e) /\ AddsClass(classes, x, cl2)
        /\ x.kind # "method" /\ x.kind # "var"
        /\ AllAround(Variables(ms), x.level, Depth(nest, classes, x.level))
    BY <2>3, <2>6
  <2> HIDE DEF ms, cl2
  <2>9. Lexical(ms, cl2, Append(nest, x), e)
    BY <2>3, <2>6, <2>7, <2>8, LexicalPush
  <2>10. LInv'
    BY <2>1, <2>9 DEF LInv, ms, cl2
  <2>11. ReferencesAreLexical'
    BY <2>1, <2>4 DEF ReferencesAreLexical
  <2> QED BY <2>10, <2>11
<1> QED BY <1>4, <1>5, <1>6

(* A local that comes above all those of the innermost function.             *)
LEMMA NextFollows ==
  ASSUME NEW cs \in Seq(CompilerSet), cs # <<>>, NEW w \in VariableSet, w.level = Len(cs),
         w.slot = Len(cs[Len(cs)].locals)
  PROVE  \A v \in Variables(cs) : Precedes(v, w)
<1> SUFFICES ASSUME NEW v \in Variables(cs) PROVE Precedes(v, w)
  OBVIOUS
<1>1. v \in VariableSet /\ v.level \in DOMAIN cs /\ Holds(cs[v.level], v)
  BY DEF Variables
<1>2. DOMAIN cs = 1 .. Len(cs) /\ Len(cs) \in Nat
  BY Elements
<1>3. CASE v.level = Len(cs)
  <2>1. cs[Len(cs)] \in CompilerSet /\ v.slot + 1 \in DOMAIN cs[Len(cs)].locals
    BY <1>1, <1>3, Elements DEF Holds
  <2>2. v.slot + 1 \in 1 .. w.slot /\ v.slot \in Nat /\ w.slot \in Nat
    BY <1>1, <2>1, Fields, VariableFields
  <2> QED BY <1>3, <2>2 DEF Precedes
<1>4. CASE v.level # Len(cs)
  <2>1. v.level < Len(cs)
    BY <1>1, <1>2, <1>4
  <2> QED BY <2>1 DEF Precedes
<1> QED BY <1>3, <1>4

(* A name means the same when another comes into scope.                      *)
LEMMA MeantBefore ==
  ASSUME NEW e \in Seq(BindingSet), NEW b \in BindingSet, NEW n, b.name # n
  PROVE  Meant(Append(e, b), n) = Meant(e, n)
<1> DEFINE S == {i \in DOMAIN e : e[i].name = n}
           r == Append(e, b)
           R == {i \in DOMAIN r : r[i].name = n}
<1>1. /\ DOMAIN r = DOMAIN e \union {Len(e) + 1} /\ r[Len(e) + 1] = b
      /\ \A i \in DOMAIN e : r[i] = e[i]
  BY Appended
<1> HIDE DEF r
<1>2. R = S
  <2>1. \A i \in DOMAIN r : i \in DOMAIN e \/ r[i].name # n
    BY <1>1
  <2>2. \A i \in DOMAIN e : i \in DOMAIN r /\ r[i].name = e[i].name
    BY <1>1
  <2> QED BY <2>1, <2>2
<1>3. S # {} => Max(S) \in DOMAIN e
  <2>1. S \in SUBSET (0 .. Len(e)) /\ Len(e) \in Nat
    <3>1. DOMAIN e = 1 .. Len(e) /\ Len(e) \in Nat
      BY Elements
    <3> QED BY <3>1
  <2>2. S \subseteq DOMAIN e
    OBVIOUS
  <2> HIDE DEF S
  <2> QED BY <2>1, <2>2, Greatest
<1>4. Meant(e, n) = IF S = {} THEN {} ELSE {[level |-> e[Max(S)].level, slot |-> e[Max(S)].slot]}
  BY DEF Meant
<1>5. Meant(r, n) = IF R = {} THEN {} ELSE {[level |-> r[Max(R)].level, slot |-> r[Max(R)].slot]}
  BY DEF Meant
<1> HIDE DEF S, R
<1>6. Meant(r, n) = Meant(e, n)
  <2>1. S # {} => r[Max(S)] = e[Max(S)]
    BY <1>1, <1>3
  <2> QED BY <1>2, <1>4, <1>5, <2>1
<1> QED BY <1>6 DEF r

(* The superclass is in none of the scopes around the class.                 *)
LEMMA SuperFollows ==
  ASSUME NEW ns \in Seq(NestSet), NEW L, NestOK(ns, L), Kind(ns) # "var", Kind(ns) # "class",
         NEW cl \in Seq(BOOLEAN), Len(cl) = Rank(ns, Len(ns)),
         NEW x \in NestSet, x.level = L, NEW cl2, AddsClass(cl, x, cl2),
         NEW V, NEW w \in VariableSet, w.level = L, w.depth = Depth(ns, cl, L) + 1,
         \A v \in V : Precedes(v, w)
  PROVE  Follows({w}, V, cl2, Append(ns, x))
<1> DEFINE r == Append(ns, x)
           d == Depth(ns, cl, L)
<1>1. /\ DOMAIN r = DOMAIN ns \union {Len(ns) + 1} /\ r[Len(ns) + 1] = x
      /\ \A i \in DOMAIN ns : r[i] = ns[i]
  BY Appended
<1>2. /\ \A i \in DOMAIN ns : Before(r, cl2, i) = Before(ns, cl, i)
      /\ Before(r, cl2, Len(ns) + 1) = d
  BY BeforePush
<1>3. d \in Nat /\ L \in Nat
  BY NestTop, CountsTop
<1> HIDE DEF r
<1>4. ASSUME NEW i \in DOMAIN r PROVE ~ Around(w, r[i].level, Before(r, cl2, i))
  <2>1. CASE i \in DOMAIN ns
    <3>1. /\ Before(ns, cl, i) \in Nat /\ ns[i].level <= L /\ ns[i].level \in Nat
          /\ ns[i].level = L => Before(ns, cl, i) < d
      BY <2>1, BeforeNow
    <3>2. r[i].level = ns[i].level /\ Before(r, cl2, i) = Before(ns, cl, i)
      BY <1>1, <1>2, <2>1
    <3>3. ~ (L < ns[i].level) /\ (ns[i].level = L => ~ (d + 1 <= Before(ns, cl, i)))
      <4> HIDE DEF d
      <4> QED BY <1>3, <3>1
    <3> QED BY <3>2, <3>3 DEF Around
  <2>2. CASE i = Len(ns) + 1
    <3>1. r[i].level = L /\ Before(r, cl2, i) = d
      BY <1>1, <1>2, <2>2
    <3>2. ~ (L < L) /\ ~ (d + 1 <= d)
      <4> HIDE DEF d
      <4> QED BY <1>3
    <3> QED BY <3>1, <3>2 DEF Around
  <2> QED BY <1>1, <2>1, <2>2
<1>5. \A v \in V, u \in {w} : Precedes(v, u)
  OBVIOUS
<1>6. \A u \in {w}, i \in DOMAIN r : ~ Around(u, r[i].level, Before(r, cl2, i))
  BY <1>4
<1>7. Follows({w}, V, cl2, r)
  BY <1>5, <1>6 DEF Follows
<1> QED BY <1>7 DEF r

(* A local and what the text says of it.                                     *)
Bound(w, b, n, level, slot, depth) ==
  /\ n \in LocalName /\ level \in Nat /\ slot \in Nat /\ depth \in Nat
  /\ w = Variable(n, level, slot, depth) /\ b = Binding(n, level, slot)

(* They agree.                                                               *)
LEMMA BoundAt ==
  ASSUME NEW n, NEW level, NEW slot, NEW depth, NEW w, NEW b,
         Bound(w, b, n, level, slot, depth)
  PROVE  /\ w \in VariableSet /\ w.level = level /\ w.slot = slot /\ w.depth = depth
         /\ w.name = n /\ b \in BindingSet /\ At(b, w)
<1>1. /\ w \in VariableSet /\ w.level = level /\ w.slot = slot /\ w.depth = depth
      /\ w.name = n
  BY DEF Bound, Variable, VariableSet
<1>2. b \in BindingSet /\ b.name = n /\ b.level = level /\ b.slot = slot
  BY DEF Bound, Binding, BindingSet
<1> QED BY <1>1, <1>2 DEF At

(* Where a class with a super may be declared: nothing is awaited, and there *)
(* is room for one more local.                                               *)
SuperPlace(cs, cl, ns, e) ==
  /\ Chained(cs) /\ cs # <<>> /\ DepthsOK(cs)
  /\ ns \in Seq(NestSet) /\ NestOK(ns, Len(cs)) /\ Kind(ns) # "var" /\ Kind(ns) # "class"
  /\ cl \in Seq(BOOLEAN) /\ Len(cl) = Rank(ns, Len(ns))
  /\ TextOK(ns, e) /\ Lexical(cs, cl, ns, e)
  /\ AllAround(Variables(cs), Len(cs), Depth(ns, cl, Len(cs)))
  /\ LocalsOK(cs[Len(cs)], FALSE) /\ ~ Full(cs[Len(cs)])
  /\ cs[Len(cs)].scopeDepth = Depth(ns, cl, Len(cs))
  /\ \A k \in DOMAIN cs : cs[k].locals # <<>>

(* The construct x of the class, its scope, and super in the scope's slot N. *)
SuperOpens(cs, cl, e, x, cl2, N, cs2) ==
  /\ x \in NestSet /\ x.kind = "class" /\ x.level = Len(cs) /\ x.mark = Len(e)
  /\ AddsClass(cl, x, cl2) /\ N = Len(cs[Len(cs)].locals)
  /\ OthersStay(cs2, cs) /\ Chained(cs2) /\ cs2[Len(cs)] = Supers(cs[Len(cs)])

(* The local `super' comes on top, after the class's construct has opened.   *)
LEMMA SuperLocal ==
  ASSUME NEW cs, NEW cl, NEW ns, NEW e, SuperPlace(cs, cl, ns, e),
         NEW x, NEW cl2, NEW N, NEW cs2, SuperOpens(cs, cl, e, x, cl2, N, cs2)
  PROVE  /\ Lexical(cs2, cl2, Append(ns, x), Append(e, Binding("super", Len(cs), N)))
         /\ Binding("super", Len(cs), N) \in BindingSet /\ DepthsOK(cs2) /\ Carries(cs2, cs)
         /\ NestOK(Append(ns, x), Len(cs)) /\ Append(ns, x) \in Seq(NestSet)
         /\ \A k \in DOMAIN cs2 : cs2[k].locals # <<>>
<1>0. /\ Chained(cs) /\ cs # <<>> /\ DepthsOK(cs) /\ ns \in Seq(NestSet)
      /\ NestOK(ns, Len(cs)) /\ Kind(ns) # "var" /\ Kind(ns) # "class"
      /\ cl \in Seq(BOOLEAN) /\ Len(cl) = Rank(ns, Len(ns)) /\ TextOK(ns, e)
      /\ Lexical(cs, cl, ns, e) /\ AllAround(Variables(cs), Len(cs), Depth(ns, cl, Len(cs)))
      /\ LocalsOK(cs[Len(cs)], FALSE) /\ ~ Full(cs[Len(cs)])
      /\ cs[Len(cs)].scopeDepth = Depth(ns, cl, Len(cs))
      /\ \A k \in DOMAIN cs : cs[k].locals # <<>>
      /\ x \in NestSet /\ x.kind = "class" /\ x.level = Len(cs) /\ x.mark = Len(e)
      /\ AddsClass(cl, x, cl2) /\ N = Len(cs[Len(cs)].locals)
      /\ OthersStay(cs2, cs) /\ Chained(cs2) /\ cs2[Len(cs)] = Supers(cs[Len(cs)])
  BY DEF SuperPlace, SuperOpens
<1> USE <1>0
<1> DEFINE L == Len(cs)
           c == cs[L]
           d == Depth(ns, cl, L)
           V == Variables(cs)
           w == Variable("super", L, N, d + 1)
           b == Binding("super", L, N)
           r == Append(ns, x)
<1>1. /\ cs \in Seq(CompilerSet) /\ L \in Nat /\ L \in DOMAIN cs /\ c \in CompilerSet
      /\ c.locals # <<>> /\ DOMAIN cs = 1 .. L
  BY Elements DEF Chained
<1>2. N \in Nat /\ N # 0 /\ d \in Nat /\ d + 1 \in Nat
  <2>1. N \in Nat /\ N # 0
    BY <1>1, Fields, Elements
  <2>2. d \in Nat
    BY CountsTop
  <2> HIDE DEF d
  <2> QED BY <2>1, <2>2
<1>3. NamedLocals(c) /\ NamesOK(cs, ns) /\ V \in SUBSET VariableSet
  BY <1>1 DEF Lexical, NamesOK, AllNamed, Variables
<1>4. "super" \in LocalName
  BY DEF LocalName
<1>5. /\ Supers(c) \in CompilerSet /\ Supers(c).type = c.type /\ Supers(c).upvalues = c.upvalues
      /\ LocalsOK(Supers(c), FALSE) /\ NamedLocals(Supers(c))
  BY <1>1, <1>3, SupersOK, SupersNames DEF Keeps
<1>6. TopStays(cs2, cs) /\ TopOnly(cs2, cs)
  BY <1>5, OthersSame DEF TopStays
<1>7. MoreHolds(cs2[L], cs[L], "super", N, d + 1)
  <2>1. ASSUME NEW v \in VariableSet
        PROVE  Holds(Supers(c), v) <=> Holds(c, v) \/ NewHere(v, "super", N, c.scopeDepth + 1)
    BY <1>1, SupersHolds
  <2>2. c.scopeDepth = d
    OBVIOUS
  <2> HIDE DEF c, d
  <2> QED BY <2>1, <2>2 DEF MoreHolds, c
<1>8. Variables(cs2) = V \union {w}
  <2> DEFINE m == "super"
             h == d + 1
  <2>1. m \in LocalName /\ MoreHolds(cs2[L], cs[L], m, N, h) /\ h \in Nat /\ L = Len(cs)
    BY <1>2, <1>4, <1>7
  <2>2. w = Variable(m, L, N, h)
    OBVIOUS
  <2> HIDE DEF m, h, L, d, w, V
  <2>3. Variables(cs2) = Variables(cs) \union {Variable(m, L, N, h)}
    BY <1>2, <1>6, <2>1, MoreVariablesTop
  <2> QED BY <2>2, <2>3 DEF V
<1>9. /\ w \in VariableSet /\ w.level = L /\ w.slot = N /\ w.depth = d + 1
      /\ b \in BindingSet /\ At(b, w)
  <2> DEFINE m == "super"
             h == d + 1
  <2>1. m \in LocalName /\ h \in Nat /\ L \in Nat /\ N \in Nat
    BY <1>1, <1>2, <1>4
  <2>2. w = Variable(m, L, N, h) /\ b = Binding(m, L, N) /\ h = d + 1
    OBVIOUS
  <2> HIDE DEF m, h, L, d, w, b
  <2>3. Bound(w, b, m, L, N, h)
    BY <2>1, <2>2 DEF Bound
  <2>4. /\ w \in VariableSet /\ w.level = L /\ w.slot = N /\ w.depth = h
        /\ b \in BindingSet /\ At(b, w)
    BY <2>3, BoundAt
  <2> QED BY <2>2, <2>4
<1>10. e \in Seq(BindingSet) /\ Len(e) \in Nat
  BY Elements DEF TextOK
<1>11. Lexical(cs, cl2, r, e)
  <2>1. x.kind # "method" /\ x.kind # "var" /\ AllAround(V, x.level, Depth(ns, cl, x.level))
    OBVIOUS
  <2> QED BY <1>10, <2>1, LexicalPush
<1>12. r \in Seq(NestSet) /\ NestOK(r, L) /\ TextOK(r, e)
  <2>1. NestOK(r, Inside(x))
    BY NestPush
  <2>2. Inside(x) = L
    BY DEF Inside
  <2>3. Len(e) <= x.mark /\ x.mark <= Len(e)
    BY <1>10
  <2> QED BY <1>10, <2>1, <2>2, <2>3, Appended, TextPush
<1> HIDE DEF w, b
<1>13. Follows({w}, V, cl2, r)
  <2>1. \A v \in V : Precedes(v, w)
    BY <1>1, <1>9, NextFollows
  <2> QED BY <1>9, <2>1, SuperFollows
<1> HIDE DEF r
<1>14. Lists(Append(e, b), V \union {w}) /\ Marks(V \union {w}, cl2, r, Append(e, b))
  <2>1. Lists(e, V) /\ Marks(V, cl2, r, e)
    BY <1>11 DEF Lexical
  <2> HIDE DEF V
  <2> QED BY <1>3, <1>9, <1>12, <1>13, <2>1, TextAppend
<1>15. NamesOK(cs2, r)
  <2>1. NamesOK(cs, r)
    BY <1>11 DEF Lexical
  <2>2. MethodsOf(r, r)
    BY DEF MethodsOf
  <2>3. Kind(r) # "var"
    BY Appended DEF r, Kind
  <2>4. AwaitsName(cs2, r)
    BY <2>3, NoneWaits
  <2> QED BY <1>6, <1>12, <2>1, <2>2, <2>4, NamesOn
<1>16. Lexical(cs2, cl2, r, Append(e, b))
  BY <1>8, <1>14, <1>15 DEF Lexical
<1>17. DepthsOK(cs2)
  BY <1>5, DepthsOn
<1>18. Carries(cs2, cs)
  BY <1>5, OthersCarry
<1>19. \A k \in DOMAIN cs2 : cs2[k].locals # <<>>
  <2> SUFFICES ASSUME NEW k \in DOMAIN cs2 PROVE cs2[k].locals # <<>>
    OBVIOUS
  <2>1. k \in DOMAIN cs /\ cs[k] \in CompilerSet /\ cs2[k] \in CompilerSet
        /\ (k # L => Extended(cs2[k], cs[k]))
    BY OtherLevels
  <2>2. CASE k = L
    BY <1>5, <2>2, SomeLocals
  <2>3. CASE k # L
    <3>1. Len(cs2[k].locals) = Len(cs[k].locals) /\ cs[k].locals # <<>>
      BY <2>1, <2>3 DEF Extended
    <3>2. cs2[k].locals \in Seq(LocalSet) /\ cs[k].locals \in Seq(LocalSet)
      BY <2>1, Fields
    <3>3. Len(cs[k].locals) # 0
      BY <3>1, <3>2, Elements
    <3> QED BY <3>1, <3>2, <3>3, Elements
  <2> QED BY <2>2, <2>3
<1> QED BY <1>9, <1>12, <1>16, <1>17, <1>18, <1>19 DEF b, r

(* `class', its name and its superclass, up to `{'.                          *)
LEMMA ClassWithSuperLexical ==
  ASSUME IInv, LInv, NEW n \in Names, NEW s \in Names, classWithSuper(n, s)
  PROVE  LInv' /\ ReferencesAreLexical'
<1> DEFINE cs == [compilers EXCEPT ![Len(compilers)] = Declared(current, n)]
           super == namedVariable(cs, s)
           cs3 == super.cs
           inner == [cs3 EXCEPT ![Level] = Supers(cs3[Level])]
           me == namedVariable(inner, n)
           fails == n = s \/ ~ Resolves(cs, s) \/ Full(cs3[Level]) \/ ~ Resolves(inner, n)
           h == Valued(frames)[Level].height
           e == Defined(env, n)
           b == Binding("super", Level, h)
           x == Nesting("class", n, Level, Len(e))
           cl2 == Append(classes, TRUE)
           L == Len(compilers)
           d == Depth(nest, classes, Level)
           r == Append(nest, x)
           t == Append(e, b)
<1>1. CASE ~ CanDeclare(current, n)
  BY <1>1, AfreshLexical DEF classWithSuper, Error
<1>2. Level = L /\ current = compilers[L]
  BY Here
<1>3. cs = [compilers EXCEPT ![Level] = markInitialized(declareVariable(@, n))]
  BY <1>2 DEF Declared
<1>4. DeclaredAt(cs, n) /\ cs = [compilers EXCEPT ![Len(compilers)] = Declared(current, n)]
  BY DEF DeclaredAt
<1> HIDE DEF cs
<1>5. inner = WithSuper(cs3)
  BY DEF WithSuper, Supers
<1> HIDE DEF inner
<1>6. CASE CanDeclare(current, n) /\ fails
  <2>1. Error
    BY <1>3, <1>5, <1>6 DEF classWithSuper
  <2> QED BY <2>1, AfreshLexical DEF Error
<1>7. CASE CanDeclare(current, n) /\ ~ fails
  <2>1. InStatements
    BY DEF classWithSuper, CanOpen
  <2>2. /\ compilers' = me.cs /\ env' = t /\ nest' = r /\ classes' = cl2
        /\ refs' = {super.ref, me.ref}
    BY <1>3, <1>5, <1>7 DEF classWithSuper, Opened, Nesting
  <2>3. Resolves(cs, s) /\ ~ Full(cs3[Level]) /\ Resolves(inner, n)
    BY <1>7
  <2>4. /\ Chained(cs3) /\ Fits(cs3) /\ cs3[Level] \in CompilerSet
        /\ LevelOK(cs3[Level], Valued(frames)[Level], FALSE, d, 0, 0)
    <3>1. cs3 = namedVariable(cs, s).cs
      OBVIOUS
    <3> HIDE DEF cs3
    <3> QED BY <1>4, <1>7, <2>1, <2>3, <3>1, ClassNamed
  <2>5. /\ Resolving(cs, s, e) /\ DepthsOK(cs3) /\ cs3 \in Seq(CompilerSet) /\ cs3 # <<>>
        /\ Len(cs3) = L /\ Lexical(cs3, classes, nest, e) /\ e \in Seq(BindingSet)
        /\ TextOK(nest, e) /\ AllAround(Variables(cs3), L, Depth(nest, classes, L))
    <3> HIDE DEF e
    <3> QED BY <1>4, <1>7, <2>1, <2>3, ClassText DEF e
  <2>6. /\ nest \in Seq(NestSet) /\ NestOK(nest, L) /\ classes \in Seq(BOOLEAN)
        /\ Len(classes) = Rank(nest, Len(nest)) /\ Kind(nest) # "var" /\ Kind(nest) # "class"
        /\ L \in Nat
    BY <2>1, HereLexical, Opening
  <2>7. /\ x \in NestSet /\ x.kind = "class" /\ x.level = L /\ x.mark = Len(e)
        /\ AddsClass(classes, x, cl2)
    <3>1. Len(e) \in Nat
      BY <2>5, Elements
    <3> HIDE DEF e
    <3> QED BY <3>1, ClassOpens
  <2> DEFINE c == cs3[L]
             N == Len(c.locals)
  <2>8. /\ LocalsOK(c, FALSE) /\ ~ Full(c) /\ c.scopeDepth = Depth(nest, classes, L)
        /\ c \in CompilerSet /\ h = N
    <3>1. /\ LocalsOK(c, FALSE) /\ c.scopeDepth = d /\ c \in CompilerSet /\ ~ Full(c)
          /\ h = N - (IF c.scopeDepth > 0 THEN 0 ELSE 0) + 0
      BY <1>2, <2>3, <2>4 DEF LevelOK
    <3>2. (IF c.scopeDepth > 0 THEN 0 ELSE 0) = 0
      OBVIOUS
    <3>3. N \in Nat
      BY <3>1, Fields
    <3> HIDE DEF N, h, c
    <3>4. h = N
      BY <3>1, <3>2, <3>3
    <3> QED BY <1>2, <3>1, <3>4
  <2>9. \A k \in DOMAIN cs3 : cs3[k].locals # <<>>
    <3>1. AsText(cs, e)
      BY <1>4, <1>7, <2>1, DeclaresText
    <3>2. Extends(cs3, cs)
      BY <1>4, <1>7, <2>1, <2>3, ClassText
    <3>3. Chained(cs) /\ \A k \in DOMAIN cs : cs[k].locals # <<>>
      BY <3>1 DEF AsText
    <3> HIDE DEF cs3
    <3> QED BY <3>2, <3>3, SomeExtended
  <2> HIDE DEF super, cs3, me
  <2>10. /\ Chained(inner) /\ inner # <<>> /\ Len(inner) = L /\ inner[L] = Supers(c)
         /\ OthersStay(inner, cs3)
    <3>1. inner = [cs3 EXCEPT ![Len(cs3)] = Supers(c)]
      BY <1>2, <2>5 DEF inner
    <3>2. Supers(c) \in CompilerSet /\ Supers(c).upvalues = c.upvalues
      BY <2>8, SupersOK DEF Keeps
    <3>3. c = cs3[Len(cs3)]
      BY <2>5
    <3> DEFINE z == Supers(c)
    <3>4. inner = [cs3 EXCEPT ![Len(cs3)] = z] /\ z \in CompilerSet /\ z.upvalues = cs3[Len(cs3)].upvalues
      BY <3>1, <3>2, <3>3
    <3> HIDE DEF z, c
    <3>5. /\ Chained(inner) /\ inner # <<>> /\ Len(inner) = Len(cs3) /\ inner[Len(cs3)] = z
          /\ \A k \in 1 .. Len(cs3) - 1 : Extended(inner[k], cs3[k])
      BY <2>4, <2>5, <3>4, TopReplaced
    <3>6. OthersStay(inner, cs3)
      BY <2>5, <3>5 DEF OthersStay, Chained
    <3> QED BY <2>5, <3>5, <3>6 DEF z
  <2>11. b = Binding("super", Len(cs3), N)
    BY <1>2, <2>5, <2>8
  <2> DEFINE b3 == Binding("super", Len(cs3), N)
  <2> HIDE DEF b, x, e, cl2
  <2>12. /\ Lexical(inner, cl2, r, Append(e, b3)) /\ b3 \in BindingSet
         /\ DepthsOK(inner) /\ Carries(inner, cs3) /\ NestOK(r, Len(cs3)) /\ r \in Seq(NestSet)
         /\ \A k \in DOMAIN inner : inner[k].locals # <<>>
    <3>1. SuperPlace(cs3, classes, nest, e)
      BY <2>4, <2>5, <2>6, <2>7, <2>8, <2>9 DEF SuperPlace
    <3>2. SuperOpens(cs3, classes, e, x, cl2, N, inner)
      BY <2>5, <2>7, <2>8, <2>10 DEF SuperOpens
    <3> HIDE DEF b3, r, t, h, d, c
    <3>3. /\ Lexical(inner, cl2, Append(nest, x), Append(e, Binding("super", Len(cs3), N)))
          /\ Binding("super", Len(cs3), N) \in BindingSet
          /\ DepthsOK(inner) /\ Carries(inner, cs3)
          /\ NestOK(Append(nest, x), Len(cs3)) /\ Append(nest, x) \in Seq(NestSet)
          /\ \A k \in DOMAIN inner : inner[k].locals # <<>>
      BY <3>1, <3>2, SuperLocal
    <3> QED BY <3>3 DEF r, b3
  <2>13. /\ Lexical(inner, cl2, r, t) /\ b \in BindingSet /\ b.name = "super"
         /\ t \in Seq(BindingSet)
    <3>1. b = b3 /\ b.name = "super"
      BY <2>11 DEF b, Binding
    <3> HIDE DEF b3
    <3>2. b \in BindingSet /\ Lexical(inner, cl2, r, t)
      BY <2>12, <3>1
    <3> QED BY <2>5, <3>1, <3>2, Appended
  <2>14. Extends(me.cs, inner) /\ Chained(me.cs)
    BY <2>3, <2>10, ResolvesOK DEF me
  <2>15. inner \in Seq(CompilerSet) /\ NestOK(r, Len(inner)) /\ me.cs \in Seq(CompilerSet)
         /\ cs3 \in Seq(CompilerSet)
    BY <2>5, <2>10, <2>12, <2>14 DEF Chained
  <2> HIDE DEF t, r, b3
  <2>16. Lexical(me.cs, cl2, r, t)
    BY <2>10, <2>12, <2>13, <2>14, <2>15, LexicalNamed
  <2>17. Reached(me.cs, me.ref) = Meant(t, n) /\ me.ref.name = n
    <3>1. Usable(inner, n)
      BY NamesUsable
    <3>2. Resolving(inner, n, t)
      BY <2>3, <2>10, <2>12, <2>13, <3>1 DEF Resolving, Lexical, NamesOK
    <3> QED BY <2>14, <3>2, CarriesItself, ReferenceMeant DEF me
  <2>18. Reached(me.cs, super.ref) = Meant(t, s) /\ super.ref.name = s
    <3>1. Carries(me.cs, cs3)
      BY <2>12, <2>14, <2>15, ExtendsCarries, CarriesTwice
    <3>2. Reached(me.cs, super.ref) = Meant(e, s) /\ super.ref.name = s
      BY <2>5, <2>14, <3>1, ReferenceMeant DEF super, cs3
    <3>3. b.name # s
      BY <2>13, NamesNamed
    <3>4. Meant(t, s) = Meant(e, s)
      BY <2>5, <2>13, <3>3, MeantBefore DEF t
    <3> QED BY <3>2, <3>4
  <2>19. LInv'
    BY <2>2, <2>16 DEF LInv
  <2>20. ReferencesAreLexical'
    BY <2>2, <2>17, <2>18 DEF ReferencesAreLexical
  <2> QED BY <2>19, <2>20
<1> QED BY <1>1, <1>6, <1>7

(* At the start nothing is named.                                            *)
LEMMA InitLexical == Init => LInv /\ ReferencesAreLexical
<1> SUFFICES ASSUME Init PROVE LInv /\ ReferencesAreLexical
  OBVIOUS
<1>1. compilers = <<initCompiler("script")>> /\ nest = <<>> /\ env = <<>> /\ refs = {}
  BY DEF Init
<1>2. Lexical(compilers, classes, nest, env)
  BY <1>1, NoVariables
<1> QED BY <1>1, <1>2 DEF LInv, ReferencesAreLexical

(* Each construct keeps the lists, and names what the text means.            *)
LEMMA NextLexical ==
  IInv /\ LInv /\ ReferencesAreLexical /\ [Next]_vars => LInv' /\ ReferencesAreLexical'
<1> SUFFICES ASSUME IInv, LInv, ReferencesAreLexical, [Next]_vars
             PROVE  LInv' /\ ReferencesAreLexical'
  OBVIOUS
<1>1. CASE \E n \in Names : variable(n)
  BY <1>1, VariableLexical
<1>2. CASE this_
  BY <1>2, ThisLexical
<1>3. CASE super_
  BY <1>3, SuperLexical
<1>4. CASE BeginBlock
  BY <1>4, BeginBlockLexical
<1>5. CASE EndBlock
  BY <1>5, EndBlockLexical
<1>6. CASE \E n \in Names : varDeclaration(n)
  BY <1>6, VarDeclarationLexical
<1>7. CASE defineVariable
  BY <1>7, DefineVariableLexical
<1>8. CASE \E n \in Names, ps \in ParamLists : funDeclaration(n, ps)
  BY <1>8, FunDeclarationLexical
<1>9. CASE \E t \in {"method", "initializer"}, ps \in ParamLists : method(t, ps)
  BY <1>9, MethodLexical
<1>10. CASE endCompiler
  BY <1>10, EndCompilerLexical
<1>11. CASE \E n \in Names : classDeclaration(n)
  BY <1>11, ClassDeclarationLexical
<1>12. CASE \E n, s \in Names : classWithSuper(n, s)
  BY <1>12, ClassWithSuperLexical
<1>13. CASE EndClass
  BY <1>13, EndClassLexical
<1>14. CASE \E v \in BOOLEAN : returnStatement(v)
  BY <1>14, ReturnLexical
<1>15. CASE compile
  <2>1. Afresh
    BY <1>15 DEF compile
  <2> QED BY <2>1, AfreshLexical
<1>16. CASE UNCHANGED vars
  <2>1. UNCHANGED <<compilers, classes, nest, env, refs>>
    BY <1>16 DEF vars
  <2>2. LInv'
    BY <2>1 DEF LInv
  <2>3. ReferencesAreLexical'
    BY <2>1 DEF ReferencesAreLexical
  <2> QED BY <2>2, <2>3
<1> QED BY <1>1, <1>2, <1>3, <1>4, <1>5, <1>6, <1>7, <1>8, <1>9, <1>10, <1>11, <1>12, <1>13,
           <1>14, <1>15, <1>16 DEF Next

(* Scoping is lexical, in every program: each reference the compiler emits   *)
(* reaches the innermost declaration of its name in the text, through any    *)
(* number of functions; `this' is the receiver of the innermost method,      *)
(* `super' the superclass of its class, and a name no declaration around it  *)
(* binds is a global.                                                        *)
THEOREM LexicalScoping == Spec => []ReferencesAreLexical
<1>1. Spec => [](LInv /\ ReferencesAreLexical)
  BY InitLexical, NextLexical, Invariance, PTL DEF Spec
<1> QED BY <1>1, PTL
=============================================================================

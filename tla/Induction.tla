------------------------------ MODULE Induction ------------------------------
(* Induction over the natural numbers, in a form the provers can use: about  *)
(* the set of numbers that have a property, rather than the property.        *)
EXTENDS Integers, SequencesExt, FiniteSetTheorems, WellFoundedInduction, TLAPS

(* Every nonempty set of numbers has a least one.                            *)
LEMMA LeastNumber ==
  ASSUME NEW T \in SUBSET Nat, T # {}
  PROVE  \E x \in T : \A y \in T : x <= y
<1> DEFINE R == OpToRel(<, Nat)
<1>1. IsWellFoundedOn(R, Nat)
  BY NatLessThanWellFounded
<1>2. \A x, y \in Nat : y < x => <<y, x>> \in R
  BY DEF OpToRel
<1> HIDE DEF R
<1>3. PICK x \in T : \A y \in T : <<y, x>> \notin R
  BY <1>1, WFMin
<1>4. \A y \in T : ~ (y < x)
  BY <1>2, <1>3
<1>5. \A y \in T : x \in Nat /\ y \in Nat
  OBVIOUS
<1>6. \A y \in T : x <= y
  BY <1>4, <1>5
<1> QED BY <1>6

(* Induction: a set that has 0 and, with each number below N, the next one   *)
(* has every number up to N.                                                 *)
LEMMA UpTo ==
  ASSUME NEW N \in Nat, NEW S, 0 \in S,
         \A n \in 1 .. N : n - 1 \in S => n \in S
  PROVE  \A n \in 0 .. N : n \in S
<1> SUFFICES ASSUME NEW m \in 0 .. N, m \notin S PROVE FALSE
  OBVIOUS
<1> DEFINE T == {n \in 0 .. N : n \notin S}
<1>1. T \in SUBSET Nat /\ T # {}
  OBVIOUS
<1>2. PICK x \in T : \A y \in T : x <= y
  BY <1>1, LeastNumber
<1>3. x \in 1 .. N /\ x - 1 \in 0 .. N /\ ~ (x <= x - 1)
  BY <1>2
<1>4. x - 1 \in S
  BY <1>2, <1>3
<1> QED BY <1>3, <1>4

(* The bound of a range is the maximum of a set in the range that has it.    *)
LEMMA MaxOf ==
  ASSUME NEW m \in Nat, NEW s \in SUBSET (1 .. m + 1), m + 1 \in s
  PROVE  Max(s) = m + 1
<1>1. m + 1 \in s /\ \A y \in s : m + 1 >= y
  OBVIOUS
<1>2. \A x \in s : (\A y \in s : x >= y) => x = m + 1
  <2> TAKE x \in s
  <2> HAVE \A y \in s : x >= y
  <2>1. x >= m + 1 /\ m + 1 >= x /\ x \in 1 .. m + 1
    OBVIOUS
  <2> QED BY <2>1
<1> QED BY <1>1, <1>2 DEF Max

(* A nonempty set of numbers up to N has its maximum.                        *)
LEMMA MaxIn ==
  ASSUME NEW N \in Nat, NEW s \in SUBSET (1 .. N), s # {}
  PROVE  Max(s) \in s
<1> DEFINE T == {N - x : x \in s}
<1>1. T \in SUBSET Nat /\ T # {}
  <2>1. \A x \in s : N - x \in Nat
    OBVIOUS
  <2> QED BY <2>1
<1>2. PICK y \in T : \A z \in T : y <= z
  BY <1>1, LeastNumber
<1>3. PICK x \in s : y = N - x
  BY <1>2
<1>4. \A w \in s : x >= w
  <2> TAKE w \in s
  <2>1. N - x <= N - w
    BY <1>2, <1>3
  <2> QED BY <2>1
<1> QED BY <1>4 DEF Max

(* What the function of sets is that FoldLeft defines.                       *)
Folds(g, A, base, N, step) ==
  /\ g \in [SUBSET (1 .. N) -> A]
  /\ \A s \in SUBSET (1 .. N) :
       g[s] = IF s = {} THEN base ELSE step[<<g[s \ {Max(s)}], Max(s)>>]

(* For every step function there is such a function of sets, so the CHOOSE   *)
(* in the definition of FoldLeft chooses one.                                *)
LEMMA FoldExists ==
  ASSUME NEW A, NEW base \in A, NEW N \in Nat, NEW step \in [A \X (1 .. N) -> A]
  PROVE  \E g : Folds(g, A, base, N, step)
<1> DEFINE FoldsTo(g, m) == Folds(g, A, base, m, step)
           S == {m \in 0 .. N : \E g : FoldsTo(g, m)}
<1>1. 0 \in S
  <2> DEFINE g == [s \in {{}} |-> base]
  <2>1. SUBSET (1 .. 0) = {{}}
    OBVIOUS
  <2>2. FoldsTo(g, 0)
    BY <2>1 DEF Folds
  <2> HIDE DEF FoldsTo, g
  <2> QED BY <2>2
<1>2. ASSUME NEW n \in 1 .. N, n - 1 \in S
      PROVE  n \in S
  <2>1. PICK g : FoldsTo(g, n - 1)
    BY <1>2
  <2> DEFINE h == [s \in SUBSET (1 .. n) |->
                     IF n \in s THEN step[<<g[s \ {n}], n>>] ELSE g[s]]
  <2>2. \A s \in SUBSET (1 .. n) :
          /\ s \ {n} \in SUBSET (1 .. n - 1)
          /\ s \ {n} \in SUBSET (1 .. n)
          /\ n \notin s => s \in SUBSET (1 .. n - 1)
          /\ n \notin s \ {n}
    OBVIOUS
  <2>3. h \in [SUBSET (1 .. n) -> A]
    BY <2>1, <2>2 DEF Folds
  <2>4. ASSUME NEW s \in SUBSET (1 .. n)
        PROVE  h[s] = IF s = {} THEN base ELSE step[<<h[s \ {Max(s)}], Max(s)>>]
    <3>1. CASE n \in s
      <4>1. Max(s) = n
        <5>1. n - 1 \in Nat /\ (n - 1) + 1 = n
          OBVIOUS
        <5> QED BY <5>1, <3>1, MaxOf
      <4>2. h[s \ {n}] = g[s \ {n}]
        BY <2>2
      <4> QED BY <3>1, <4>1, <4>2
    <3>2. CASE n \notin s
      <4>1. s \in SUBSET (1 .. n - 1) /\ s \ {Max(s)} \in SUBSET (1 .. n - 1)
        BY <2>2, <3>2
      <4>2. h[s] = g[s]
        BY <3>2
      <4>3. s \ {Max(s)} \in SUBSET (1 .. n) /\ n \notin s \ {Max(s)}
        BY <3>2
      <4>4. h[s \ {Max(s)}] = g[s \ {Max(s)}]
        BY <4>3
      <4>5. g[s] = IF s = {} THEN base ELSE step[<<g[s \ {Max(s)}], Max(s)>>]
        BY <2>1, <4>1 DEF Folds
      <4> QED BY <4>2, <4>4, <4>5
    <3> QED BY <3>1, <3>2
  <2>5. FoldsTo(h, n)
    BY <2>3, <2>4 DEF Folds
  <2> HIDE DEF FoldsTo, h
  <2> QED BY <2>5
<1> HIDE DEF S
<1>3. N \in S
  BY <1>1, <1>2, UpTo
<1>4. PICK g : FoldsTo(g, N)
  BY <1>3 DEF S
<1> QED BY <1>4

(* The sets a fold over 1 .. N goes through, and the element each one adds.  *)
LEMMA InitialSegments ==
  ASSUME NEW N \in Nat
  PROVE  /\ 1 .. 0 = {} /\ {} \in SUBSET (1 .. N)
         /\ \A n \in 1 .. N :
              /\ 1 .. n \in SUBSET (1 .. N) /\ 1 .. n # {}
              /\ Max(1 .. n) = n /\ (1 .. n) \ {n} = 1 .. n - 1
<1>1. 1 .. 0 = {} /\ {} \in SUBSET (1 .. N)
  OBVIOUS
<1>2. ASSUME NEW n \in 1 .. N
      PROVE  /\ 1 .. n \in SUBSET (1 .. N) /\ 1 .. n # {}
             /\ Max(1 .. n) = n /\ (1 .. n) \ {n} = 1 .. n - 1
  <2>1. n - 1 \in Nat /\ (n - 1) + 1 = n
    OBVIOUS
  <2>2. Max(1 .. n) = n
    <3>1. (1 .. n) \in SUBSET (1 .. (n - 1) + 1) /\ (n - 1) + 1 \in 1 .. n
      BY <2>1
    <3>2. Max(1 .. n) = (n - 1) + 1
      BY <2>1, <3>1, MaxOf
    <3> QED BY <2>1, <3>2
  <2>3. (1 .. n) \ {n} = 1 .. n - 1
    OBVIOUS
  <2>4. 1 .. n \in SUBSET (1 .. N) /\ n \in 1 .. n
    OBVIOUS
  <2> QED BY <2>2, <2>3, <2>4
<1> QED BY <1>1, <1>2
=============================================================================

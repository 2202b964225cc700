----------------------------- MODULE InterpProof -----------------------------
(* What holds while a file runs, whatever the program and the bounds: the    *)
(* types, the list of open upvalues, the frames, and what classes inherit.   *)
EXTENDS Interp, Induction, SequenceTheorems

-----------------------------------------------------------------------------
(* The state in two records: a Machine, which most instructions change, and  *)
(* the heap they leave alone.  The invariant is about any two of them, m and *)
(* h, and is are the instances of m.                                         *)
Heap == [upvalues |-> upvalues, closures |-> closures, classes |-> classes]

(* The classes from k up, without the recursion: those in every set that has *)
(* k, and with each class its superclass.                                    *)
Upward(cs, S) == \A i \in S \ {0} : cs[i].super \in S
Above(cs, k) ==
  {j \in DOMAIN cs : \A S \in SUBSET (0 .. Len(cs)) : k \in S /\ Upward(cs, S) => j \in S}

Declaring(cs, k, n) == {j \in Above(cs, k) : n \in DOMAIN cs[j].own}

(* NearestDeclaration of the classes cs.                                     *)
Nearest(cs) ==
  \A k \in DOMAIN cs, n \in Member :
    /\ Declaring(cs, k, n) = {} => n \notin DOMAIN cs[k].methods
    /\ Declaring(cs, k, n) # {} =>
         /\ n \in DOMAIN cs[k].methods
         /\ cs[k].methods[n] = cs[Max(Declaring(cs, k, n))].own[n]

Methods(h) == {c \in DOMAIN h.closures : h.closures[c].method}
MethodsOf(cs, k) == UNION {Range(cs[j].own) : j \in Above(cs, k)}

(* What a variable may hold: no method but as one bound to an instance that  *)
(* understands it.                                                           *)
Values(h, is) ==
  Plain \union {Fn(c) : c \in DOMAIN h.closures \ Methods(h)}
        \union {Class(k) : k \in DOMAIN h.classes}
        \union {Instance(i) : i \in DOMAIN is}
        \union UNION {{Bound(Instance(i), c) : c \in MethodsOf(h.classes, is[i].class)} :
                      i \in DOMAIN is}

(* What a slot may hold, popped ones included.                               *)
Contents(h, is) == Values(h, is) \union {Fn(c) : c \in Methods(h)}

TableOf(N, T) == UNION {[M -> T] : M \in SUBSET N}

UpvalueSet(h, is) ==
  [location : 0 .. MaxSlots, closed : Values(h, is), this : BOOLEAN]
ClosureSet(h) == [arity : Nat, upvalues : Seq(DOMAIN h.upvalues), method : BOOLEAN]
MethodTable(h) == TableOf(Member, Methods(h))
ClassSet(h) == [methods : MethodTable(h), own : MethodTable(h), super : Nat]
InstanceSet(h, is) == [class : DOMAIN h.classes, fields : TableOf(Member, Values(h, is))]
FrameSet(h) == [closure : DOMAIN h.closures, slots : Slot]

(* A class is declared after its superclass.                                 *)
HeapOK(h, is) ==
  /\ h.upvalues \in Seq(UpvalueSet(h, is))
  /\ h.closures \in Seq(ClosureSet(h))
  /\ h.classes \in Seq(ClassSet(h))
  /\ \A k \in DOMAIN h.classes : h.classes[k].super < k
  /\ Nearest(h.classes)

MachineSet(h, is) ==
  [stack : [Slot -> Contents(h, is)], top : 0 .. MaxSlots, frames : Seq(FrameSet(h)),
   open : Seq(DOMAIN h.upvalues), instances : Seq(InstanceSet(h, is))]

(* A frame's callee is in its slot 0, as FramesKeepTheirCallee says.         *)
CalleeOK(m, h, v, c) ==
  IF c \in Methods(h)
  THEN \E i \in DOMAIN m.instances :
         v = Instance(i) /\ c \in MethodsOf(h.classes, m.instances[i].class)
  ELSE v = Fn(c)

FramesOK(m, h) ==
  /\ Len(m.frames) <= FRAMES_MAX
  /\ \A k \in DOMAIN m.frames :
       /\ m.frames[k].slots < m.top
       /\ CalleeOK(m, h, m.stack[m.frames[k].slots], m.frames[k].closure)
  /\ \A j, k \in DOMAIN m.frames : j < k => m.frames[j].slots < m.frames[k].slots
  /\ m.frames = <<>> => m.top = 0 /\ m.open = <<>>
  /\ m.frames # <<>> => m.frames[1].slots = 0

(* The open list: slots in use, in descending order, a callee's only for a   *)
(* `this', which nothing assigns, and all the slots that upvalues point to.  *)
Location(h, u) == h.upvalues[u].location
This(h, u) == h.upvalues[u].this

OpenOK(m, h) ==
  /\ \A k \in DOMAIN m.open :
       /\ Location(h, m.open[k]) < m.top
       /\ \A j \in DOMAIN m.frames :
            Location(h, m.open[k]) = m.frames[j].slots => This(h, m.open[k])
  /\ \A j, k \in DOMAIN m.open : j < k => Location(h, m.open[j]) > Location(h, m.open[k])
  /\ m.frames # <<>> =>
       \A u \in DOMAIN h.upvalues : Location(h, u) # Closed => u \in Range(m.open)

MachineOK(m, h) ==
  m \in MachineSet(h, m.instances) /\ FramesOK(m, h) /\ OpenOK(m, h)

Live(m, h, n) == \A s \in 0 .. n - 1 : m.stack[s] \in Values(h, m.instances)

OK(m, h) == MachineOK(m, h) /\ HeapOK(h, m.instances) /\ Live(m, h, m.top)

(* The n topmost slots are temporaries of the running frame.                 *)
Room(m, h, n) ==
  /\ m.frames # <<>> /\ Last(m.frames).slots < m.top - n
  /\ \A k \in DOMAIN m.open : Location(h, m.open[k]) < m.top - n

(* A method's closure is on the stack only between OP_CLOSURE and OP_METHOD, *)
(* above the class that was just declared.                                   *)
Pending(m, h) ==
  /\ Room(m, h, 2) /\ Live(m, h, m.top - 1)
  /\ \E c \in Methods(h) : m.stack[m.top - 1] = Fn(c)
  /\ h.classes # <<>> /\ m.stack[m.top - 2] = Class(Len(h.classes))
  /\ \A i \in DOMAIN m.instances : m.instances[i].class # Len(h.classes)

Bounded ==
  /\ Len(closures) <= MaxClosures /\ Len(classes) <= MaxClasses
  /\ Len(instances) <= MaxInstances

GlobalsOK(h, is) == globals \in TableOf(Name \union Native, Values(h, is))

(* Nothing runs before the one call of interpret.                            *)
OneScript == line \in 0 .. 1 /\ (line = 0 => frames = <<>> /\ upvalues = <<>>)

IInv ==
  /\ MachineOK(Machine, Heap) /\ HeapOK(Heap, instances)
  /\ Live(Machine, Heap, top) \/ Pending(Machine, Heap)
  /\ GlobalsOK(Heap, instances) /\ Bounded /\ OneScript

-----------------------------------------------------------------------------
(* The classes above a class.                                                *)
Hierarchy(cs) ==
  /\ cs \in Seq([methods : TableOf(Member, Nat), own : TableOf(Member, Nat), super : Nat])
  /\ \A k \in DOMAIN cs : cs[k].super < k

(* A class comes after its superclass, which is 0 at the root.               *)
LEMMA ClassIndex ==
  ASSUME NEW cs, Hierarchy(cs), NEW k \in DOMAIN cs
  PROVE  /\ Len(cs) \in Nat /\ DOMAIN cs = 1 .. Len(cs)
         /\ k \in 1 .. Len(cs) /\ cs[k].super \in 0 .. Len(cs) /\ cs[k].super < k
<1> DEFINE T == [methods : TableOf(Member, Nat), own : TableOf(Member, Nat), super : Nat]
<1>1. cs \in Seq(T) /\ cs[k].super < k
  BY DEF Hierarchy
<1> HIDE DEF T
<1>2. Len(cs) \in Nat /\ DOMAIN cs = 1 .. Len(cs) /\ cs[k] \in T
  BY <1>1
<1>3. cs[k].super \in Nat
  BY <1>2 DEF T
<1> QED BY <1>1, <1>2, <1>3

(* No class is above the root.                                               *)
LEMMA AboveRoot ==
  ASSUME NEW cs, Hierarchy(cs)
  PROVE  Above(cs, 0) = {}
<1>1. \A j \in DOMAIN cs : j # 0
  BY ClassIndex
<1>2. {0} \in SUBSET (0 .. Len(cs)) /\ Upward(cs, {0})
  BY DEF Upward, Hierarchy
<1> QED BY <1>1, <1>2 DEF Above

(* A class is above itself.                                                  *)
LEMMA AboveItself ==
  ASSUME NEW cs, NEW k \in DOMAIN cs
  PROVE  k \in Above(cs, k)
BY DEF Above

(* What is above a class is above those it is above of.                      *)
LEMMA AboveTransitive ==
  ASSUME NEW cs, NEW k, NEW j \in Above(cs, k)
  PROVE  Above(cs, j) \subseteq Above(cs, k)
BY DEF Above

(* The classes above k are k and those above its superclass.                 *)
LEMMA AboveSuper ==
  ASSUME NEW cs, Hierarchy(cs), NEW k \in DOMAIN cs
  PROVE  Above(cs, k) = {k} \union Above(cs, cs[k].super)
<1> DEFINE p == cs[k].super
<1>1. /\ Len(cs) \in Nat /\ DOMAIN cs = 1 .. Len(cs)
      /\ k \in 1 .. Len(cs) /\ p \in 0 .. Len(cs) /\ p < k
  BY ClassIndex
<1> HIDE DEF p
<1>2. ASSUME NEW j \in Above(cs, k), j # k
      PROVE  j \in Above(cs, p)
  <2> SUFFICES ASSUME NEW S \in SUBSET (0 .. Len(cs)), p \in S, Upward(cs, S)
               PROVE  j \in S
    BY DEF Above
  <2>1. S \union {k} \in SUBSET (0 .. Len(cs)) /\ k \in S \union {k}
    <3>1. k \in 0 .. Len(cs)
      BY <1>1
    <3> QED BY <3>1
  <2>2. Upward(cs, S \union {k})
    BY DEF Upward, p
  <2>3. j \in S \union {k}
    BY <2>1, <2>2 DEF Above
  <2> QED BY <2>3, <1>2
<1>3. ASSUME NEW j \in Above(cs, p)
      PROVE  j \in Above(cs, k)
  <2> SUFFICES ASSUME NEW S \in SUBSET (0 .. Len(cs)), k \in S, Upward(cs, S)
               PROVE  j \in S
    BY DEF Above
  <2>1. p \in S
    BY <1>1 DEF Upward, p
  <2> QED BY <2>1 DEF Above
<1> QED BY <1>2, <1>3, AboveItself DEF p

(* The classes above k were declared no later than k.                        *)
LEMMA AboveBelow ==
  ASSUME NEW cs, Hierarchy(cs), NEW k \in DOMAIN cs, NEW j \in Above(cs, k)
  PROVE  j \in DOMAIN cs /\ j \in 1 .. k
<1>1. Len(cs) \in Nat /\ DOMAIN cs = 1 .. Len(cs) /\ k \in 1 .. Len(cs)
  BY ClassIndex
<1>2. (0 .. k) \in SUBSET (0 .. Len(cs)) /\ k \in 0 .. k
  BY <1>1
<1>3. \A i \in (0 .. k) \ {0} : cs[i].super \in 0 .. k
  <2> TAKE i \in (0 .. k) \ {0}
  <2>1. i \in DOMAIN cs
    BY <1>1
  <2>2. cs[i].super \in 0 .. Len(cs) /\ cs[i].super < i
    BY <2>1, ClassIndex
  <2> QED BY <1>1, <2>2
<1>4. j \in DOMAIN cs /\ j \in 0 .. k
  BY <1>2, <1>3 DEF Above, Upward
<1> QED BY <1>1, <1>4

(* What is above k depends on the classes up to k alone.                     *)
LEMMA AboveSame ==
  ASSUME NEW cs, Hierarchy(cs), NEW cs2, Hierarchy(cs2), NEW k \in DOMAIN cs,
         \A i \in 1 .. k : i \in DOMAIN cs2 /\ cs2[i].super = cs[i].super
  PROVE  Above(cs2, k) = Above(cs, k)
<1>1. Len(cs) \in Nat /\ DOMAIN cs = 1 .. Len(cs) /\ k \in 1 .. Len(cs) /\ k \in DOMAIN cs2
  BY ClassIndex
<1>2. Len(cs2) \in Nat /\ DOMAIN cs2 = 1 .. Len(cs2) /\ k \in 1 .. Len(cs2)
  BY <1>1, ClassIndex
<1>3. ASSUME NEW i \in 1 .. k
      PROVE  cs[i].super < i /\ cs2[i].super = cs[i].super
             /\ cs[i].super \in Nat
  <2>1. i \in DOMAIN cs
    BY <1>1
  <2> QED BY <2>1, ClassIndex
<1>4. ASSUME NEW j \in Above(cs, k)
      PROVE  j \in Above(cs2, k)
  <2>1. j \in DOMAIN cs2
    BY AboveBelow
  <2> SUFFICES ASSUME NEW S \in SUBSET (0 .. Len(cs2)), k \in S, Upward(cs2, S)
               PROVE  j \in S
    BY <2>1 DEF Above
  <2>2. S \intersect 0 .. k \in SUBSET (0 .. Len(cs)) /\ k \in S \intersect 0 .. k
    BY <1>1
  <2>3. Upward(cs, S \intersect 0 .. k)
    BY <1>1, <1>3 DEF Upward
  <2> QED BY <2>2, <2>3 DEF Above
<1>5. ASSUME NEW j \in Above(cs2, k)
      PROVE  j \in Above(cs, k)
  <2>1. j \in DOMAIN cs
    <3>1. j \in 1 .. k
      BY <1>1, AboveBelow
    <3> QED BY <1>1, <3>1
  <2> SUFFICES ASSUME NEW S \in SUBSET (0 .. Len(cs)), k \in S, Upward(cs, S)
               PROVE  j \in S
    BY <2>1 DEF Above
  <2>2. S \intersect 0 .. k \in SUBSET (0 .. Len(cs2)) /\ k \in S \intersect 0 .. k
    BY <1>1, <1>2
  <2>3. Upward(cs2, S \intersect 0 .. k)
    BY <1>1, <1>2, <1>3 DEF Upward
  <2> QED BY <2>2, <2>3 DEF Above
<1> QED BY <1>4, <1>5

(* The recursive function of the model gives the classes above a class.      *)
IsAncestry(f, cs) ==
  f = [k \in 0 .. Len(cs) |-> IF k = 0 THEN {} ELSE {k} \union f[cs[k].super]]

(* Ancestry, which the model computes recursively, is Above.                 *)
LEMMA AncestryIsAbove ==
  ASSUME Hierarchy(classes)
  PROVE  \A k \in 0 .. Len(classes) : Ancestry[k] = Above(classes, k)
<1> DEFINE cs == classes
           N  == Len(cs)
           g  == [k \in 0 .. N |-> Above(cs, k)]
<1>1. N \in Nat /\ DOMAIN cs = 1 .. N
  <2>1. cs \in Seq([methods : TableOf(Member, Nat), own : TableOf(Member, Nat), super : Nat])
    BY DEF Hierarchy
  <2> QED BY <2>1
<1>2. \A k \in 1 .. N : cs[k].super \in 0 .. N /\ cs[k].super < k
  BY <1>1, ClassIndex
<1>3. IsAncestry(g, cs)
  <2>1. g[0] = {}
    BY <1>1, AboveRoot
  <2>2. \A k \in 1 .. N : g[k] = {k} \union g[cs[k].super]
    BY <1>1, <1>2, AboveSuper
  <2> QED BY <2>1, <2>2, <1>1 DEF IsAncestry
<1>4. IsAncestry(Ancestry, cs)
  <2> HIDE DEF g
  <2>1. Ancestry = CHOOSE f : IsAncestry(f, cs)
    BY DEF Ancestry, IsAncestry
  <2> QED BY <2>1, <1>3
<1>5. ASSUME NEW k \in 0 .. N PROVE Ancestry[k] = g[k]
  <2> DEFINE S == {n \in 0 .. N : \A i \in 0 .. n : Ancestry[i] = g[i]}
  <2>1. 0 \in S
    <3>1. 0 \in 0 .. N /\ \A i \in 0 .. 0 : i = 0
      BY <1>1
    <3>2. Ancestry[0] = {}
      BY <1>4, <3>1 DEF IsAncestry
    <3>3. g[0] = {}
      <4> HIDE DEF g
      <4> QED BY <1>3, <3>1 DEF IsAncestry
    <3> HIDE DEF g
    <3> QED BY <3>1, <3>2, <3>3
  <2>2. ASSUME NEW n \in 1 .. N, n - 1 \in S PROVE n \in S
    <3>1. cs[n].super \in 0 .. n - 1
      BY <1>2
    <3>2. Ancestry[cs[n].super] = g[cs[n].super]
      BY <2>2, <3>1
    <3>3. n \in 0 .. N /\ n # 0
      BY <1>1
    <3>4. Ancestry[n] = {n} \union Ancestry[cs[n].super]
      BY <1>4, <3>3 DEF IsAncestry
    <3>5. g[n] = {n} \union g[cs[n].super]
      <4> HIDE DEF g
      <4> QED BY <1>3, <3>3 DEF IsAncestry
    <3>6. \A i \in 0 .. n : i \in 0 .. n - 1 \/ i = n
      OBVIOUS
    <3> HIDE DEF g
    <3> QED BY <2>2, <3>2, <3>3, <3>4, <3>5, <3>6
  <2> HIDE DEF S
  <2>3. \A n \in 0 .. N : n \in S
    BY <1>1, <2>1, <2>2, UpTo
  <2>4. k \in S /\ k \in 0 .. k
    BY <2>3, <1>1
  <2> QED BY <2>4 DEF S
<1> QED BY <1>5

-----------------------------------------------------------------------------
(* Tables of methods, fields and globals.                                    *)
LEMMA TableOfAll ==
  ASSUME NEW N, NEW T, NEW f \in TableOf(N, T)
  PROVE  /\ f \in [DOMAIN f -> T] /\ DOMAIN f \subseteq N
         /\ Range(f) \subseteq T /\ \A n \in DOMAIN f : f[n] \in T
<1>1. PICK M \in SUBSET N : f \in [M -> T]
  BY DEF TableOf
<1> QED BY <1>1 DEF Range

(* Tables over more values.                                                  *)
LEMMA TableGrows ==
  ASSUME NEW N, NEW T, NEW U, T \subseteq U
  PROVE  TableOf(N, T) \subseteq TableOf(N, U)
<1> SUFFICES ASSUME NEW f \in TableOf(N, T) PROVE f \in TableOf(N, U)
  OBVIOUS
<1>1. PICK M \in SUBSET N : f \in [M -> T]
  BY DEF TableOf
<1>2. f \in [M -> U]
  BY <1>1
<1> QED BY <1>2 DEF TableOf

(* The empty table.                                                          *)
LEMMA NothingIsTable ==
  ASSUME NEW N, NEW T
  PROVE  Nothing \in TableOf(N, T) /\ DOMAIN Nothing = {}
<1>1. Nothing \in [{} -> T] /\ {} \in SUBSET N
  BY DEF Nothing
<1> QED BY <1>1 DEF TableOf, Nothing

(* tableSet: the entry is there, and the others are as they were.            *)
LEMMA BindIsTable ==
  ASSUME NEW N, NEW T, NEW f \in TableOf(N, T), NEW n \in N, NEW v \in T
  PROVE  /\ Bind(f, n, v) \in TableOf(N, T)
         /\ DOMAIN Bind(f, n, v) = DOMAIN f \union {n}
         /\ Bind(f, n, v)[n] = v
         /\ \A x \in DOMAIN f : x # n => Bind(f, n, v)[x] = f[x]
         /\ Range(Bind(f, n, v)) \subseteq Range(f) \union {v}
         /\ v \in Range(Bind(f, n, v))
<1>1. f \in [DOMAIN f -> T] /\ DOMAIN f \subseteq N
  BY TableOfAll
<1> DEFINE g == Bind(f, n, v)
           M == DOMAIN f \union {n}
<1>2. /\ g \in [M -> T] /\ M \in SUBSET N /\ DOMAIN g = M /\ g[n] = v
      /\ \A x \in DOMAIN f : x # n => g[x] = f[x]
  BY <1>1 DEF Bind
<1> HIDE DEF g
<1>3. g \in TableOf(N, T)
  BY <1>2 DEF TableOf
<1>4. Range(g) \subseteq Range(f) \union {v} /\ v \in Range(g)
  BY <1>2 DEF Range
<1> QED BY <1>2, <1>3, <1>4 DEF g

-----------------------------------------------------------------------------
(* Methods and values.                                                       *)
LEMMA ClassesAreHierarchy ==
  ASSUME NEW h, NEW is, HeapOK(h, is)
  PROVE  Hierarchy(h.classes)
<1> DEFINE T == [methods : TableOf(Member, Nat), own : TableOf(Member, Nat), super : Nat]
<1>1. Methods(h) \subseteq Nat
  <2>1. h.closures \in Seq(ClosureSet(h))
    BY DEF HeapOK
  <2>2. DOMAIN h.closures \subseteq Nat
    BY <2>1
  <2> QED BY <2>2 DEF Methods
<1>2. MethodTable(h) \subseteq TableOf(Member, Nat)
  BY <1>1, TableGrows DEF MethodTable
<1>3. ClassSet(h) \subseteq T
  BY <1>2 DEF ClassSet
<1> HIDE DEF T
<1>4. h.classes \in Seq(ClassSet(h))
  BY DEF HeapOK
<1>5. h.classes \in Seq(T)
  BY <1>3, <1>4
<1> QED BY <1>5 DEF Hierarchy, HeapOK, T

(* The types of what a heap in order holds.                                  *)
LEMMA HeapTypes ==
  ASSUME NEW h, NEW is, HeapOK(h, is)
  PROVE  /\ Len(h.classes) \in Nat /\ DOMAIN h.classes = 1 .. Len(h.classes)
         /\ Len(h.closures) \in Nat /\ DOMAIN h.closures = 1 .. Len(h.closures)
         /\ Len(h.upvalues) \in Nat /\ DOMAIN h.upvalues = 1 .. Len(h.upvalues)
         /\ \A k \in DOMAIN h.classes :
              /\ h.classes[k] \in ClassSet(h)
              /\ h.classes[k].methods \in TableOf(Member, Methods(h))
              /\ h.classes[k].own \in TableOf(Member, Methods(h))
              /\ h.classes[k].super \in Nat /\ h.classes[k].super < k
         /\ \A c \in DOMAIN h.closures :
              /\ h.closures[c] \in ClosureSet(h)
              /\ h.closures[c].arity \in Nat
              /\ h.closures[c].upvalues \in Seq(DOMAIN h.upvalues)
              /\ h.closures[c].method \in BOOLEAN
         /\ \A u \in DOMAIN h.upvalues :
              /\ h.upvalues[u] \in UpvalueSet(h, is)
              /\ h.upvalues[u].location \in 0 .. MaxSlots
              /\ h.upvalues[u].closed \in Values(h, is)
<1>1. /\ h.classes \in Seq(ClassSet(h)) /\ h.closures \in Seq(ClosureSet(h))
      /\ h.upvalues \in Seq(UpvalueSet(h, is))
      /\ \A k \in DOMAIN h.classes : h.classes[k].super < k
  BY DEF HeapOK
<1>2. /\ Len(h.classes) \in Nat /\ DOMAIN h.classes = 1 .. Len(h.classes)
      /\ \A k \in DOMAIN h.classes : h.classes[k] \in ClassSet(h)
  BY <1>1
<1>3. /\ Len(h.closures) \in Nat /\ DOMAIN h.closures = 1 .. Len(h.closures)
      /\ \A k \in DOMAIN h.closures : h.closures[k] \in ClosureSet(h)
  BY <1>1
<1>4. /\ Len(h.upvalues) \in Nat /\ DOMAIN h.upvalues = 1 .. Len(h.upvalues)
      /\ \A k \in DOMAIN h.upvalues : h.upvalues[k] \in UpvalueSet(h, is)
  BY <1>1
<1>5. \A x \in ClassSet(h) :
        /\ x.methods \in TableOf(Member, Methods(h))
        /\ x.own \in TableOf(Member, Methods(h)) /\ x.super \in Nat
  BY DEF ClassSet, MethodTable
<1>6. \A x \in ClosureSet(h) :
        x.arity \in Nat /\ x.upvalues \in Seq(DOMAIN h.upvalues) /\ x.method \in BOOLEAN
  BY DEF ClosureSet
<1>7. \A x \in UpvalueSet(h, is) : x.location \in 0 .. MaxSlots /\ x.closed \in Values(h, is)
  BY DEF UpvalueSet
<1> QED BY <1>1, <1>2, <1>3, <1>4, <1>5, <1>6, <1>7

(* A class declares methods only.                                            *)
LEMMA MethodsOfMethods ==
  ASSUME NEW h, NEW is, HeapOK(h, is), NEW k
  PROVE  MethodsOf(h.classes, k) \subseteq Methods(h)
<1> SUFFICES ASSUME NEW j \in Above(h.classes, k)
             PROVE  Range(h.classes[j].own) \subseteq Methods(h)
  BY DEF MethodsOf
<1>1. j \in DOMAIN h.classes
  BY DEF Above
<1>2. h.classes[j].own \in TableOf(Member, Methods(h))
  BY <1>1, HeapTypes
<1> QED BY <1>2, TableOfAll

(* A class has the methods of those above it.                                *)
LEMMA AncestorsMethods ==
  ASSUME NEW cs, NEW k, NEW j \in Above(cs, k)
  PROVE  MethodsOf(cs, j) \subseteq MethodsOf(cs, k)
BY AboveTransitive DEF MethodsOf

(* The declaring class that is nearest is one of those above.                *)
LEMMA NearestDeclares ==
  ASSUME NEW cs, Hierarchy(cs), NEW k \in DOMAIN cs, NEW n, Declaring(cs, k, n) # {}
  PROVE  Max(Declaring(cs, k, n)) \in Declaring(cs, k, n)
<1>1. Len(cs) \in Nat /\ DOMAIN cs = 1 .. Len(cs)
  BY ClassIndex
<1>2. Declaring(cs, k, n) \in SUBSET (1 .. Len(cs))
  BY <1>1 DEF Declaring, Above
<1> QED BY <1>1, <1>2, MaxIn

(* What OP_INHERIT and OP_METHOD put into a class's table is declared by the *)
(* class or by one above it.                                                 *)
LEMMA Inherited ==
  ASSUME NEW h, NEW is, HeapOK(h, is), NEW k \in DOMAIN h.classes,
         NEW n \in DOMAIN h.classes[k].methods
  PROVE  h.classes[k].methods[n] \in MethodsOf(h.classes, k)
<1> DEFINE cs == h.classes
           D  == Declaring(cs, k, n)
<1>1. Hierarchy(cs) /\ Nearest(cs)
  BY ClassesAreHierarchy DEF HeapOK
<1>2. n \in Member
  <2>1. cs[k].methods \in TableOf(Member, Methods(h))
    BY HeapTypes
  <2>2. DOMAIN cs[k].methods \subseteq Member
    BY <2>1, TableOfAll
  <2> QED BY <2>2
<1>3. D # {} /\ cs[k].methods[n] = cs[Max(D)].own[n]
  BY <1>1, <1>2 DEF Nearest
<1>4. Max(D) \in D
  BY <1>1, <1>3, NearestDeclares
<1>5. Max(D) \in Above(cs, k) /\ n \in DOMAIN cs[Max(D)].own
  BY <1>4 DEF Declaring
<1>6. cs[Max(D)].own[n] \in Range(cs[Max(D)].own)
  BY <1>5 DEF Range
<1> QED BY <1>3, <1>5, <1>6 DEF MethodsOf

(* A value with a tag is an object of that kind.                             *)
LEMMA Tags ==
  ASSUME NEW h, NEW is, NEW v \in Contents(h, is)
  PROVE  /\ Is(v, "receiver") =>
              \E i \in DOMAIN is : \E c \in MethodsOf(h.classes, is[i].class) :
                v = Bound(Instance(i), c) /\ v.receiver = Instance(i) /\ v.method = c
         /\ Is(v, "class") => \E k \in DOMAIN h.classes : v = Class(k) /\ v.class = k
         /\ Is(v, "instance") => \E i \in DOMAIN is : v = Instance(i) /\ v.instance = i
         /\ Is(v, "closure") => \E c \in DOMAIN h.closures :
                v = Fn(c) /\ v.closure = c /\ (v \in Values(h, is) => c \notin Methods(h))
<1> SUFFICES ASSUME v \notin Plain
             PROVE  /\ "receiver" \in DOMAIN v =>
                          \E i \in DOMAIN is : \E c \in MethodsOf(h.classes, is[i].class) :
                            v = Bound(Instance(i), c) /\ v.receiver = Instance(i) /\ v.method = c
                    /\ "class" \in DOMAIN v => \E k \in DOMAIN h.classes : v = Class(k) /\ v.class = k
                    /\ "instance" \in DOMAIN v => \E i \in DOMAIN is : v = Instance(i) /\ v.instance = i
                    /\ "closure" \in DOMAIN v => \E c \in DOMAIN h.closures :
                         v = Fn(c) /\ v.closure = c /\ (v \in Values(h, is) => c \notin Methods(h))
  BY DEF Is
<1>1. \A c : DOMAIN Fn(c) = {"closure"} /\ Fn(c).closure = c
  BY DEF Fn
<1>2. \A k : DOMAIN Class(k) = {"class"} /\ Class(k).class = k
  BY DEF Class
<1>3. \A i : DOMAIN Instance(i) = {"instance"} /\ Instance(i).instance = i
  BY DEF Instance
<1>4. \A i, c : DOMAIN Bound(i, c) = {"receiver", "method"}
                /\ Bound(i, c).receiver = i /\ Bound(i, c).method = c
  BY DEF Bound
<1>5. CASE v \in Values(h, is)
  <2>1. CASE \E c \in DOMAIN h.closures \ Methods(h) : v = Fn(c)
    <3>1. PICK c \in DOMAIN h.closures \ Methods(h) : v = Fn(c)
      BY <2>1
    <3> QED BY <1>1, <3>1
  <2>2. CASE \E k \in DOMAIN h.classes : v = Class(k)
    BY <1>2, <2>2
  <2>3. CASE \E i \in DOMAIN is : v = Instance(i)
    BY <1>3, <2>3
  <2>4. CASE \E i \in DOMAIN is : \E c \in MethodsOf(h.classes, is[i].class) :
               v = Bound(Instance(i), c)
    BY <1>4, <2>4
  <2> QED BY <1>5, <2>1, <2>2, <2>3, <2>4 DEF Values
<1>6. CASE v \notin Values(h, is)
  <2>1. PICK c \in Methods(h) : v = Fn(c)
    BY <1>6 DEF Contents
  <2> QED BY <1>1, <1>6, <2>1 DEF Methods
<1> QED BY <1>5, <1>6

(* The cases of callValue exclude one another.                               *)
LEMMA OneTag ==
  ASSUME NEW h, NEW is, NEW v \in Contents(h, is)
  PROVE  /\ Is(v, "receiver") => ~ Is(v, "class") /\ ~ Is(v, "closure") /\ v \notin Native
         /\ Is(v, "class") => ~ Is(v, "receiver") /\ ~ Is(v, "closure") /\ v \notin Native
         /\ Is(v, "closure") => ~ Is(v, "receiver") /\ ~ Is(v, "class") /\ v \notin Native
<1>1. Is(v, "receiver") => DOMAIN v = {"receiver", "method"}
  BY Tags DEF Bound
<1>2. Is(v, "class") => DOMAIN v = {"class"}
  BY Tags DEF Class
<1>3. Is(v, "closure") => DOMAIN v = {"closure"}
  BY Tags DEF Fn
<1>4. v \in Native => v \in Plain
  BY InterpAssumption
<1> QED BY <1>1, <1>2, <1>3, <1>4 DEF Is

(* Values stay values while closures, classes and instances are added.       *)
Grows(h, is, h2, is2) ==
  /\ \A c \in DOMAIN h.closures :
       c \in DOMAIN h2.closures /\ h2.closures[c].method = h.closures[c].method
  /\ DOMAIN h.classes \subseteq DOMAIN h2.classes
  /\ \A i \in DOMAIN is :
       /\ i \in DOMAIN is2
       /\ MethodsOf(h.classes, is[i].class) \subseteq MethodsOf(h2.classes, is2[i].class)

(* What a variable may hold it may still hold in a larger heap.              *)
LEMMA ValuesGrow ==
  ASSUME NEW h, NEW is, NEW h2, NEW is2, Grows(h, is, h2, is2)
  PROVE  /\ Methods(h) \subseteq Methods(h2)
         /\ Values(h, is) \subseteq Values(h2, is2)
         /\ Contents(h, is) \subseteq Contents(h2, is2)
<1>1. /\ Methods(h) \subseteq Methods(h2)
      /\ DOMAIN h.closures \ Methods(h) \subseteq DOMAIN h2.closures \ Methods(h2)
  BY DEF Grows, Methods
<1>2. Values(h, is) \subseteq Values(h2, is2)
  <2> SUFFICES ASSUME NEW v \in Values(h, is), v \notin Plain PROVE v \in Values(h2, is2)
    BY DEF Values
  <2>1. CASE \E c \in DOMAIN h.closures \ Methods(h) : v = Fn(c)
    BY <1>1, <2>1 DEF Values
  <2>2. CASE \E k \in DOMAIN h.classes : v = Class(k)
    BY <2>2 DEF Values, Grows
  <2>3. CASE \E i \in DOMAIN is : v = Instance(i)
    BY <2>3 DEF Values, Grows
  <2>4. CASE \E i \in DOMAIN is : \E c \in MethodsOf(h.classes, is[i].class) :
               v = Bound(Instance(i), c)
    <3>1. PICK i \in DOMAIN is : \E c \in MethodsOf(h.classes, is[i].class) :
               v = Bound(Instance(i), c)
      BY <2>4
    <3>2. i \in DOMAIN is2 /\ \E c \in MethodsOf(h2.classes, is2[i].class) :
               v = Bound(Instance(i), c)
      BY <3>1 DEF Grows
    <3> QED BY <3>2 DEF Values
  <2> QED BY <2>1, <2>2, <2>3, <2>4 DEF Values
<1> QED BY <1>1, <1>2 DEF Contents

(* A callee stays a frame's callee while the heap grows.                     *)
LEMMA CalleeStays ==
  ASSUME NEW h, NEW m, NEW h2, NEW m2, Grows(h, m.instances, h2, m2.instances),
         NEW v, NEW c \in DOMAIN h.closures, CalleeOK(m, h, v, c)
  PROVE  CalleeOK(m2, h2, v, c)
<1>1. c \in Methods(h) <=> c \in Methods(h2)
  BY DEF Grows, Methods
<1>2. CASE c \in Methods(h)
  <2>1. PICK i \in DOMAIN m.instances :
          v = Instance(i) /\ c \in MethodsOf(h.classes, m.instances[i].class)
    BY <1>2 DEF CalleeOK
  <2>2. i \in DOMAIN m2.instances /\ c \in MethodsOf(h2.classes, m2.instances[i].class)
    BY <2>1 DEF Grows
  <2> QED BY <1>1, <1>2, <2>1, <2>2 DEF CalleeOK
<1>3. CASE c \notin Methods(h)
  BY <1>1, <1>3 DEF CalleeOK
<1> QED BY <1>2, <1>3

-----------------------------------------------------------------------------
(* The fields of a machine.                                                  *)
LEMMA MachineTypes ==
  ASSUME NEW h, NEW is, NEW m \in MachineSet(h, is)
  PROVE  /\ m.stack \in [Slot -> Contents(h, is)] /\ m.top \in 0 .. MaxSlots
         /\ m.frames \in Seq(FrameSet(h)) /\ m.open \in Seq(DOMAIN h.upvalues)
         /\ m.instances \in Seq(InstanceSet(h, is))
         /\ Len(m.frames) \in Nat /\ DOMAIN m.frames = 1 .. Len(m.frames)
         /\ Len(m.open) \in Nat /\ DOMAIN m.open = 1 .. Len(m.open)
         /\ Len(m.instances) \in Nat /\ DOMAIN m.instances = 1 .. Len(m.instances)
         /\ \A s \in Slot : m.stack[s] \in Contents(h, is)
         /\ \A k \in DOMAIN m.frames : /\ m.frames[k] \in FrameSet(h)
                                       /\ m.frames[k].closure \in DOMAIN h.closures
                                       /\ m.frames[k].slots \in Slot
         /\ \A k \in DOMAIN m.open : m.open[k] \in DOMAIN h.upvalues
         /\ \A i \in DOMAIN m.instances :
              /\ m.instances[i] \in InstanceSet(h, is)
              /\ m.instances[i].class \in DOMAIN h.classes
              /\ m.instances[i].fields \in TableOf(Member, Values(h, is))
<1>1. /\ m.stack \in [Slot -> Contents(h, is)] /\ m.top \in 0 .. MaxSlots
      /\ m.frames \in Seq(FrameSet(h)) /\ m.open \in Seq(DOMAIN h.upvalues)
      /\ m.instances \in Seq(InstanceSet(h, is))
  BY DEF MachineSet
<1>2. \A s \in Slot : m.stack[s] \in Contents(h, is)
  BY <1>1
<1>3. /\ Len(m.frames) \in Nat /\ DOMAIN m.frames = 1 .. Len(m.frames)
      /\ \A k \in DOMAIN m.frames : m.frames[k] \in FrameSet(h)
  BY <1>1
<1>4. /\ Len(m.open) \in Nat /\ DOMAIN m.open = 1 .. Len(m.open)
      /\ \A k \in DOMAIN m.open : m.open[k] \in DOMAIN h.upvalues
  BY <1>1
<1>5. /\ Len(m.instances) \in Nat /\ DOMAIN m.instances = 1 .. Len(m.instances)
      /\ \A k \in DOMAIN m.instances : m.instances[k] \in InstanceSet(h, is)
  BY <1>1
<1>6. \A x \in FrameSet(h) : x.closure \in DOMAIN h.closures /\ x.slots \in Slot
  BY DEF FrameSet
<1>7. \A x \in InstanceSet(h, is) :
        x.class \in DOMAIN h.classes /\ x.fields \in TableOf(Member, Values(h, is))
  BY DEF InstanceSet
<1> QED BY <1>1, <1>2, <1>3, <1>4, <1>5, <1>6, <1>7

(* A machine in order has its type.                                          *)
LEMMA MachineOKTypes ==
  ASSUME NEW h, NEW m, MachineOK(m, h)
  PROVE  m \in MachineSet(h, m.instances)
BY DEF MachineOK

(* Frames are in the order of their slots: the running one is the highest.   *)
LEMMA RunningFrame ==
  ASSUME NEW h, NEW m, MachineOK(m, h), m.frames # <<>>
  PROVE  /\ Len(m.frames) \in DOMAIN m.frames
         /\ Last(m.frames) = m.frames[Len(m.frames)]
         /\ Last(m.frames).slots \in Slot /\ Last(m.frames).closure \in DOMAIN h.closures
         /\ Last(m.frames).slots < m.top
         /\ \A k \in DOMAIN m.frames : m.frames[k].slots <= Last(m.frames).slots
<1>1. m \in MachineSet(h, m.instances)
  BY DEF MachineOK
<1>2. /\ m.frames \in Seq(FrameSet(h)) /\ Len(m.frames) \in Nat
      /\ DOMAIN m.frames = 1 .. Len(m.frames)
      /\ \A k \in DOMAIN m.frames : m.frames[k].slots \in Slot
      /\ \A k \in DOMAIN m.frames : m.frames[k].closure \in DOMAIN h.closures
  BY <1>1, MachineTypes
<1>3. Len(m.frames) # 0
  BY <1>2
<1>4. Len(m.frames) \in DOMAIN m.frames /\ Last(m.frames) = m.frames[Len(m.frames)]
  BY <1>2, <1>3 DEF Last
<1>5. /\ \A j, k \in DOMAIN m.frames : j < k => m.frames[j].slots < m.frames[k].slots
      /\ \A k \in DOMAIN m.frames : m.frames[k].slots < m.top
  BY DEF MachineOK, FramesOK
<1>6. ASSUME NEW k \in DOMAIN m.frames
      PROVE  m.frames[k].slots <= m.frames[Len(m.frames)].slots
  <2>1. CASE k = Len(m.frames)
    BY <2>1, <1>2, <1>4 DEF Slot
  <2>2. CASE k < Len(m.frames)
    BY <2>2, <1>2, <1>4, <1>5 DEF Slot
  <2> QED BY <1>2, <2>1, <2>2
<1> QED BY <1>2, <1>4, <1>5, <1>6

(* m2 is m with v in slot s.                                                 *)
IsPut(h, m, m2, s, v) ==
  /\ m2 \in MachineSet(h, m.instances)
  /\ m2.top = m.top /\ m2.frames = m.frames /\ m2.open = m.open /\ m2.instances = m.instances
  /\ m2.stack[s] = v /\ \A x \in Slot : x # s => m2.stack[x] = m.stack[x]

(* What Put changes.                                                         *)
LEMMA PutFields ==
  ASSUME NEW h, NEW m, m \in MachineSet(h, m.instances), NEW s \in Slot,
         NEW v \in Contents(h, m.instances)
  PROVE  IsPut(h, m, Put(m, s, v), s, v)
BY DEF Put, MachineSet, IsPut

(* What Drop changes.                                                        *)
LEMMA DropFields ==
  ASSUME NEW h, NEW is, NEW m \in MachineSet(h, is), NEW n, m.top - n \in 0 .. MaxSlots
  PROVE  /\ Drop(m, n) \in MachineSet(h, is)
         /\ Drop(m, n).top = m.top - n /\ Drop(m, n).frames = m.frames
         /\ Drop(m, n).open = m.open /\ Drop(m, n).instances = m.instances
         /\ Drop(m, n).stack = m.stack
BY DEF Drop, MachineSet

-----------------------------------------------------------------------------
(* What keeps a machine in order, with the same heap.                        *)
LEMMA GrowsItself ==
  ASSUME NEW h, NEW is
  PROVE  Grows(h, is, h, is)
BY DEF Grows

(* The heap stays in order while instances are added.                        *)
LEMMA HeapStays ==
  ASSUME NEW h, NEW is, NEW is2, Grows(h, is, h, is2), HeapOK(h, is)
  PROVE  HeapOK(h, is2)
<1>1. Values(h, is) \subseteq Values(h, is2)
  BY ValuesGrow
<1>2. UpvalueSet(h, is) \subseteq UpvalueSet(h, is2)
  BY <1>1 DEF UpvalueSet
<1>3. h.upvalues \in Seq(UpvalueSet(h, is))
  BY DEF HeapOK
<1>4. h.upvalues \in Seq(UpvalueSet(h, is2))
  BY <1>2, <1>3
<1> QED BY <1>4 DEF HeapOK

(* A machine stays in order if its frames and open list stay, the callees'   *)
(* slots with them, and the slots in use hold values.                        *)
LEMMA Edited ==
  ASSUME NEW h, NEW m, NEW m2, OK(m, h), m2 \in MachineSet(h, m2.instances),
         m2.frames = m.frames, m2.open = m.open, m.frames # <<>>,
         Grows(h, m.instances, h, m2.instances),
         \A k \in DOMAIN m.frames : /\ m.frames[k].slots < m2.top
                                    /\ m2.stack[m.frames[k].slots] = m.stack[m.frames[k].slots],
         \A k \in DOMAIN m.open : Location(h, m.open[k]) < m2.top,
         Live(m2, h, m2.top)
  PROVE  OK(m2, h)
<1>1. FramesOK(m, h) /\ OpenOK(m, h) /\ HeapOK(h, m.instances) /\ m \in MachineSet(h, m.instances)
  BY DEF OK, MachineOK
<1>2. \A k \in DOMAIN m.frames : m.frames[k].closure \in DOMAIN h.closures
  BY <1>1, MachineTypes
<1>3. ASSUME NEW k \in DOMAIN m.frames
      PROVE  CalleeOK(m2, h, m.stack[m.frames[k].slots], m.frames[k].closure)
  <2>1. CalleeOK(m, h, m.stack[m.frames[k].slots], m.frames[k].closure)
    BY <1>1 DEF FramesOK
  <2> QED BY <1>2, <2>1, CalleeStays
<1>4. FramesOK(m2, h)
  BY <1>1, <1>3 DEF FramesOK
<1>5. OpenOK(m2, h)
  BY <1>1 DEF OpenOK
<1>6. HeapOK(h, m2.instances)
  BY <1>1, HeapStays
<1> QED BY <1>4, <1>5, <1>6 DEF OK, MachineOK

(* What is below t on the stack, and the classes of the instances, are left  *)
(* alone.                                                                    *)
Keeps(m, m2, t) ==
  /\ \A s \in Slot : s < t => m2.stack[s] = m.stack[s]
  /\ \A i \in DOMAIN m.instances :
       i \in DOMAIN m2.instances /\ m2.instances[i].class = m.instances[i].class

(* The n temporaries are above every frame's slots and every open upvalue.   *)
LEMMA RoomBelow ==
  ASSUME NEW h, NEW m, MachineOK(m, h), NEW n \in Nat, Room(m, h, n)
  PROVE  /\ m.frames # <<>> /\ m.top \in 0 .. MaxSlots /\ m.top - n \in 1 .. MaxSlots
         /\ Last(m.frames).slots \in Slot /\ Last(m.frames).slots < m.top - n
         /\ \A k \in DOMAIN m.frames : m.frames[k].slots \in Slot /\ m.frames[k].slots < m.top - n
         /\ \A k \in DOMAIN m.open : /\ Location(h, m.open[k]) < m.top - n
<1>1. m.frames # <<>> /\ Last(m.frames).slots < m.top - n
  BY DEF Room
<1>2. m.top \in 0 .. MaxSlots /\ \A k \in DOMAIN m.frames : m.frames[k].slots \in Slot
  BY MachineTypes DEF MachineOK
<1>3. /\ Last(m.frames).slots \in Slot
      /\ \A k \in DOMAIN m.frames : m.frames[k].slots <= Last(m.frames).slots
  BY <1>1, RunningFrame
<1>4. MaxSlots \in Nat
  BY InterpAssumption
<1> QED BY <1>1, <1>2, <1>3, <1>4 DEF Slot, Room

(* A temporary may be overwritten with any value.                            *)
LEMMA PutOK ==
  ASSUME NEW h, NEW m, OK(m, h), NEW n \in Nat, Room(m, h, n),
         NEW s \in Slot, s >= m.top - n, NEW v \in Values(h, m.instances)
  PROVE  OK(Put(m, s, v), h) /\ Room(Put(m, s, v), h, n) /\ Keeps(m, Put(m, s, v), m.top - n)
<1>0. /\ Put(m, s, v) \in MachineSet(h, m.instances)
      /\ Put(m, s, v).top = m.top /\ Put(m, s, v).frames = m.frames
      /\ Put(m, s, v).open = m.open /\ Put(m, s, v).instances = m.instances
      /\ Put(m, s, v).stack[s] = v
      /\ \A x \in Slot : x # s => Put(m, s, v).stack[x] = m.stack[x]
  <2>1. m \in MachineSet(h, m.instances) /\ v \in Contents(h, m.instances)
    BY DEF OK, MachineOK, Contents
  <2>2. IsPut(h, m, Put(m, s, v), s, v)
    BY <2>1, PutFields
  <2> QED BY <2>2 DEF IsPut
<1> DEFINE m2 == Put(m, s, v)
           is == m.instances
<1>1. MachineOK(m, h) /\ m \in MachineSet(h, is) /\ v \in Contents(h, is)
  BY DEF OK, MachineOK, Contents
<1>2. /\ m2 \in MachineSet(h, is)
      /\ m2.top = m.top /\ m2.frames = m.frames /\ m2.open = m.open /\ m2.instances = is
      /\ m2.stack[s] = v /\ \A x \in Slot : x # s => m2.stack[x] = m.stack[x]
  BY <1>0
<1>3. /\ m.frames # <<>> /\ m.top \in 0 .. MaxSlots /\ m.top - n \in 1 .. MaxSlots
      /\ \A k \in DOMAIN m.frames : m.frames[k].slots \in Slot /\ m.frames[k].slots < m.top - n
      /\ \A k \in DOMAIN m.open : Location(h, m.open[k]) < m.top - n
  BY <1>1, RoomBelow
<1> HIDE DEF m2
<1>4. Keeps(m, m2, m.top - n)
  BY <1>2, <1>3 DEF Keeps, Slot
<1>5. Live(m2, h, m2.top)
  <2>1. Live(m, h, m.top)
    BY DEF OK
  <2> SUFFICES ASSUME NEW x \in 0 .. m.top - 1 PROVE m2.stack[x] \in Values(h, is)
    BY <1>2 DEF Live
  <2>2. x \in Slot
    <3>1. MaxSlots \in Nat
      BY InterpAssumption
    <3>2. m.top \in 0 .. MaxSlots
      BY <1>3
    <3> QED BY <3>1, <3>2 DEF Slot
  <2>3. m.stack[x] \in Values(h, is)
    BY <2>1 DEF Live
  <2> QED BY <1>2, <2>2, <2>3
<1>6. \A k \in DOMAIN m.frames : /\ m.frames[k].slots < m2.top
                                 /\ m2.stack[m.frames[k].slots] = m.stack[m.frames[k].slots]
  BY <1>2, <1>3 DEF Slot
<1>7. \A k \in DOMAIN m.open : Location(h, m.open[k]) < m2.top
  BY <1>2 DEF OK, MachineOK, OpenOK
<1>8. Grows(h, is, h, m2.instances)
  BY <1>2, GrowsItself
<1>9. OK(m2, h)
  BY <1>2, <1>3, <1>5, <1>6, <1>7, <1>8, Edited
<1>10. Room(m2, h, n)
  BY <1>2 DEF Room
<1> QED BY <1>4, <1>9, <1>10 DEF m2

(* Temporaries may be popped.                                                *)
LEMMA DropOK ==
  ASSUME NEW h, NEW m, OK(m, h), NEW n \in Nat, Room(m, h, n)
  PROVE  /\ OK(Drop(m, n), h) /\ Drop(m, n).top = m.top - n
         /\ Drop(m, n).stack = m.stack /\ Drop(m, n).frames = m.frames
         /\ Drop(m, n).open = m.open /\ Drop(m, n).instances = m.instances
<1> DEFINE m2 == Drop(m, n)
           is == m.instances
<1>1. MachineOK(m, h) /\ m \in MachineSet(h, is)
  BY DEF OK, MachineOK
<1>2. /\ m.frames # <<>> /\ m.top \in 0 .. MaxSlots /\ m.top - n \in 1 .. MaxSlots
      /\ \A k \in DOMAIN m.frames : m.frames[k].slots \in Slot /\ m.frames[k].slots < m.top - n
      /\ \A k \in DOMAIN m.open : Location(h, m.open[k]) < m.top - n
  BY <1>1, RoomBelow
<1>3. /\ m2 \in MachineSet(h, is) /\ m2.top = m.top - n /\ m2.stack = m.stack
      /\ m2.frames = m.frames /\ m2.open = m.open /\ m2.instances = is
  BY <1>1, <1>2, DropFields
<1> HIDE DEF m2
<1>4. Live(m2, h, m2.top)
  <2>1. Live(m, h, m.top)
    BY DEF OK
  <2>2. \A x \in 0 .. m2.top - 1 : x \in 0 .. m.top - 1
    BY <1>2, <1>3
  <2> QED BY <1>3, <2>1, <2>2 DEF Live
<1>5. Grows(h, is, h, m2.instances)
  BY <1>3, GrowsItself
<1>6. OK(m2, h)
  BY <1>2, <1>3, <1>4, <1>5, Edited
<1> QED BY <1>3, <1>6 DEF m2

(* Of n + k temporaries, k are left when n are popped.                       *)
LEMMA DropRoom ==
  ASSUME NEW h, NEW m, OK(m, h), NEW n \in Nat, NEW k \in Nat, Room(m, h, n + k)
  PROVE  Room(m, h, n) /\ OK(Drop(m, n), h) /\ Room(Drop(m, n), h, k)
<1>1. m.top \in 0 .. MaxSlots /\ Last(m.frames).slots \in Slot
      /\ \A x \in DOMAIN m.open : Location(h, m.open[x]) \in 0 .. MaxSlots
  <2>1. MachineOK(m, h) /\ m \in MachineSet(h, m.instances) /\ n + k \in Nat
    BY DEF OK, MachineOK
  <2>2. m.top \in 0 .. MaxSlots /\ Last(m.frames).slots \in Slot
    BY <2>1, RoomBelow
  <2>3. \A x \in DOMAIN m.open : m.open[x] \in DOMAIN h.upvalues
    BY <2>1, MachineTypes
  <2>4. \A u \in DOMAIN h.upvalues : h.upvalues[u].location \in 0 .. MaxSlots
    BY HeapTypes DEF OK
  <2> QED BY <2>2, <2>3, <2>4 DEF Location
<1>2. MaxSlots \in Nat
  BY InterpAssumption
<1>3. Room(m, h, n)
  BY <1>1, <1>2 DEF Room, Slot
<1>4. /\ OK(Drop(m, n), h) /\ Drop(m, n).top = m.top - n
      /\ Drop(m, n).frames = m.frames /\ Drop(m, n).open = m.open
  BY <1>3, DropOK
<1>5. m.top - (n + k) = (m.top - n) - k
  BY <1>1
<1> QED BY <1>3, <1>4, <1>5 DEF Room

(* runtimeError leaves a machine in order: no frame and no open upvalue.     *)
LEMMA ErrorOK ==
  ASSUME NEW h, NEW m, OK(m, h)
  PROVE  /\ OK(runtimeError(m), h) /\ runtimeError(m).stack = m.stack
         /\ runtimeError(m).instances = m.instances /\ runtimeError(m).frames = <<>>
<1> DEFINE m2 == runtimeError(m)
           is == m.instances
<1>1. m \in MachineSet(h, is) /\ MaxSlots \in Nat /\ FRAMES_MAX \in Nat
  BY InterpAssumption DEF OK, MachineOK
<1>2. /\ m2 \in MachineSet(h, is)
      /\ m2.top = 0 /\ m2.frames = <<>> /\ m2.open = <<>> /\ m2.instances = is
      /\ m2.stack = m.stack
  <2>1. 0 \in 0 .. MaxSlots /\ <<>> \in Seq(FrameSet(h)) /\ <<>> \in Seq(DOMAIN h.upvalues)
    BY <1>1
  <2>2. m2 = [m EXCEPT !.top = 0, !.frames = <<>>, !.open = <<>>]
    BY DEF runtimeError
  <2>3. /\ m2 \in MachineSet(h, m.instances)
        /\ m2.top = 0 /\ m2.frames = <<>> /\ m2.open = <<>> /\ m2.instances = m.instances
        /\ m2.stack = m.stack
    <3> HIDE DEF m2, is
    <3>1. m \in MachineSet(h, m.instances)
      BY <1>1 DEF is
    <3> QED BY <2>1, <2>2, <3>1 DEF MachineSet
  <2> QED BY <2>3
<1> HIDE DEF m2
<1>3. MachineOK(m2, h)
  BY <1>1, <1>2 DEF MachineOK, FramesOK, OpenOK
<1>4. Live(m2, h, m2.top)
  BY <1>2 DEF Live
<1> QED BY <1>2, <1>3, <1>4 DEF OK, m2

-----------------------------------------------------------------------------
(* Calls and properties.                                                     *)
LEMMA HeapFields ==
  Heap.upvalues = upvalues /\ Heap.closures = closures /\ Heap.classes = classes
BY DEF Heap

(* The fields of Machine.                                                    *)
LEMMA MachineFields ==
  /\ Machine.stack = stack /\ Machine.top = top /\ Machine.frames = frames
  /\ Machine.open = open /\ Machine.instances = instances
BY DEF Machine

(* A frame whose callee is in the slot below the arguments.                  *)
LEMMA callOK ==
  ASSUME NEW m, OK(m, Heap), NEW a \in Nat, Room(m, Heap, a + 1), NEW c \in DOMAIN closures,
         CalleeOK(m, Heap, m.stack[m.top - a - 1], c)
  PROVE  /\ OK(call(m, c, a), Heap) /\ call(m, c, a).stack = m.stack
         /\ call(m, c, a).instances = m.instances
<1> DEFINE slot == m.top - a - 1
           f    == [closure |-> c, slots |-> slot]
           m2   == [m EXCEPT !.frames = Append(@, f)]
<1>1. CASE a # closures[c].arity \/ Len(m.frames) = FRAMES_MAX
  <2>1. call(m, c, a) = runtimeError(m)
    BY <1>1 DEF call
  <2> QED BY <2>1, ErrorOK
<1>2. CASE ~ (a # closures[c].arity \/ Len(m.frames) = FRAMES_MAX)
  <2>1. call(m, c, a) = m2
    BY <1>2 DEF call
  <2>2. MachineOK(m, Heap) /\ m \in MachineSet(Heap, m.instances) /\ HeapOK(Heap, m.instances)
        /\ Live(m, Heap, m.top)
    BY DEF OK, MachineOK
  <2>3. /\ m.frames # <<>> /\ m.top \in 0 .. MaxSlots /\ slot \in Slot /\ slot < m.top
        /\ m.top - (a + 1) = slot
        /\ \A k \in DOMAIN m.frames : m.frames[k].slots \in Slot /\ m.frames[k].slots < slot
        /\ \A k \in DOMAIN m.open : Location(Heap, m.open[k]) < slot
    <3>1. /\ m.frames # <<>> /\ m.top \in 0 .. MaxSlots /\ m.top - (a + 1) \in 1 .. MaxSlots
          /\ \A k \in DOMAIN m.frames : m.frames[k].slots \in Slot /\ m.frames[k].slots < m.top - (a + 1)
          /\ \A k \in DOMAIN m.open : Location(Heap, m.open[k]) < m.top - (a + 1)
      <4>1. a + 1 \in Nat
        OBVIOUS
      <4> QED BY <2>2, <4>1, RoomBelow
    <3>2. m.top - (a + 1) = slot /\ MaxSlots \in Nat
      BY <3>1, InterpAssumption
    <3> QED BY <3>1, <3>2 DEF Slot
  <2> HIDE DEF slot
  <2>4. /\ m.frames \in Seq(FrameSet(Heap)) /\ Len(m.frames) \in Nat
        /\ DOMAIN m.frames = 1 .. Len(m.frames)
    BY <2>2, MachineTypes
  <2>5. f \in FrameSet(Heap) /\ f.closure = c /\ f.slots = slot
    BY <2>3 DEF FrameSet, Heap
  <2> HIDE DEF f
  <2>6. /\ m2.stack = m.stack /\ m2.top = m.top /\ m2.open = m.open
        /\ m2.instances = m.instances /\ m2.frames = Append(m.frames, f)
        /\ m2 \in MachineSet(Heap, m.instances)
    <3>1. Append(m.frames, f) \in Seq(FrameSet(Heap))
      BY <2>4, <2>5
    <3>2. m \in MachineSet(Heap, m.instances)
      BY <2>2
    <3> QED BY <3>1, <3>2 DEF MachineSet
  <2> HIDE DEF m2
  <2> DEFINE L == Len(m.frames)
  <2>7. /\ Len(m2.frames) = L + 1 /\ DOMAIN m2.frames = 1 .. L + 1
        /\ m2.frames[L + 1] = f /\ m2.frames # <<>>
        /\ \A k \in DOMAIN m.frames : k \in 1 .. L /\ m2.frames[k] = m.frames[k]
        /\ \A k \in DOMAIN m2.frames : k = L + 1 \/ k \in DOMAIN m.frames
    BY <2>4, <2>5, <2>6
  <2>8. FRAMES_MAX \in Nat /\ L <= FRAMES_MAX /\ L # FRAMES_MAX
    BY <1>2, <2>2, InterpAssumption DEF MachineOK, FramesOK
  <2>9. FramesOK(m2, Heap)
    <3>1. ASSUME NEW k \in DOMAIN m2.frames
          PROVE  /\ m2.frames[k].slots < m2.top
                 /\ CalleeOK(m2, Heap, m2.stack[m2.frames[k].slots], m2.frames[k].closure)
      <4>1. CASE k = L + 1
        <5>1. m.stack[slot] = m.stack[m.top - a - 1]
          BY DEF slot
        <5> QED BY <4>1, <5>1, <2>3, <2>5, <2>6, <2>7 DEF CalleeOK
      <4>2. CASE k \in DOMAIN m.frames
        <5>1. /\ m.frames[k].slots < m.top
              /\ CalleeOK(m, Heap, m.stack[m.frames[k].slots], m.frames[k].closure)
          BY <2>2, <4>2 DEF MachineOK, FramesOK
        <5> QED BY <4>2, <5>1, <2>6, <2>7 DEF CalleeOK
      <4> QED BY <2>7, <4>1, <4>2
    <3>2. ASSUME NEW j \in DOMAIN m2.frames, NEW k \in DOMAIN m2.frames, j < k
          PROVE  m2.frames[j].slots < m2.frames[k].slots
      <4>1. j \in DOMAIN m.frames
        BY <3>2, <2>4, <2>7
      <4>2. CASE k = L + 1
        BY <4>1, <4>2, <2>3, <2>5, <2>7
      <4>3. CASE k \in DOMAIN m.frames
        BY <3>2, <4>1, <4>3, <2>2, <2>7 DEF MachineOK, FramesOK
      <4> QED BY <2>7, <4>2, <4>3
    <3>3. Len(m2.frames) <= FRAMES_MAX
      BY <2>4, <2>7, <2>8
    <3>4. m2.frames[1].slots = 0
      <4>1. L # 0
        BY <2>3, <2>4
      <4>2. 1 \in DOMAIN m.frames
        BY <2>4, <4>1
      <4>3. m.frames[1].slots = 0
        BY <2>2, <2>3 DEF MachineOK, FramesOK
      <4> QED BY <2>7, <4>2, <4>3
    <3> QED BY <3>1, <3>2, <3>3, <3>4, <2>7 DEF FramesOK
  <2>10. OpenOK(m2, Heap)
    <3>1. OpenOK(m, Heap)
      BY <2>2 DEF MachineOK
    <3>2. ASSUME NEW k \in DOMAIN m.open, NEW j \in DOMAIN m2.frames
          PROVE  Location(Heap, m.open[k]) = m2.frames[j].slots => This(Heap, m.open[k])
      <4>1. CASE j = L + 1
        <5>1. Location(Heap, m.open[k]) < slot /\ slot \in Slot
          BY <2>3
        <5> QED BY <4>1, <5>1, <2>5, <2>7 DEF Slot
      <4>2. CASE j \in DOMAIN m.frames
        BY <4>2, <3>1, <2>7 DEF OpenOK
      <4> QED BY <2>7, <4>1, <4>2
    <3> QED BY <2>3, <2>6, <3>1, <3>2 DEF OpenOK
  <2>11. Live(m2, Heap, m2.top)
    BY <2>2, <2>6 DEF Live
  <2> QED BY <2>1, <2>2, <2>6, <2>9, <2>10, <2>11 DEF OK, MachineOK
<1> QED BY <1>1, <1>2

(* Room for n is room for fewer, and what is below n slots is below fewer.   *)
LEMMA PeekIsValue ==
  ASSUME NEW h, NEW m, OK(m, h), NEW n \in Nat, n >= 1, Room(m, h, n), NEW s \in 0 .. n - 1
  PROVE  /\ m.top - n + s \in Slot /\ m.stack[m.top - n + s] \in Values(h, m.instances)
         /\ m.top - n \in Slot /\ m.top \in Nat
<1>1. MachineOK(m, h) /\ Live(m, h, m.top)
  BY DEF OK
<1>2. m.top \in 0 .. MaxSlots /\ m.top - n \in 1 .. MaxSlots
  BY <1>1, RoomBelow
<1>3. m.top - n + s \in 0 .. m.top - 1 /\ MaxSlots \in Nat
  BY <1>2, InterpAssumption
<1>4. m.top - n + s \in Slot /\ m.top - n \in Slot
  BY <1>2, <1>3 DEF Slot
<1> QED BY <1>1, <1>2, <1>3, <1>4 DEF Live

(* A new instance in the callee's slot.                                      *)
Made(m, slot, k) ==
  [Put(m, slot, Instance(Len(m.instances) + 1))
     EXCEPT !.instances = Append(@, [class |-> k, fields |-> Nothing])]

(* A class that is called puts a new instance of it into its own slot.       *)
LEMMA MadeOK ==
  ASSUME NEW m, OK(m, Heap), NEW n \in Nat, n >= 1, Room(m, Heap, n),
         NEW k \in DOMAIN classes, NEW m2, m2 = Made(m, m.top - n, k)
  PROVE  /\ OK(m2, Heap) /\ Room(m2, Heap, n) /\ Keeps(m, m2, m.top - n)
         /\ m2.top = m.top /\ m2.frames = m.frames
         /\ \E i \in DOMAIN m2.instances :
              m2.stack[m.top - n] = Instance(i) /\ m2.instances[i].class = k
<1> DEFINE slot == m.top - n
           i    == Len(m.instances) + 1
           o    == [class |-> k, fields |-> Nothing]
           is   == m.instances
           is2  == Append(is, o)
           h    == Heap
<1>1. /\ MachineOK(m, h) /\ m \in MachineSet(h, m.instances)
      /\ HeapOK(h, m.instances) /\ Live(m, h, m.top)
  BY DEF OK, MachineOK
<1>2. /\ m.frames # <<>> /\ m.top \in 0 .. MaxSlots /\ slot \in Slot /\ slot < m.top
      /\ \A x \in DOMAIN m.frames : m.frames[x].slots \in Slot /\ m.frames[x].slots < slot
      /\ \A x \in DOMAIN m.open : Location(h, m.open[x]) < slot
  <2>1. /\ m.frames # <<>> /\ m.top \in 0 .. MaxSlots /\ slot \in 1 .. MaxSlots
        /\ \A x \in DOMAIN m.frames : m.frames[x].slots \in Slot /\ m.frames[x].slots < slot
        /\ \A x \in DOMAIN m.open : Location(h, m.open[x]) < slot
    BY <1>1, RoomBelow
  <2>2. slot \in Slot
    <3>1. 0 \in 0 .. n - 1
      OBVIOUS
    <3> QED BY <3>1, PeekIsValue
  <2> QED BY <2>1, <2>2
<1> HIDE DEF slot, h
<1>3. /\ m.stack \in [Slot -> Contents(h, is)] /\ m.frames \in Seq(FrameSet(h))
      /\ m.open \in Seq(DOMAIN h.upvalues)
      /\ is \in Seq(InstanceSet(h, is)) /\ Len(is) \in Nat /\ DOMAIN is = 1 .. Len(is)
  BY <1>1, MachineTypes
<1>4. o \in InstanceSet(h, is) /\ o.class = k
  <2>1. Nothing \in TableOf(Member, Values(h, is))
    BY NothingIsTable
  <2>2. k \in DOMAIN h.classes
    BY DEF h, Heap
  <2> QED BY <2>1, <2>2 DEF InstanceSet
<1> HIDE DEF o
<1>5. /\ is2 \in Seq(InstanceSet(h, is)) /\ Len(is2) = i /\ DOMAIN is2 = 1 .. i
      /\ is2[i] = o /\ \A x \in DOMAIN is : x \in DOMAIN is2 /\ is2[x] = is[x]
  BY <1>3, <1>4
<1>6. Grows(h, is, h, is2)
  BY <1>5 DEF Grows
<1>7. /\ Values(h, is) \subseteq Values(h, is2) /\ Contents(h, is) \subseteq Contents(h, is2)
  BY <1>6, ValuesGrow
<1>8. Instance(i) \in Values(h, is2) /\ Instance(i) \in Contents(h, is2)
  <2>1. i \in DOMAIN is2
    BY <1>3, <1>5
  <2> QED BY <2>1 DEF Values, Contents
<1>9. is2 \in Seq(InstanceSet(h, is2))
  <2>1. InstanceSet(h, is) \subseteq InstanceSet(h, is2)
    <3>1. TableOf(Member, Values(h, is)) \subseteq TableOf(Member, Values(h, is2))
      BY <1>7, TableGrows
    <3> QED BY <3>1 DEF InstanceSet
  <2> QED BY <2>1, <1>5
<1>10. m2 = [[m EXCEPT !.stack[slot] = Instance(i)] EXCEPT !.instances = Append(@, o)]
  BY DEF Made, Put, slot, o
<1> HIDE DEF is2, is, i
<1>11. /\ m2 \in MachineSet(h, is2) /\ m2.instances = is2
       /\ m2.top = m.top /\ m2.frames = m.frames /\ m2.open = m.open
       /\ m2.stack[slot] = Instance(i) /\ \A x \in Slot : x # slot => m2.stack[x] = m.stack[x]
  <2>1. m.stack \in [Slot -> Contents(h, is2)]
    BY <1>3, <1>7
  <2>2. /\ m2.stack = [m.stack EXCEPT ![slot] = Instance(i)] /\ m2.instances = is2
        /\ m2.top = m.top /\ m2.frames = m.frames /\ m2.open = m.open
        /\ m2 = [stack |-> m2.stack, top |-> m2.top, frames |-> m2.frames,
                 open |-> m2.open, instances |-> m2.instances]
    <3>1. m \in MachineSet(h, m.instances)
      BY <1>1
    <3> QED BY <1>10, <3>1 DEF is2, is, MachineSet
  <2>3. m2.stack \in [Slot -> Contents(h, is2)]
    BY <2>1, <2>2, <1>2, <1>8
  <2>4. m2 \in MachineSet(h, is2)
    BY <2>2, <2>3, <1>2, <1>3, <1>9 DEF MachineSet
  <2> QED BY <2>2, <2>4, <1>2, <1>3
<1>12. Keeps(m, m2, slot)
  <2>1. \A s \in Slot : s < slot => m2.stack[s] = m.stack[s]
    BY <1>2, <1>11 DEF Slot
  <2>2. \A x \in DOMAIN is : x \in DOMAIN m2.instances /\ m2.instances[x].class = is[x].class
    BY <1>5, <1>11
  <2> QED BY <2>1, <2>2 DEF Keeps, is
<1>13. Live(m2, h, m2.top)
  <2> SUFFICES ASSUME NEW x \in 0 .. m.top - 1 PROVE m2.stack[x] \in Values(h, is2)
    BY <1>11 DEF Live
  <2>1. x \in Slot
    BY <1>2, InterpAssumption DEF Slot
  <2>2. m.stack[x] \in Values(h, is)
    BY <1>1 DEF Live, is
  <2> QED BY <1>7, <1>8, <1>11, <2>1, <2>2
<1>14. OK(m2, h)
  <2>1. \A x \in DOMAIN m.frames : /\ m.frames[x].slots < m2.top
                                   /\ m2.stack[m.frames[x].slots] = m.stack[m.frames[x].slots]
    BY <1>2, <1>11 DEF Slot
  <2>2. \A x \in DOMAIN m.open : Location(h, m.open[x]) < m2.top
    BY <1>1, <1>11 DEF MachineOK, OpenOK
  <2>3. Grows(h, m.instances, h, m2.instances) /\ m2 \in MachineSet(h, m2.instances)
    BY <1>6, <1>11 DEF is
  <2>4. OK(m, h)
    BY DEF h
  <2>5. m2.frames = m.frames /\ m2.open = m.open /\ m.frames # <<>>
    BY <1>2, <1>11
  <2> HIDE DEF h
  <2> QED BY <2>1, <2>2, <2>3, <2>4, <2>5, <1>13, Edited
<1>15. Room(m2, h, n)
  BY <1>11 DEF Room, h
<1>16. i \in DOMAIN m2.instances /\ m2.instances[i].class = k
  BY <1>3, <1>4, <1>5, <1>11 DEF i
<1> QED BY <1>11, <1>12, <1>14, <1>15, <1>16 DEF slot, h

(* The slot that holds the callee, below a arguments.                        *)
LEMMA CalleeSlot ==
  ASSUME NEW h, NEW m, OK(m, h), NEW a \in Nat, Room(m, h, a + 1)
  PROVE  /\ m.top - a - 1 \in Slot /\ m.top - a - 1 = m.top - (a + 1)
         /\ m.top - a - 1 < m.top
         /\ m.stack[m.top - a - 1] \in Values(h, m.instances)
         /\ m.stack[m.top - a - 1] \in Contents(h, m.instances)
<1>1. a + 1 \in Nat /\ a + 1 >= 1 /\ 0 \in 0 .. (a + 1) - 1
  OBVIOUS
<1>2. /\ m.top - (a + 1) + 0 \in Slot /\ m.stack[m.top - (a + 1) + 0] \in Values(h, m.instances)
      /\ m.top - (a + 1) \in Slot /\ m.top \in Nat
  BY <1>1, PeekIsValue
<1>3. m.top - (a + 1) + 0 = m.top - a - 1 /\ m.top - a - 1 = m.top - (a + 1)
      /\ m.top - a - 1 < m.top
  BY <1>2
<1>4. m.top - a - 1 \in Slot /\ m.stack[m.top - a - 1] \in Values(h, m.instances)
  BY <1>2, <1>3
<1> QED BY <1>3, <1>4 DEF Contents

(* What two steps keep, both together keep.                                  *)
LEMMA KeepsTrans ==
  ASSUME NEW m, NEW m2, NEW m3, NEW t, Keeps(m, m2, t), Keeps(m2, m3, t)
  PROVE  Keeps(m, m3, t)
BY DEF Keeps

(* callValue leaves the machine in order and what is below the callee as it  *)
(* was.                                                                      *)
LEMMA callValueOK ==
  ASSUME NEW m, OK(m, Heap), NEW a \in Nat, Room(m, Heap, a + 1),
         NEW callee, callee = m.stack[m.top - a - 1]
  PROVE  /\ OK(callValue(m, callee, a), Heap)
         /\ Keeps(m, callValue(m, callee, a), m.top - (a + 1))
<1> DEFINE slot == m.top - a - 1
           made == [Put(m, slot, Instance(Len(m.instances) + 1))
                      EXCEPT !.instances = Append(@, [class |-> callee.class, fields |-> Nothing])]
           result == callValue(m, callee, a)
<1>1. /\ slot \in Slot /\ slot = m.top - (a + 1) /\ slot < m.top
      /\ callee \in Values(Heap, m.instances) /\ callee \in Contents(Heap, m.instances)
      /\ slot >= m.top - (a + 1) /\ a + 1 \in Nat /\ a + 1 >= 1
  <2>1. /\ slot \in Slot /\ slot = m.top - (a + 1) /\ slot < m.top
        /\ callee \in Values(Heap, m.instances) /\ callee \in Contents(Heap, m.instances)
    BY CalleeSlot
  <2> QED BY <2>1 DEF Slot
<1>2. Heap.closures = closures /\ Heap.classes = classes
  BY HeapFields
<1>3. MachineOK(m, Heap) /\ HeapOK(Heap, m.instances)
  BY DEF OK
<1> DEFINE R == Is(callee, "receiver")
           K == Is(callee, "class")
           C == Is(callee, "closure")
           N == callee \in Native
<1>31. (R => ~ K /\ ~ C /\ ~ N) /\ (K => ~ R /\ ~ C /\ ~ N) /\ (C => ~ R /\ ~ K /\ ~ N)
  BY <1>1, OneTag
<1>4. CASE Is(callee, "receiver")
  <2>0. PICK i \in DOMAIN m.instances :
          \E c \in MethodsOf(Heap.classes, m.instances[i].class) :
            callee = Bound(Instance(i), c) /\ callee.receiver = Instance(i) /\ callee.method = c
    BY <1>1, <1>4, Tags
  <2>1. \E c \in MethodsOf(classes, m.instances[i].class) :
            callee.receiver = Instance(i) /\ callee.method = c
    BY <1>2, <2>0
  <2> DEFINE c  == callee.method
             m2 == Put(m, slot, Instance(i))
  <2>2. c \in MethodsOf(classes, m.instances[i].class) /\ callee.receiver = Instance(i)
    BY <2>1
  <2>3. result = call(m2, c, a)
    BY <1>31, <1>4, <2>2 DEF callValue
  <2>4. Instance(i) \in Values(Heap, m.instances)
    BY DEF Values
  <2>5. OK(m2, Heap) /\ Room(m2, Heap, a + 1) /\ Keeps(m, m2, m.top - (a + 1))
    BY <1>1, <2>4, PutOK
  <2>6. m2.top = m.top /\ m2.instances = m.instances /\ m2.stack[slot] = Instance(i)
    <3>1. Instance(i) \in Contents(Heap, m.instances) /\ m \in MachineSet(Heap, m.instances)
      BY <2>4, <1>3 DEF Contents, MachineOK
    <3>2. IsPut(Heap, m, m2, slot, Instance(i))
      BY <1>1, <3>1, PutFields
    <3> QED BY <3>2 DEF IsPut
  <2>7. c \in Methods(Heap) /\ c \in DOMAIN closures
    BY <1>2, <1>3, <2>2, MethodsOfMethods DEF Methods
  <2> HIDE DEF m2, c
  <2>8. CalleeOK(m2, Heap, m2.stack[m2.top - a - 1], c)
    BY <1>2, <2>2, <2>6, <2>7 DEF CalleeOK
  <2>9. OK(call(m2, c, a), Heap) /\ call(m2, c, a).stack = m2.stack
        /\ call(m2, c, a).instances = m2.instances
    BY <2>5, <2>7, <2>8, callOK
  <2>10. Keeps(m2, call(m2, c, a), m.top - (a + 1))
    BY <2>9 DEF Keeps
  <2> QED BY <2>3, <2>5, <2>9, <2>10, KeepsTrans
<1>5. CASE ~ Is(callee, "receiver") /\ Is(callee, "class")
  <2>1. PICK k \in DOMAIN classes : callee.class = k
    BY <1>1, <1>2, <1>5, Tags
  <2>2. /\ OK(made, Heap) /\ Room(made, Heap, a + 1) /\ Keeps(m, made, m.top - (a + 1))
        /\ made.top = m.top /\ made.frames = m.frames
        /\ \E i \in DOMAIN made.instances :
              made.stack[slot] = Instance(i) /\ made.instances[i].class = k
    <3>1. made = Made(m, m.top - (a + 1), k)
      BY <1>1, <2>1 DEF Made
    <3> HIDE DEF made
    <3> QED BY <1>1, <3>1, MadeOK
  <2> HIDE DEF made
  <2>3. CASE initString \in DOMAIN classes[k].methods
    <3> DEFINE c == classes[k].methods[initString]
    <3>1. result = call(made, c, a)
      BY <1>31, <1>5, <2>1, <2>3 DEF callValue, made
    <3>2. c \in MethodsOf(classes, k)
      <4>1. k \in DOMAIN Heap.classes /\ initString \in DOMAIN Heap.classes[k].methods
        BY <1>2, <2>3
      <4>2. Heap.classes[k].methods[initString] \in MethodsOf(Heap.classes, k)
        BY <1>3, <4>1, Inherited
      <4> QED BY <1>2, <4>2
    <3>3. c \in Methods(Heap) /\ c \in DOMAIN closures
      BY <1>2, <1>3, <3>2, MethodsOfMethods DEF Methods
    <3> HIDE DEF c
    <3>4. CalleeOK(made, Heap, made.stack[made.top - a - 1], c)
      BY <1>2, <2>2, <3>2, <3>3 DEF CalleeOK
    <3>5. OK(call(made, c, a), Heap) /\ call(made, c, a).stack = made.stack
          /\ call(made, c, a).instances = made.instances
      BY <2>2, <3>3, <3>4, callOK
    <3>6. Keeps(made, call(made, c, a), m.top - (a + 1))
      BY <3>5 DEF Keeps
    <3> QED BY <2>2, <3>1, <3>5, <3>6, KeepsTrans
  <2>4. CASE initString \notin DOMAIN classes[k].methods /\ a # 0
    <3>1. result = runtimeError(made)
      BY <1>31, <1>5, <2>1, <2>4 DEF callValue, made
    <3>2. OK(runtimeError(made), Heap) /\ runtimeError(made).stack = made.stack
          /\ runtimeError(made).instances = made.instances
      BY <2>2, ErrorOK
    <3>3. Keeps(made, runtimeError(made), m.top - (a + 1))
      BY <3>2 DEF Keeps
    <3> QED BY <2>2, <3>1, <3>2, <3>3, KeepsTrans
  <2>5. CASE initString \notin DOMAIN classes[k].methods /\ a = 0
    <3>1. result = made
      BY <1>31, <1>5, <2>1, <2>5 DEF callValue, made
    <3> QED BY <2>2, <3>1
  <2> QED BY <2>3, <2>4, <2>5
<1>6. CASE ~ Is(callee, "receiver") /\ ~ Is(callee, "class") /\ Is(callee, "closure")
  <2>1. PICK c \in DOMAIN closures :
          callee = Fn(c) /\ callee.closure = c /\ c \notin Methods(Heap)
    BY <1>1, <1>2, <1>6, Tags
  <2>2. result = call(m, c, a)
    BY <1>31, <1>6, <2>1 DEF callValue
  <2>3. CalleeOK(m, Heap, m.stack[m.top - a - 1], c)
    BY <2>1 DEF CalleeOK
  <2>4. OK(call(m, c, a), Heap) /\ call(m, c, a).stack = m.stack
        /\ call(m, c, a).instances = m.instances
    BY <2>3, callOK
  <2> QED BY <2>2, <2>4 DEF Keeps
<1>7. CASE /\ ~ Is(callee, "receiver") /\ ~ Is(callee, "class") /\ ~ Is(callee, "closure")
           /\ callee \in Native
  <2> DEFINE m2 == Put(m, slot, NIL)
  <2>1. result = Drop(m2, a)
    BY <1>7 DEF callValue
  <2>2. NIL \in Values(Heap, m.instances)
    BY InterpAssumption DEF Values
  <2>3. OK(m2, Heap) /\ Room(m2, Heap, a + 1) /\ Keeps(m, m2, m.top - (a + 1))
    BY <1>1, <2>2, PutOK
  <2> HIDE DEF m2
  <2>4. OK(Drop(m2, a), Heap) /\ Drop(m2, a).stack = m2.stack
        /\ Drop(m2, a).instances = m2.instances
    <3>1. 1 \in Nat /\ Room(m2, Heap, a)
      BY <2>3, DropRoom
    <3> QED BY <2>3, <3>1, DropOK
  <2>5. Keeps(m2, Drop(m2, a), m.top - (a + 1))
    BY <2>4 DEF Keeps
  <2> QED BY <2>1, <2>3, <2>4, <2>5, KeepsTrans
<1>8. CASE /\ ~ Is(callee, "receiver") /\ ~ Is(callee, "class") /\ ~ Is(callee, "closure")
           /\ callee \notin Native
  <2>1. result = runtimeError(m)
    BY <1>8 DEF callValue
  <2>2. OK(runtimeError(m), Heap) /\ runtimeError(m).stack = m.stack
        /\ runtimeError(m).instances = m.instances
    BY ErrorOK
  <2> QED BY <2>1, <2>2 DEF Keeps
<1> QED BY <1>4, <1>5, <1>6, <1>7, <1>8

(* The receiver understands the methods of class k.                          *)
Inherits(m, v, k) ==
  /\ k \in DOMAIN classes
  /\ \E i \in DOMAIN m.instances :
       v = Instance(i) /\ MethodsOf(classes, k) \subseteq MethodsOf(classes, m.instances[i].class)

(* A method found for an instance is one it understands: it may be called    *)
(* with the instance in slot 0, or bound to it.                              *)
LEMMA Inheriting ==
  ASSUME NEW m, OK(m, Heap), NEW v, NEW k, Inherits(m, v, k), NEW n \in DOMAIN classes[k].methods
  PROVE  /\ classes[k].methods[n] \in Methods(Heap) /\ classes[k].methods[n] \in DOMAIN closures
         /\ CalleeOK(m, Heap, v, classes[k].methods[n])
         /\ Bound(v, classes[k].methods[n]) \in Values(Heap, m.instances)
<1> DEFINE c == classes[k].methods[n]
<1>1. Heap.closures = closures /\ Heap.classes = classes /\ HeapOK(Heap, m.instances)
  BY HeapFields DEF OK
<1>2. PICK i \in DOMAIN m.instances :
        v = Instance(i) /\ MethodsOf(classes, k) \subseteq MethodsOf(classes, m.instances[i].class)
  BY DEF Inherits
<1>3. c \in MethodsOf(classes, k)
  <2>1. k \in DOMAIN Heap.classes /\ n \in DOMAIN Heap.classes[k].methods
    BY <1>1 DEF Inherits
  <2>2. Heap.classes[k].methods[n] \in MethodsOf(Heap.classes, k)
    BY <1>1, <2>1, Inherited
  <2> QED BY <1>1, <2>2
<1>4. c \in MethodsOf(classes, m.instances[i].class)
  BY <1>2, <1>3
<1>5. c \in Methods(Heap) /\ c \in DOMAIN closures
  BY <1>1, <1>3, MethodsOfMethods DEF Methods
<1>6. CalleeOK(m, Heap, v, c)
  BY <1>1, <1>2, <1>4, <1>5 DEF CalleeOK
<1>7. Bound(v, c) \in Values(Heap, m.instances)
  BY <1>1, <1>2, <1>4 DEF Values
<1> QED BY <1>5, <1>6, <1>7

(* bindMethod puts a value where the instance was, or fails.                 *)
LEMMA bindMethodOK ==
  ASSUME NEW m, OK(m, Heap), Room(m, Heap, 1), NEW k, Inherits(m, m.stack[m.top - 1], k), NEW n
  PROVE  OK(bindMethod(m, k, n), Heap) /\ Keeps(m, bindMethod(m, k, n), m.top - 1)
<1>1. m.top - 1 \in Slot /\ m.top - 1 >= m.top - 1
  <2>1. 0 \in Nat /\ 0 + 1 = 1
    OBVIOUS
  <2>2. m.top - 0 - 1 \in Slot /\ m.top - 0 - 1 = m.top - (0 + 1)
    BY <2>1, CalleeSlot
  <2> QED BY <2>2 DEF Slot
<1>2. CASE n \in DOMAIN classes[k].methods
  <2> DEFINE v == Bound(m.stack[m.top - 1], classes[k].methods[n])
  <2>1. bindMethod(m, k, n) = Put(m, m.top - 1, v)
    BY <1>2 DEF bindMethod
  <2>2. v \in Values(Heap, m.instances)
    BY <1>2, Inheriting
  <2> HIDE DEF v
  <2> QED BY <1>1, <2>1, <2>2, PutOK
<1>3. CASE n \notin DOMAIN classes[k].methods
  <2>1. bindMethod(m, k, n) = runtimeError(m)
    BY <1>3 DEF bindMethod
  <2> QED BY <2>1, ErrorOK DEF Keeps
<1> QED BY <1>2, <1>3

(* invokeFromClass calls a method of the receiver, or fails.                 *)
LEMMA invokeFromClassOK ==
  ASSUME NEW m, OK(m, Heap), NEW a \in Nat, Room(m, Heap, a + 1),
         NEW k, Inherits(m, m.stack[m.top - a - 1], k), NEW n
  PROVE  /\ OK(invokeFromClass(m, k, n, a), Heap)
         /\ Keeps(m, invokeFromClass(m, k, n, a), m.top - (a + 1))
<1>1. CASE n \in DOMAIN classes[k].methods
  <2> DEFINE c == classes[k].methods[n]
  <2>1. invokeFromClass(m, k, n, a) = call(m, c, a)
    BY <1>1 DEF invokeFromClass
  <2>2. c \in DOMAIN closures /\ CalleeOK(m, Heap, m.stack[m.top - a - 1], c)
    BY <1>1, Inheriting
  <2> HIDE DEF c
  <2>3. OK(call(m, c, a), Heap) /\ call(m, c, a).stack = m.stack
        /\ call(m, c, a).instances = m.instances
    BY <2>2, callOK
  <2> QED BY <2>1, <2>3 DEF Keeps
<1>2. CASE n \notin DOMAIN classes[k].methods
  <2>1. invokeFromClass(m, k, n, a) = runtimeError(m)
    BY <1>2 DEF invokeFromClass
  <2> QED BY <2>1, ErrorOK DEF Keeps
<1> QED BY <1>1, <1>2

(* An instance understands the methods of its class.                         *)
LEMMA InstanceInherits ==
  ASSUME NEW m, OK(m, Heap), NEW i \in DOMAIN m.instances
  PROVE  Inherits(m, Instance(i), m.instances[i].class)
<1>1. m.instances[i].class \in DOMAIN Heap.classes
  BY MachineTypes DEF OK, MachineOK
<1> QED BY <1>1, HeapFields DEF Inherits

(* A field of an instance is a value.                                        *)
LEMMA FieldIsValue ==
  ASSUME NEW m, OK(m, Heap), NEW i \in DOMAIN m.instances,
         NEW n \in DOMAIN m.instances[i].fields
  PROVE  m.instances[i].fields[n] \in Values(Heap, m.instances)
<1>1. m.instances[i].fields \in TableOf(Member, Values(Heap, m.instances))
  BY MachineTypes DEF OK, MachineOK
<1> QED BY <1>1, TableOfAll

(* OP_GET_PROPERTY puts a value where the instance was, or fails.            *)
LEMMA getPropertyOK ==
  ASSUME NEW m, OK(m, Heap), Room(m, Heap, 1), NEW n
  PROVE  OK(getProperty(m, n), Heap) /\ Keeps(m, getProperty(m, n), m.top - 1)
<1> DEFINE v == m.stack[m.top - 1]
<1>1. m.top - 1 \in Slot /\ m.top - 1 >= m.top - 1 /\ v \in Contents(Heap, m.instances)
  <2>1. 0 \in Nat /\ 0 + 1 = 1
    OBVIOUS
  <2>2. /\ m.top - 0 - 1 \in Slot /\ m.top - 0 - 1 = m.top - (0 + 1)
        /\ m.stack[m.top - 0 - 1] \in Contents(Heap, m.instances)
    BY <2>1, CalleeSlot
  <2> QED BY <2>2 DEF Slot
<1>2. CASE ~ Is(v, "instance")
  <2>1. getProperty(m, n) = runtimeError(m)
    BY <1>2 DEF getProperty
  <2> QED BY <2>1, ErrorOK DEF Keeps
<1>3. CASE Is(v, "instance")
  <2>1. PICK i \in DOMAIN m.instances : v = Instance(i) /\ v.instance = i
    BY <1>1, <1>3, Tags
  <2> DEFINE o == m.instances[i]
  <2>2. CASE n \in DOMAIN o.fields
    <3>1. getProperty(m, n) = Put(m, m.top - 1, o.fields[n])
      BY <1>3, <2>1, <2>2 DEF getProperty
    <3>2. o.fields[n] \in Values(Heap, m.instances)
      BY <2>2, FieldIsValue
    <3> HIDE DEF o
    <3> QED BY <1>1, <3>1, <3>2, PutOK
  <2>3. CASE n \notin DOMAIN o.fields
    <3>1. getProperty(m, n) = bindMethod(m, o.class, n)
      BY <1>3, <2>1, <2>3 DEF getProperty
    <3>2. Inherits(m, v, o.class)
      BY <2>1, InstanceInherits
    <3> HIDE DEF o
    <3> QED BY <3>1, <3>2, bindMethodOK
  <2> QED BY <2>2, <2>3
<1> QED BY <1>2, <1>3

(* invoke leaves the machine in order and what is below the receiver as it   *)
(* was.                                                                      *)
LEMMA invokeOK ==
  ASSUME NEW m, OK(m, Heap), NEW a \in Nat, Room(m, Heap, a + 1), NEW n
  PROVE  OK(invoke(m, n, a), Heap) /\ Keeps(m, invoke(m, n, a), m.top - (a + 1))
<1> DEFINE slot == m.top - a - 1
           v    == m.stack[slot]
<1>1. /\ slot \in Slot /\ slot = m.top - (a + 1) /\ v \in Contents(Heap, m.instances)
      /\ slot >= m.top - (a + 1) /\ a + 1 \in Nat
  <2>1. slot \in Slot /\ slot = m.top - (a + 1) /\ v \in Contents(Heap, m.instances)
    BY CalleeSlot
  <2> QED BY <2>1 DEF Slot
<1>2. CASE ~ Is(v, "instance")
  <2>1. invoke(m, n, a) = runtimeError(m)
    BY <1>2 DEF invoke
  <2> QED BY <2>1, ErrorOK DEF Keeps
<1>3. CASE Is(v, "instance")
  <2>1. PICK i \in DOMAIN m.instances : v = Instance(i) /\ v.instance = i
    BY <1>1, <1>3, Tags
  <2> DEFINE o == m.instances[i]
  <2>2. CASE n \in DOMAIN o.fields
    <3> DEFINE f  == o.fields[n]
               m2 == Put(m, slot, f)
    <3>1. invoke(m, n, a) = callValue(m2, f, a)
      BY <1>3, <2>1, <2>2 DEF invoke
    <3>2. f \in Values(Heap, m.instances)
      BY <2>2, FieldIsValue
    <3> HIDE DEF f
    <3>3. OK(m2, Heap) /\ Room(m2, Heap, a + 1) /\ Keeps(m, m2, m.top - (a + 1))
      BY <1>1, <3>2, PutOK
    <3>4. m2.top = m.top /\ m2.stack[slot] = f
      <4>1. f \in Contents(Heap, m.instances) /\ m \in MachineSet(Heap, m.instances)
        BY <3>2 DEF OK, MachineOK, Contents
      <4>2. IsPut(Heap, m, m2, slot, f)
        BY <1>1, <4>1, PutFields
      <4> QED BY <4>2 DEF IsPut
    <3> HIDE DEF m2
    <3>5. OK(callValue(m2, f, a), Heap) /\ Keeps(m2, callValue(m2, f, a), m2.top - (a + 1))
      BY <3>3, <3>4, callValueOK
    <3> QED BY <3>1, <3>3, <3>4, <3>5, KeepsTrans
  <2>3. CASE n \notin DOMAIN o.fields
    <3>1. invoke(m, n, a) = invokeFromClass(m, o.class, n, a)
      BY <1>3, <2>1, <2>3 DEF invoke
    <3>2. Inherits(m, v, o.class)
      BY <2>1, InstanceInherits
    <3> HIDE DEF o
    <3> QED BY <3>1, <3>2, invokeFromClassOK
  <2> QED BY <2>2, <2>3
<1> QED BY <1>2, <1>3

-----------------------------------------------------------------------------
(* From the invariant to a running machine, and back.                        *)
LEMMA FnTag ==
  ASSUME NEW c \in 1 .. MaxClosures
  PROVE  Is(Fn(c), "closure") /\ Fn(c).closure = c
<1>1. Fn(c) \in Objects
  BY DEF Objects
<1>2. Fn(c) \notin Plain
  BY <1>1, InterpAssumption
<1>3. DOMAIN Fn(c) = {"closure"} /\ Fn(c).closure = c
  BY DEF Fn
<1> QED BY <1>2, <1>3 DEF Is

(* An instance is none of the plain values.                                  *)
LEMMA InstanceTag ==
  ASSUME NEW i \in 1 .. MaxInstances
  PROVE  Is(Instance(i), "instance") /\ Instance(i).instance = i
<1>1. Instance(i) \in Objects
  BY DEF Objects
<1>2. Instance(i) \notin Plain
  BY <1>1, InterpAssumption
<1>3. DOMAIN Instance(i) = {"instance"} /\ Instance(i).instance = i
  BY DEF Instance
<1> QED BY <1>2, <1>3 DEF Is

(* Closures stay within their bound.                                         *)
LEMMA ClosureIndex ==
  ASSUME IInv, NEW c \in DOMAIN closures
  PROVE  c \in 1 .. MaxClosures
<1>1. HeapOK(Heap, instances) /\ Len(closures) <= MaxClosures /\ MaxClosures \in Nat
  BY InterpAssumption DEF IInv, Bounded
<1>2. Len(Heap.closures) \in Nat /\ DOMAIN Heap.closures = 1 .. Len(Heap.closures)
  BY <1>1, HeapTypes
<1> QED BY <1>1, <1>2, HeapFields

(* Instances stay within their bound.                                        *)
LEMMA InstanceIndex ==
  ASSUME IInv, NEW i \in DOMAIN instances
  PROVE  i \in 1 .. MaxInstances
<1>1. Machine \in MachineSet(Heap, instances) /\ Len(instances) <= MaxInstances /\ MaxInstances \in Nat
  BY InterpAssumption, MachineFields DEF IInv, Bounded, MachineOK
<1>2. Len(Machine.instances) \in Nat /\ DOMAIN Machine.instances = 1 .. Len(Machine.instances)
  BY <1>1, MachineTypes
<1> QED BY <1>1, <1>2, MachineFields

(* Between OP_CLOSURE and OP_METHOD aside, the machine is in order and every *)
(* slot in use holds a value.                                                *)
LEMMA RunningOK ==
  ASSUME IInv, Running
  PROVE  /\ OK(Machine, Heap) /\ frames # <<>> /\ line = 1
         /\ Frame = Last(frames) /\ Frame.slots \in Slot /\ Frame.slots < top
         /\ Frame.closure \in DOMAIN closures
         /\ top \in 0 .. MaxSlots /\ top \in Nat /\ MaxSlots \in Nat
         /\ peek \in Values(Heap, instances) /\ top - 1 \in Slot
<1>1. frames # <<>> /\ ~ MethodPending
  BY DEF Running
<1>2. ~ Pending(Machine, Heap)
  <2> SUFFICES ASSUME Pending(Machine, Heap) PROVE FALSE
    OBVIOUS
  <2>1. PICK c \in Methods(Heap) : peek = Fn(c)
    BY MachineFields DEF Pending, peek
  <2>2. c \in DOMAIN closures /\ closures[c].method
    BY <2>1, HeapFields DEF Methods
  <2>3. Is(peek, "closure") /\ peek.closure = c
    BY <2>1, <2>2, ClosureIndex, FnTag
  <2> QED BY <1>1, <2>2, <2>3 DEF MethodPending
<1>3. OK(Machine, Heap)
  BY <1>2, MachineFields DEF IInv, OK
<1>4. MachineOK(Machine, Heap) /\ Machine \in MachineSet(Heap, Machine.instances)
  BY <1>3 DEF OK, MachineOK
<1>5. top \in 0 .. MaxSlots /\ MaxSlots \in Nat
  BY <1>4, MachineFields, MachineTypes, InterpAssumption
<1>6. /\ Last(frames).slots \in Slot /\ Last(frames).closure \in DOMAIN closures
      /\ Last(frames).slots < top
  BY <1>1, <1>4, MachineFields, HeapFields, RunningFrame
<1>7. top - 1 \in Slot /\ top - 1 \in 0 .. top - 1
  BY <1>5, <1>6 DEF Slot
<1>8. peek \in Values(Heap, instances)
  BY <1>3, <1>7, MachineFields DEF OK, Live, peek
<1>9. line = 1
  BY <1>1 DEF IInv, OneScript
<1> QED BY <1>1, <1>3, <1>5, <1>6, <1>7, <1>8, <1>9 DEF Frame

(* What Temporaries requires of an open list that is in order.               *)
LEMMA TemporariesRoom ==
  ASSUME IInv, Running, NEW n \in Nat, Temporaries(n)
  PROVE  Room(Machine, Heap, n)
<1>1. /\ OK(Machine, Heap) /\ frames # <<>> /\ Frame = Last(frames)
      /\ top \in 0 .. MaxSlots /\ MaxSlots \in Nat /\ Frame.slots \in Slot
  BY RunningOK
<1>2. /\ \A k \in DOMAIN open : /\ upvalues[open[k]].location < top
                                /\ open[k] \in DOMAIN upvalues
      /\ \A u \in DOMAIN upvalues : upvalues[u].location \in 0 .. MaxSlots
  <2>1. Machine \in MachineSet(Heap, Machine.instances) /\ HeapOK(Heap, Machine.instances)
        /\ OpenOK(Machine, Heap)
    BY <1>1 DEF OK, MachineOK
  <2>2. \A k \in DOMAIN open : upvalues[open[k]].location < top
    BY <2>1, MachineFields, HeapFields DEF OpenOK, Location
  <2>3. \A k \in DOMAIN open : open[k] \in DOMAIN upvalues
    BY <2>1, MachineFields, HeapFields, MachineTypes
  <2>4. \A u \in DOMAIN upvalues : upvalues[u].location \in 0 .. MaxSlots
    BY <2>1, HeapFields, HeapTypes
  <2> QED BY <2>2, <2>3, <2>4
<1>3. top - n > Frame.slots /\ \A s \in top - n .. top - 1 : \A k \in DOMAIN open :
        upvalues[open[k]].location # s
  BY DEF Temporaries, Uncaptured
<1>4. ASSUME NEW k \in DOMAIN open
      PROVE  upvalues[open[k]].location < top - n
  <2> DEFINE s == upvalues[open[k]].location
  <2>1. s \in 0 .. MaxSlots /\ s < top
    BY <1>2
  <2>2. s \notin top - n .. top - 1
    BY <1>3
  <2> QED BY <1>1, <2>1, <2>2
<1>5. Last(frames).slots < top - n
  BY <1>1, <1>3 DEF Slot
<1> QED BY <1>1, <1>4, <1>5, MachineFields, HeapFields DEF Room, Location

(* What no assignment to it changes keeps its value.                         *)
Stable == \A u \in DOMAIN upvalues : u \in DOMAIN upvalues' /\ Deref(u)' = Deref(u)

(* If no upvalue and no slot below t changes, and the open upvalues are      *)
(* below t, no captured variable changes.                                    *)
LEMMA KeptStable ==
  ASSUME IInv, frames # <<>>, NEW t, UNCHANGED upvalues,
         \A s \in Slot : s < t => stack'[s] = stack[s],
         \A k \in DOMAIN open : Location(Heap, open[k]) < t
  PROVE  Stable
<1> SUFFICES ASSUME NEW u \in DOMAIN upvalues, upvalues[u].location # Closed
             PROVE  stack'[upvalues[u].location] = stack[upvalues[u].location]
  BY DEF Stable, Deref
<1>1. OpenOK(Machine, Heap) /\ HeapOK(Heap, instances)
  BY DEF IInv, MachineOK
<1>2. PICK k \in DOMAIN open : u = open[k]
  <2>1. u \in Range(open)
    BY <1>1, MachineFields, HeapFields DEF OpenOK, Location
  <2> QED BY <2>1 DEF Range
<1>3. upvalues[u].location < t
  BY <1>2, HeapFields DEF Location
<1>4. upvalues[u].location \in 0 .. MaxSlots
  BY <1>1, HeapFields, HeapTypes
<1>5. upvalues[u].location \in Slot
  BY <1>4, InterpAssumption DEF Slot, Closed
<1> QED BY <1>3, <1>5

(* A machine that keeps its instances grows.                                 *)
LEMMA KeptGrows ==
  ASSUME NEW m, NEW m2, NEW t, NEW h, Keeps(m, m2, t)
  PROVE  Grows(h, m.instances, h, m2.instances)
BY DEF Keeps, Grows

(* A step that leaves the heap and the globals alone.                        *)
LEMMA GlobalsStay ==
  ASSUME GlobalsOK(Heap, instances), UNCHANGED globals,
         Grows(Heap, instances, Heap', instances')
  PROVE  GlobalsOK(Heap, instances)'
<1>1. Values(Heap, instances) \subseteq Values(Heap', instances')
  BY ValuesGrow
<1>2. globals \in TableOf(Name \union Native, Values(Heap', instances'))
  BY <1>1, TableGrows DEF GlobalsOK
<1> QED BY <1>2 DEF GlobalsOK

(* The invariant after a step, from its parts.                               *)
LEMMA NextOK ==
  ASSUME IInv, line = 1, UNCHANGED line, OK(Machine', Heap'),
         GlobalsOK(Heap, instances)', Bounded'
  PROVE  IInv'
<1>1. MachineOK(Machine', Heap') /\ HeapOK(Heap', instances') /\ Live(Machine', Heap', top')
  BY MachineFields DEF OK, Machine
<1>2. MachineOK(Machine, Heap)' /\ HeapOK(Heap, instances)' /\ Live(Machine, Heap, top)'
  BY <1>1
<1>3. OneScript'
  BY DEF OneScript
<1> QED BY <1>2, <1>3 DEF IInv

(* An instruction that changes the machine only, and nothing below t.        *)
LEMMA MachineStep ==
  ASSUME IInv, Running, NEW m, NEW t, Machine' = m, Heap' = Heap, UNCHANGED line,
         GlobalsOK(Heap, instances)', Len(m.instances) <= MaxInstances,
         OK(m, Heap), Keeps(Machine, m, t),
         \A k \in DOMAIN open : Location(Heap, open[k]) < t
  PROVE  IInv' /\ Stable
<1>1. frames # <<>> /\ line = 1
  BY RunningOK
<1>2. stack' = m.stack /\ instances' = m.instances
  BY DEF Machine
<1>3. UNCHANGED <<upvalues, closures, classes>>
  BY DEF Heap
<1>4. Bounded'
  BY <1>2, <1>3 DEF Bounded, IInv
<1>5. IInv'
  BY <1>1, <1>4, NextOK
<1>6. Stable
  <2>1. \A s \in Slot : s < t => stack'[s] = stack[s]
    BY <1>2, MachineFields DEF Keeps
  <2> QED BY <1>1, <1>3, <2>1, KeptStable
<1> QED BY <1>5, <1>6

(* The same, of an instruction that ends in Become.                          *)
LEMMA BecomeOK ==
  ASSUME IInv, Running, NEW m, NEW t, Become(m), OK(m, Heap), Keeps(Machine, m, t),
         \A k \in DOMAIN open : Location(Heap, open[k]) < t
  PROVE  IInv' /\ Stable
<1>1. /\ stack' = m.stack /\ top' = m.top /\ frames' = m.frames /\ open' = m.open
      /\ instances' = m.instances /\ Len(m.instances) <= MaxInstances
      /\ UNCHANGED <<upvalues, closures, classes, globals, line>>
  BY DEF Become
<1>2. Heap' = Heap
  BY <1>1 DEF Heap
<1>3. Machine' = m
  <2>1. m \in MachineSet(Heap, m.instances)
    BY DEF OK, MachineOK
  <2>2. m = [stack |-> m.stack, top |-> m.top, frames |-> m.frames, open |-> m.open,
             instances |-> m.instances]
    BY <2>1 DEF MachineSet
  <2> QED BY <1>1, <2>2 DEF Machine
<1>4. Grows(Heap, instances, Heap', instances')
  BY <1>1, <1>2, KeptGrows, MachineFields
<1>5. GlobalsOK(Heap, instances)'
  BY <1>1, <1>4, GlobalsStay DEF IInv
<1> QED BY <1>1, <1>2, <1>3, <1>5, MachineStep

(* The same, where the instruction uses n temporaries.                       *)
LEMMA BecomeKeeping ==
  ASSUME IInv, Running, NEW m, NEW n \in Nat, Room(Machine, Heap, n), Become(m), OK(m, Heap),
         Keeps(Machine, m, top - n)
  PROVE  IInv' /\ Stable
<1>1. \A k \in DOMAIN open : Location(Heap, open[k]) < top - n
  BY MachineFields DEF Room
<1> QED BY <1>1, BecomeOK

(* An instruction that fails.                                                *)
LEMMA BecomeError ==
  ASSUME IInv, Running, Become(runtimeError(Machine))
  PROVE  IInv' /\ Stable
<1>1. OK(Machine, Heap)
  BY RunningOK
<1> DEFINE m == runtimeError(Machine)
<1>2. /\ OK(m, Heap) /\ m.stack = Machine.stack /\ m.instances = Machine.instances
  BY <1>1, ErrorOK
<1> HIDE DEF m
<1>3. Keeps(Machine, m, top)
  BY <1>2 DEF Keeps
<1>4. \A k \in DOMAIN open : Location(Heap, open[k]) < top
  BY <1>1, MachineFields DEF OK, MachineOK, OpenOK
<1>5. Become(m)
  BY DEF m
<1> QED BY <1>2, <1>3, <1>4, <1>5, BecomeOK

-----------------------------------------------------------------------------
(* The instructions that change the stack and the globals.                   *)
Push(m, v) ==
  [stack |-> [m.stack EXCEPT ![m.top] = v], top |-> m.top + 1, frames |-> m.frames,
   open |-> m.open, instances |-> m.instances]

(* A value may be pushed.                                                    *)
LEMMA PushOK ==
  ASSUME NEW h, NEW m, OK(m, h), m.frames # <<>>, m.top < MaxSlots,
         NEW v \in Values(h, m.instances)
  PROVE  /\ OK(Push(m, v), h) /\ Keeps(m, Push(m, v), m.top)
         /\ Push(m, v).instances = m.instances
<1> DEFINE m2 == Push(m, v)
<1>1. /\ MachineOK(m, h) /\ m \in MachineSet(h, m.instances) /\ Live(m, h, m.top)
      /\ v \in Contents(h, m.instances)
  BY DEF OK, MachineOK, Contents
<1>2. m.top \in 0 .. MaxSlots /\ MaxSlots \in Nat /\ m.top \in Slot
  <2>1. m.top \in 0 .. MaxSlots /\ MaxSlots \in Nat
    BY <1>1, MachineTypes, InterpAssumption
  <2> QED BY <2>1 DEF Slot
<1>3. /\ m2 \in MachineSet(h, m.instances)
      /\ m2.top = m.top + 1 /\ m2.frames = m.frames /\ m2.open = m.open
      /\ m2.instances = m.instances
      /\ m2.stack[m.top] = v /\ \A x \in Slot : x # m.top => m2.stack[x] = m.stack[x]
  <2>1. /\ m.stack \in [Slot -> Contents(h, m.instances)] /\ m.top + 1 \in 0 .. MaxSlots
        /\ m.frames \in Seq(FrameSet(h)) /\ m.open \in Seq(DOMAIN h.upvalues)
        /\ m.instances \in Seq(InstanceSet(h, m.instances))
    BY <1>1, <1>2, MachineTypes
  <2>2. [m.stack EXCEPT ![m.top] = v] \in [Slot -> Contents(h, m.instances)]
    BY <1>1, <2>1
  <2>3. m2 \in MachineSet(h, m.instances)
    BY <2>1, <2>2 DEF Push, MachineSet
  <2>4. m2.stack[m.top] = v /\ \A x \in Slot : x # m.top => m2.stack[x] = m.stack[x]
    BY <1>2, <2>1 DEF Push
  <2> QED BY <2>3, <2>4 DEF Push
<1> HIDE DEF m2
<1>4. Live(m2, h, m2.top)
  <2> SUFFICES ASSUME NEW x \in 0 .. m.top PROVE m2.stack[x] \in Values(h, m.instances)
    BY <1>2, <1>3 DEF Live
  <2>1. CASE x = m.top
    BY <2>1, <1>3
  <2>2. CASE x # m.top
    <3>1. x \in Slot /\ x \in 0 .. m.top - 1
      BY <1>2, <2>2 DEF Slot
    <3> QED BY <1>1, <1>3, <2>2, <3>1 DEF Live
  <2> QED BY <2>1, <2>2
<1>5. /\ FramesOK(m, h) /\ OpenOK(m, h)
      /\ \A k \in DOMAIN m.frames : m.frames[k].slots \in Slot
      /\ \A k \in DOMAIN m.open : m.open[k] \in DOMAIN h.upvalues
      /\ \A u \in DOMAIN h.upvalues : h.upvalues[u].location \in 0 .. MaxSlots
  <2>1. FramesOK(m, h) /\ OpenOK(m, h)
    BY <1>1 DEF MachineOK
  <2>2. /\ \A k \in DOMAIN m.frames : m.frames[k].slots \in Slot
        /\ \A k \in DOMAIN m.open : m.open[k] \in DOMAIN h.upvalues
    BY <1>1, MachineTypes
  <2>3. \A u \in DOMAIN h.upvalues : h.upvalues[u].location \in 0 .. MaxSlots
    BY HeapTypes DEF OK
  <2> QED BY <2>1, <2>2, <2>3
<1>6. \A k \in DOMAIN m.frames : /\ m.frames[k].slots < m2.top
                                 /\ m2.stack[m.frames[k].slots] = m.stack[m.frames[k].slots]
  BY <1>2, <1>3, <1>5 DEF Slot, FramesOK
<1>7. \A k \in DOMAIN m.open : Location(h, m.open[k]) < m2.top
  BY <1>2, <1>3, <1>5 DEF Location, OpenOK
<1>8. Grows(h, m.instances, h, m2.instances) /\ m2 \in MachineSet(h, m2.instances)
  BY <1>3, GrowsItself
<1>9. m2.frames = m.frames /\ m2.open = m.open
  BY <1>3
<1>10. OK(m2, h)
  BY <1>4, <1>6, <1>7, <1>8, <1>9, Edited
<1>11. Keeps(m, m2, m.top)
  BY <1>2, <1>3 DEF Keeps, Slot
<1> QED BY <1>3, <1>10, <1>11 DEF m2

(* An instruction that pushes a value.                                       *)
LEMMA PushStep ==
  ASSUME IInv, Running, NEW v \in Values(Heap, instances), PushValue(v),
         UNCHANGED <<frames, open, heapvars, globals, line>>
  PROVE  IInv' /\ Stable
<1> DEFINE m == Push(Machine, v)
<1>1. OK(Machine, Heap) /\ Machine.frames # <<>> /\ Machine.instances = instances
      /\ Machine.top = top /\ top < MaxSlots /\ Machine.open = open
  BY RunningOK, MachineFields DEF PushValue
<1>2. OK(m, Heap) /\ Keeps(Machine, m, top) /\ m.instances = instances
  BY <1>1, PushOK
<1>3. Machine' = m
  BY MachineFields DEF Machine, Push, PushValue, heapvars, objects
<1>4. Heap' = Heap
  BY DEF Heap, heapvars, objects
<1>5. GlobalsOK(Heap, instances)'
  BY <1>4 DEF GlobalsOK, IInv, heapvars, objects
<1>6. \A k \in DOMAIN open : Location(Heap, open[k]) < top
  BY <1>1 DEF OK, MachineOK, OpenOK
<1>7. Len(m.instances) <= MaxInstances
  BY <1>2 DEF IInv, Bounded
<1> HIDE DEF m
<1> QED BY <1>2, <1>3, <1>4, <1>5, <1>6, <1>7, MachineStep

(* Any slot but a callee's may be assigned to.                               *)
LEMMA AssignOK ==
  ASSUME NEW h, NEW m, OK(m, h), m.frames # <<>>, NEW s \in Slot,
         \A k \in DOMAIN m.frames : m.frames[k].slots # s, NEW v \in Values(h, m.instances)
  PROVE  OK(Put(m, s, v), h)
<1>0. /\ Put(m, s, v) \in MachineSet(h, m.instances)
      /\ Put(m, s, v).top = m.top /\ Put(m, s, v).frames = m.frames
      /\ Put(m, s, v).open = m.open /\ Put(m, s, v).instances = m.instances
      /\ Put(m, s, v).stack[s] = v
      /\ \A x \in Slot : x # s => Put(m, s, v).stack[x] = m.stack[x]
  <2>1. m \in MachineSet(h, m.instances) /\ v \in Contents(h, m.instances)
    BY DEF OK, MachineOK, Contents
  <2>2. IsPut(h, m, Put(m, s, v), s, v)
    BY <2>1, PutFields
  <2> QED BY <2>2 DEF IsPut
<1> DEFINE m2 == Put(m, s, v)
<1>1. m2 \in MachineSet(h, m2.instances) /\ m2.frames = m.frames /\ m2.open = m.open
      /\ m2.top = m.top /\ m2.instances = m.instances
      /\ m2.stack[s] = v /\ \A x \in Slot : x # s => m2.stack[x] = m.stack[x]
  BY <1>0
<1> HIDE DEF m2
<1>2. MachineOK(m, h) /\ m \in MachineSet(h, m.instances) /\ Live(m, h, m.top)
  BY DEF OK, MachineOK
<1>3. m.top \in 0 .. MaxSlots /\ \A k \in DOMAIN m.frames : m.frames[k].slots \in Slot
  BY <1>2, MachineTypes
<1>4. Live(m2, h, m2.top)
  <2> SUFFICES ASSUME NEW x \in 0 .. m.top - 1 PROVE m2.stack[x] \in Values(h, m.instances)
    BY <1>1 DEF Live
  <2>1. x \in Slot
    BY <1>3, InterpAssumption DEF Slot
  <2>2. m.stack[x] \in Values(h, m.instances)
    BY <1>2 DEF Live
  <2> QED BY <1>1, <2>1, <2>2
<1>5. \A k \in DOMAIN m.frames : /\ m.frames[k].slots < m2.top
                                 /\ m2.stack[m.frames[k].slots] = m.stack[m.frames[k].slots]
  BY <1>1, <1>2, <1>3 DEF MachineOK, FramesOK
<1>6. \A k \in DOMAIN m.open : Location(h, m.open[k]) < m2.top
  BY <1>1, <1>2 DEF MachineOK, OpenOK
<1>7. Grows(h, m.instances, h, m2.instances)
  BY <1>1, GrowsItself
<1>8. OK(m2, h)
  BY <1>1, <1>4, <1>5, <1>6, <1>7, Edited
<1> QED BY <1>8 DEF m2

(* A local variable's slot holds a value and is no frame's slot 0.           *)
LEMMA LocalSlot ==
  ASSUME IInv, Running, NEW i \in Locals
  PROVE  /\ Local(i) \in Slot /\ Local(i) \in 0 .. top - 1 /\ Local(i) > Frame.slots
         /\ stack[Local(i)] \in Values(Heap, instances)
         /\ \A k \in DOMAIN frames : frames[k].slots # Local(i)
<1>1. /\ OK(Machine, Heap) /\ frames # <<>> /\ Frame = Last(frames)
      /\ top \in 0 .. MaxSlots /\ MaxSlots \in Nat /\ Frame.slots \in Slot
  BY RunningOK
<1>2. i \in 1 .. MaxSlots /\ Frame.slots + i < top /\ Local(i) = Frame.slots + i
  BY DEF Locals, Local
<1>3. Local(i) \in Slot /\ Local(i) \in 0 .. top - 1 /\ Local(i) > Frame.slots
  BY <1>1, <1>2 DEF Slot
<1>4. stack[Local(i)] \in Values(Heap, instances)
  BY <1>1, <1>3, MachineFields DEF OK, Live
<1>5. /\ \A k \in DOMAIN frames : frames[k].slots <= Frame.slots
      /\ \A k \in DOMAIN frames : frames[k].slots \in Slot
  <2>1. MachineOK(Machine, Heap) /\ Machine \in MachineSet(Heap, Machine.instances)
    BY <1>1 DEF OK, MachineOK
  <2>2. \A k \in DOMAIN frames : frames[k].slots <= Frame.slots
    BY <1>1, <2>1, MachineFields, RunningFrame
  <2>3. \A k \in DOMAIN frames : frames[k].slots \in Slot
    BY <2>1, MachineFields, MachineTypes
  <2> QED BY <2>2, <2>3
<1>6. \A k \in DOMAIN frames : frames[k].slots # Local(i)
  BY <1>1, <1>3, <1>5 DEF Slot
<1> QED BY <1>3, <1>4, <1>6

(* OP_GET_LOCAL.                                                             *)
LEMMA GetLocalOK ==
  ASSUME IInv, NEW i \in Slot, GetLocal(i)
  PROVE  IInv' /\ Stable
<1>1. /\ Running /\ PushValue(stack[Local(i)])
      /\ UNCHANGED <<frames, open, heapvars, globals, line>>
      /\ i \in Locals \/ i = 0
  BY DEF GetLocal
<1>2. stack[Local(i)] \in Values(Heap, instances)
  <2>1. CASE i \in Locals
    BY <1>1, <2>1, LocalSlot
  <2>2. CASE i = 0
    <3>1. /\ OK(Machine, Heap) /\ top \in 0 .. MaxSlots /\ MaxSlots \in Nat
          /\ Frame.slots \in Slot /\ Frame.slots < top
      BY <1>1, RunningOK
    <3>2. Local(i) = Frame.slots /\ Frame.slots \in 0 .. top - 1
      BY <2>2, <3>1 DEF Local, Slot
    <3> QED BY <3>1, <3>2, MachineFields DEF OK, Live
  <2> QED BY <1>1, <2>1, <2>2
<1> QED BY <1>1, <1>2, PushStep

(* OP_SET_LOCAL changes no captured variable but the local itself.           *)
LEMMA SetLocalOK ==
  ASSUME IInv, NEW i \in Slot, SetLocal(i)
  PROVE  /\ IInv'
         /\ \A u \in DOMAIN upvalues : Deref(u)' # Deref(u) => upvalues[u].location = Local(i)
<1>1. /\ Running /\ i \in Locals /\ stack' = [stack EXCEPT ![Local(i)] = peek]
      /\ UNCHANGED <<top, frames, open, heapvars, globals, line>>
  BY DEF SetLocal
<1>2. /\ OK(Machine, Heap) /\ peek \in Values(Heap, instances) /\ frames # <<>> /\ line = 1
  BY <1>1, RunningOK
<1>3. Local(i) \in Slot /\ \A k \in DOMAIN frames : frames[k].slots # Local(i)
  BY <1>1, LocalSlot
<1> DEFINE m == Put(Machine, Local(i), peek)
<1>4. OK(m, Heap)
  BY <1>2, <1>3, AssignOK, MachineFields
<1>5. Machine' = m /\ Heap' = Heap
  BY <1>1 DEF Machine, Put, Heap, heapvars, objects
<1> HIDE DEF m
<1>6. GlobalsOK(Heap, instances)'
  BY <1>1, <1>5 DEF GlobalsOK, IInv, heapvars, objects
<1>7. Bounded'
  BY <1>1 DEF IInv, Bounded, heapvars, objects
<1>8. IInv'
  BY <1>1, <1>2, <1>4, <1>5, <1>6, <1>7, NextOK
<1>9. ASSUME NEW u \in DOMAIN upvalues, upvalues[u].location # Local(i)
      PROVE  Deref(u)' = Deref(u)
  <2>1. stack \in [Slot -> Contents(Heap, Machine.instances)]
    BY <1>2, MachineTypes, MachineFields DEF OK, MachineOK
  <2>2. HeapOK(Heap, instances)
    BY DEF IInv
  <2>3. upvalues[u].location \in 0 .. MaxSlots
    BY <2>2, HeapFields, HeapTypes
  <2>4. upvalues[u].location \in Slot \/ upvalues[u].location = Closed
    BY <2>3, InterpAssumption DEF Slot, Closed
  <2> QED BY <1>1, <1>9, <2>1, <2>4 DEF Deref, heapvars
<1> QED BY <1>8, <1>9

(* OP_GET_GLOBAL.                                                            *)
LEMMA GetGlobalOK ==
  ASSUME IInv, NEW n, GetGlobal(n)
  PROVE  IInv' /\ Stable
<1>1. Running
  BY DEF GetGlobal
<1>2. CASE /\ n \in DOMAIN globals /\ PushValue(globals[n])
           /\ UNCHANGED <<frames, open, heapvars, globals, line>>
  <2>1. globals[n] \in Values(Heap, instances)
    BY <1>2, TableOfAll DEF IInv, GlobalsOK
  <2> QED BY <1>1, <1>2, <2>1, PushStep
<1>3. CASE Become(runtimeError(Machine))
  BY <1>1, <1>3, BecomeError
<1> QED BY <1>2, <1>3 DEF GetGlobal

(* A variable may hold any plain value.                                      *)
LEMMA PlainIsValue ==
  ASSUME NEW v \in Plain, NEW h, NEW is
  PROVE  v \in Values(h, is)
BY DEF Values

(* OP_CONSTANT, OP_NIL, OP_TRUE and OP_FALSE.                                *)
LEMMA ConstantOK ==
  ASSUME IInv, NEW v \in Plain, Constant(v)
  PROVE  IInv' /\ Stable
BY PlainIsValue, PushStep DEF Constant

(* OP_POP and OP_PRINT.                                                      *)
LEMMA PopOK ==
  ASSUME IInv, Pop
  PROVE  IInv' /\ Stable
<1> DEFINE m == Drop(Machine, 1)
<1>1. Running /\ Temporaries(1) /\ Become(m)
  BY DEF Pop
<1>2. Room(Machine, Heap, 1) /\ OK(Machine, Heap)
  BY <1>1, RunningOK, TemporariesRoom
<1>3. OK(m, Heap) /\ m.stack = Machine.stack /\ m.instances = Machine.instances
  BY <1>2, DropOK
<1> HIDE DEF m
<1>4. Keeps(Machine, m, top - 1)
  BY <1>3 DEF Keeps
<1> QED BY <1>1, <1>2, <1>3, <1>4, BecomeKeeping

(* The operators of one and two operands.                                    *)
LEMMA OperatorOK ==
  ASSUME IInv, NEW n \in 1 .. 2, NEW v \in Plain, Operator(n, v)
  PROVE  IInv' /\ Stable
<1>1. Running /\ Temporaries(n)
  BY DEF Operator
<1>2. CASE Become(runtimeError(Machine))
  BY <1>1, <1>2, BecomeError
<1>3. CASE Become(Drop(Put(Machine, top - n, v), n - 1))
  <2>1. Room(Machine, Heap, n) /\ OK(Machine, Heap) /\ n \in Nat /\ n >= 1
        /\ Machine.top = top /\ Machine.instances = instances
    BY <1>1, RunningOK, TemporariesRoom, MachineFields
  <2>2. top - n \in Slot /\ top - n >= top - n
    <3>1. 0 \in 0 .. n - 1
      OBVIOUS
    <3>2. top - n \in Slot
      BY <2>1, <3>1, PeekIsValue
    <3> QED BY <3>2 DEF Slot
  <2>3. v \in Values(Heap, instances)
    BY PlainIsValue
  <2> DEFINE p == Put(Machine, top - n, v)
             m == Drop(p, n - 1)
  <2>4. OK(p, Heap) /\ Room(p, Heap, n) /\ Keeps(Machine, p, top - n)
    BY <2>1, <2>2, <2>3, PutOK
  <2> HIDE DEF p
  <2>5. Room(p, Heap, n - 1)
    <3>1. n - 1 \in Nat /\ 1 \in Nat /\ (n - 1) + 1 = n
      OBVIOUS
    <3>2. OK(p, Heap) /\ Room(p, Heap, (n - 1) + 1)
      BY <2>4, <3>1
    <3> QED BY <3>1, <3>2, DropRoom
  <2>6. n - 1 \in Nat
    OBVIOUS
  <2>7. OK(m, Heap) /\ m.stack = p.stack /\ m.instances = p.instances
    BY <2>4, <2>5, <2>6, DropOK
  <2>8. Become(m)
    BY <1>3 DEF p
  <2> HIDE DEF m
  <2>9. Keeps(Machine, m, top - n)
    BY <2>4, <2>7 DEF Keeps
  <2> QED BY <1>1, <2>1, <2>7, <2>8, <2>9, BecomeKeeping
<1> QED BY <1>2, <1>3 DEF Operator

(* OP_GET_SUPER puts a value where the instance was, or fails.               *)
LEMMA getSuperOK ==
  ASSUME NEW m, OK(m, Heap), Room(m, Heap, 2), NEW n,
         Inherits(m, m.stack[m.top - 2], m.stack[m.top - 1].class)
  PROVE  OK(getSuper(m, n), Heap) /\ Keeps(m, getSuper(m, n), m.top - 2)
<1> DEFINE m2 == Drop(m, 1)
           k  == m.stack[m.top - 1].class
<1>1. Room(m, Heap, 1) /\ OK(m2, Heap) /\ Room(m2, Heap, 1)
  <2>1. 1 \in Nat /\ 1 + 1 = 2
    OBVIOUS
  <2> QED BY <2>1, DropRoom
<1>2. /\ m2.top = m.top - 1 /\ m2.stack = m.stack /\ m2.instances = m.instances
      /\ m.top \in Nat
  <2>1. 1 \in Nat /\ m.top \in 0 .. MaxSlots
    BY MachineTypes DEF OK, MachineOK
  <2> QED BY <1>1, <2>1, DropOK
<1>3. getSuper(m, n) = bindMethod(m2, k, n)
  BY DEF getSuper
<1>4. m2.top - 1 = m.top - 2
  BY <1>2
<1> HIDE DEF m2, k
<1>5. Inherits(m2, m2.stack[m2.top - 1], k)
  BY <1>2, <1>4 DEF Inherits, k
<1>6. OK(bindMethod(m2, k, n), Heap) /\ Keeps(m2, bindMethod(m2, k, n), m2.top - 1)
  BY <1>1, <1>5, bindMethodOK
<1>7. Keeps(m, m2, m.top - 2)
  BY <1>2 DEF Keeps
<1> QED BY <1>3, <1>4, <1>6, <1>7, KeepsTrans

(* OP_SUPER_INVOKE leaves what is below the receiver as it was.              *)
LEMMA superInvokeOK ==
  ASSUME NEW m, OK(m, Heap), NEW a \in Nat, Room(m, Heap, a + 2), NEW n,
         Inherits(m, m.stack[m.top - 2 - a], m.stack[m.top - 1].class)
  PROVE  OK(superInvoke(m, n, a), Heap) /\ Keeps(m, superInvoke(m, n, a), m.top - (a + 2))
<1> DEFINE m2 == Drop(m, 1)
           k  == m.stack[m.top - 1].class
<1>1. Room(m, Heap, 1) /\ OK(m2, Heap) /\ Room(m2, Heap, a + 1)
  <2>1. 1 \in Nat /\ a + 1 \in Nat /\ 1 + (a + 1) = a + 2
    OBVIOUS
  <2> QED BY <2>1, DropRoom
<1>2. /\ m2.top = m.top - 1 /\ m2.stack = m.stack /\ m2.instances = m.instances
      /\ m.top \in Nat
  <2>1. 1 \in Nat /\ m.top \in 0 .. MaxSlots
    BY MachineTypes DEF OK, MachineOK
  <2> QED BY <1>1, <2>1, DropOK
<1>3. superInvoke(m, n, a) = invokeFromClass(m2, k, n, a)
  BY DEF superInvoke
<1>4. m2.top - a - 1 = m.top - 2 - a /\ m2.top - (a + 1) = m.top - (a + 2)
  BY <1>2
<1> HIDE DEF m2, k
<1>5. Inherits(m2, m2.stack[m2.top - a - 1], k)
  BY <1>2, <1>4 DEF Inherits, k
<1>6. /\ OK(invokeFromClass(m2, k, n, a), Heap)
      /\ Keeps(m2, invokeFromClass(m2, k, n, a), m2.top - (a + 1))
  BY <1>1, <1>5, invokeFromClassOK
<1>7. Keeps(m, m2, m.top - (a + 2))
  BY <1>2 DEF Keeps
<1> QED BY <1>3, <1>4, <1>6, <1>7, KeepsTrans

(* A class above the superclass of an instance's class.                      *)
LEMMA SuperInherits ==
  ASSUME IInv, NEW v \in Contents(Heap, instances), NEW w \in Contents(Heap, instances),
         SuperOf(v, w)
  PROVE  Inherits(Machine, v, w.class)
<1>1. PICK i \in DOMAIN instances : v = Instance(i) /\ v.instance = i
  BY Tags DEF SuperOf
<1>2. PICK j \in DOMAIN classes : w.class = j
  <2>1. \E j \in DOMAIN Heap.classes : w = Class(j) /\ w.class = j
    BY Tags DEF SuperOf
  <2> QED BY <2>1, HeapFields
<1> DEFINE k == instances[i].class
<1>3. j \in Ancestry[classes[k].super]
  BY <1>1, <1>2 DEF SuperOf
<1>4. /\ Hierarchy(classes) /\ k \in DOMAIN classes
      /\ classes[k].super \in 0 .. Len(classes)
  <2>1. HeapOK(Heap, instances) /\ Machine \in MachineSet(Heap, Machine.instances)
    BY DEF IInv, MachineOK
  <2>2. Hierarchy(classes)
    BY <2>1, ClassesAreHierarchy, HeapFields
  <2>3. k \in DOMAIN classes
    BY <2>1, MachineTypes, MachineFields, HeapFields
  <2> QED BY <2>2, <2>3, ClassIndex
<1>5. j \in Above(classes, classes[k].super)
  BY <1>3, <1>4, AncestryIsAbove
<1>6. j \in Above(classes, k)
  BY <1>4, <1>5, AboveSuper
<1>7. MethodsOf(classes, j) \subseteq MethodsOf(classes, k)
  BY <1>6, AncestorsMethods
<1> QED BY <1>1, <1>2, <1>7, MachineFields DEF Inherits

(* OP_CALL.                                                                  *)
LEMMA CallOK ==
  ASSUME IInv, NEW a \in Nat, Call(a)
  PROVE  IInv' /\ Stable
<1> DEFINE m == callValue(Machine, stack[top - 1 - a], a)
<1>1. Running /\ Temporaries(a + 1) /\ Become(m)
  BY DEF Call
<1>2. a + 1 \in Nat /\ Room(Machine, Heap, a + 1) /\ OK(Machine, Heap) /\ top \in Nat
  BY <1>1, RunningOK, TemporariesRoom
<1>3. top - 1 - a = top - a - 1
  BY <1>2
<1>4. stack[top - 1 - a] = Machine.stack[Machine.top - a - 1]
  BY <1>3, MachineFields
<1>5. OK(m, Heap) /\ Keeps(Machine, m, top - (a + 1))
  BY <1>2, <1>4, callValueOK, MachineFields
<1> HIDE DEF m
<1> QED BY <1>1, <1>2, <1>5, BecomeKeeping

(* OP_GET_PROPERTY.                                                          *)
LEMMA GetPropertyOK ==
  ASSUME IInv, NEW n, GetProperty(n)
  PROVE  IInv' /\ Stable
<1> DEFINE m == getProperty(Machine, n)
<1>1. Running /\ Temporaries(1) /\ Become(m)
  BY DEF GetProperty
<1>2. Room(Machine, Heap, 1) /\ OK(Machine, Heap)
  BY <1>1, RunningOK, TemporariesRoom
<1>3. OK(m, Heap) /\ Keeps(Machine, m, top - 1)
  BY <1>2, getPropertyOK, MachineFields
<1> HIDE DEF m
<1> QED BY <1>1, <1>2, <1>3, BecomeKeeping

(* OP_INVOKE.                                                                *)
LEMMA InvokeOK ==
  ASSUME IInv, NEW n, NEW a \in Nat, Invoke(n, a)
  PROVE  IInv' /\ Stable
<1> DEFINE m == invoke(Machine, n, a)
<1>1. Running /\ Temporaries(a + 1) /\ Become(m)
  BY DEF Invoke
<1>2. a + 1 \in Nat /\ Room(Machine, Heap, a + 1) /\ OK(Machine, Heap)
  BY <1>1, RunningOK, TemporariesRoom
<1>3. OK(m, Heap) /\ Keeps(Machine, m, top - (a + 1))
  BY <1>2, invokeOK, MachineFields
<1> HIDE DEF m
<1> QED BY <1>1, <1>2, <1>3, BecomeKeeping

(* The two topmost slots of super's operands, and the receiver under them.   *)
LEMMA SuperOperands ==
  ASSUME IInv, Running, NEW a \in Nat, Room(Machine, Heap, a + 2)
  PROVE  stack[top - 2 - a] \in Contents(Heap, instances) /\ peek \in Contents(Heap, instances)
<1>1. a + 2 \in Nat /\ a + 2 >= 1 /\ 0 \in 0 .. (a + 2) - 1
  OBVIOUS
<1>2. OK(Machine, Heap) /\ top \in Nat /\ peek \in Values(Heap, instances)
  BY RunningOK
<1>3. Machine.stack[Machine.top - (a + 2) + 0] \in Values(Heap, Machine.instances)
  BY <1>1, <1>2, PeekIsValue
<1>4. top - (a + 2) + 0 = top - 2 - a
  BY <1>2
<1> QED BY <1>2, <1>3, <1>4, MachineFields DEF Contents

(* OP_GET_SUPER.                                                             *)
LEMMA GetSuperOK ==
  ASSUME IInv, NEW n, GetSuper(n)
  PROVE  IInv' /\ Stable
<1> DEFINE m == getSuper(Machine, n)
<1>1. Running /\ Temporaries(2) /\ Become(m) /\ SuperOf(stack[top - 2], peek)
  BY DEF GetSuper
<1>2. Room(Machine, Heap, 2) /\ OK(Machine, Heap) /\ top \in Nat
  BY <1>1, RunningOK, TemporariesRoom
<1>3. stack[top - 2] \in Contents(Heap, instances) /\ peek \in Contents(Heap, instances)
  <2>1. 0 \in Nat /\ 0 + 2 = 2 /\ top - 2 - 0 = top - 2
    BY <1>2
  <2> QED BY <1>1, <1>2, <2>1, SuperOperands
<1>4. Inherits(Machine, stack[top - 2], peek.class)
  BY <1>1, <1>3, SuperInherits
<1>5. OK(m, Heap) /\ Keeps(Machine, m, top - 2)
  BY <1>2, <1>4, getSuperOK, MachineFields DEF peek
<1> HIDE DEF m
<1> QED BY <1>1, <1>2, <1>5, BecomeKeeping

(* OP_SUPER_INVOKE.                                                          *)
LEMMA SuperInvokeOK ==
  ASSUME IInv, NEW n, NEW a \in Nat, SuperInvoke(n, a)
  PROVE  IInv' /\ Stable
<1> DEFINE m == superInvoke(Machine, n, a)
<1>1. Running /\ Temporaries(a + 2) /\ Become(m) /\ SuperOf(stack[top - 2 - a], peek)
  BY DEF SuperInvoke
<1>2. a + 2 \in Nat /\ Room(Machine, Heap, a + 2) /\ OK(Machine, Heap)
  BY <1>1, RunningOK, TemporariesRoom
<1>3. stack[top - 2 - a] \in Contents(Heap, instances) /\ peek \in Contents(Heap, instances)
  BY <1>1, <1>2, SuperOperands
<1>4. Inherits(Machine, stack[top - 2 - a], peek.class)
  BY <1>1, <1>3, SuperInherits
<1>5. OK(m, Heap) /\ Keeps(Machine, m, top - (a + 2))
  BY <1>2, <1>4, superInvokeOK, MachineFields DEF peek
<1> HIDE DEF m
<1> QED BY <1>1, <1>2, <1>5, BecomeKeeping

(* A field of an instance is assigned to.                                    *)
SetField(m, i, n, v) == [m EXCEPT !.instances[i].fields = Bind(@, n, v)]

(* A field may be set to any value: the instance keeps its class.            *)
LEMMA SetFieldOK ==
  ASSUME NEW h, NEW m, OK(m, h), m.frames # <<>>, NEW i \in DOMAIN m.instances,
         NEW n \in Member, NEW v \in Values(h, m.instances)
  PROVE  /\ OK(SetField(m, i, n, v), h) /\ Keeps(m, SetField(m, i, n, v), m.top)
         /\ Values(h, m.instances) \subseteq Values(h, SetField(m, i, n, v).instances)
         /\ SetField(m, i, n, v).top = m.top /\ SetField(m, i, n, v).frames = m.frames
         /\ SetField(m, i, n, v).open = m.open
<1> DEFINE m2  == SetField(m, i, n, v)
           is  == m.instances
           f   == Bind(is[i].fields, n, v)
           is2 == [is EXCEPT ![i].fields = f]
<1>1. MachineOK(m, h) /\ m \in MachineSet(h, m.instances) /\ Live(m, h, m.top)
  BY DEF OK, MachineOK
<1>2. /\ m.stack \in [Slot -> Contents(h, is)] /\ m.frames \in Seq(FrameSet(h))
      /\ m.top \in 0 .. MaxSlots /\ m.open \in Seq(DOMAIN h.upvalues)
      /\ is \in Seq(InstanceSet(h, is)) /\ Len(is) \in Nat /\ DOMAIN is = 1 .. Len(is)
      /\ is[i] \in InstanceSet(h, is) /\ is[i].fields \in TableOf(Member, Values(h, is))
  BY <1>1, MachineTypes
<1>3. f \in TableOf(Member, Values(h, is))
  <2>1. \A T : \A t \in TableOf(Member, T), x \in T : Bind(t, n, x) \in TableOf(Member, T)
    BY BindIsTable
  <2>2. is[i].fields \in TableOf(Member, Values(h, is)) /\ v \in Values(h, is)
    BY <1>2
  <2> HIDE DEF is
  <2> QED BY <2>1, <2>2
<1> HIDE DEF f
<1>4. [is[i] EXCEPT !.fields = f] \in InstanceSet(h, is)
      /\ [is[i] EXCEPT !.fields = f].class = is[i].class
  BY <1>2, <1>3 DEF InstanceSet
<1>5. /\ is2 \in Seq(InstanceSet(h, is)) /\ Len(is2) = Len(is) /\ DOMAIN is2 = DOMAIN is
      /\ \A x \in DOMAIN is : is2[x].class = is[x].class
  <2> DEFINE j == [is[i] EXCEPT !.fields = f]
  <2>1. /\ is \in Seq(InstanceSet(h, is)) /\ i \in DOMAIN is
        /\ j \in InstanceSet(h, is) /\ j.class = is[i].class /\ is2 = [is EXCEPT ![i] = j]
    BY <1>2, <1>4
  <2> HIDE DEF is, is2, j
  <2> QED BY <2>1
<1>6. m2 = [m EXCEPT !.instances = is2]
  BY <1>1 DEF SetField, MachineSet, f
<1> HIDE DEF is2, is, m2
<1>7. Grows(h, is, h, is2)
  BY <1>5 DEF Grows
<1>8. Values(h, is) \subseteq Values(h, is2) /\ Contents(h, is) \subseteq Contents(h, is2)
  BY <1>7, ValuesGrow
<1>9. is2 \in Seq(InstanceSet(h, is2))
  <2>1. TableOf(Member, Values(h, is)) \subseteq TableOf(Member, Values(h, is2))
    BY <1>8, TableGrows
  <2>2. InstanceSet(h, is) \subseteq InstanceSet(h, is2)
    BY <2>1 DEF InstanceSet
  <2> QED BY <1>5, <2>2
<1>10. /\ m2.stack = m.stack /\ m2.top = m.top /\ m2.frames = m.frames /\ m2.open = m.open
       /\ m2.instances = is2
       /\ m2 = [stack |-> m.stack, top |-> m.top, frames |-> m.frames, open |-> m.open,
                instances |-> is2]
  BY <1>1, <1>6 DEF MachineSet
<1>11. m2 \in MachineSet(h, m2.instances)
  <2>1. m.stack \in [Slot -> Contents(h, is2)]
    BY <1>2, <1>8
  <2> QED BY <1>2, <1>9, <1>10, <2>1 DEF MachineSet
<1>12. Live(m2, h, m2.top)
  BY <1>1, <1>8, <1>10 DEF Live, is
<1>13. \A k \in DOMAIN m.frames : /\ m.frames[k].slots < m2.top
                                  /\ m2.stack[m.frames[k].slots] = m.stack[m.frames[k].slots]
  BY <1>1, <1>10 DEF MachineOK, FramesOK
<1>14. \A k \in DOMAIN m.open : Location(h, m.open[k]) < m2.top
  BY <1>1, <1>10 DEF MachineOK, OpenOK
<1>15. Grows(h, m.instances, h, m2.instances)
  BY <1>7, <1>10 DEF is
<1>16. m2.frames = m.frames /\ m2.open = m.open
  BY <1>10
<1>17. OK(m2, h)
  BY <1>11, <1>12, <1>13, <1>14, <1>15, <1>16, Edited
<1>18. Keeps(m, m2, m.top)
  BY <1>5, <1>10 DEF Keeps, is
<1> QED BY <1>5, <1>8, <1>10, <1>17, <1>18 DEF is, m2

(* OP_SET_PROPERTY.                                                          *)
LEMMA SetPropertyOK ==
  ASSUME IInv, NEW n \in Member, SetProperty(n)
  PROVE  IInv' /\ Stable
<1> DEFINE o == stack[top - 2]
<1>1. Running /\ Temporaries(2)
  BY DEF SetProperty
<1>2. /\ OK(Machine, Heap) /\ Room(Machine, Heap, 2) /\ peek \in Values(Heap, instances)
      /\ top \in Nat /\ frames # <<>>
  BY <1>1, RunningOK, TemporariesRoom
<1>3. CASE ~ Is(o, "instance")
  <2>1. Become(runtimeError(Machine))
    BY <1>3 DEF SetProperty
  <2> QED BY <1>1, <2>1, BecomeError
<1>4. CASE Is(o, "instance")
  <2>1. o \in Contents(Heap, instances) /\ top - 2 \in Slot /\ top - 2 >= top - 2
    <3>1. 0 \in 0 .. 2 - 1 /\ 2 \in Nat /\ 2 >= 1 /\ top - 2 + 0 = top - 2
      BY <1>2
    <3>2. /\ Machine.top - 2 + 0 \in Slot
          /\ Machine.stack[Machine.top - 2 + 0] \in Values(Heap, Machine.instances)
      BY <1>2, <3>1, PeekIsValue
    <3>3. top - 2 \in Slot
      BY <3>1, <3>2, MachineFields
    <3> QED BY <3>1, <3>2, <3>3, MachineFields DEF Contents, Slot
  <2>2. PICK i \in DOMAIN instances : o.instance = i
    BY <1>4, <2>1, Tags
  <2> DEFINE p == SetField(Machine, i, n, peek)
             q == Put(p, top - 2, peek)
             m == Drop(q, 1)
  <2>3. /\ OK(p, Heap) /\ Keeps(Machine, p, top) /\ peek \in Values(Heap, p.instances)
        /\ p.top = top /\ p.frames = frames /\ p.open = open
    <3>1. /\ Machine.frames # <<>> /\ i \in DOMAIN Machine.instances
          /\ peek \in Values(Heap, Machine.instances)
      BY <1>2, <2>2, MachineFields
    <3> HIDE DEF p, q, m, o
    <3>2. OK(Machine, Heap) /\ n \in Member
      BY <1>2
    <3>3. /\ OK(SetField(Machine, i, n, peek), Heap)
          /\ Keeps(Machine, SetField(Machine, i, n, peek), Machine.top)
          /\ Values(Heap, Machine.instances) \subseteq Values(Heap, SetField(Machine, i, n, peek).instances)
      BY <3>1, <3>2, SetFieldOK
    <3>4. /\ SetField(Machine, i, n, peek).top = Machine.top
          /\ SetField(Machine, i, n, peek).frames = Machine.frames
          /\ SetField(Machine, i, n, peek).open = Machine.open
      BY <3>1, <3>2, SetFieldOK
    <3> QED BY <3>1, <3>3, <3>4, MachineFields DEF p
  <2>4. Become(m)
    BY <1>4, <2>2 DEF SetProperty, SetField
  <2> HIDE DEF p
  <2>5. Room(p, Heap, 2)
    BY <1>2, <2>3, MachineFields DEF Room
  <2>6. OK(q, Heap) /\ Room(q, Heap, 2) /\ Keeps(p, q, p.top - 2)
    BY <2>1, <2>3, <2>5, PutOK
  <2> HIDE DEF q
  <2>7. Room(q, Heap, 1) /\ OK(m, Heap)
    <3>1. 1 \in Nat /\ 1 + 1 = 2
      OBVIOUS
    <3> QED BY <2>6, <3>1, DropRoom
  <2>8. m.stack = q.stack /\ m.instances = q.instances
    BY <2>6, <2>7, DropOK
  <2> HIDE DEF m
  <2>9. Keeps(Machine, m, top - 2)
    <3>1. Keeps(Machine, p, top - 2)
      BY <1>2, <2>3 DEF Keeps, Slot
    <3>2. Keeps(p, q, top - 2)
      BY <2>3, <2>6
    <3>3. Keeps(q, m, top - 2)
      BY <2>8 DEF Keeps
    <3> QED BY <3>1, <3>2, <3>3, KeepsTrans
  <2> QED BY <1>1, <1>2, <2>4, <2>7, <2>9, BecomeKeeping
<1> QED BY <1>3, <1>4

(* An entry of a table is replaced.                                          *)
LEMMA ExceptIsTable ==
  ASSUME NEW N, NEW T, NEW f \in TableOf(N, T), NEW n \in DOMAIN f, NEW v \in T
  PROVE  [f EXCEPT ![n] = v] \in TableOf(N, T)
<1>1. f \in [DOMAIN f -> T] /\ DOMAIN f \subseteq N
  BY TableOfAll
<1>2. [f EXCEPT ![n] = v] \in [DOMAIN f -> T]
  BY <1>1
<1> QED BY <1>1, <1>2 DEF TableOf

(* OP_DEFINE_GLOBAL.                                                         *)
LEMMA DefineGlobalOK ==
  ASSUME IInv, NEW n \in Name, DefineGlobal(n)
  PROVE  IInv' /\ Stable
<1> DEFINE m == Drop(Machine, 1)
<1>1. /\ Running /\ Locals # {} /\ Uncaptured(top - 1) /\ globals' = Bind(globals, n, peek)
      /\ top' = top - 1 /\ UNCHANGED <<stack, frames, open, heapvars, line>>
  BY DEF DefineGlobal
<1>2. /\ OK(Machine, Heap) /\ peek \in Values(Heap, instances) /\ top \in Nat
      /\ Frame.slots \in Slot
  BY <1>1, RunningOK
<1>3. PICK i \in Locals : TRUE
  BY <1>1
<1>4. Temporaries(1)
  <2>1. Local(i) \in 0 .. top - 1 /\ Local(i) > Frame.slots
    BY <1>1, LocalSlot
  <2>2. top - 1 > Frame.slots
    BY <1>2, <2>1 DEF Slot
  <2>3. \A s \in top - 1 .. top - 1 : s = top - 1
    BY <1>2
  <2> QED BY <1>1, <2>2, <2>3 DEF Temporaries
<1>5. Room(Machine, Heap, 1)
  BY <1>1, <1>4, TemporariesRoom
<1>6. OK(m, Heap) /\ m.stack = Machine.stack /\ m.instances = Machine.instances
  BY <1>2, <1>5, DropOK
<1>7. Machine' = m /\ Heap' = Heap
  BY <1>1 DEF Machine, Drop, Heap, heapvars, objects
<1> HIDE DEF m
<1>8. GlobalsOK(Heap, instances)'
  <2>1. globals' \in TableOf(Name \union Native, Values(Heap, instances))
    BY <1>1, <1>2, BindIsTable DEF IInv, GlobalsOK
  <2> QED BY <1>1, <1>7, <2>1 DEF GlobalsOK, heapvars, objects
<1>9. Keeps(Machine, m, top - 1) /\ Len(m.instances) <= MaxInstances
  BY <1>6, MachineFields DEF Keeps, IInv, Bounded
<1>10. \A k \in DOMAIN open : Location(Heap, open[k]) < top - 1
  BY <1>5, MachineFields DEF Room
<1> QED BY <1>1, <1>6, <1>7, <1>8, <1>9, <1>10, MachineStep

(* OP_SET_GLOBAL.                                                            *)
LEMMA SetGlobalOK ==
  ASSUME IInv, NEW n \in Name, SetGlobal(n)
  PROVE  IInv' /\ Stable
<1>1. Running
  BY DEF SetGlobal
<1>2. CASE Become(runtimeError(Machine))
  BY <1>1, <1>2, BecomeError
<1>3. CASE /\ n \in DOMAIN globals /\ globals' = [globals EXCEPT ![n] = peek]
           /\ UNCHANGED <<stack, top, frames, open, heapvars, line>>
  <2>1. OK(Machine, Heap) /\ peek \in Values(Heap, instances)
    BY <1>1, RunningOK
  <2>2. Machine' = Machine /\ Heap' = Heap
    BY <1>3 DEF Machine, Heap, heapvars, objects
  <2>3. GlobalsOK(Heap, instances)'
    <3>1. globals' \in TableOf(Name \union Native, Values(Heap, instances))
      BY <1>3, <2>1, ExceptIsTable DEF IInv, GlobalsOK
    <3> QED BY <1>3, <2>2, <3>1 DEF GlobalsOK, heapvars, objects
  <2>4. Keeps(Machine, Machine, top) /\ Len(Machine.instances) <= MaxInstances
    BY MachineFields DEF Keeps, IInv, Bounded
  <2>5. \A k \in DOMAIN open : Location(Heap, open[k]) < top
    BY <2>1, MachineFields DEF OK, MachineOK, OpenOK
  <2> QED BY <1>1, <1>3, <2>1, <2>2, <2>3, <2>4, <2>5, MachineStep
<1> QED BY <1>2, <1>3 DEF SetGlobal

-----------------------------------------------------------------------------
(* Upvalues.                                                                 *)
LEMMA UpvalueFacts ==
  ASSUME IInv, Running
  PROVE  /\ upvalues \in Seq(UpvalueSet(Heap, instances)) /\ Len(upvalues) \in Nat
         /\ DOMAIN upvalues = 1 .. Len(upvalues)
         /\ open \in Seq(DOMAIN upvalues) /\ Len(open) \in Nat /\ DOMAIN open = 1 .. Len(open)
         /\ \A k \in DOMAIN open :
              /\ open[k] \in DOMAIN upvalues /\ upvalues[open[k]].location < top
              /\ upvalues[open[k]].location \in Slot
              /\ \A j \in DOMAIN frames :
                   upvalues[open[k]].location = frames[j].slots => upvalues[open[k]].this
         /\ \A j, k \in DOMAIN open : j < k =>
              upvalues[open[j]].location > upvalues[open[k]].location
         /\ \A u \in DOMAIN upvalues :
              /\ upvalues[u] \in UpvalueSet(Heap, instances)
              /\ upvalues[u].location \in 0 .. MaxSlots
              /\ upvalues[u].closed \in Values(Heap, instances)
              /\ upvalues[u].location # Closed => upvalues[u].location \in Slot
              /\ upvalues[u].location # Closed => \E k \in DOMAIN open : u = open[k]
<1>1. /\ OK(Machine, Heap) /\ frames # <<>> /\ top \in 0 .. MaxSlots /\ MaxSlots \in Nat
  BY RunningOK
<1>2. /\ Machine \in MachineSet(Heap, Machine.instances) /\ HeapOK(Heap, Machine.instances)
      /\ OpenOK(Machine, Heap)
  BY <1>1 DEF OK, MachineOK
<1>3. upvalues \in Seq(UpvalueSet(Heap, instances))
  BY <1>2, HeapFields, MachineFields DEF HeapOK
<1>4. /\ Len(upvalues) \in Nat /\ DOMAIN upvalues = 1 .. Len(upvalues)
      /\ \A u \in DOMAIN upvalues :
              /\ upvalues[u] \in UpvalueSet(Heap, instances)
              /\ upvalues[u].location \in 0 .. MaxSlots
              /\ upvalues[u].closed \in Values(Heap, instances)
  BY <1>2, HeapFields, MachineFields, HeapTypes
<1>5. /\ open \in Seq(DOMAIN upvalues) /\ Len(open) \in Nat /\ DOMAIN open = 1 .. Len(open)
      /\ \A k \in DOMAIN open : open[k] \in DOMAIN upvalues
  BY <1>2, HeapFields, MachineFields, MachineTypes
<1>6. /\ \A k \in DOMAIN open :
            /\ upvalues[open[k]].location < top
            /\ \A j \in DOMAIN frames :
                 upvalues[open[k]].location = frames[j].slots => upvalues[open[k]].this
      /\ \A j, k \in DOMAIN open : j < k =>
              upvalues[open[j]].location > upvalues[open[k]].location
      /\ \A u \in DOMAIN upvalues : upvalues[u].location # Closed => u \in Range(open)
  BY <1>1, <1>2, HeapFields, MachineFields DEF OpenOK, Location, This
<1>7. \A k \in DOMAIN open : upvalues[open[k]].location \in Slot
  <2> TAKE k \in DOMAIN open
  <2>1. upvalues[open[k]].location \in 0 .. MaxSlots /\ upvalues[open[k]].location < top
    BY <1>4, <1>5, <1>6
  <2> QED BY <1>1, <2>1 DEF Slot
<1>8. \A u \in DOMAIN upvalues : upvalues[u].location # Closed =>
        upvalues[u].location \in Slot /\ \E k \in DOMAIN open : u = open[k]
  BY <1>1, <1>4, <1>6 DEF Slot, Closed, Range
<1> QED BY <1>3, <1>4, <1>5, <1>6, <1>7, <1>8

(* The running closure's upvalues exist.                                     *)
LEMMA FrameUpvalueIndex ==
  ASSUME IInv, Running, NEW i \in DOMAIN FrameUpvalues
  PROVE  FrameUpvalues[i] \in DOMAIN upvalues
<1>1. Frame.closure \in DOMAIN closures /\ HeapOK(Heap, instances)
  BY RunningOK DEF IInv
<1>2. closures[Frame.closure].upvalues \in Seq(DOMAIN upvalues)
  BY <1>1, HeapTypes, HeapFields
<1>3. FrameUpvalues \in Seq(DOMAIN upvalues)
  BY <1>2 DEF FrameUpvalues
<1> QED BY <1>3

(* A captured variable holds a value, open or closed.                        *)
LEMMA DerefIsValue ==
  ASSUME IInv, Running, NEW u \in DOMAIN upvalues
  PROVE  Deref(u) \in Values(Heap, instances)
<1>1. CASE upvalues[u].location = Closed
  BY <1>1, UpvalueFacts DEF Deref
<1>2. CASE upvalues[u].location # Closed
  <2>1. PICK k \in DOMAIN open : u = open[k]
    BY <1>2, UpvalueFacts
  <2>2. upvalues[u].location < top /\ upvalues[u].location \in Slot
    BY <2>1, UpvalueFacts
  <2>3. upvalues[u].location \in 0 .. top - 1 /\ OK(Machine, Heap)
    BY <2>2, RunningOK DEF Slot
  <2> QED BY <1>2, <2>3, MachineFields DEF Deref, OK, Live
<1> QED BY <1>1, <1>2

(* OP_GET_UPVALUE.                                                           *)
LEMMA GetUpvalueOK ==
  ASSUME IInv, NEW i \in Slot, GetUpvalue(i)
  PROVE  IInv' /\ Stable
<1>1. /\ Running /\ i \in DOMAIN FrameUpvalues /\ PushValue(Deref(FrameUpvalues[i]))
      /\ UNCHANGED <<frames, open, heapvars, globals, line>>
  BY DEF GetUpvalue
<1>2. Deref(FrameUpvalues[i]) \in Values(Heap, instances)
  BY <1>1, FrameUpvalueIndex, DerefIsValue
<1> QED BY <1>1, <1>2, PushStep

(* Other upvalues, as many or more, do not change what values are.           *)
LEMMA UpvaluesReplaced ==
  ASSUME NEW h, NEW h2, NEW is, HeapOK(h, is), h2.classes = h.classes, h2.closures = h.closures,
         h2.upvalues \in Seq(UpvalueSet(h, is)), DOMAIN h2.upvalues = DOMAIN h.upvalues
  PROVE  /\ HeapOK(h2, is) /\ Values(h2, is) = Values(h, is) /\ Methods(h2) = Methods(h)
         /\ MachineSet(h2, is) = MachineSet(h, is)
<1>1. Grows(h, is, h2, is) /\ Grows(h2, is, h, is)
  BY DEF Grows
<1>2. /\ Values(h2, is) = Values(h, is) /\ Methods(h2) = Methods(h)
      /\ Contents(h2, is) = Contents(h, is)
  <2>1. /\ Methods(h) \subseteq Methods(h2) /\ Values(h, is) \subseteq Values(h2, is)
        /\ Contents(h, is) \subseteq Contents(h2, is)
    BY <1>1, ValuesGrow
  <2>2. /\ Methods(h2) \subseteq Methods(h) /\ Values(h2, is) \subseteq Values(h, is)
        /\ Contents(h2, is) \subseteq Contents(h, is)
    BY <1>1, ValuesGrow
  <2> QED BY <2>1, <2>2
<1>3. UpvalueSet(h2, is) = UpvalueSet(h, is)
  BY <1>2 DEF UpvalueSet
<1>4. ClosureSet(h2) = ClosureSet(h)
  BY DEF ClosureSet
<1>5. ClassSet(h2) = ClassSet(h)
  BY <1>2 DEF ClassSet, MethodTable
<1>6. HeapOK(h2, is)
  BY <1>3, <1>4, <1>5 DEF HeapOK
<1>7. FrameSet(h2) = FrameSet(h) /\ InstanceSet(h2, is) = InstanceSet(h, is)
  BY <1>2 DEF FrameSet, InstanceSet
<1>8. MachineSet(h2, is) = MachineSet(h, is)
  BY <1>2, <1>7 DEF MachineSet
<1> QED BY <1>2, <1>6, <1>8

(* OP_SET_UPVALUE changes no captured variable but its operand.              *)
LEMMA SetUpvalueOK ==
  ASSUME IInv, NEW i \in Slot, SetUpvalue(i)
  PROVE  /\ IInv'
         /\ \A u \in DOMAIN upvalues : Deref(u)' # Deref(u) => FrameUpvalues[i] = u
<1> DEFINE u == FrameUpvalues[i]
<1>1. /\ Running /\ i \in DOMAIN FrameUpvalues
      /\ UNCHANGED <<top, frames, open, closures, objects, globals, line>>
  BY DEF SetUpvalue
<1>2. /\ OK(Machine, Heap) /\ peek \in Values(Heap, instances) /\ frames # <<>> /\ line = 1
      /\ u \in DOMAIN upvalues
  BY <1>1, RunningOK, FrameUpvalueIndex
<1>3. CASE upvalues[u].location = Closed
  <2>1. upvalues' = [upvalues EXCEPT ![u].closed = peek] /\ UNCHANGED stack
    BY <1>3 DEF SetUpvalue
  <2>2. /\ upvalues \in Seq(UpvalueSet(Heap, instances))
        /\ upvalues[u] \in UpvalueSet(Heap, instances)
    BY <1>1, <1>2, UpvalueFacts
  <2> HIDE DEF u
  <2>3. /\ [upvalues[u] EXCEPT !.closed = peek] \in UpvalueSet(Heap, instances)
        /\ [upvalues[u] EXCEPT !.closed = peek].location = upvalues[u].location
        /\ [upvalues[u] EXCEPT !.closed = peek].this = upvalues[u].this
    BY <1>2, <2>2 DEF UpvalueSet
  <2>4. /\ upvalues' \in Seq(UpvalueSet(Heap, instances)) /\ DOMAIN upvalues' = DOMAIN upvalues
        /\ \A v \in DOMAIN upvalues : v # u => upvalues'[v] = upvalues[v]
        /\ \A v \in DOMAIN upvalues : /\ upvalues'[v].location = upvalues[v].location
                                      /\ upvalues'[v].this = upvalues[v].this
    BY <1>2, <2>1, <2>2, <2>3
  <2>5. Heap'.upvalues = upvalues' /\ Heap'.closures = closures /\ Heap'.classes = classes
        /\ Machine' = Machine
    BY <1>1, <2>1 DEF Heap, Machine, objects
  <2>6. HeapOK(Heap, instances)
    BY DEF IInv
  <2>7. /\ HeapOK(Heap', instances) /\ Values(Heap', instances) = Values(Heap, instances)
        /\ MachineSet(Heap', instances) = MachineSet(Heap, instances)
        /\ Methods(Heap') = Methods(Heap)
    BY <2>4, <2>5, <2>6, HeapFields, UpvaluesReplaced
  <2>8. FramesOK(Machine, Heap) /\ OpenOK(Machine, Heap) /\ Machine \in MachineSet(Heap, instances)
        /\ Live(Machine, Heap, Machine.top)
    BY <1>2, MachineFields DEF OK, MachineOK
  <2>9. FramesOK(Machine, Heap')
    BY <2>5, <2>7, <2>8, HeapFields DEF FramesOK, CalleeOK
  <2>10. OpenOK(Machine, Heap')
    <3>1. \A k \in DOMAIN open : open[k] \in DOMAIN upvalues
      BY <1>1, UpvalueFacts
    <3>2. /\ \A k \in DOMAIN open : /\ Location(Heap', open[k]) = Location(Heap, open[k])
                                    /\ This(Heap', open[k]) = This(Heap, open[k])
          /\ \A v \in DOMAIN upvalues : Location(Heap', v) = Location(Heap, v)
      BY <2>4, <2>5, <3>1, HeapFields DEF Location, This
    <3> QED BY <2>4, <2>5, <2>8, <3>2, HeapFields, MachineFields DEF OpenOK
  <2>11. OK(Machine', Heap')
    BY <2>5, <2>7, <2>8, <2>9, <2>10, MachineFields DEF OK, MachineOK, Live
  <2>12. GlobalsOK(Heap, instances)'
    BY <1>1, <2>7 DEF GlobalsOK, IInv, objects
  <2>13. Bounded'
    BY <1>1 DEF IInv, Bounded, objects
  <2>14. IInv'
    BY <1>1, <1>2, <2>11, <2>12, <2>13, NextOK
  <2>15. \A v \in DOMAIN upvalues : v # u => Deref(v)' = Deref(v)
    BY <2>1, <2>4 DEF Deref
  <2> QED BY <2>14, <2>15 DEF u
<1>4. CASE upvalues[u].location # Closed
  <2> DEFINE s == upvalues[u].location
             m == Put(Machine, s, peek)
  <2>1. stack' = [stack EXCEPT ![s] = peek] /\ UNCHANGED upvalues
    BY <1>4 DEF SetUpvalue
  <2>2. PICK k \in DOMAIN open : u = open[k]
    BY <1>1, <1>2, <1>4, UpvalueFacts
  <2>3. s \in Slot /\ \A j \in DOMAIN frames : frames[j].slots # s
    <3>1. ~ upvalues[u].this
      BY DEF SetUpvalue
    <3> QED BY <1>1, <2>2, <3>1, UpvalueFacts
  <2>4. OK(m, Heap)
    BY <1>2, <2>3, AssignOK, MachineFields
  <2>5. Machine' = m /\ Heap' = Heap
    BY <1>1, <2>1 DEF Machine, Put, Heap, objects
  <2> HIDE DEF m
  <2>6. GlobalsOK(Heap, instances)'
    BY <1>1, <2>5 DEF GlobalsOK, IInv, objects
  <2>7. Bounded'
    BY <1>1 DEF IInv, Bounded, objects
  <2>8. IInv'
    BY <1>1, <1>2, <2>4, <2>5, <2>6, <2>7, NextOK
  <2>9. ASSUME NEW v \in DOMAIN upvalues, v # u
        PROVE  Deref(v)' = Deref(v)
    <3>1. CASE upvalues[v].location = Closed
      BY <3>1, <2>1 DEF Deref
    <3>2. CASE upvalues[v].location # Closed
      <4>1. PICK j \in DOMAIN open : v = open[j]
        BY <1>1, <3>2, UpvalueFacts
      <4>2. j # k /\ j \in Nat /\ k \in Nat
        <5>1. DOMAIN open = 1 .. Len(open)
          BY <1>1, UpvalueFacts
        <5> QED BY <2>2, <2>9, <4>1, <5>1
      <4>3. \A x, y \in DOMAIN open : x < y =>
              upvalues[open[x]].location > upvalues[open[y]].location
        BY <1>1, UpvalueFacts
      <4>4. upvalues[v].location \in Slot
        BY <1>1, <4>1, UpvalueFacts
      <4>5. upvalues[v].location # s
        <5>1. CASE j < k
          <6>1. upvalues[v].location > s
            BY <5>1, <2>2, <4>1, <4>3
          <6> QED BY <6>1, <4>4, <2>3 DEF Slot
        <5>2. CASE k < j
          <6>1. s > upvalues[v].location
            BY <5>2, <2>2, <4>1, <4>3
          <6> QED BY <6>1, <4>4, <2>3 DEF Slot
        <5> QED BY <4>2, <5>1, <5>2
      <4>6. stack \in [Slot -> Contents(Heap, Machine.instances)]
        BY <1>2, MachineTypes, MachineFields DEF OK, MachineOK
      <4>7. stack'[upvalues[v].location] = stack[upvalues[v].location]
        BY <2>1, <4>4, <4>5, <4>6
      <4> QED BY <2>1, <3>2, <4>7 DEF Deref
    <3> QED BY <3>1, <3>2
  <2> QED BY <2>8, <2>9
<1> QED BY <1>3, <1>4

-----------------------------------------------------------------------------
(* Where the walk down the open list stops.                                  *)
LEMMA PositionIs ==
  ASSUME NEW list, NEW ups, NEW slot \in Int, Len(list) \in Nat, DOMAIN list = 1 .. Len(list)
  PROVE  /\ Position(list, ups, slot) \in 1 .. Len(list) + 1
         /\ \A k \in DOMAIN list : k < Position(list, ups, slot) =>
              ~ (ups[list[k]].location <= slot)
         /\ Position(list, ups, slot) <= Len(list) =>
              ups[list[Position(list, ups, slot)]].location <= slot
<1> DEFINE T == {k \in DOMAIN list : ups[list[k]].location <= slot} \union {Len(list) + 1}
<1>1. T \in SUBSET Nat /\ T # {} /\ T \subseteq 1 .. Len(list) + 1
  OBVIOUS
<1>2. PICK p \in T : \A y \in T : p <= y
  BY <1>1, LeastNumber
<1>3. Min(T) \in T /\ \A y \in T : Min(T) <= y
  BY <1>2 DEF Min
<1>4. Position(list, ups, slot) = Min(T)
  BY DEF Position
<1> DEFINE q == Min(T)
<1>5. q \in 1 .. Len(list) + 1
  BY <1>1, <1>3
<1>6. ASSUME NEW k \in DOMAIN list, k < q
      PROVE  ~ (ups[list[k]].location <= slot)
  <2>1. k \notin T
    <3> SUFFICES ASSUME k \in T PROVE FALSE
      OBVIOUS
    <3>1. q <= k
      BY <1>3
    <3> HIDE DEF q
    <3> QED BY <3>1, <1>5, <1>6
  <2> QED BY <2>1
<1>7. ASSUME q <= Len(list) PROVE ups[list[q]].location <= slot
  <2>1. q # Len(list) + 1
    <3> HIDE DEF q
    <3> QED BY <1>5, <1>7
  <2>2. q \in T
    BY <1>3
  <2> HIDE DEF q
  <2> QED BY <2>1, <2>2
<1> HIDE DEF q
<1>8. Position(list, ups, slot) = q
  BY <1>4 DEF q
<1> QED BY <1>5, <1>6, <1>7, <1>8

(* A sequence without its first n elements.                                  *)
LEMMA Rest ==
  ASSUME NEW T, NEW s \in Seq(T), NEW n \in 0 .. Len(s)
  PROVE  /\ SubSeq(s, n + 1, Len(s)) \in Seq(T)
         /\ Len(SubSeq(s, n + 1, Len(s))) = Len(s) - n
         /\ DOMAIN SubSeq(s, n + 1, Len(s)) = 1 .. Len(s) - n
         /\ \A k \in 1 .. Len(s) - n : k + n \in 1 .. Len(s)
                                      /\ SubSeq(s, n + 1, Len(s))[k] = s[k + n]
<1> DEFINE L == Len(s)
           rest == SubSeq(s, n + 1, L)
<1>1. L \in Nat /\ DOMAIN s = 1 .. L /\ n + 1 \in Int /\ \A i \in n + 1 .. L : s[i] \in T
  OBVIOUS
<1>2. /\ rest \in Seq(T)
      /\ Len(rest) = IF n + 1 <= L THEN L - (n + 1) + 1 ELSE 0
      /\ \A i \in 1 .. L - (n + 1) + 1 : rest[i] = s[(n + 1) + i - 1]
  BY <1>1, SubSeqProperties
<1> HIDE DEF rest, L
<1>3. Len(rest) = L - n /\ L - (n + 1) + 1 = L - n
  <2>1. L \in Nat /\ n \in 0 .. L
    BY <1>1 DEF L
  <2>2. L - (n + 1) + 1 = L - n /\ (n + 1 <= L \/ L - n = 0)
    BY <2>1
  <2>3. n + 1 <= L => Len(rest) = L - (n + 1) + 1
    BY <1>2
  <2>4. ~ (n + 1 <= L) => Len(rest) = 0
    BY <1>2
  <2> QED BY <2>2, <2>3, <2>4
<1>4. DOMAIN rest = 1 .. L - n
  BY <1>2, <1>3
<1>5. \A k \in 1 .. L - n : k + n \in 1 .. L /\ (n + 1) + k - 1 = k + n
  BY <1>1
<1> QED BY <1>2, <1>3, <1>4, <1>5 DEF rest, L

(* closeUpvalues closes the upvalues from last up, and leaves the others.    *)
LEMMA Closing ==
  ASSUME IInv, Running, NEW last \in Slot, closeUpvalues(last)
  PROVE  /\ upvalues' \in Seq(UpvalueSet(Heap, instances)) /\ DOMAIN upvalues' = DOMAIN upvalues
         /\ open' \in Seq(DOMAIN upvalues)
         /\ \A k \in DOMAIN open' :
              /\ upvalues'[open'[k]].location < last
              /\ \A j \in DOMAIN frames :
                   upvalues'[open'[k]].location = frames[j].slots => upvalues'[open'[k]].this
         /\ \A j, k \in DOMAIN open' : j < k =>
              upvalues'[open'[j]].location > upvalues'[open'[k]].location
         /\ \A u \in DOMAIN upvalues :
              /\ upvalues'[u].location # Closed => /\ u \in Range(open')
                                                   /\ upvalues'[u] = upvalues[u]
                                                   /\ upvalues[u].location < last
              /\ upvalues'[u].location = Closed => upvalues'[u].closed = Deref(u)
<1> DEFINE p == Position(open, upvalues, last - 1)
           n == p - 1
           closing == {open[k] : k \in 1 .. n}
<1>1. /\ upvalues' = [u \in DOMAIN upvalues |->
                       IF u \in closing
                       THEN [upvalues[u] EXCEPT !.location = Closed, !.closed = Deref(u)]
                       ELSE upvalues[u]]
      /\ open' = SubSeq(open, n + 1, Len(open))
  BY DEF closeUpvalues
<1>2. /\ Len(upvalues) \in Nat /\ DOMAIN upvalues = 1 .. Len(upvalues)
      /\ open \in Seq(DOMAIN upvalues) /\ Len(open) \in Nat /\ DOMAIN open = 1 .. Len(open)
      /\ \A k \in DOMAIN open :
           /\ open[k] \in DOMAIN upvalues
           /\ upvalues[open[k]].location \in Slot
           /\ \A j \in DOMAIN frames :
                upvalues[open[k]].location = frames[j].slots => upvalues[open[k]].this
      /\ \A j, k \in DOMAIN open : j < k =>
           upvalues[open[j]].location > upvalues[open[k]].location
  BY UpvalueFacts
<1>3. /\ \A u \in DOMAIN upvalues :
           /\ upvalues[u] \in UpvalueSet(Heap, instances)
           /\ upvalues[u].location # Closed => \E k \in DOMAIN open : u = open[k]
      /\ MaxSlots \in Nat
  BY UpvalueFacts, InterpAssumption
<1>4. /\ p \in 1 .. Len(open) + 1 /\ last - 1 \in Int /\ last \in Nat
      /\ \A k \in DOMAIN open : k < p => ~ (upvalues[open[k]].location <= last - 1)
      /\ p <= Len(open) => upvalues[open[p]].location <= last - 1
  <2>1. last - 1 \in Int /\ last \in Nat
    BY <1>3 DEF Slot
  <2> QED BY <1>2, <2>1, PositionIs
<1> HIDE DEF p
<1>5. \A k \in DOMAIN open : (k <= n <=> upvalues[open[k]].location >= last)
  <2> TAKE k \in DOMAIN open
  <2>1. CASE k < p
    BY <1>2, <1>3, <1>4, <2>1 DEF Slot
  <2>2. CASE k = p
    <3>1. upvalues[open[k]].location <= last - 1 /\ upvalues[open[k]].location \in Slot
      BY <1>2, <1>4, <2>2
    <3> QED BY <1>2, <1>3, <1>4, <2>2, <3>1 DEF Slot
  <2>3. CASE k > p
    <3>1. p \in DOMAIN open /\ p <= Len(open)
      BY <1>2, <1>4, <2>3
    <3>2. upvalues[open[p]].location <= last - 1 /\ upvalues[open[p]].location \in Slot
      BY <1>2, <1>4, <3>1
    <3>3. upvalues[open[p]].location > upvalues[open[k]].location
      BY <1>2, <2>3, <3>1
    <3>4. upvalues[open[k]].location \in Slot
      BY <1>2
    <3>5. /\ upvalues[open[k]].location \in Nat /\ upvalues[open[p]].location \in Nat
          /\ last \in Nat
      BY <1>3, <1>4, <3>2, <3>4 DEF Slot
    <3>6. ~ (upvalues[open[k]].location >= last)
      BY <3>2, <3>3, <3>5
    <3>7. ~ (k <= n)
      BY <1>2, <1>4, <2>3
    <3> QED BY <3>6, <3>7
  <2> QED BY <1>2, <1>4, <2>1, <2>2, <2>3
<1>6. n \in 0 .. Len(open)
  BY <1>2, <1>4
<1> HIDE DEF n
<1>7. /\ open' \in Seq(DOMAIN upvalues) /\ Len(open') = Len(open) - n
      /\ DOMAIN open' = 1 .. Len(open) - n
      /\ \A k \in DOMAIN open' : k + n \in DOMAIN open /\ open'[k] = open[k + n]
  <2>1. open \in Seq(DOMAIN upvalues) /\ DOMAIN open = 1 .. Len(open)
    BY <1>2
  <2>2. open' = SubSeq(open, n + 1, Len(open))
    BY <1>1
  <2> QED BY <1>6, <2>1, <2>2, Rest
<1>8. \A k \in DOMAIN open : open[k] \in closing <=> k <= n
  <2> TAKE k \in DOMAIN open
  <2>1. k <= n => open[k] \in closing
    BY <1>2, <1>6
  <2>2. ASSUME open[k] \in closing PROVE k <= n
    <3>1. PICK j \in 1 .. n : open[k] = open[j]
      BY <2>2
    <3>2. j \in DOMAIN open /\ j <= n
      BY <1>2, <1>6, <3>1
    <3>3. upvalues[open[j]].location >= last
      BY <1>5, <3>2
    <3> QED BY <1>5, <3>1, <3>3
  <2> QED BY <2>1, <2>2
<1>9. \A u \in closing : \E k \in DOMAIN open : u = open[k]
  BY <1>2, <1>6
<1>10. \A u \in DOMAIN upvalues : u \notin closing => upvalues'[u] = upvalues[u]
  BY <1>1
<1>11. \A u \in DOMAIN upvalues : u \in closing =>
         /\ upvalues'[u].location = Closed /\ upvalues'[u].closed = Deref(u)
         /\ upvalues'[u] = [upvalues[u] EXCEPT !.location = Closed, !.closed = Deref(u)]
  BY <1>1, <1>3 DEF UpvalueSet
<1>12. upvalues' \in Seq(UpvalueSet(Heap, instances)) /\ DOMAIN upvalues' = DOMAIN upvalues
  <2>1. DOMAIN upvalues' = DOMAIN upvalues
    BY <1>1
  <2>2. ASSUME NEW u \in DOMAIN upvalues PROVE upvalues'[u] \in UpvalueSet(Heap, instances)
    <3>1. Deref(u) \in Values(Heap, instances)
      BY DerefIsValue
    <3>2. upvalues[u] \in UpvalueSet(Heap, instances) /\ Closed \in 0 .. MaxSlots
      BY <1>3 DEF Closed
    <3>3. [upvalues[u] EXCEPT !.location = Closed, !.closed = Deref(u)]
            \in UpvalueSet(Heap, instances)
      BY <3>1, <3>2 DEF UpvalueSet
    <3> QED BY <1>3, <1>10, <1>11, <3>3
  <2> HIDE DEF closing
  <2>3. upvalues' \in [1 .. Len(upvalues) -> UpvalueSet(Heap, instances)]
    BY <1>1, <1>2, <2>1, <2>2
  <2> QED BY <1>2, <2>1, <2>3
<1> HIDE DEF closing
<1>13. \A k \in DOMAIN open' :
         /\ upvalues'[open'[k]] = upvalues[open'[k]]
         /\ upvalues'[open'[k]] = upvalues[open[k + n]]
  <2> TAKE k \in DOMAIN open'
  <2>1. k + n \in DOMAIN open /\ ~ (k + n <= n)
    BY <1>6, <1>7
  <2>2. open[k + n] \notin closing /\ open[k + n] \in DOMAIN upvalues
    BY <1>2, <1>8, <2>1
  <2> QED BY <1>7, <1>10, <2>2
<1>14. ASSUME NEW k \in DOMAIN open'
       PROVE  /\ upvalues'[open'[k]].location < last
              /\ \A j \in DOMAIN frames :
                   upvalues'[open'[k]].location = frames[j].slots => upvalues'[open'[k]].this
  <2>1. k + n \in DOMAIN open /\ ~ (k + n <= n)
    BY <1>6, <1>7
  <2>2. ~ (upvalues[open[k + n]].location >= last) /\ upvalues[open[k + n]].location \in Slot
    BY <1>2, <1>5, <2>1
  <2>3. upvalues[open[k + n]].location < last
    BY <1>3, <1>4, <2>2 DEF Slot
  <2> QED BY <1>2, <1>13, <2>1, <2>3
<1>15. ASSUME NEW j \in DOMAIN open', NEW k \in DOMAIN open', j < k
       PROVE  upvalues'[open'[j]].location > upvalues'[open'[k]].location
  <2>1. j + n \in DOMAIN open /\ k + n \in DOMAIN open /\ j + n < k + n
    BY <1>6, <1>7, <1>15
  <2> QED BY <1>2, <1>13, <2>1
<1>16. ASSUME NEW u \in DOMAIN upvalues
       PROVE  /\ upvalues'[u].location # Closed => /\ u \in Range(open')
                                                   /\ upvalues'[u] = upvalues[u]
                                                   /\ upvalues[u].location < last
              /\ upvalues'[u].location = Closed => upvalues'[u].closed = Deref(u)
  <2>1. CASE u \in closing
    BY <1>11, <2>1
  <2>2. CASE u \notin closing /\ upvalues[u].location # Closed
    <3>1. PICK k \in DOMAIN open : u = open[k]
      BY <1>3, <2>2
    <3>2. ~ (k <= n)
      BY <1>8, <2>2, <3>1
    <3>3. k - n \in DOMAIN open' /\ (k - n) + n = k
      BY <1>2, <1>6, <1>7, <3>2
    <3>4. open'[k - n] = u
      BY <1>7, <3>1, <3>3
    <3>5. ~ (upvalues[u].location >= last) /\ upvalues[u].location \in Slot
      BY <1>2, <1>5, <3>1, <3>2
    <3>6. upvalues[u].location < last
      BY <1>3, <1>4, <3>5 DEF Slot
    <3> QED BY <1>10, <2>2, <3>3, <3>4, <3>6 DEF Range
  <2>3. CASE u \notin closing /\ upvalues[u].location = Closed
    BY <1>10, <2>3 DEF Deref
  <2> QED BY <2>1, <2>2, <2>3
<1> QED BY <1>7, <1>12, <1>14, <1>15, <1>16

(* The slots from last up go, with the frames above them.                    *)
LEMMA ClosedStep ==
  ASSUME IInv, Running, NEW last \in Slot, closeUpvalues(last),
         \A s \in Slot : s < last => stack'[s] = stack[s],
         stack' \in [Slot -> Contents(Heap, instances)],
         last <= top', top' \in 0 .. MaxSlots, Live(Machine', Heap, top'),
         frames' \in Seq(FrameSet(Heap)), Len(frames') <= Len(frames),
         \A k \in DOMAIN frames' :
           k \in DOMAIN frames /\ frames'[k] = frames[k] /\ frames[k].slots < last,
         frames' = <<>> => top' = 0,
         UNCHANGED <<closures, objects, globals, line>>
  PROVE  IInv' /\ Stable
<1>1. /\ OK(Machine, Heap) /\ frames # <<>> /\ line = 1 /\ MaxSlots \in Nat
  BY RunningOK
<1>2. /\ upvalues' \in Seq(UpvalueSet(Heap, instances)) /\ DOMAIN upvalues' = DOMAIN upvalues
      /\ open' \in Seq(DOMAIN upvalues)
      /\ \A k \in DOMAIN open' :
           /\ upvalues'[open'[k]].location < last
           /\ \A j \in DOMAIN frames :
                upvalues'[open'[k]].location = frames[j].slots => upvalues'[open'[k]].this
      /\ \A j, k \in DOMAIN open' : j < k =>
           upvalues'[open'[j]].location > upvalues'[open'[k]].location
      /\ \A u \in DOMAIN upvalues :
           /\ upvalues'[u].location # Closed => /\ u \in Range(open')
                                                /\ upvalues'[u] = upvalues[u]
                                                /\ upvalues[u].location < last
           /\ upvalues'[u].location = Closed => upvalues'[u].closed = Deref(u)
  BY Closing
<1>3. Heap'.upvalues = upvalues' /\ Heap'.closures = closures /\ Heap'.classes = classes
      /\ Machine'.stack = stack' /\ Machine'.top = top' /\ Machine'.frames = frames'
      /\ Machine'.open = open' /\ Machine'.instances = instances
  BY DEF Heap, Machine, objects
<1>4. HeapOK(Heap, instances) /\ FramesOK(Machine, Heap) /\ Machine \in MachineSet(Heap, instances)
  BY <1>1, MachineFields DEF OK, MachineOK
<1>5. /\ HeapOK(Heap', instances) /\ Values(Heap', instances) = Values(Heap, instances)
      /\ MachineSet(Heap', instances) = MachineSet(Heap, instances)
      /\ Methods(Heap') = Methods(Heap)
  <2>1. upvalues' \in Seq(UpvalueSet(Heap, instances)) /\ DOMAIN upvalues' = DOMAIN upvalues
    BY <1>2
  <2>2. /\ HeapOK(Heap, instances)
        /\ Heap'.classes = Heap.classes /\ Heap'.closures = Heap.closures
        /\ Heap'.upvalues \in Seq(UpvalueSet(Heap, instances))
        /\ DOMAIN Heap'.upvalues = DOMAIN Heap.upvalues
    BY <1>3, <1>4, <2>1, HeapFields
  <2> QED BY <2>2, UpvaluesReplaced
<1>6. Machine' \in MachineSet(Heap', instances)
  <2>1. open' \in Seq(DOMAIN Heap.upvalues) /\ instances \in Seq(InstanceSet(Heap, instances))
    BY <1>2, <1>4, HeapFields, MachineFields, MachineTypes
  <2>2. Machine' = [stack |-> stack', top |-> top', frames |-> frames', open |-> open',
                    instances |-> instances]
    BY DEF Machine, objects
  <2> QED BY <1>5, <2>1, <2>2 DEF MachineSet
<1>7. \A k \in DOMAIN frames : frames[k].slots \in Slot
  BY <1>4, MachineFields, MachineTypes
<1>8. FramesOK(Machine', Heap')
  <2>1. ASSUME NEW k \in DOMAIN frames'
        PROVE  /\ frames'[k].slots < top'
               /\ CalleeOK(Machine', Heap', stack'[frames'[k].slots], frames'[k].closure)
    <3>1. /\ k \in DOMAIN frames /\ frames'[k] = frames[k] /\ frames[k].slots < last
          /\ frames[k].slots \in Slot
      BY <1>7
    <3>2. frames'[k].slots < top'
      BY <1>1, <3>1 DEF Slot
    <3>3. stack'[frames'[k].slots] = stack[frames[k].slots]
      BY <3>1
    <3>4. CalleeOK(Machine, Heap, stack[frames[k].slots], frames[k].closure)
      BY <1>4, <3>1, MachineFields DEF FramesOK
    <3>5. CalleeOK(Machine', Heap', stack[frames[k].slots], frames[k].closure)
      BY <1>3, <1>5, <3>4, MachineFields, HeapFields DEF CalleeOK
    <3> QED BY <3>1, <3>2, <3>3, <3>5
  <2>2. \A j, k \in DOMAIN frames' : j < k => frames'[j].slots < frames'[k].slots
    BY <1>4, MachineFields DEF FramesOK
  <2>3. Len(frames') <= FRAMES_MAX
    <3>1. Len(frames) <= FRAMES_MAX /\ Len(frames) \in Nat
      BY <1>4, MachineFields, MachineTypes DEF FramesOK
    <3>2. Len(frames') \in Nat /\ FRAMES_MAX \in Nat
      BY InterpAssumption
    <3> QED BY <3>1, <3>2
  <2>4. frames' = <<>> => top' = 0 /\ open' = <<>>
    <3> SUFFICES ASSUME frames' = <<>>, open' # <<>> PROVE FALSE
      OBVIOUS
    <3>1. 1 \in DOMAIN open' /\ open'[1] \in DOMAIN upvalues'
      BY <1>2
    <3>2. upvalues'[open'[1]].location < last /\ last = 0
      BY <1>2, <3>1 DEF Slot
    <3>3. upvalues'[open'[1]].location \in 0 .. MaxSlots
      <4>1. upvalues'[open'[1]] \in UpvalueSet(Heap, instances)
        BY <1>2, <3>1
      <4> QED BY <4>1 DEF UpvalueSet
    <3> QED BY <3>2, <3>3
  <2>5. frames' # <<>> => frames'[1].slots = 0
    <3> SUFFICES ASSUME frames' # <<>> PROVE frames'[1].slots = 0
      OBVIOUS
    <3>1. 1 \in DOMAIN frames'
      OBVIOUS
    <3>2. frames[1].slots = 0
      BY <1>1, <1>4, MachineFields DEF FramesOK
    <3> QED BY <3>1, <3>2
  <2> QED BY <1>3, <2>1, <2>2, <2>3, <2>4, <2>5 DEF FramesOK
<1>9. OpenOK(Machine', Heap')
  <2>1. ASSUME NEW k \in DOMAIN open'
        PROVE  /\ upvalues'[open'[k]].location < top'
               /\ \A j \in DOMAIN frames' :
                    upvalues'[open'[k]].location = frames'[j].slots => upvalues'[open'[k]].this
    <3>1. upvalues'[open'[k]].location < last
      BY <1>2
    <3>2. upvalues'[open'[k]].location \in 0 .. MaxSlots
      <4>1. upvalues'[open'[k]] \in UpvalueSet(Heap, instances)
        BY <1>2
      <4> QED BY <4>1 DEF UpvalueSet
    <3>3. upvalues'[open'[k]].location < top'
      BY <1>1, <3>1, <3>2 DEF Slot
    <3>4. ASSUME NEW j \in DOMAIN frames'
          PROVE  upvalues'[open'[k]].location = frames'[j].slots => upvalues'[open'[k]].this
      BY <1>2
    <3> QED BY <3>3, <3>4
  <2> QED BY <1>2, <1>3, <2>1 DEF OpenOK, Location, This
<1>10. OK(Machine', Heap')
  BY <1>3, <1>5, <1>6, <1>8, <1>9 DEF OK, MachineOK, Live
<1>11. GlobalsOK(Heap, instances)'
  BY <1>5 DEF GlobalsOK, IInv, objects
<1>12. Bounded'
  BY DEF IInv, Bounded, objects
<1>13. IInv'
  BY <1>1, <1>10, <1>11, <1>12, NextOK
<1>14. ASSUME NEW u \in DOMAIN upvalues
       PROVE  u \in DOMAIN upvalues' /\ Deref(u)' = Deref(u)
  <2>1. CASE upvalues'[u].location = Closed
    <3>1. Deref(u)' = upvalues'[u].closed
      BY <2>1 DEF Deref, Closed
    <3> QED BY <1>2, <2>1, <3>1
  <2>2. CASE upvalues'[u].location # Closed
    <3>1. upvalues'[u] = upvalues[u] /\ upvalues[u].location < last
      BY <1>2, <2>2
    <3>2. upvalues[u].location \in Slot
      BY <2>2, <3>1, UpvalueFacts
    <3>3. stack'[upvalues[u].location] = stack[upvalues[u].location]
      BY <3>1, <3>2
    <3> QED BY <1>2, <2>2, <3>1, <3>3 DEF Deref, Closed
  <2> QED BY <2>1, <2>2
<1> QED BY <1>13, <1>14 DEF Stable

(* OP_CLOSE_UPVALUE.                                                         *)
LEMMA CloseUpvalueOK ==
  ASSUME IInv, CloseUpvalue
  PROVE  IInv' /\ Stable
<1>1. /\ Running /\ Locals # {} /\ closeUpvalues(top - 1) /\ top' = top - 1
      /\ UNCHANGED <<stack, frames, closures, objects, globals, line>>
  BY DEF CloseUpvalue
<1>2. /\ OK(Machine, Heap) /\ top \in 0 .. MaxSlots /\ MaxSlots \in Nat
      /\ Frame.slots \in Slot /\ top - 1 \in Slot /\ Frame = Last(frames) /\ frames # <<>>
  BY <1>1, RunningOK
<1>3. PICK i \in Locals : TRUE
  BY <1>1
<1>4. Frame.slots < top - 1
  <2>1. Local(i) \in 0 .. top - 1 /\ Local(i) > Frame.slots
    BY <1>1, LocalSlot
  <2> QED BY <1>2, <2>1 DEF Slot
<1>5. /\ Machine \in MachineSet(Heap, instances) /\ MachineOK(Machine, Heap)
      /\ Live(Machine, Heap, top)
  BY <1>2, MachineFields DEF OK, MachineOK
<1>6. \A k \in DOMAIN frames : frames[k].slots < top - 1
  <2>1. \A k \in DOMAIN frames : frames[k].slots <= Frame.slots
    BY <1>2, <1>5, MachineFields, RunningFrame
  <2>2. \A k \in DOMAIN frames : frames[k].slots \in Slot
    BY <1>5, MachineFields, MachineTypes
  <2> QED BY <1>2, <1>4, <2>1, <2>2 DEF Slot
<1>7. stack \in [Slot -> Contents(Heap, instances)] /\ frames \in Seq(FrameSet(Heap))
      /\ Len(frames) \in Nat
  BY <1>5, MachineFields, MachineTypes
<1>8. Live(Machine', Heap, top')
  <2>1. Machine'.stack = stack /\ Machine'.instances = instances
    BY <1>1 DEF Machine, objects
  <2>2. \A s \in 0 .. top' - 1 : s \in 0 .. top - 1
    BY <1>1, <1>2
  <2> QED BY <1>5, <2>1, <2>2, MachineFields DEF Live
<1>9. top - 1 <= top' /\ top' \in 0 .. MaxSlots /\ Len(frames') <= Len(frames)
  BY <1>1, <1>2, <1>7
<1> QED BY <1>1, <1>2, <1>6, <1>7, <1>8, <1>9, ClosedStep

(* A nonempty sequence without its last element.                             *)
LEMMA FrontOf ==
  ASSUME NEW T, NEW s \in Seq(T), s # <<>>
  PROVE  /\ Front(s) \in Seq(T) /\ Len(Front(s)) = Len(s) - 1
         /\ DOMAIN Front(s) = 1 .. Len(s) - 1 /\ Len(s) \in Nat \ {0}
         /\ \A k \in DOMAIN Front(s) : k \in DOMAIN s /\ k < Len(s) /\ Front(s)[k] = s[k]
<1> DEFINE L == Len(s)
           r == SubSeq(s, 1, L - 1)
<1>1. /\ L \in Nat \ {0} /\ DOMAIN s = 1 .. L
      /\ 1 \in Int /\ L - 1 \in Int /\ \A i \in 1 .. L - 1 : s[i] \in T
  OBVIOUS
<1>2. /\ r \in Seq(T)
      /\ Len(r) = IF 1 <= L - 1 THEN (L - 1) - 1 + 1 ELSE 0
      /\ \A i \in 1 .. (L - 1) - 1 + 1 : r[i] = s[1 + i - 1]
  BY <1>1, SubSeqProperties
<1> HIDE DEF r, L
<1>3. Len(r) = L - 1 /\ (L - 1) - 1 + 1 = L - 1
  <2>1. (L - 1) - 1 + 1 = L - 1 /\ (1 <= L - 1 \/ L - 1 = 0)
    BY <1>1
  <2>2. 1 <= L - 1 => Len(r) = (L - 1) - 1 + 1
    BY <1>2
  <2>3. ~ (1 <= L - 1) => Len(r) = 0
    BY <1>2
  <2> QED BY <2>1, <2>2, <2>3
<1>4. DOMAIN r = 1 .. L - 1
  BY <1>2, <1>3
<1>5. \A k \in 1 .. L - 1 : k \in 1 .. L /\ k < L /\ 1 + k - 1 = k
  BY <1>1
<1>6. Front(s) = r
  BY DEF Front, r, L
<1> QED BY <1>1, <1>2, <1>3, <1>4, <1>5, <1>6 DEF L

(* OP_RETURN.                                                                *)
LEMMA ReturnOK ==
  ASSUME IInv, Return
  PROVE  IInv' /\ Stable
<1> DEFINE last == Frame.slots
<1>1. /\ Running /\ Locals # {} /\ closeUpvalues(last) /\ frames' = Front(frames)
      /\ Len(frames) = 1 => top' = 0 /\ UNCHANGED stack
      /\ Len(frames) # 1 => top' = last + 1 /\ stack' = [stack EXCEPT ![last] = peek]
      /\ UNCHANGED <<closures, objects, globals, line>>
  BY DEF Return
<1>2. /\ OK(Machine, Heap) /\ top \in 0 .. MaxSlots /\ MaxSlots \in Nat /\ last \in Slot
      /\ last < top /\ Frame = Last(frames) /\ frames # <<>>
      /\ peek \in Values(Heap, instances)
  BY <1>1, RunningOK
<1>3. /\ Machine \in MachineSet(Heap, instances) /\ MachineOK(Machine, Heap)
      /\ Live(Machine, Heap, top) /\ FramesOK(Machine, Heap)
  BY <1>2, MachineFields DEF OK, MachineOK
<1>4. /\ stack \in [Slot -> Contents(Heap, instances)] /\ frames \in Seq(FrameSet(Heap))
      /\ Len(frames) \in Nat
      /\ \A k \in DOMAIN frames : frames[k].slots \in Slot
  BY <1>3, MachineFields, MachineTypes
<1>5. /\ last = frames[Len(frames)].slots /\ Len(frames) \in DOMAIN frames
      /\ \A j, k \in DOMAIN frames : j < k => frames[j].slots < frames[k].slots
      /\ frames[1].slots = 0
  BY <1>2, <1>3, <1>4, MachineFields DEF FramesOK, Last
<1>6. /\ Front(frames) \in Seq(FrameSet(Heap)) /\ Len(Front(frames)) = Len(frames) - 1
      /\ \A k \in DOMAIN Front(frames) :
           k \in DOMAIN frames /\ k < Len(frames) /\ Front(frames)[k] = frames[k]
  BY <1>2, <1>4, FrontOf
<1> HIDE DEF last
<1>7. peek \in Contents(Heap, instances)
  BY <1>2 DEF Contents
<1>8. /\ frames' \in Seq(FrameSet(Heap)) /\ Len(frames') <= Len(frames)
      /\ \A k \in DOMAIN frames' :
           k \in DOMAIN frames /\ frames'[k] = frames[k] /\ frames[k].slots < last
  BY <1>1, <1>4, <1>5, <1>6
<1>9. frames' = <<>> => top' = 0
  <2>1. frames' = <<>> => Len(frames) = 1
    BY <1>1, <1>4, <1>6
  <2> QED BY <1>1, <2>1
<1>10. /\ stack' \in [Slot -> Contents(Heap, instances)]
       /\ \A s \in Slot : s < last => stack'[s] = stack[s]
  <2>1. CASE Len(frames) = 1
    BY <1>1, <1>4, <2>1
  <2>2. CASE Len(frames) # 1
    <3>1. stack' = [stack EXCEPT ![last] = peek]
      BY <1>1, <2>2
    <3> QED BY <1>2, <1>4, <1>7, <3>1 DEF Slot
  <2> QED BY <2>1, <2>2
<1>11. last <= top' /\ top' \in 0 .. MaxSlots
  <2>1. CASE Len(frames) = 1
    BY <1>1, <1>2, <1>5, <2>1
  <2>2. CASE Len(frames) # 1
    BY <1>1, <1>2, <2>2 DEF Slot
  <2> QED BY <2>1, <2>2
<1>12. Live(Machine', Heap, top')
  <2>1. Machine'.stack = stack' /\ Machine'.instances = instances
    BY <1>1 DEF Machine, objects
  <2> SUFFICES ASSUME NEW s \in 0 .. top' - 1
               PROVE  stack'[s] \in Values(Heap, instances)
    BY <2>1 DEF Live
  <2>2. CASE Len(frames) = 1
    BY <1>1, <2>2
  <2>3. CASE Len(frames) # 1
    <3>1. stack' = [stack EXCEPT ![last] = peek] /\ top' = last + 1
      BY <1>1, <2>3
    <3>2. s \in Slot /\ s \in 0 .. top - 1 /\ (s = last \/ s < last)
      BY <1>2, <3>1 DEF Slot
    <3>3. CASE s = last
      BY <1>2, <1>4, <3>1, <3>2, <3>3
    <3>4. CASE s < last
      <4>1. stack'[s] = stack[s]
        BY <1>10, <3>2, <3>4
      <4>2. stack[s] \in Values(Heap, instances)
        BY <1>3, <3>2, MachineFields DEF Live
      <4> QED BY <4>1, <4>2
    <3> QED BY <3>2, <3>3, <3>4
  <2> QED BY <2>2, <2>3
<1> QED BY <1>1, <1>2, <1>8, <1>9, <1>10, <1>11, <1>12, ClosedStep

-----------------------------------------------------------------------------
(* Actions that change the heap.                                             *)

(* A machine stays in order when its heap grows.                             *)
LEMMA MachineSetGrows ==
  ASSUME NEW h, NEW h2, NEW is, Grows(h, is, h2, is),
         DOMAIN h.upvalues \subseteq DOMAIN h2.upvalues
  PROVE  MachineSet(h, is) \subseteq MachineSet(h2, is)
<1> SUFFICES ASSUME NEW m \in MachineSet(h, is) PROVE m \in MachineSet(h2, is)
  OBVIOUS
<1>1. /\ Values(h, is) \subseteq Values(h2, is) /\ Contents(h, is) \subseteq Contents(h2, is)
  BY ValuesGrow
<1>2. TableOf(Member, Values(h, is)) \subseteq TableOf(Member, Values(h2, is))
  BY <1>1, TableGrows
<1>3. InstanceSet(h, is) \subseteq InstanceSet(h2, is)
  BY <1>2 DEF InstanceSet, Grows
<1>4. FrameSet(h) \subseteq FrameSet(h2)
  BY DEF FrameSet, Grows
<1>5. /\ m.stack \in [Slot -> Contents(h, is)] /\ m.top \in 0 .. MaxSlots
      /\ m.frames \in Seq(FrameSet(h)) /\ m.open \in Seq(DOMAIN h.upvalues)
      /\ m.instances \in Seq(InstanceSet(h, is))
  BY MachineTypes
<1>6. /\ m.stack \in [Slot -> Contents(h2, is)]
      /\ m.frames \in Seq(FrameSet(h2)) /\ m.open \in Seq(DOMAIN h2.upvalues)
      /\ m.instances \in Seq(InstanceSet(h2, is))
  BY <1>1, <1>3, <1>4, <1>5
<1>7. m = [stack |-> m.stack, top |-> m.top, frames |-> m.frames, open |-> m.open,
           instances |-> m.instances]
  BY DEF MachineSet
<1> QED BY <1>5, <1>6, <1>7 DEF MachineSet

(* So do its frames.                                                         *)
LEMMA FramesStay ==
  ASSUME NEW m, NEW h, NEW h2, MachineOK(m, h), Grows(h, m.instances, h2, m.instances)
  PROVE  FramesOK(m, h2)
<1>1. FramesOK(m, h) /\ \A k \in DOMAIN m.frames : m.frames[k].closure \in DOMAIN h.closures
  BY MachineTypes DEF MachineOK
<1>2. ASSUME NEW k \in DOMAIN m.frames
      PROVE  CalleeOK(m, h2, m.stack[m.frames[k].slots], m.frames[k].closure)
  <2>1. CalleeOK(m, h, m.stack[m.frames[k].slots], m.frames[k].closure)
    BY <1>1 DEF FramesOK
  <2> QED BY <1>1, <2>1, CalleeStays
<1> QED BY <1>1, <1>2 DEF FramesOK

(* A machine stays in order while the heap grows.                            *)
LEMMA MachineGrown ==
  ASSUME NEW m, NEW h, NEW h2, MachineOK(m, h), Grows(h, m.instances, h2, m.instances),
         h2.upvalues = h.upvalues
  PROVE  MachineOK(m, h2)
<1>1. m \in MachineSet(h2, m.instances)
  BY MachineSetGrows DEF MachineOK
<1>2. FramesOK(m, h2)
  BY FramesStay
<1>3. OpenOK(m, h2)
  BY DEF MachineOK, OpenOK, Location, This
<1> QED BY <1>1, <1>2, <1>3 DEF MachineOK

(* Slots in use hold values of the larger heap too.                          *)
LEMMA LiveGrown ==
  ASSUME NEW m, NEW h, NEW h2, NEW n, Live(m, h, n), Grows(h, m.instances, h2, m.instances)
  PROVE  Live(m, h2, n)
BY ValuesGrow DEF Live

(* The classes up to k, and what they declare, say what k inherits.          *)
SameUpTo(cs, cs2, k) ==
  \A i \in 1 .. k : i \in DOMAIN cs2 /\ cs2[i].super = cs[i].super /\ cs2[i].own = cs[i].own

(* What a class inherits depends on the classes up to it alone.              *)
LEMMA InheritsSame ==
  ASSUME NEW cs, Hierarchy(cs), NEW cs2, Hierarchy(cs2), NEW k \in DOMAIN cs,
         SameUpTo(cs, cs2, k)
  PROVE  /\ Above(cs2, k) = Above(cs, k) /\ MethodsOf(cs2, k) = MethodsOf(cs, k)
         /\ \A n : /\ Declaring(cs2, k, n) = Declaring(cs, k, n)
                   /\ Declaring(cs, k, n) # {} =>
                        cs2[Max(Declaring(cs, k, n))].own = cs[Max(Declaring(cs, k, n))].own
<1>1. Above(cs2, k) = Above(cs, k)
  BY AboveSame DEF SameUpTo
<1>2. \A j \in Above(cs, k) : cs2[j].own = cs[j].own
  BY AboveBelow DEF SameUpTo
<1>3. MethodsOf(cs2, k) = MethodsOf(cs, k)
  BY <1>1, <1>2 DEF MethodsOf
<1>4. ASSUME NEW n
      PROVE  /\ Declaring(cs2, k, n) = Declaring(cs, k, n)
             /\ Declaring(cs, k, n) # {} =>
                  cs2[Max(Declaring(cs, k, n))].own = cs[Max(Declaring(cs, k, n))].own
  <2>1. Declaring(cs2, k, n) = Declaring(cs, k, n)
    BY <1>1, <1>2 DEF Declaring
  <2>2. Declaring(cs, k, n) # {} => Max(Declaring(cs, k, n)) \in Above(cs, k)
    BY NearestDeclares DEF Declaring
  <2> QED BY <1>2, <2>1, <2>2
<1> QED BY <1>1, <1>3, <1>4

NearestAt(cs, k) ==
  \A n \in Member :
    /\ Declaring(cs, k, n) = {} => n \notin DOMAIN cs[k].methods
    /\ Declaring(cs, k, n) # {} =>
         /\ n \in DOMAIN cs[k].methods
         /\ cs[k].methods[n] = cs[Max(Declaring(cs, k, n))].own[n]

(* A class that keeps its methods keeps the nearest declarations, if the     *)
(* classes above it stay.                                                    *)
LEMMA NearestSame ==
  ASSUME NEW cs, Hierarchy(cs), NEW cs2, Hierarchy(cs2), NEW k \in DOMAIN cs,
         SameUpTo(cs, cs2, k), Nearest(cs), cs2[k].methods = cs[k].methods
  PROVE  NearestAt(cs2, k)
<1> SUFFICES ASSUME NEW n \in Member
             PROVE  /\ Declaring(cs2, k, n) = {} => n \notin DOMAIN cs2[k].methods
                    /\ Declaring(cs2, k, n) # {} =>
                         /\ n \in DOMAIN cs2[k].methods
                         /\ cs2[k].methods[n] = cs2[Max(Declaring(cs2, k, n))].own[n]
  BY DEF NearestAt
<1>1. /\ Declaring(cs2, k, n) = Declaring(cs, k, n)
      /\ Declaring(cs, k, n) # {} =>
           cs2[Max(Declaring(cs, k, n))].own = cs[Max(Declaring(cs, k, n))].own
  BY InheritsSame
<1>2. /\ Declaring(cs, k, n) = {} => n \notin DOMAIN cs[k].methods
      /\ Declaring(cs, k, n) # {} =>
           /\ n \in DOMAIN cs[k].methods
           /\ cs[k].methods[n] = cs[Max(Declaring(cs, k, n))].own[n]
  BY DEF Nearest
<1> QED BY <1>1, <1>2

(* Nearest, class by class.                                                  *)
LEMMA NearestAll ==
  ASSUME NEW cs, \A k \in DOMAIN cs : NearestAt(cs, k)
  PROVE  Nearest(cs)
BY DEF NearestAt, Nearest

(* The invariant after a step that adds to the heap.                         *)
LEMMA HeapStep ==
  ASSUME IInv, line = 1, UNCHANGED <<globals, line>>, OK(Machine', Heap'),
         Grows(Heap, instances, Heap', instances'), Bounded'
  PROVE  IInv'
<1>1. GlobalsOK(Heap, instances)'
  BY GlobalsStay DEF IInv
<1> QED BY <1>1, NextOK

(* A heap with other classes.                                                *)
LEMMA ClassesReplaced ==
  ASSUME NEW h, NEW h2, NEW is, HeapOK(h, is),
         h2.upvalues = h.upvalues, h2.closures = h.closures,
         h2.classes \in Seq(ClassSet(h)),
         \A k \in DOMAIN h2.classes : h2.classes[k].super < k /\ NearestAt(h2.classes, k),
         Grows(h, is, h2, is)
  PROVE  HeapOK(h2, is)
<1>1. Methods(h2) = Methods(h)
  BY DEF Methods
<1>2. ClassSet(h2) = ClassSet(h) /\ ClosureSet(h2) = ClosureSet(h)
  BY <1>1 DEF ClassSet, ClosureSet, MethodTable
<1>3. UpvalueSet(h, is) \subseteq UpvalueSet(h2, is)
  BY ValuesGrow DEF UpvalueSet
<1>4. h.upvalues \in Seq(UpvalueSet(h, is)) /\ h.closures \in Seq(ClosureSet(h))
  BY DEF HeapOK
<1>5. h2.upvalues \in Seq(UpvalueSet(h2, is))
  BY <1>3, <1>4
<1>6. Nearest(h2.classes)
  BY NearestAll
<1> QED BY <1>2, <1>4, <1>5, <1>6 DEF HeapOK

(* Whatever the bodies of two lists of classes are, they are a hierarchy.    *)
LEMMA HierarchyOf ==
  ASSUME NEW h, NEW is, HeapOK(h, is), NEW cs \in Seq(ClassSet(h)),
         \A k \in DOMAIN cs : cs[k].super < k
  PROVE  Hierarchy(cs)
<1> DEFINE T == [methods : TableOf(Member, Nat), own : TableOf(Member, Nat), super : Nat]
<1>1. Methods(h) \subseteq Nat
  BY HeapTypes DEF Methods
<1>2. ClassSet(h) \subseteq T
  <2>1. MethodTable(h) \subseteq TableOf(Member, Nat)
    BY <1>1, TableGrows DEF MethodTable
  <2> QED BY <2>1 DEF ClassSet
<1> HIDE DEF T
<1>3. cs \in Seq(T)
  BY <1>2
<1> QED BY <1>3 DEF Hierarchy, T

(* OP_CLASS.                                                                 *)
LEMMA DeclareClassOK ==
  ASSUME IInv, DeclareClass
  PROVE  IInv' /\ Stable
<1> DEFINE N   == Len(classes)
           new == [methods |-> Nothing, own |-> Nothing, super |-> 0]
<1>1. /\ Running /\ N < MaxClasses /\ PushValue(Class(N + 1)) /\ classes' = Append(classes, new)
      /\ UNCHANGED <<frames, open, upvalues, closures, instances, globals, line>>
  BY DEF DeclareClass
<1>2. /\ OK(Machine, Heap) /\ frames # <<>> /\ line = 1 /\ HeapOK(Heap, instances)
      /\ MachineOK(Machine, Heap) /\ Live(Machine, Heap, top) /\ top \in Nat
  BY <1>1, RunningOK, MachineFields DEF OK
<1>3. /\ classes \in Seq(ClassSet(Heap)) /\ N \in Nat /\ DOMAIN classes = 1 .. N
      /\ \A k \in DOMAIN classes : classes[k].super < k
      /\ Hierarchy(classes) /\ Nearest(classes)
  BY <1>2, HeapFields, HeapTypes, ClassesAreHierarchy DEF HeapOK
<1>4. new \in ClassSet(Heap) /\ DOMAIN Nothing = {} /\ Range(Nothing) = {}
  <2>1. Nothing \in TableOf(Member, Methods(Heap)) /\ DOMAIN Nothing = {}
    BY NothingIsTable
  <2> QED BY <2>1 DEF ClassSet, MethodTable, Range
<1>5. new.methods = Nothing /\ new.own = Nothing /\ new.super = 0
  OBVIOUS
<1> HIDE DEF new
<1>6. /\ classes' \in Seq(ClassSet(Heap)) /\ DOMAIN classes' = 1 .. N + 1
      /\ Len(classes') = N + 1
      /\ \A k \in 1 .. N : classes'[k] = classes[k]
      /\ classes'[N + 1] = new
  BY <1>1, <1>3, <1>4
<1> HIDE DEF N
<1>7. \A k \in DOMAIN classes' : classes'[k].super < k
  <2> TAKE k \in DOMAIN classes'
  <2>1. CASE k \in 1 .. N
    BY <1>3, <1>6, <2>1
  <2>2. CASE k = N + 1
    BY <1>3, <1>5, <1>6, <2>2
  <2> QED BY <1>3, <1>6, <2>1, <2>2
<1>8. Hierarchy(classes')
  BY <1>2, <1>6, <1>7, HierarchyOf
<1>9. ASSUME NEW k \in DOMAIN classes
      PROVE  SameUpTo(classes, classes', k)
  <2>1. \A i \in 1 .. k : i \in 1 .. N
    BY <1>3
  <2> QED BY <1>3, <1>6, <2>1 DEF SameUpTo
<1>10. ASSUME NEW k \in DOMAIN classes
       PROVE  NearestAt(classes', k) /\ MethodsOf(classes', k) = MethodsOf(classes, k)
  BY <1>3, <1>6, <1>8, <1>9, NearestSame, InheritsSame
<1>11. NearestAt(classes', N + 1)
  <2>1. \A n : Declaring(classes', N + 1, n) = {}
    <3>1. N + 1 \in DOMAIN classes'
      BY <1>3, <1>6
    <3>2. Above(classes', N + 1) = {N + 1} \union Above(classes', 0)
      BY <1>5, <1>6, <1>8, <3>1, AboveSuper
    <3>3. Above(classes', N + 1) = {N + 1}
      BY <1>8, <3>2, AboveRoot
    <3> QED BY <1>4, <1>5, <1>6, <3>3 DEF Declaring
  <2> QED BY <1>4, <1>5, <1>6, <2>1 DEF NearestAt
<1>12. /\ Heap'.upvalues = upvalues /\ Heap'.closures = closures /\ Heap'.classes = classes'
  BY <1>1 DEF Heap
<1>13. Grows(Heap, instances, Heap', instances)
  <2>1. \A i \in DOMAIN instances : instances[i].class \in DOMAIN classes
    BY <1>2, MachineTypes, MachineFields, HeapFields DEF MachineOK
  <2> QED BY <1>3, <1>6, <1>10, <1>12, <2>1, HeapFields DEF Grows
<1>14. HeapOK(Heap', instances)
  <2>1. /\ Heap'.classes \in Seq(ClassSet(Heap))
        /\ \A k \in DOMAIN Heap'.classes :
             Heap'.classes[k].super < k /\ NearestAt(Heap'.classes, k)
    BY <1>3, <1>6, <1>7, <1>10, <1>11, <1>12
  <2>2. Heap'.upvalues = Heap.upvalues /\ Heap'.closures = Heap.closures
    BY <1>12, HeapFields
  <2> QED BY <1>2, <1>13, <2>1, <2>2, ClassesReplaced
<1>15. OK(Machine, Heap')
  <2>1. Heap'.upvalues = Heap.upvalues
    BY <1>12, HeapFields
  <2>2. MachineOK(Machine, Heap')
    BY <1>2, <1>13, <2>1, MachineGrown, MachineFields
  <2>3. Live(Machine, Heap', top)
    BY <1>2, <1>13, LiveGrown, MachineFields
  <2> QED BY <1>14, <2>2, <2>3, MachineFields DEF OK
<1>16. Class(N + 1) \in Values(Heap', Machine.instances)
  BY <1>3, <1>6, <1>12 DEF Values
<1>17. /\ top < MaxSlots /\ stack' = [stack EXCEPT ![top] = Class(N + 1)] /\ top' = top + 1
  BY <1>1 DEF PushValue
<1>18. Machine' = Push(Machine, Class(N + 1))
  BY <1>1, <1>17 DEF Machine, Push
<1>19. OK(Machine', Heap') /\ Keeps(Machine, Machine', top)
  BY <1>2, <1>15, <1>16, <1>17, <1>18, MachineFields, PushOK
<1>20. Bounded'
  <2>1. MaxClasses \in Nat
    BY InterpAssumption
  <2>2. Len(classes') <= MaxClasses
    BY <1>1, <1>3, <1>6, <2>1
  <2> QED BY <1>1, <2>2 DEF Bounded, IInv
<1>21. IInv'
  BY <1>1, <1>2, <1>13, <1>19, <1>20, HeapStep
<1>22. Stable
  <2>1. \A s \in Slot : s < top => stack'[s] = stack[s]
    BY <1>19, MachineFields DEF Keeps, Machine
  <2>2. \A k \in DOMAIN open : Location(Heap, open[k]) < top
    BY <1>2, MachineFields DEF MachineOK, OpenOK
  <2> QED BY <1>1, <1>2, <2>1, <2>2, KeptStable
<1> QED BY <1>21, <1>22

(* The class declared last changes before it has instances.                  *)
LEMMA LastClassEdited ==
  ASSUME NEW h, NEW h2, NEW is, HeapOK(h, is),
         h2.upvalues = h.upvalues, h2.closures = h.closures,
         h2.classes \in Seq(ClassSet(h)), DOMAIN h2.classes = DOMAIN h.classes,
         NEW N, N = Len(h.classes),
         \A k \in DOMAIN h.classes : k # N => h2.classes[k] = h.classes[k],
         h2.classes[N].super < N, NearestAt(h2.classes, N),
         \A i \in DOMAIN is : is[i].class \in DOMAIN h.classes /\ is[i].class # N
  PROVE  HeapOK(h2, is) /\ Grows(h, is, h2, is)
<1>1. /\ N \in Nat /\ DOMAIN h.classes = 1 .. N
      /\ \A k \in DOMAIN h.classes : h.classes[k].super < k
      /\ Hierarchy(h.classes) /\ Nearest(h.classes)
  BY HeapTypes, ClassesAreHierarchy DEF HeapOK
<1>2. \A k \in DOMAIN h2.classes : h2.classes[k].super < k
  BY <1>1
<1>3. Hierarchy(h2.classes)
  BY <1>2, HierarchyOf
<1>4. ASSUME NEW k \in DOMAIN h.classes, k # N
      PROVE  /\ SameUpTo(h.classes, h2.classes, k)
             /\ h2.classes[k].methods = h.classes[k].methods
  <2>1. \A i \in 1 .. k : i \in 1 .. N /\ i # N
    BY <1>1, <1>4
  <2> QED BY <1>1, <1>4, <2>1 DEF SameUpTo
<1>5. ASSUME NEW k \in DOMAIN h.classes, k # N
      PROVE  NearestAt(h2.classes, k) /\ MethodsOf(h2.classes, k) = MethodsOf(h.classes, k)
  BY <1>1, <1>3, <1>4, <1>5, NearestSame, InheritsSame
<1>6. Grows(h, is, h2, is)
  BY <1>5 DEF Grows
<1>7. \A k \in DOMAIN h2.classes : h2.classes[k].super < k /\ NearestAt(h2.classes, k)
  BY <1>2, <1>5
<1> QED BY <1>6, <1>7, ClassesReplaced

(* OP_INHERIT: the new class has no methods of its own yet, so its           *)
(* superclass's are its nearest declarations.                                *)
LEMMA InheritOK ==
  ASSUME IInv, Inherit
  PROVE  IInv' /\ Stable
<1> DEFINE super == stack[top - 2]
           sub   == Len(classes)
<1>1. /\ Running /\ Local(1) < top - 1 /\ InClassBody /\ classes[sub].own = Nothing
      /\ super # peek
  BY DEF Inherit
<1>2. /\ OK(Machine, Heap) /\ frames # <<>> /\ line = 1 /\ HeapOK(Heap, instances)
      /\ MachineOK(Machine, Heap) /\ Live(Machine, Heap, top) /\ top \in 0 .. MaxSlots
      /\ MaxSlots \in Nat /\ Frame.slots \in Slot
  BY <1>1, RunningOK, MachineFields DEF OK
<1>3. /\ classes # <<>> /\ peek = Class(sub) /\ Temporaries(1)
      /\ \A i \in DOMAIN instances : instances[i].class # sub
  BY <1>1 DEF InClassBody
<1>4. CASE ~ Is(super, "class")
  <2>1. Become(runtimeError(Machine))
    BY <1>4 DEF Inherit
  <2> QED BY <1>1, <2>1, BecomeError
<1>5. CASE Is(super, "class")
  <2> DEFINE p == super.class
  <2>1. /\ classes' = [classes EXCEPT ![sub].methods = classes[p].methods,
                                      ![sub].super = p]
        /\ top' = top - 1
        /\ UNCHANGED <<stack, frames, open, upvalues, closures, instances, globals, line>>
    BY <1>5 DEF Inherit
  <2>2. /\ classes \in Seq(ClassSet(Heap)) /\ sub \in Nat /\ DOMAIN classes = 1 .. sub
        /\ \A k \in DOMAIN classes : classes[k].super < k /\ classes[k] \in ClassSet(Heap)
        /\ Hierarchy(classes) /\ Nearest(classes)
    BY <1>2, HeapFields, HeapTypes, ClassesAreHierarchy DEF HeapOK
  <2>3. p \in DOMAIN classes /\ p # sub
    <3>1. top - 2 \in 0 .. top - 1
      BY <1>1, <1>2 DEF Local, Slot
    <3>2. super \in Values(Heap, instances)
      BY <1>2, <3>1, MachineFields DEF Live
    <3>3. super \in Contents(Heap, instances)
      BY <3>2 DEF Contents
    <3>4. PICK k \in DOMAIN classes : super = Class(k) /\ super.class = k
      BY <1>5, <3>3, Tags, HeapFields
    <3> QED BY <1>1, <1>3, <3>4
  <2> HIDE DEF p
  <2>4. p \in Nat /\ p < sub /\ sub \in DOMAIN classes
    BY <2>2, <2>3
  <2>5. /\ classes[p].methods \in MethodTable(Heap)
        /\ classes[sub] \in ClassSet(Heap)
    BY <2>2, <2>3, <2>4 DEF ClassSet
  <2>6. /\ classes' \in Seq(ClassSet(Heap)) /\ DOMAIN classes' = DOMAIN classes
        /\ Len(classes') = Len(classes)
        /\ classes'[sub].methods = classes[p].methods /\ classes'[sub].super = p
        /\ classes'[sub].own = classes[sub].own
        /\ \A k \in DOMAIN classes : k # sub => classes'[k] = classes[k]
    <3> DEFINE new == [classes[sub] EXCEPT !.methods = classes[p].methods, !.super = p]
    <3>1. new \in ClassSet(Heap)
      BY <2>4, <2>5 DEF ClassSet
    <3>2. new.methods = classes[p].methods /\ new.super = p /\ new.own = classes[sub].own
      BY <2>5 DEF ClassSet
    <3>3. classes' = [classes EXCEPT ![sub] = new]
      BY <2>1, <2>2, <2>4
    <3> HIDE DEF new
    <3> QED BY <2>2, <2>4, <3>1, <3>2, <3>3
  <2> HIDE DEF sub
  <2>7. Hierarchy(classes')
    <3>1. \A k \in DOMAIN classes' : classes'[k].super < k
      BY <2>2, <2>4, <2>6
    <3> QED BY <1>2, <2>6, <3>1, HierarchyOf
  <2>8. NearestAt(classes', sub)
    <3>1. SameUpTo(classes, classes', p)
      <4>1. \A i \in 1 .. p : i \in 1 .. sub /\ i # sub
        BY <2>2, <2>4
      <4> QED BY <2>2, <2>6, <4>1 DEF SameUpTo
    <3>2. NearestAt(classes', p)
      BY <2>2, <2>3, <2>6, <2>7, <3>1, NearestSame
    <3>3. Above(classes', sub) = {sub} \union Above(classes', p)
      BY <2>4, <2>6, <2>7, AboveSuper
    <3>4. DOMAIN classes'[sub].own = {}
      BY <1>1, <2>6, NothingIsTable DEF sub
    <3>5. \A n : Declaring(classes', sub, n) = Declaring(classes', p, n)
      BY <3>3, <3>4 DEF Declaring
    <3>6. classes'[sub].methods = classes'[p].methods
      BY <2>3, <2>6
    <3> QED BY <3>2, <3>5, <3>6 DEF NearestAt
  <2>9. /\ Heap'.upvalues = Heap.upvalues /\ Heap'.closures = Heap.closures
        /\ Heap'.classes = classes' /\ Heap.classes = classes
    BY <2>1, HeapFields DEF Heap
  <2>10. HeapOK(Heap', instances) /\ Grows(Heap, instances, Heap', instances)
    <3>1. \A i \in DOMAIN instances : instances[i].class \in DOMAIN Heap.classes
      BY <1>2, MachineTypes, MachineFields DEF MachineOK
    <3>2. /\ sub = Len(Heap.classes) /\ HeapOK(Heap, instances)
          /\ Heap'.classes \in Seq(ClassSet(Heap)) /\ DOMAIN Heap'.classes = DOMAIN Heap.classes
          /\ \A k \in DOMAIN Heap.classes : k # sub => Heap'.classes[k] = Heap.classes[k]
          /\ Heap'.classes[sub].super < sub /\ NearestAt(Heap'.classes, sub)
          /\ \A i \in DOMAIN instances :
               instances[i].class \in DOMAIN Heap.classes /\ instances[i].class # sub
      BY <1>2, <1>3, <2>4, <2>6, <2>8, <2>9, <3>1 DEF sub
    <3> QED BY <2>9, <3>2, LastClassEdited
  <2>11. OK(Machine, Heap')
    <3>1. MachineOK(Machine, Heap')
      BY <1>2, <2>9, <2>10, MachineGrown, MachineFields
    <3>2. Live(Machine, Heap', top)
      BY <1>2, <2>10, LiveGrown, MachineFields
    <3> QED BY <2>10, <3>1, <3>2, MachineFields DEF OK
  <2>12. Room(Machine, Heap', 1)
    <3>1. Room(Machine, Heap, 1)
      BY <1>1, <1>3, TemporariesRoom
    <3> QED BY <2>9, <3>1 DEF Room, Location
  <2>13. OK(Drop(Machine, 1), Heap')
    BY <2>11, <2>12, DropOK
  <2>14. Machine' = Drop(Machine, 1)
    BY <2>1 DEF Machine, Drop
  <2>15. Bounded'
    BY <2>1, <2>6 DEF Bounded, IInv
  <2>16. IInv'
    BY <1>2, <2>1, <2>10, <2>13, <2>14, <2>15, HeapStep
  <2>17. Stable
    <3>1. \A s \in Slot : s < top => stack'[s] = stack[s]
      BY <2>1
    <3>2. \A k \in DOMAIN open : Location(Heap, open[k]) < top
      BY <1>2, MachineFields DEF MachineOK, OpenOK
    <3> QED BY <1>2, <2>1, <3>1, <3>2, KeptStable
  <2> QED BY <2>16, <2>17
<1> QED BY <1>4, <1>5

(* A method's closure leaves the stack.                                      *)
LEMMA DropMethodOK ==
  ASSUME NEW h, NEW m, MachineOK(m, h), HeapOK(h, m.instances), Room(m, h, 2)
  PROVE  MachineOK(Drop(m, 1), h) /\ Drop(m, 1).top = m.top - 1
<1> DEFINE m2 == Drop(m, 1)
           is == m.instances
<1>1. /\ m \in MachineSet(h, is) /\ FramesOK(m, h) /\ OpenOK(m, h)
  BY DEF MachineOK
<1>2. /\ m.frames # <<>> /\ m.top \in 0 .. MaxSlots /\ m.top - 2 \in 1 .. MaxSlots
      /\ \A k \in DOMAIN m.frames : m.frames[k].slots \in Slot /\ m.frames[k].slots < m.top - 2
      /\ \A k \in DOMAIN m.open : Location(h, m.open[k]) < m.top - 2
  BY RoomBelow
<1>3. MaxSlots \in Nat /\ \A k \in DOMAIN m.open : Location(h, m.open[k]) \in 0 .. MaxSlots
  <2>1. \A k \in DOMAIN m.open : m.open[k] \in DOMAIN h.upvalues
    BY <1>1, MachineTypes
  <2> QED BY <2>1, HeapTypes, InterpAssumption DEF Location
<1>4. m.top - 1 \in 0 .. MaxSlots
  BY <1>2, <1>3
<1>5. /\ m2 \in MachineSet(h, is) /\ m2.top = m.top - 1 /\ m2.stack = m.stack
      /\ m2.frames = m.frames /\ m2.open = m.open /\ m2.instances = is
  BY <1>1, <1>4, DropFields
<1> HIDE DEF m2
<1>6. \A k \in DOMAIN m.frames : m.frames[k].slots < m.top - 1
  BY <1>2, <1>3 DEF Slot
<1>7. \A k \in DOMAIN m.open : Location(h, m.open[k]) < m.top - 1
  BY <1>2, <1>3
<1>8. FramesOK(m2, h)
  BY <1>1, <1>2, <1>5, <1>6 DEF FramesOK, CalleeOK
<1>9. OpenOK(m2, h)
  BY <1>1, <1>5, <1>7 DEF OpenOK
<1> QED BY <1>5, <1>8, <1>9 DEF MachineOK, m2

(* OP_METHOD comes when a method's closure is on the stack, and only then.   *)
LEMMA MethodPendingIs ==
  ASSUME IInv, frames # <<>>, MethodPending
  PROVE  /\ Pending(Machine, Heap) /\ line = 1
         /\ peek.closure \in Methods(Heap) /\ stack[top - 2].class = Len(classes)
<1>1. MachineOK(Machine, Heap) /\ HeapOK(Heap, instances)
  BY DEF IInv
<1>2. top \in 0 .. MaxSlots /\ MaxSlots \in Nat /\ Last(frames).slots \in Slot
      /\ Last(frames).slots < top
  BY <1>1, MachineTypes, RunningFrame, MachineFields, InterpAssumption DEF MachineOK
<1>3. top - 1 \in Slot /\ top - 1 \in 0 .. top - 1
  BY <1>2 DEF Slot
<1>4. peek \in Contents(Heap, instances)
  BY <1>1, <1>3, MachineTypes, MachineFields DEF MachineOK, peek
<1>5. Is(peek, "closure") /\ closures[peek.closure].method
  BY DEF MethodPending
<1>6. PICK c \in DOMAIN closures :
        peek = Fn(c) /\ peek.closure = c /\ (peek \in Values(Heap, instances) => c \notin Methods(Heap))
  BY <1>4, <1>5, Tags, HeapFields
<1>7. c \in Methods(Heap)
  BY <1>5, <1>6, HeapFields DEF Methods
<1>8. ~ Live(Machine, Heap, top)
  BY <1>3, <1>6, <1>7, MachineFields DEF Live, peek
<1>9. Pending(Machine, Heap)
  BY <1>8 DEF IInv
<1>10. stack[top - 2].class = Len(classes)
  BY <1>9, MachineFields, HeapFields DEF Pending, Class
<1>11. line = 1
  BY DEF IInv, OneScript
<1> QED BY <1>6, <1>7, <1>9, <1>10, <1>11

(* OP_METHOD: the class was just declared, so no class is below it and no    *)
(* instance has it.                                                          *)
LEMMA MethodOK ==
  ASSUME IInv, NEW n \in Member, Method(n)
  PROVE  IInv' /\ Stable
<1> DEFINE N == Len(classes)
           c == peek.closure
<1>1. /\ frames # <<>> /\ MethodPending
      /\ top' = top - 1
      /\ UNCHANGED <<stack, frames, open, upvalues, closures, instances, globals, line>>
  BY DEF Method
<1>2. /\ Pending(Machine, Heap) /\ line = 1
      /\ c \in Methods(Heap) /\ stack[top - 2].class = N
  BY <1>1, MethodPendingIs
<1>3. /\ HeapOK(Heap, instances) /\ MachineOK(Machine, Heap)
  BY DEF IInv
<1>4. /\ Room(Machine, Heap, 2) /\ Live(Machine, Heap, top - 1) /\ classes # <<>>
      /\ \A i \in DOMAIN instances : instances[i].class # N
  BY <1>2, MachineFields, HeapFields DEF Pending
<1>5. /\ classes \in Seq(ClassSet(Heap)) /\ N \in Nat /\ DOMAIN classes = 1 .. N
      /\ \A k \in DOMAIN classes : classes[k].super < k /\ classes[k] \in ClassSet(Heap)
      /\ Hierarchy(classes) /\ Nearest(classes)
  BY <1>3, HeapFields, HeapTypes, ClassesAreHierarchy DEF HeapOK
<1>6. classes' = [classes EXCEPT ![N].methods = Bind(@, n, c), ![N].own = Bind(@, n, c)]
  BY <1>2 DEF Method
<1>7. N \in DOMAIN classes
  BY <1>4, <1>5
<1> DEFINE old == classes[N]
<1>8. /\ old \in ClassSet(Heap) /\ old.methods \in TableOf(Member, Methods(Heap))
      /\ old.own \in TableOf(Member, Methods(Heap))
  BY <1>5, <1>7 DEF ClassSet, MethodTable
<1>9. /\ Bind(old.methods, n, c) \in TableOf(Member, Methods(Heap))
      /\ DOMAIN Bind(old.methods, n, c) = DOMAIN old.methods \union {n}
      /\ Bind(old.methods, n, c)[n] = c
      /\ \A x \in DOMAIN old.methods : x # n => Bind(old.methods, n, c)[x] = old.methods[x]
  <2> DEFINE t == old.methods
             P == Methods(Heap)
  <2>1. t \in TableOf(Member, P) /\ c \in P /\ n \in Member
    BY <1>2, <1>8
  <2> HIDE DEF t, c, P
  <2>2. /\ Bind(t, n, c) \in TableOf(Member, P) /\ DOMAIN Bind(t, n, c) = DOMAIN t \union {n}
        /\ Bind(t, n, c)[n] = c
        /\ \A x \in DOMAIN t : x # n => Bind(t, n, c)[x] = t[x]
    BY <2>1, BindIsTable
  <2> QED BY <2>2 DEF t, P
<1>10. /\ Bind(old.own, n, c) \in TableOf(Member, Methods(Heap))
       /\ DOMAIN Bind(old.own, n, c) = DOMAIN old.own \union {n}
       /\ Bind(old.own, n, c)[n] = c
       /\ \A x \in DOMAIN old.own : x # n => Bind(old.own, n, c)[x] = old.own[x]
  <2> DEFINE t == old.own
             P == Methods(Heap)
  <2>1. t \in TableOf(Member, P) /\ c \in P /\ n \in Member
    BY <1>2, <1>8
  <2> HIDE DEF t, c, P
  <2>2. /\ Bind(t, n, c) \in TableOf(Member, P) /\ DOMAIN Bind(t, n, c) = DOMAIN t \union {n}
        /\ Bind(t, n, c)[n] = c
        /\ \A x \in DOMAIN t : x # n => Bind(t, n, c)[x] = t[x]
    BY <2>1, BindIsTable
  <2> QED BY <2>2 DEF t, P
<1>11. /\ classes' \in Seq(ClassSet(Heap)) /\ DOMAIN classes' = DOMAIN classes
       /\ Len(classes') = N
       /\ classes'[N].methods = Bind(old.methods, n, c)
       /\ classes'[N].own = Bind(old.own, n, c)
       /\ classes'[N].super = old.super
       /\ \A k \in DOMAIN classes : k # N => classes'[k] = classes[k]
  <2> DEFINE M   == Bind(old.methods, n, c)
             O   == Bind(old.own, n, c)
             new == [old EXCEPT !.methods = M, !.own = O]
  <2>1. classes' = [classes EXCEPT ![N] = new]
    BY <1>5, <1>6, <1>7
  <2>2. M \in MethodTable(Heap) /\ O \in MethodTable(Heap)
    BY <1>9, <1>10 DEF MethodTable
  <2> HIDE DEF M, O
  <2>3. new \in ClassSet(Heap) /\ new.methods = M /\ new.own = O /\ new.super = old.super
    BY <1>8, <2>2 DEF ClassSet
  <2> HIDE DEF new
  <2>4. /\ classes' \in Seq(ClassSet(Heap)) /\ DOMAIN classes' = DOMAIN classes
        /\ Len(classes') = N /\ classes'[N] = new
        /\ \A k \in DOMAIN classes : k # N => classes'[k] = classes[k]
    BY <1>5, <1>7, <2>1, <2>3
  <2> QED BY <2>3, <2>4 DEF M, O
<1>12. old.super < N
  BY <1>5, <1>7
<1> HIDE DEF N, c
<1>13. Hierarchy(classes')
  <2>1. \A k \in DOMAIN classes' : classes'[k].super < k
    BY <1>5, <1>11, <1>12
  <2> QED BY <1>3, <1>11, <2>1, HierarchyOf
<1>14. Above(classes', N) = Above(classes, N)
  <2>1. \A i \in 1 .. N : i \in DOMAIN classes' /\ classes'[i].super = classes[i].super
    BY <1>5, <1>11
  <2> QED BY <1>5, <1>7, <1>13, <2>1, AboveSame
<1>15. Above(classes, N) \subseteq 1 .. N /\ N \in Above(classes, N)
  BY <1>5, <1>7, AboveBelow, AboveItself
<1>16. NearestAt(classes', N)
  <2> SUFFICES ASSUME NEW x \in Member
               PROVE  /\ Declaring(classes', N, x) = {} => x \notin DOMAIN classes'[N].methods
                      /\ Declaring(classes', N, x) # {} =>
                           /\ x \in DOMAIN classes'[N].methods
                           /\ classes'[N].methods[x] = classes'[Max(Declaring(classes', N, x))].own[x]
    BY DEF NearestAt
  <2>1. CASE x = n
    <3> DEFINE D == Declaring(classes', N, n)
    <3>1. N \in D /\ D \subseteq 1 .. N
      BY <1>10, <1>11, <1>14, <1>15 DEF Declaring
    <3> HIDE DEF D
    <3>2. Max(D) = N
      <4>1. N - 1 \in Nat /\ (N - 1) + 1 = N
        BY <1>5, <1>7
      <4> QED BY <3>1, <4>1, MaxOf
    <3>3. classes'[N].methods[n] = c /\ classes'[N].own[n] = c /\ n \in DOMAIN classes'[N].methods
      BY <1>9, <1>10, <1>11
    <3> QED BY <2>1, <3>1, <3>2, <3>3 DEF D
  <2>2. CASE x # n
    <3> DEFINE D == Declaring(classes, N, x)
    <3>1. \A j \in Above(classes, N) : x \in DOMAIN classes'[j].own <=> x \in DOMAIN classes[j].own
      BY <1>5, <1>10, <1>11, <1>15, <2>2
    <3>2. Declaring(classes', N, x) = D
      BY <1>14, <3>1 DEF Declaring
    <3>3. x \in DOMAIN classes'[N].methods <=> x \in DOMAIN old.methods
      BY <1>9, <1>11, <2>2
    <3>4. /\ D = {} => x \notin DOMAIN old.methods
          /\ D # {} => x \in DOMAIN old.methods /\ old.methods[x] = classes[Max(D)].own[x]
      BY <1>5, <1>7 DEF Nearest
    <3>5. ASSUME D # {}
          PROVE  classes'[N].methods[x] = classes'[Max(D)].own[x]
      <4>1. Max(D) \in D
        BY <1>5, <1>7, <3>5, NearestDeclares
      <4>2. Max(D) \in DOMAIN classes /\ x \in DOMAIN classes[Max(D)].own
        BY <1>5, <1>15, <4>1 DEF Declaring
      <4> DEFINE j == Max(D)
      <4> HIDE DEF j
      <4>3. j \in DOMAIN classes /\ x \in DOMAIN classes[j].own
        BY <4>2 DEF j
      <4>4. classes'[j].own[x] = classes[j].own[x]
        <5>1. CASE j = N
          BY <1>10, <1>11, <2>2, <4>3, <5>1
        <5>2. CASE j # N
          BY <1>11, <4>3, <5>2
        <5> QED BY <5>1, <5>2
      <4>5. classes'[N].methods[x] = old.methods[x] /\ old.methods[x] = classes[j].own[x]
        BY <1>9, <1>11, <2>2, <3>4, <3>5 DEF j
      <4> QED BY <4>4, <4>5 DEF j
    <3> HIDE DEF D
    <3> QED BY <3>2, <3>3, <3>4, <3>5
  <2> QED BY <2>1, <2>2
<1>17. /\ Heap'.upvalues = Heap.upvalues /\ Heap'.closures = Heap.closures
       /\ Heap'.classes = classes' /\ Heap.classes = classes
  BY <1>1, HeapFields DEF Heap
<1>18. HeapOK(Heap', instances) /\ Grows(Heap, instances, Heap', instances)
  <2>1. \A i \in DOMAIN instances : instances[i].class \in DOMAIN Heap.classes
    BY <1>3, MachineTypes, MachineFields DEF MachineOK
  <2>2. /\ N = Len(Heap.classes) /\ HeapOK(Heap, instances)
        /\ Heap'.classes \in Seq(ClassSet(Heap)) /\ DOMAIN Heap'.classes = DOMAIN Heap.classes
        /\ \A k \in DOMAIN Heap.classes : k # N => Heap'.classes[k] = Heap.classes[k]
        /\ Heap'.classes[N].super < N /\ NearestAt(Heap'.classes, N)
        /\ \A i \in DOMAIN instances :
             instances[i].class \in DOMAIN Heap.classes /\ instances[i].class # N
    BY <1>3, <1>4, <1>11, <1>12, <1>16, <1>17, <2>1 DEF N
  <2> QED BY <1>17, <2>2, LastClassEdited
<1>19. MachineOK(Drop(Machine, 1), Heap') /\ Drop(Machine, 1).top = top - 1
  <2>1. MachineOK(Machine, Heap')
    BY <1>3, <1>17, <1>18, MachineGrown, MachineFields
  <2>2. Room(Machine, Heap', 2)
    BY <1>4, <1>17 DEF Room, Location
  <2> QED BY <1>18, <2>1, <2>2, DropMethodOK, MachineFields
<1>20. Machine' = Drop(Machine, 1)
  BY <1>1 DEF Machine, Drop
<1>21. Live(Machine', Heap', Machine'.top)
  <2>1. Live(Machine, Heap', top - 1)
    BY <1>4, <1>18, LiveGrown, MachineFields
  <2>2. Machine'.stack = stack /\ Machine'.instances = instances /\ Machine'.top = top - 1
    BY <1>1 DEF Machine
  <2> QED BY <2>1, <2>2, MachineFields DEF Live
<1>22. OK(Machine', Heap')
  <2>1. Machine'.instances = instances
    BY <1>1 DEF Machine
  <2> QED BY <1>18, <1>19, <1>20, <1>21, <2>1 DEF OK
<1>23. Bounded'
  BY <1>1, <1>11 DEF Bounded, IInv, N
<1>24. IInv'
  BY <1>1, <1>2, <1>18, <1>22, <1>23, HeapStep
<1>25. Stable
  <2>1. \A s \in Slot : s < top => stack'[s] = stack[s]
    BY <1>1
  <2>2. \A k \in DOMAIN open : Location(Heap, open[k]) < top
    BY <1>3, MachineFields DEF MachineOK, OpenOK
  <2> QED BY <1>1, <2>1, <2>2, KeptStable
<1> QED BY <1>24, <1>25

-----------------------------------------------------------------------------
(* OP_CLOSURE.  A closure is added to the heap, and upvalues with it.        *)
LEMMA ClosureAdded ==
  ASSUME NEW h, NEW h2, NEW is, HeapOK(h, is), h2.classes = h.classes,
         NEW c \in ClosureSet(h2), h2.closures = Append(h.closures, c),
         DOMAIN h.upvalues \subseteq DOMAIN h2.upvalues,
         h2.upvalues \in Seq(UpvalueSet(h, is))
  PROVE  /\ HeapOK(h2, is) /\ Grows(h, is, h2, is)
         /\ Len(h2.closures) = Len(h.closures) + 1
         /\ Len(h.closures) + 1 \in DOMAIN h2.closures
         /\ h2.closures[Len(h.closures) + 1] = c
<1> DEFINE N == Len(h.closures)
<1>1. h.closures \in Seq(ClosureSet(h)) /\ N \in Nat /\ DOMAIN h.closures = 1 .. N
  BY HeapTypes DEF HeapOK
<1>2. ClosureSet(h) \subseteq ClosureSet(h2)
  <2>1. Seq(DOMAIN h.upvalues) \subseteq Seq(DOMAIN h2.upvalues)
    OBVIOUS
  <2> QED BY <2>1 DEF ClosureSet
<1>3. h.closures \in Seq(ClosureSet(h2))
  BY <1>1, <1>2
<1>4. /\ h2.closures \in Seq(ClosureSet(h2)) /\ Len(h2.closures) = N + 1
      /\ DOMAIN h2.closures = 1 .. N + 1 /\ h2.closures[N + 1] = c
      /\ \A d \in 1 .. N : h2.closures[d] = h.closures[d]
  BY <1>1, <1>3
<1> HIDE DEF N
<1>5. Grows(h, is, h2, is)
  <2>1. \A d \in DOMAIN h.closures :
          d \in DOMAIN h2.closures /\ h2.closures[d].method = h.closures[d].method
    BY <1>1, <1>4
  <2> QED BY <2>1 DEF Grows
<1>6. Methods(h) \subseteq Methods(h2) /\ UpvalueSet(h, is) \subseteq UpvalueSet(h2, is)
  BY <1>5, ValuesGrow DEF UpvalueSet
<1>7. h2.upvalues \in Seq(UpvalueSet(h2, is))
  BY <1>6
<1>8. h2.classes \in Seq(ClassSet(h2))
  <2>1. MethodTable(h) \subseteq MethodTable(h2)
    BY <1>6, TableGrows DEF MethodTable
  <2>2. ClassSet(h) \subseteq ClassSet(h2)
    BY <2>1 DEF ClassSet
  <2>3. h.classes \in Seq(ClassSet(h))
    BY DEF HeapOK
  <2> QED BY <2>2, <2>3
<1>9. HeapOK(h2, is)
  BY <1>4, <1>7, <1>8 DEF HeapOK
<1>10. N + 1 \in DOMAIN h2.closures
  BY <1>1, <1>4
<1> QED BY <1>4, <1>5, <1>9, <1>10 DEF N

(* A function is a value; a method by itself is none.                        *)
LEMMA FnIsValue ==
  ASSUME NEW h, NEW is, NEW c \in DOMAIN h.closures, h.closures[c].method = FALSE
  PROVE  Fn(c) \in Values(h, is) /\ c \notin Methods(h) /\ Fn(c) \in Contents(h, is)
BY DEF Values, Methods, Contents

(* The script begins on an empty stack.                                      *)
LEMMA interpretOK ==
  ASSUME IInv, Lines = 1, interpret
  PROVE  IInv' /\ upvalues = <<>>
<1> DEFINE N == Len(closures)
           c == [arity |-> 0, upvalues |-> <<>>, method |-> FALSE]
           f == [closure |-> N + 1, slots |-> top]
<1>1. /\ frames = <<>> /\ line < Lines /\ N < MaxClosures /\ line' = line + 1
      /\ closures' = Append(closures, c) /\ frames' = <<f>>
      /\ top < MaxSlots /\ stack' = [stack EXCEPT ![top] = Fn(N + 1)] /\ top' = top + 1
      /\ UNCHANGED <<open, upvalues, classes, instances, globals>>
  BY DEF interpret, PushValue, objects
<1>2. line = 0 /\ upvalues = <<>> /\ line' = 1
  BY <1>1 DEF IInv, OneScript
<1>3. MachineOK(Machine, Heap) /\ HeapOK(Heap, instances)
  BY DEF IInv
<1>4. top = 0 /\ open = <<>>
  BY <1>1, <1>3, MachineFields DEF MachineOK, FramesOK
<1>5. /\ Heap'.upvalues = upvalues /\ Heap'.closures = closures' /\ Heap'.classes = classes
      /\ Machine'.stack = stack' /\ Machine'.top = 1 /\ Machine'.frames = <<f>>
      /\ Machine'.open = open /\ Machine'.instances = instances
  BY <1>1, <1>4 DEF Heap, Machine
<1>6. c \in ClosureSet(Heap') /\ c.method = FALSE
  BY DEF ClosureSet
<1> HIDE DEF c
<1>7. /\ HeapOK(Heap', instances) /\ Grows(Heap, instances, Heap', instances)
      /\ Len(Heap'.closures) = N + 1 /\ N + 1 \in DOMAIN Heap'.closures
      /\ Heap'.closures[N + 1] = c
  <2>1. /\ Heap'.classes = Heap.classes /\ Heap'.closures = Append(Heap.closures, c)
        /\ DOMAIN Heap.upvalues \subseteq DOMAIN Heap'.upvalues
        /\ Heap'.upvalues \in Seq(UpvalueSet(Heap, instances)) /\ N = Len(Heap.closures)
    BY <1>1, <1>3, <1>5, HeapFields DEF HeapOK
  <2> QED BY <1>3, <1>6, <2>1, ClosureAdded
<1> HIDE DEF N
<1>8. /\ Fn(N + 1) \in Values(Heap', instances) /\ Fn(N + 1) \in Contents(Heap', instances)
      /\ N + 1 \notin Methods(Heap')
  BY <1>6, <1>7, FnIsValue
<1>9. MaxSlots \in Nat /\ 0 \in Slot /\ 1 \in 0 .. MaxSlots
  BY <1>1, <1>4, InterpAssumption DEF Slot
<1>10. Machine \in MachineSet(Heap', instances)
  <2>1. Machine \in MachineSet(Heap, instances) /\ DOMAIN Heap.upvalues \subseteq DOMAIN Heap'.upvalues
    BY <1>3, <1>5, MachineFields, HeapFields DEF MachineOK
  <2> QED BY <1>7, <2>1, MachineSetGrows
<1>11. stack' \in [Slot -> Contents(Heap', instances)] /\ stack'[0] = Fn(N + 1)
  <2>1. stack \in [Slot -> Contents(Heap', instances)]
    BY <1>10, MachineTypes, MachineFields
  <2> QED BY <1>1, <1>4, <1>8, <1>9, <2>1
<1>12. Machine' \in MachineSet(Heap', instances)
  <2>1. open \in Seq(DOMAIN Heap'.upvalues) /\ instances \in Seq(InstanceSet(Heap', instances))
    BY <1>10, MachineTypes, MachineFields
  <2>2. f \in FrameSet(Heap')
    BY <1>4, <1>7, <1>9 DEF FrameSet
  <2> HIDE DEF f
  <2>3. <<f>> \in Seq(FrameSet(Heap'))
    BY <2>2
  <2>4. Machine' = [stack |-> stack', top |-> 1, frames |-> <<f>>, open |-> open,
                    instances |-> instances]
    BY <1>1, <1>4 DEF Machine, f
  <2> QED BY <1>9, <1>11, <2>1, <2>3, <2>4 DEF MachineSet
<1>13. FramesOK(Machine', Heap')
  <2>1. /\ DOMAIN Machine'.frames = {1} /\ Machine'.frames[1].slots = 0
        /\ Machine'.frames[1].closure = N + 1 /\ Len(Machine'.frames) = 1
        /\ Machine'.frames # <<>>
    BY <1>4, <1>5
  <2>2. CalleeOK(Machine', Heap', stack'[0], N + 1)
    BY <1>8, <1>11 DEF CalleeOK
  <2>3. 1 <= FRAMES_MAX
    BY InterpAssumption
  <2> QED BY <1>5, <2>1, <2>2, <2>3 DEF FramesOK
<1>14. OpenOK(Machine', Heap')
  BY <1>2, <1>4, <1>5 DEF OpenOK
<1>15. Live(Machine', Heap', top')
  <2>1. \A s \in 0 .. top' - 1 : s = 0
    BY <1>1, <1>4
  <2> QED BY <1>5, <1>8, <1>11, <2>1 DEF Live
<1>16. GlobalsOK(Heap, instances)'
  BY <1>1, <1>7, GlobalsStay DEF IInv
<1>17. Bounded'
  <2>1. Len(closures') = N + 1 /\ N + 1 <= MaxClosures
    <3>1. MaxClosures \in Nat /\ N \in Nat
      BY <1>3, HeapTypes, HeapFields, InterpAssumption DEF N
    <3> QED BY <1>1, <1>5, <1>7, <3>1 DEF N
  <2> QED BY <1>1, <2>1 DEF Bounded, IInv
<1>18. OneScript'
  BY <1>2 DEF OneScript
<1>19. MachineOK(Machine', Heap') /\ HeapOK(Heap', instances')
  BY <1>1, <1>5, <1>7, <1>12, <1>13, <1>14 DEF MachineOK
<1>20. MachineOK(Machine, Heap)' /\ HeapOK(Heap, instances)' /\ Live(Machine, Heap, top)'
  BY <1>15, <1>19
<1> QED BY <1>2, <1>16, <1>17, <1>18, <1>20 DEF IInv

(* A sequence with one more element at k.                                    *)
IsInserted(r, T, s, k, e) ==
  /\ r \in Seq(T) /\ Len(r) = Len(s) + 1 /\ DOMAIN r = 1 .. Len(s) + 1 /\ r[k] = e
  /\ \A i \in 1 .. Len(s) : i < k => r[i] = s[i]
  /\ \A i \in 1 .. Len(s) : i >= k => r[i + 1] = s[i]

(* InsertAt: e is at k, those before it stay, those after it move up.        *)
LEMMA Inserted ==
  ASSUME NEW T, NEW s \in Seq(T), NEW k \in 1 .. Len(s) + 1, NEW e \in T
  PROVE  IsInserted(InsertAt(s, k, e), T, s, k, e)
<1> DEFINE L == Len(s)
           a == SubSeq(s, 1, k - 1)
           b == SubSeq(s, k, L)
           m == a \o <<e>>
<1>1. /\ L \in Nat /\ DOMAIN s = 1 .. L /\ k \in 1 .. L + 1
      /\ 1 \in Int /\ k - 1 \in Nat /\ k \in Int /\ L \in Int
      /\ \A i \in 1 .. k - 1 : s[i] \in T
      /\ \A i \in k .. L : s[i] \in T
  OBVIOUS
<1>2. /\ a \in Seq(T)
      /\ Len(a) = IF 1 <= k - 1 THEN (k - 1) - 1 + 1 ELSE 0
      /\ \A i \in 1 .. (k - 1) - 1 + 1 : a[i] = s[1 + i - 1]
  BY <1>1, SubSeqProperties
<1>3. /\ b \in Seq(T)
      /\ Len(b) = IF k <= L THEN L - k + 1 ELSE 0
      /\ \A i \in 1 .. L - k + 1 : b[i] = s[k + i - 1]
  BY <1>1, SubSeqProperties
<1> HIDE DEF a, b, L
<1>4. Len(a) = k - 1 /\ (k - 1) - 1 + 1 = k - 1
  <2>1. (k - 1) - 1 + 1 = k - 1 /\ (1 <= k - 1 \/ k - 1 = 0)
    BY <1>1
  <2>2. 1 <= k - 1 => Len(a) = (k - 1) - 1 + 1
    BY <1>2
  <2>3. ~ (1 <= k - 1) => Len(a) = 0
    BY <1>2
  <2> QED BY <2>1, <2>2, <2>3
<1>5. Len(b) = L - k + 1
  <2>1. k <= L \/ L - k + 1 = 0
    BY <1>1
  <2>2. k <= L => Len(b) = L - k + 1
    BY <1>3
  <2>3. ~ (k <= L) => Len(b) = 0
    BY <1>3
  <2> QED BY <2>1, <2>2, <2>3
<1>6. /\ m \in Seq(T) /\ Len(m) = k /\ m[k] = e
      /\ \A i \in 1 .. k - 1 : m[i] = a[i]
  <2>1. /\ m \in Seq(T) /\ Len(m) = Len(a) + 1 /\ m[Len(a) + 1] = e
        /\ \A i \in 1 .. Len(a) : m[i] = a[i]
    BY <1>2
  <2>2. (k - 1) + 1 = k
    BY <1>1
  <2> QED BY <1>4, <2>1, <2>2
<1> HIDE DEF m
<1> DEFINE r == m \o b
<1>7. /\ r \in Seq(T) /\ Len(r) = Len(m) + Len(b)
      /\ \A i \in 1 .. Len(m) : r[i] = m[i]
      /\ \A i \in 1 .. Len(b) : r[Len(m) + i] = b[i]
  <2>1. m \in Seq(T) /\ b \in Seq(T)
    BY <1>3, <1>6
  <2> QED BY <2>1, ConcatProperties
<1>8. InsertAt(s, k, e) = r
  BY DEF InsertAt, r, m, a, b, L
<1> HIDE DEF r
<1>9. Len(r) = L + 1
  <2>1. k + (L - k + 1) = L + 1
    BY <1>1
  <2> QED BY <1>5, <1>6, <1>7, <2>1
<1>10. DOMAIN r = 1 .. L + 1
  BY <1>7, <1>9
<1>11. r[k] = e
  <2>1. k \in 1 .. Len(m)
    BY <1>1, <1>6
  <2> QED BY <1>6, <1>7, <2>1
<1>12. ASSUME NEW i \in 1 .. L, i < k PROVE r[i] = s[i]
  <2>1. i \in 1 .. Len(m) /\ i \in 1 .. k - 1 /\ 1 + i - 1 = i
    BY <1>1, <1>6, <1>12
  <2>2. r[i] = m[i] /\ m[i] = a[i]
    BY <1>6, <1>7, <2>1
  <2>3. a[i] = s[1 + i - 1]
    BY <1>2, <1>4, <2>1
  <2> QED BY <2>1, <2>2, <2>3
<1>13. ASSUME NEW i \in 1 .. L, i >= k PROVE r[i + 1] = s[i]
  <2> DEFINE j == i - k + 1
  <2>1. j \in 1 .. L - k + 1 /\ k + j = i + 1 /\ k + j - 1 = i
    BY <1>1, <1>13
  <2> HIDE DEF j
  <2>2. j \in 1 .. Len(b)
    BY <1>5, <2>1
  <2>3. r[Len(m) + j] = b[j]
    BY <1>7, <2>2
  <2>4. b[j] = s[k + j - 1]
    BY <1>3, <2>1
  <2> QED BY <1>6, <2>1, <2>3, <2>4
<1> QED BY <1>7, <1>8, <1>9, <1>10, <1>11, <1>12, <1>13 DEF L, IsInserted

(* What OP_CLOSURE has when it has taken some of its operands: the list and  *)
(* the upvalues, in order, with those there were before, and the closure's   *)
(* upvalues so far.  Its locals are not above the slot max.                  *)
CaptureType == [open : Seq(Nat), upvalues : Seq(UpvalueSet(Heap, instances)), captured : Seq(Nat)]

OpenAt(s, k) == s.upvalues[s.open[k]].location
ThisAt(s, k) == s.upvalues[s.open[k]].this

ListOK(s, max) ==
  /\ \A k \in DOMAIN s.open :
       /\ s.open[k] \in DOMAIN s.upvalues /\ OpenAt(s, k) \in Slot /\ OpenAt(s, k) <= max
       /\ \A j \in DOMAIN frames : OpenAt(s, k) = frames[j].slots => ThisAt(s, k)
  /\ \A j, k \in DOMAIN s.open : j < k => OpenAt(s, j) > OpenAt(s, k)
  /\ \A u \in DOMAIN s.upvalues :
       s.upvalues[u].location # Closed => \E k \in DOMAIN s.open : s.open[k] = u

CaptureOK(s, max) ==
  /\ s \in CaptureType /\ ListOK(s, max)
  /\ \A u \in DOMAIN upvalues : u \in DOMAIN s.upvalues /\ s.upvalues[u] = upvalues[u]
  /\ \A k \in DOMAIN s.captured : s.captured[k] \in DOMAIN s.upvalues

(* The fields of what OP_CLOSURE builds up.                                  *)
LEMMA CaptureTypes ==
  ASSUME NEW s \in CaptureType
  PROVE  /\ s.open \in Seq(Nat) /\ Len(s.open) \in Nat /\ DOMAIN s.open = 1 .. Len(s.open)
         /\ s.upvalues \in Seq(UpvalueSet(Heap, instances)) /\ Len(s.upvalues) \in Nat
         /\ DOMAIN s.upvalues = 1 .. Len(s.upvalues)
         /\ s.captured \in Seq(Nat) /\ Len(s.captured) \in Nat
         /\ DOMAIN s.captured = 1 .. Len(s.captured)
         /\ s = [open |-> s.open, upvalues |-> s.upvalues, captured |-> s.captured]
<1>1. /\ s.open \in Seq(Nat) /\ s.upvalues \in Seq(UpvalueSet(Heap, instances))
      /\ s.captured \in Seq(Nat)
      /\ s = [open |-> s.open, upvalues |-> s.upvalues, captured |-> s.captured]
  BY DEF CaptureType
<1> QED BY <1>1

(* The closure's next upvalue is one there is.                               *)
Taken(s, u) == [open |-> s.open, upvalues |-> s.upvalues, captured |-> Append(s.captured, u)]

(* An upvalue that is captured again.                                        *)
LEMMA TakenOK ==
  ASSUME NEW s, NEW max, CaptureOK(s, max), NEW u \in DOMAIN s.upvalues
  PROVE  CaptureOK(Taken(s, u), max)
<1> DEFINE r == Taken(s, u)
<1>1. s \in CaptureType /\ ListOK(s, max)
  BY DEF CaptureOK
<1>2. /\ s.captured \in Seq(Nat) /\ Len(s.captured) \in Nat
      /\ DOMAIN s.captured = 1 .. Len(s.captured) /\ u \in Nat
      /\ s.open \in Seq(Nat) /\ s.upvalues \in Seq(UpvalueSet(Heap, instances))
  BY <1>1, CaptureTypes
<1>3. /\ Append(s.captured, u) \in Seq(Nat)
      /\ DOMAIN Append(s.captured, u) = 1 .. Len(s.captured) + 1
      /\ Append(s.captured, u)[Len(s.captured) + 1] = u
      /\ \A k \in DOMAIN s.captured : Append(s.captured, u)[k] = s.captured[k]
  BY <1>2
<1>4. /\ r.open = s.open /\ r.upvalues = s.upvalues /\ r.captured = Append(s.captured, u)
      /\ r \in CaptureType
  BY <1>2, <1>3 DEF Taken, CaptureType
<1> HIDE DEF r
<1>5. ListOK(r, max)
  BY <1>1, <1>4 DEF ListOK, OpenAt, ThisAt
<1>6. ASSUME NEW k \in DOMAIN r.captured PROVE r.captured[k] \in DOMAIN r.upvalues
  <2>1. k \in DOMAIN s.captured \/ k = Len(s.captured) + 1
    BY <1>2, <1>3, <1>4
  <2> QED BY <1>3, <1>4, <2>1 DEF CaptureOK
<1>7. CaptureOK(r, max)
  BY <1>4, <1>5, <1>6 DEF CaptureOK
<1> QED BY <1>7 DEF r

(* A new upvalue goes where the walk down the list stopped.                  *)
Added(s, k, slot) ==
  [open     |-> InsertAt(s.open, k, Len(s.upvalues) + 1),
   upvalues |-> Append(s.upvalues, Upvalue(slot)),
   captured |-> Append(s.captured, Len(s.upvalues) + 1)]

(* A new upvalue goes to its place in the open list.                         *)
LEMMA AddedOK ==
  ASSUME NEW s, NEW max, CaptureOK(s, max), NEW slot \in Slot, slot <= max,
         \A j \in DOMAIN frames : slot = frames[j].slots => slot = Frame.slots,
         NEW k \in 1 .. Len(s.open) + 1,
         \A i \in DOMAIN s.open : i < k => OpenAt(s, i) > slot,
         \A i \in DOMAIN s.open : i >= k => OpenAt(s, i) < slot
  PROVE  CaptureOK(Added(s, k, slot), max)
<1> DEFINE new == Upvalue(slot)
           L == Len(s.open)
           N == Len(s.upvalues)
           ups == Append(s.upvalues, new)
           list == InsertAt(s.open, k, N + 1)
           r == Added(s, k, slot)
<1>1. s \in CaptureType /\ ListOK(s, max)
  BY DEF CaptureOK
<1>2. /\ s.open \in Seq(Nat) /\ L \in Nat /\ DOMAIN s.open = 1 .. L
      /\ s.upvalues \in Seq(UpvalueSet(Heap, instances)) /\ N \in Nat
      /\ DOMAIN s.upvalues = 1 .. N
      /\ s.captured \in Seq(Nat) /\ Len(s.captured) \in Nat
      /\ DOMAIN s.captured = 1 .. Len(s.captured)
  BY <1>1, CaptureTypes
<1>3. /\ new \in UpvalueSet(Heap, instances) /\ new.location = slot
      /\ (slot = Frame.slots => new.this)
  <2>1. slot \in 0 .. MaxSlots
    BY InterpAssumption DEF Slot
  <2>2. NIL \in Values(Heap, instances)
    BY InterpAssumption, PlainIsValue
  <2>3. (slot = Frame.slots) \in BOOLEAN
    OBVIOUS
  <2> QED BY <2>1, <2>2, <2>3 DEF UpvalueSet, Upvalue
<1> HIDE DEF new
<1>4. /\ ups \in Seq(UpvalueSet(Heap, instances)) /\ DOMAIN ups = 1 .. N + 1
      /\ ups[N + 1] = new /\ \A u \in 1 .. N : ups[u] = s.upvalues[u]
  BY <1>2, <1>3
<1>5. /\ list \in Seq(Nat) /\ DOMAIN list = 1 .. L + 1
      /\ list[k] = N + 1
      /\ \A i \in 1 .. L : i < k => list[i] = s.open[i]
      /\ \A i \in 1 .. L : i >= k => list[i + 1] = s.open[i]
  <2> DEFINE q == s.open
             e == N + 1
  <2>1. q \in Seq(Nat) /\ k \in 1 .. Len(q) + 1 /\ e \in Nat
    BY <1>2
  <2> HIDE DEF q, e
  <2>2. IsInserted(InsertAt(q, k, e), Nat, q, k, e)
    BY <2>1, Inserted
  <2> QED BY <2>2 DEF q, e, IsInserted
<1>6. /\ Append(s.captured, N + 1) \in Seq(Nat)
      /\ DOMAIN Append(s.captured, N + 1) = 1 .. Len(s.captured) + 1
      /\ Append(s.captured, N + 1)[Len(s.captured) + 1] = N + 1
      /\ \A i \in DOMAIN s.captured : Append(s.captured, N + 1)[i] = s.captured[i]
  <2>1. N + 1 \in Nat
    BY <1>2
  <2> HIDE DEF N
  <2> QED BY <1>2, <2>1
<1>7. /\ r.open = list /\ r.upvalues = ups /\ r.captured = Append(s.captured, N + 1)
      /\ r \in CaptureType
  BY <1>4, <1>5, <1>6 DEF Added, CaptureType, new
<1> HIDE DEF r, list, ups
(* The elements of the new list, by their place.                             *)
<1>8. ASSUME NEW i \in DOMAIN list
      PROVE  \/ /\ i = k /\ list[i] = N + 1 /\ OpenAt(r, i) = slot
                /\ (slot = Frame.slots => ThisAt(r, i))
             \/ /\ i < k /\ i \in DOMAIN s.open /\ list[i] = s.open[i]
                /\ OpenAt(r, i) = OpenAt(s, i) /\ ThisAt(r, i) = ThisAt(s, i)
             \/ /\ i > k /\ i - 1 \in DOMAIN s.open /\ i - 1 >= k /\ list[i] = s.open[i - 1]
                /\ OpenAt(r, i) = OpenAt(s, i - 1) /\ ThisAt(r, i) = ThisAt(s, i - 1)
  <2>0. i \in 1 .. L + 1 /\ k \in 1 .. L + 1
    BY <1>5
  <2>1. CASE i = k
    BY <1>3, <1>4, <1>5, <1>7, <2>1, <1>2 DEF OpenAt, ThisAt
  <2>2. CASE i < k
    <3>1. i \in 1 .. L
      BY <1>2, <2>0, <2>2
    <3>2. list[i] = s.open[i] /\ s.open[i] \in 1 .. N
      BY <1>1, <1>2, <1>5, <2>2, <3>1 DEF ListOK
    <3> QED BY <1>2, <1>4, <1>7, <2>2, <3>1, <3>2 DEF OpenAt, ThisAt
  <2>3. CASE i > k
    <3>1. i - 1 \in 1 .. L /\ i - 1 >= k /\ (i - 1) + 1 = i
      BY <1>2, <2>0, <2>3
    <3>2. list[i] = s.open[i - 1] /\ s.open[i - 1] \in 1 .. N
      BY <1>1, <1>2, <1>5, <3>1 DEF ListOK
    <3> QED BY <1>2, <1>4, <1>7, <2>3, <3>1, <3>2 DEF OpenAt, ThisAt
  <2> QED BY <1>2, <2>0, <2>1, <2>2, <2>3
<1>9. ASSUME NEW i \in DOMAIN list
      PROVE  /\ list[i] \in 1 .. N + 1 /\ OpenAt(r, i) \in Slot /\ OpenAt(r, i) <= max
             /\ \A j \in DOMAIN frames : OpenAt(r, i) = frames[j].slots => ThisAt(r, i)
  <2>1. CASE /\ i = k /\ list[i] = N + 1 /\ OpenAt(r, i) = slot
             /\ (slot = Frame.slots => ThisAt(r, i))
    BY <1>2, <2>1
  <2>2. CASE i # k
    <3>1. PICK x \in DOMAIN s.open :
            list[i] = s.open[x] /\ OpenAt(r, i) = OpenAt(s, x) /\ ThisAt(r, i) = ThisAt(s, x)
      BY <1>8, <2>2
    <3>2. /\ s.open[x] \in 1 .. N /\ OpenAt(s, x) \in Slot /\ OpenAt(s, x) <= max
          /\ \A j \in DOMAIN frames : OpenAt(s, x) = frames[j].slots => ThisAt(s, x)
      BY <1>1, <1>2, <3>1 DEF ListOK
    <3> QED BY <1>2, <3>1, <3>2
  <2>3. i \in Nat /\ k \in Nat
    BY <1>5
  <2> QED BY <1>8, <2>1, <2>2, <2>3
<1>10. ASSUME NEW i \in DOMAIN list, NEW j \in DOMAIN list, i < j
       PROVE  OpenAt(r, i) > OpenAt(r, j)
  <2>0. i \in Nat /\ j \in Nat /\ k \in Nat
    BY <1>5
  <2>1. \A x, y \in DOMAIN s.open : x < y => OpenAt(s, x) > OpenAt(s, y)
    BY <1>1 DEF ListOK
  <2>2. CASE i < k /\ j < k
    <3>1. /\ i \in DOMAIN s.open /\ OpenAt(r, i) = OpenAt(s, i)
          /\ j \in DOMAIN s.open /\ OpenAt(r, j) = OpenAt(s, j)
      BY <1>8, <2>0, <2>2
    <3> QED BY <1>10, <2>1, <3>1
  <2>3. CASE i < k /\ j = k
    <3>1. i \in DOMAIN s.open /\ OpenAt(r, i) = OpenAt(s, i) /\ OpenAt(r, j) = slot
      BY <1>8, <2>0, <2>3
    <3> QED BY <2>3, <3>1
  <2>4. CASE i < k /\ j > k
    <3>1. /\ i \in DOMAIN s.open /\ OpenAt(r, i) = OpenAt(s, i)
          /\ j - 1 \in DOMAIN s.open /\ j - 1 >= k /\ OpenAt(r, j) = OpenAt(s, j - 1)
      BY <1>8, <2>0, <2>4
    <3>2. i < j - 1
      BY <2>0, <2>4, <3>1
    <3> QED BY <2>1, <3>1, <3>2
  <2>5. CASE i = k /\ j > k
    <3>1. /\ j - 1 \in DOMAIN s.open /\ j - 1 >= k /\ OpenAt(r, j) = OpenAt(s, j - 1)
          /\ OpenAt(r, i) = slot
      BY <1>8, <2>0, <2>5
    <3>2. OpenAt(s, j - 1) < slot
      BY <3>1
    <3>3. OpenAt(s, j - 1) \in Slot
      BY <1>1, <3>1 DEF ListOK
    <3>4. MaxSlots \in Nat
      BY InterpAssumption
    <3> HIDE DEF OpenAt
    <3> QED BY <3>1, <3>2, <3>3, <3>4 DEF Slot
  <2>6. CASE i > k /\ j > k
    <3>1. /\ i - 1 \in DOMAIN s.open /\ OpenAt(r, i) = OpenAt(s, i - 1)
          /\ j - 1 \in DOMAIN s.open /\ OpenAt(r, j) = OpenAt(s, j - 1)
      BY <1>8, <2>0, <2>6
    <3>2. i - 1 < j - 1
      BY <1>10, <2>0
    <3> QED BY <2>1, <3>1, <3>2
  <2> QED BY <1>10, <2>0, <2>2, <2>3, <2>4, <2>5, <2>6
<1>11. ASSUME NEW u \in 1 .. N + 1, ups[u].location # Closed
       PROVE  \E i \in DOMAIN list : list[i] = u
  <2>1. CASE u = N + 1
    BY <1>5, <2>1
  <2>2. CASE u # N + 1
    <3>1. u \in 1 .. N /\ s.upvalues[u].location # Closed
      BY <1>2, <1>4, <1>11, <2>2
    <3>2. PICK x \in 1 .. L : s.open[x] = u
      BY <1>1, <1>2, <3>1 DEF ListOK
    <3>3. CASE x < k
      <4>1. x \in DOMAIN list
        BY <1>2, <1>5
      <4> QED BY <1>5, <3>2, <3>3, <4>1
    <3>4. CASE x >= k
      <4>1. x + 1 \in DOMAIN list
        BY <1>2, <1>5
      <4> QED BY <1>5, <3>2, <3>4, <4>1
    <3> QED BY <1>2, <3>3, <3>4
  <2> QED BY <2>1, <2>2
<1>12. ListOK(r, max)
  BY <1>4, <1>7, <1>9, <1>10, <1>11 DEF ListOK
<1>13. \A u \in DOMAIN upvalues : u \in DOMAIN r.upvalues /\ r.upvalues[u] = upvalues[u]
  <2> TAKE u \in DOMAIN upvalues
  <2>1. u \in 1 .. N /\ s.upvalues[u] = upvalues[u]
    BY <1>2 DEF CaptureOK
  <2> QED BY <1>2, <1>4, <1>7, <2>1
<1>14. ASSUME NEW i \in DOMAIN r.captured PROVE r.captured[i] \in DOMAIN r.upvalues
  <2>1. CASE i = Len(s.captured) + 1
    BY <1>2, <1>4, <1>6, <1>7, <2>1
  <2>2. CASE i # Len(s.captured) + 1
    <3>1. i \in DOMAIN s.captured
      BY <1>2, <1>6, <1>7, <2>2
    <3>2. s.captured[i] \in 1 .. N
      BY <1>2, <3>1 DEF CaptureOK
    <3> QED BY <1>2, <1>4, <1>6, <1>7, <3>1, <3>2
  <2> QED BY <2>1, <2>2
<1>15. CaptureOK(r, max)
  BY <1>7, <1>12, <1>13, <1>14 DEF CaptureOK
<1> QED BY <1>15 DEF r

(* captureUpvalue keeps the open list in descending order.                   *)
LEMMA captureUpvalueOK ==
  ASSUME NEW s, NEW max, CaptureOK(s, max), NEW slot \in Slot, slot <= max,
         \A j \in DOMAIN frames : slot = frames[j].slots => slot = Frame.slots
  PROVE  CaptureOK(captureUpvalue(s, slot), max)
<1> DEFINE k == Position(s.open, s.upvalues, slot)
<1>1. s \in CaptureType /\ ListOK(s, max)
  BY DEF CaptureOK
<1>2. /\ Len(s.open) \in Nat /\ DOMAIN s.open = 1 .. Len(s.open)
      /\ s = [open |-> s.open, upvalues |-> s.upvalues, captured |-> s.captured]
  BY <1>1, CaptureTypes
<1>3. slot \in Int
  BY InterpAssumption DEF Slot
<1>4. /\ k \in 1 .. Len(s.open) + 1
      /\ \A i \in DOMAIN s.open : i < k => ~ (OpenAt(s, i) <= slot)
      /\ k <= Len(s.open) => OpenAt(s, k) <= slot
  BY <1>2, <1>3, PositionIs DEF OpenAt
<1> HIDE DEF k
<1>5. CASE k <= Len(s.open) /\ OpenAt(s, k) = slot
  <2>1. captureUpvalue(s, slot) = [s EXCEPT !.captured = Append(@, s.open[k])]
    BY <1>5 DEF captureUpvalue, k, OpenAt
  <2>2. captureUpvalue(s, slot) = Taken(s, s.open[k])
    BY <1>2, <2>1 DEF Taken
  <2>3. s.open[k] \in DOMAIN s.upvalues
    BY <1>1, <1>2, <1>4, <1>5 DEF ListOK
  <2> QED BY <2>2, <2>3, TakenOK
<1>6. CASE ~ (k <= Len(s.open) /\ OpenAt(s, k) = slot)
  <2>1. captureUpvalue(s, slot) = Added(s, k, slot)
    BY <1>6 DEF captureUpvalue, Added, k, OpenAt
  <2>2. \A i \in DOMAIN s.open : OpenAt(s, i) \in Slot
    BY <1>1 DEF ListOK
  <2>3. ASSUME NEW i \in DOMAIN s.open, i < k PROVE OpenAt(s, i) > slot
    <3>1. ~ (OpenAt(s, i) <= slot) /\ OpenAt(s, i) \in Slot
      BY <1>4, <2>2, <2>3
    <3> HIDE DEF OpenAt
    <3> QED BY <3>1, InterpAssumption DEF Slot
  <2>4. ASSUME NEW i \in DOMAIN s.open, i >= k PROVE OpenAt(s, i) < slot
    <3>1. k \in DOMAIN s.open /\ k <= Len(s.open)
      BY <1>2, <1>4, <2>4
    <3>2. OpenAt(s, k) <= slot /\ OpenAt(s, k) # slot /\ OpenAt(s, k) \in Slot
      BY <1>4, <1>6, <2>2, <3>1
    <3>3. OpenAt(s, i) = OpenAt(s, k) \/ OpenAt(s, k) > OpenAt(s, i)
      <4>1. i = k \/ k < i
        BY <1>2, <1>4, <2>4
      <4>2. \A x, y \in DOMAIN s.open : x < y => OpenAt(s, x) > OpenAt(s, y)
        BY <1>1 DEF ListOK
      <4> QED BY <3>1, <4>1, <4>2
    <3>4. OpenAt(s, i) \in Slot
      BY <2>2
    <3> HIDE DEF OpenAt
    <3> QED BY <3>2, <3>3, <3>4, InterpAssumption DEF Slot
  <2> QED BY <1>4, <2>1, <2>3, <2>4, AddedOK
<1> QED BY <1>5, <1>6

(* One operand of OP_CLOSURE.                                                *)
Captured(s, op) ==
  IF op.isLocal THEN captureUpvalue(s, Local(op.index))
  ELSE [s EXCEPT !.captured = Append(@, FrameUpvalues[op.index])]

HighestLocal(method) == top - (IF method THEN 2 ELSE 0)

(* One operand of OP_CLOSURE.                                                *)
LEMMA CapturedOK ==
  ASSUME IInv, Running, top < MaxSlots, NEW method \in BOOLEAN,
         NEW s, CaptureOK(s, HighestLocal(method)), NEW op \in Operands(method)
  PROVE  CaptureOK(Captured(s, op), HighestLocal(method))
<1>1. /\ OK(Machine, Heap) /\ frames # <<>> /\ top \in Nat /\ MaxSlots \in Nat
      /\ Frame.slots \in Slot /\ Frame = Last(frames)
  BY RunningOK
<1>2. \A j \in DOMAIN frames : frames[j].slots \in Slot /\ frames[j].slots <= Frame.slots
  <2>1. MachineOK(Machine, Heap) /\ Machine \in MachineSet(Heap, Machine.instances)
    BY <1>1 DEF OK, MachineOK
  <2> QED BY <1>1, <2>1, MachineFields, MachineTypes, RunningFrame
<1>3. s \in CaptureType
  BY DEF CaptureOK
<1>4. CASE op.isLocal
  <2>1. op.index \in Slot /\ Local(op.index) <= HighestLocal(method)
    BY <1>4 DEF Operands, HighestLocal
  <2>2. /\ Local(op.index) \in Slot
        /\ \A j \in DOMAIN frames :
             Local(op.index) = frames[j].slots => Local(op.index) = Frame.slots
    <3> DEFINE i == op.index
    <3>1. i \in Nat /\ Frame.slots \in Nat /\ Local(i) = Frame.slots + i
      BY <1>1, <2>1 DEF Local, Slot
    <3>2. HighestLocal(method) <= top /\ HighestLocal(method) \in Int
      BY <1>1 DEF HighestLocal
    <3>3. Local(i) <= HighestLocal(method)
      BY <2>1
    <3> HIDE DEF i
    <3>4. Local(i) \in Slot
      BY <1>1, <3>1, <3>2, <3>3 DEF Slot
    <3>5. \A j \in DOMAIN frames : Local(i) = frames[j].slots => Local(i) = Frame.slots
      BY <1>2, <3>1 DEF Slot
    <3> QED BY <3>4, <3>5 DEF i
  <2>3. Captured(s, op) = captureUpvalue(s, Local(op.index))
    BY <1>4 DEF Captured
  <2> QED BY <2>1, <2>2, <2>3, captureUpvalueOK
<1>5. CASE ~ op.isLocal
  <2>1. op.index \in DOMAIN FrameUpvalues
    BY <1>5 DEF Operands
  <2>2. FrameUpvalues[op.index] \in DOMAIN upvalues
    BY <2>1, FrameUpvalueIndex
  <2>3. FrameUpvalues[op.index] \in DOMAIN s.upvalues
    BY <2>2 DEF CaptureOK
  <2>4. Captured(s, op) = Taken(s, FrameUpvalues[op.index])
    <3>1. s = [open |-> s.open, upvalues |-> s.upvalues, captured |-> s.captured]
      BY <1>3, CaptureTypes
    <3>2. Captured(s, op) = [s EXCEPT !.captured = Append(@, FrameUpvalues[op.index])]
      BY <1>5 DEF Captured
    <3> QED BY <3>1, <3>2 DEF Taken
  <2> QED BY <2>3, <2>4, TakenOK
<1> QED BY <1>4, <1>5

(* Before the first operand the list is as it was.                           *)
LEMMA CaptureStarts ==
  ASSUME IInv, Running, NEW method \in BOOLEAN, method => Temporaries(1)
  PROVE  CaptureOK([open |-> open, upvalues |-> upvalues, captured |-> <<>>],
                   HighestLocal(method))
<1> DEFINE s == [open |-> open, upvalues |-> upvalues, captured |-> <<>>]
           max == HighestLocal(method)
<1>1. /\ OK(Machine, Heap) /\ frames # <<>> /\ top \in Nat /\ MaxSlots \in Nat
  BY RunningOK
<1>2. /\ upvalues \in Seq(UpvalueSet(Heap, instances)) /\ DOMAIN upvalues = 1 .. Len(upvalues)
      /\ open \in Seq(DOMAIN upvalues)
      /\ \A k \in DOMAIN open :
           /\ open[k] \in DOMAIN upvalues /\ upvalues[open[k]].location < top
           /\ upvalues[open[k]].location \in Slot
           /\ \A j \in DOMAIN frames :
                upvalues[open[k]].location = frames[j].slots => upvalues[open[k]].this
      /\ \A j, k \in DOMAIN open : j < k =>
           upvalues[open[j]].location > upvalues[open[k]].location
      /\ \A u \in DOMAIN upvalues :
           upvalues[u].location # Closed => \E k \in DOMAIN open : u = open[k]
  BY UpvalueFacts
<1>3. /\ s.open = open /\ s.upvalues = upvalues /\ s.captured = <<>>
      /\ s \in CaptureType
  <2>1. open \in Seq(Nat)
    BY <1>2
  <2> QED BY <1>2, <2>1 DEF CaptureType
<1> HIDE DEF s
<1>4. ASSUME NEW k \in DOMAIN open PROVE upvalues[open[k]].location <= max
  <2>1. upvalues[open[k]].location \in Nat /\ upvalues[open[k]].location < top
    BY <1>2 DEF Slot
  <2>2. CASE ~ method
    BY <1>1, <2>1, <2>2 DEF HighestLocal
  <2>3. CASE method
    <3>1. Room(Machine, Heap, 1)
      BY <2>3, TemporariesRoom
    <3>2. upvalues[open[k]].location < top - 1
      BY <3>1, MachineFields, HeapFields DEF Room, Location
    <3>3. max = top - 2
      BY <2>3 DEF HighestLocal
    <3> HIDE DEF max
    <3> QED BY <1>1, <2>1, <3>2, <3>3
  <2> QED BY <2>2, <2>3
<1> HIDE DEF max
<1>5. ListOK(s, max)
  BY <1>2, <1>3, <1>4 DEF ListOK, OpenAt, ThisAt
<1>6. CaptureOK(s, max)
  BY <1>3, <1>5 DEF CaptureOK
<1> QED BY <1>6 DEF s, max

(* What FoldLeft makes of the operands.                                      *)
Start == [open |-> open, upvalues |-> upvalues, captured |-> <<>>]

Folded(operands) ==
  LET fold == CHOOSE g : g = [s \in SUBSET DOMAIN operands |->
                                IF s = {} THEN Start
                                ELSE Captured(g[s \ {Max(s)}], operands[Max(s)])]
  IN fold[DOMAIN operands]

(* All operands of OP_CLOSURE, by induction on how many are done.            *)
LEMMA FoldedOK ==
  ASSUME IInv, Running, top < MaxSlots, NEW method \in BOOLEAN, method => Temporaries(1),
         NEW n \in Nat, NEW operands \in [1 .. n -> Operands(method)]
  PROVE  CaptureOK(Folded(operands), HighestLocal(method))
<1> DEFINE max == HighestLocal(method)
           A == {s \in CaptureType : CaptureOK(s, max)}
           step == [p \in A \X (1 .. n) |-> Captured(p[1], operands[p[2]])]
           fold == CHOOSE g : g = [s \in SUBSET DOMAIN operands |->
                                     IF s = {} THEN Start
                                     ELSE Captured(g[s \ {Max(s)}], operands[Max(s)])]
<1>1. DOMAIN operands = 1 .. n /\ \A i \in 1 .. n : operands[i] \in Operands(method)
  OBVIOUS
<1>2. Start \in A
  <2>1. CaptureOK(Start, max)
    BY CaptureStarts DEF Start
  <2> QED BY <2>1 DEF CaptureOK
<1>3. ASSUME NEW s \in A, NEW i \in 1 .. n
      PROVE  Captured(s, operands[i]) \in A
  <2>1. CaptureOK(Captured(s, operands[i]), max)
    BY <1>1, CapturedOK
  <2> QED BY <2>1 DEF CaptureOK
<1> HIDE DEF A
<1>4. step \in [A \X (1 .. n) -> A]
  BY <1>3
<1>5. \A s \in A, i \in 1 .. n : step[<<s, i>>] = Captured(s, operands[i])
  OBVIOUS
<1> HIDE DEF step
<1>6. PICK g : Folds(g, A, Start, n, step)
  BY <1>2, <1>4, FoldExists
<1> DEFINE IsFold(f) == f = [s \in SUBSET DOMAIN operands |->
                               IF s = {} THEN Start
                               ELSE Captured(f[s \ {Max(s)}], operands[Max(s)])]
<1>7. \A f : IsFold(f) => Folds(f, A, Start, n, step)
  <2> SUFFICES ASSUME NEW f, IsFold(f) PROVE Folds(f, A, Start, n, step)
    OBVIOUS
  <2> DEFINE T == {m \in 0 .. n : \A s \in SUBSET (1 .. m) : f[s] \in A}
  <2>1. \A s \in SUBSET (1 .. n) :
          f[s] = IF s = {} THEN Start ELSE Captured(f[s \ {Max(s)}], operands[Max(s)])
    BY <1>1
  <2>2. DOMAIN f = SUBSET (1 .. n) /\ f = [s \in SUBSET (1 .. n) |-> f[s]]
    BY <1>1
  <2> HIDE DEF IsFold
  <2>3. 0 \in T
    <3>1. \A s \in SUBSET (1 .. 0) : s = {} /\ s \in SUBSET (1 .. n)
      OBVIOUS
    <3>2. \A s \in SUBSET (1 .. 0) : f[s] = Start
      BY <2>1, <3>1
    <3> QED BY <1>2, <3>2
  <2>4. ASSUME NEW m \in 1 .. n, m - 1 \in T PROVE m \in T
    <3>0. m \in Nat /\ m \in 0 .. n /\ m - 1 \in Nat /\ (m - 1) + 1 = m /\ (1 .. m) \subseteq (1 .. n)
      OBVIOUS
    <3> SUFFICES ASSUME NEW s \in SUBSET (1 .. m) PROVE f[s] \in A
      BY <3>0
    <3>6. CASE s = {}
      BY <1>2, <2>1, <3>6
    <3> SUFFICES ASSUME s # {} PROVE f[s] \in A
      BY <3>6
    <3>1. Max(s) \in s
      <4>1. s \in SUBSET (1 .. m) /\ m \in Nat
        BY <3>0
      <4> QED BY <4>1, MaxIn
    <3>2. s \in SUBSET (1 .. n) /\ Max(s) \in 1 .. n
      BY <3>0, <3>1
    <3>3. s \ {Max(s)} \in SUBSET (1 .. m - 1)
      <4>1. CASE m \in s
        <5>1. Max(s) = m
          <6>1. m - 1 \in Nat /\ s \in SUBSET (1 .. (m - 1) + 1) /\ (m - 1) + 1 \in s
            BY <3>0, <4>1
          <6>2. Max(s) = (m - 1) + 1
            BY <6>1, MaxOf
          <6> QED BY <3>0, <6>2
        <5>2. \A i \in 1 .. m : i # m => i \in 1 .. m - 1
          BY <3>0
        <5> QED BY <5>1, <5>2
      <4>2. CASE m \notin s
        <5>1. \A i \in 1 .. m : i # m => i \in 1 .. m - 1
          BY <3>0
        <5> QED BY <4>2, <5>1
      <4> QED BY <4>1, <4>2
    <3>4. f[s \ {Max(s)}] \in A
      BY <2>4, <3>3
    <3>5. f[s] = Captured(f[s \ {Max(s)}], operands[Max(s)])
      BY <2>1, <3>2
    <3> QED BY <1>3, <3>2, <3>4, <3>5
  <2> HIDE DEF T
  <2>5. n \in T
    BY <2>3, <2>4, UpTo
  <2>6. f \in [SUBSET (1 .. n) -> A]
    BY <2>2, <2>5 DEF T
  <2>7. ASSUME NEW s \in SUBSET (1 .. n)
        PROVE  f[s] = IF s = {} THEN Start ELSE step[<<f[s \ {Max(s)}], Max(s)>>]
    <3>1. CASE s = {}
      BY <2>1, <3>1
    <3>2. CASE s # {}
      <4>1. Max(s) \in 1 .. n /\ s \ {Max(s)} \in SUBSET (1 .. n)
        BY <3>2, MaxIn
      <4>2. f[s \ {Max(s)}] \in A
        BY <2>6, <4>1
      <4> QED BY <1>5, <2>1, <3>2, <4>1, <4>2
    <3> QED BY <3>1, <3>2
  <2> QED BY <2>6, <2>7 DEF Folds
<1>8. IsFold(g)
  <2>1. \A s \in SUBSET (1 .. n) :
          g[s] = IF s = {} THEN Start ELSE Captured(g[s \ {Max(s)}], operands[Max(s)])
    <3> TAKE s \in SUBSET (1 .. n)
    <3>1. CASE s = {}
      BY <1>6, <3>1 DEF Folds
    <3>2. CASE s # {}
      <4>1. Max(s) \in 1 .. n /\ s \ {Max(s)} \in SUBSET (1 .. n)
        BY <3>2, MaxIn
      <4>2. g[s \ {Max(s)}] \in A
        BY <1>6, <4>1 DEF Folds
      <4> QED BY <1>5, <1>6, <3>2, <4>1, <4>2 DEF Folds
    <3> QED BY <3>1, <3>2
  <2>2. DOMAIN g = SUBSET (1 .. n) /\ g = [s \in SUBSET (1 .. n) |-> g[s]]
    BY <1>6 DEF Folds
  <2> QED BY <1>1, <2>1, <2>2
<1>9. IsFold(fold)
  <2>1. fold = CHOOSE f : IsFold(f)
    OBVIOUS
  <2> HIDE DEF IsFold, fold
  <2> QED BY <1>8, <2>1
<1>10. Folded(operands) = fold[DOMAIN operands]
  BY DEF Folded
<1> HIDE DEF IsFold, fold
<1>11. fold[1 .. n] \in A
  <2>1. (1 .. n) \in SUBSET (1 .. n)
    OBVIOUS
  <2> QED BY <1>7, <1>9, <2>1 DEF Folds
<1> QED BY <1>1, <1>10, <1>11 DEF A

(* A sequence of other elements.                                             *)
LEMMA Retyped ==
  ASSUME NEW S, NEW T, NEW s \in Seq(S), \A k \in DOMAIN s : s[k] \in T
  PROVE  s \in Seq(T)
<1>1. Len(s) \in Nat /\ DOMAIN s = 1 .. Len(s) /\ s = [k \in 1 .. Len(s) |-> s[k]]
  OBVIOUS
<1>2. s \in [1 .. Len(s) -> T]
  BY <1>1
<1> QED BY <1>1, <1>2

(* OP_CLOSURE.                                                               *)
LEMMA ClosureOK ==
  ASSUME IInv, Running, NEW a \in Nat, NEW n \in Nat, NEW method \in BOOLEAN,
         NEW operands \in [1 .. n -> Operands(method)], Closure(a, operands, method)
  PROVE  IInv' /\ Stable
<1> DEFINE s   == Folded(operands)
           N   == Len(closures)
           c   == [arity |-> a, upvalues |-> s.captured, method |-> method]
           max == HighestLocal(method)
<1>1. /\ method => InClassBody
      /\ N < MaxClosures /\ PushValue(Fn(N + 1))
      /\ closures' = Append(closures, c) /\ open' = s.open /\ upvalues' = s.upvalues
      /\ UNCHANGED <<frames, objects, globals, line>>
  BY DEF Closure, FoldLeft, MapThenFoldSet, Folded, Captured, Start
<1>2. /\ OK(Machine, Heap) /\ frames # <<>> /\ line = 1 /\ top \in 0 .. MaxSlots
      /\ MaxSlots \in Nat /\ Frame = Last(frames) /\ Frame.slots \in Slot
      /\ HeapOK(Heap, instances) /\ MachineOK(Machine, Heap) /\ Live(Machine, Heap, top)
  BY RunningOK, MachineFields DEF OK
<1>3. /\ top < MaxSlots /\ stack' = [stack EXCEPT ![top] = Fn(N + 1)] /\ top' = top + 1
  BY <1>1 DEF PushValue
<1>4. method => /\ Temporaries(1) /\ classes # <<>> /\ peek = Class(Len(classes))
                /\ \A i \in DOMAIN instances : instances[i].class # Len(classes)
  BY <1>1 DEF InClassBody
<1>5. CaptureOK(s, max)
  BY <1>3, <1>4, FoldedOK
<1> HIDE DEF s
<1>6. /\ s.open \in Seq(Nat) /\ DOMAIN s.open = 1 .. Len(s.open)
      /\ s.upvalues \in Seq(UpvalueSet(Heap, instances))
      /\ s.captured \in Seq(Nat)
      /\ DOMAIN s.captured = 1 .. Len(s.captured)
  BY <1>5, CaptureTypes DEF CaptureOK
<1>7. /\ ListOK(s, max)
      /\ \A u \in DOMAIN upvalues : u \in DOMAIN s.upvalues /\ s.upvalues[u] = upvalues[u]
      /\ \A k \in DOMAIN s.captured : s.captured[k] \in DOMAIN s.upvalues
  BY <1>5 DEF CaptureOK
<1>8. /\ Heap'.upvalues = s.upvalues /\ Heap'.closures = closures' /\ Heap'.classes = classes
      /\ Machine'.stack = stack' /\ Machine'.top = top + 1 /\ Machine'.frames = frames
      /\ Machine'.open = s.open /\ Machine'.instances = instances /\ UNCHANGED <<classes, instances>>
  BY <1>1, <1>3 DEF Heap, Machine, objects
<1>9. c \in ClosureSet(Heap') /\ c.method = method
  <2>1. s.captured \in Seq(DOMAIN Heap'.upvalues)
    BY <1>6, <1>7, <1>8, Retyped
  <2> QED BY <2>1 DEF ClosureSet
<1> HIDE DEF c
<1>10. /\ HeapOK(Heap', instances) /\ Grows(Heap, instances, Heap', instances)
       /\ Len(Heap'.closures) = N + 1 /\ N + 1 \in DOMAIN Heap'.closures
       /\ Heap'.closures[N + 1] = c
  <2>1. /\ Heap'.classes = Heap.classes /\ Heap'.closures = Append(Heap.closures, c)
        /\ DOMAIN Heap.upvalues \subseteq DOMAIN Heap'.upvalues
        /\ Heap'.upvalues \in Seq(UpvalueSet(Heap, instances)) /\ N = Len(Heap.closures)
    BY <1>1, <1>6, <1>7, <1>8, HeapFields
  <2> QED BY <1>2, <1>9, <2>1, ClosureAdded
<1> HIDE DEF N
<1>11. /\ ~ method => Fn(N + 1) \in Values(Heap', instances)
       /\ method => N + 1 \in Methods(Heap')
       /\ Fn(N + 1) \in Contents(Heap', instances)
  <2>1. CASE ~ method
    BY <1>9, <1>10, <2>1, FnIsValue
  <2>2. CASE method
    BY <1>9, <1>10, <2>2 DEF Methods, Contents
  <2> QED BY <2>1, <2>2
<1>12. Machine \in MachineSet(Heap', instances)
  <2>1. Machine \in MachineSet(Heap, instances) /\ DOMAIN Heap.upvalues \subseteq DOMAIN Heap'.upvalues
    BY <1>2, <1>7, <1>8, MachineFields, HeapFields DEF MachineOK
  <2> QED BY <1>10, <2>1, MachineSetGrows
<1>13. /\ stack \in [Slot -> Contents(Heap', instances)] /\ frames \in Seq(FrameSet(Heap'))
       /\ instances \in Seq(InstanceSet(Heap', instances))
       /\ \A k \in DOMAIN frames : frames[k].slots \in Slot
  BY <1>12, MachineTypes, MachineFields
<1>14. top \in Slot /\ top \in Nat
  BY <1>2, <1>3 DEF Slot
<1>15. /\ stack' \in [Slot -> Contents(Heap', instances)] /\ stack'[top] = Fn(N + 1)
       /\ \A x \in Slot : x # top => stack'[x] = stack[x]
  BY <1>3, <1>11, <1>13, <1>14
<1>16. \A k \in DOMAIN s.open : s.open[k] \in DOMAIN s.upvalues
  BY <1>7 DEF ListOK
<1>17. Machine' \in MachineSet(Heap', instances)
  <2>1. s.open \in Seq(DOMAIN Heap'.upvalues)
    BY <1>6, <1>8, <1>16, Retyped
  <2>2. top + 1 \in 0 .. MaxSlots
    BY <1>2, <1>3, <1>14
  <2>3. Machine' = [stack |-> stack', top |-> top + 1, frames |-> frames, open |-> s.open,
                    instances |-> instances]
    BY <1>1, <1>3 DEF Machine, objects
  <2> QED BY <1>13, <1>15, <2>1, <2>2, <2>3 DEF MachineSet
<1>18. FramesOK(Machine', Heap')
  <2>1. FramesOK(Machine, Heap')
    BY <1>2, <1>10, MachineFields, FramesStay
  <2>2. ASSUME NEW k \in DOMAIN frames
        PROVE  /\ frames[k].slots < top + 1
               /\ CalleeOK(Machine', Heap', stack'[frames[k].slots], frames[k].closure)
    <3>1. frames[k].slots < top /\ frames[k].slots \in Slot
      BY <1>13, <2>1, MachineFields DEF FramesOK
    <3>2. frames[k].slots < top + 1 /\ frames[k].slots # top
      BY <1>2, <1>14, <3>1 DEF Slot
    <3>3. CalleeOK(Machine, Heap', stack[frames[k].slots], frames[k].closure)
      BY <2>1, MachineFields DEF FramesOK
    <3>4. stack'[frames[k].slots] = stack[frames[k].slots]
      BY <1>15, <3>1, <3>2
    <3> QED BY <1>8, <3>2, <3>3, <3>4, MachineFields DEF CalleeOK
  <2> QED BY <1>2, <1>8, <2>1, <2>2, MachineFields DEF FramesOK
<1>19. max <= top /\ max \in Int /\ (method => max = top - 2)
  BY <1>14 DEF HighestLocal
<1> HIDE DEF max
<1>20. \A k \in DOMAIN s.open : /\ OpenAt(s, k) = Location(Heap', s.open[k])
                                /\ ThisAt(s, k) = This(Heap', s.open[k])
                                /\ OpenAt(s, k) \in Nat /\ OpenAt(s, k) <= max
  BY <1>7, <1>8, InterpAssumption DEF ListOK, OpenAt, ThisAt, Location, This, Slot
<1>21. OpenOK(Machine', Heap')
  <2>1. \A k \in DOMAIN s.open : Location(Heap', s.open[k]) < top + 1
    <3> HIDE DEF OpenAt
    <3> QED BY <1>14, <1>19, <1>20
  <2>2. ASSUME NEW u \in DOMAIN s.upvalues, Location(Heap', u) # Closed
        PROVE  u \in Range(s.open)
    BY <1>7, <1>8, <2>2 DEF ListOK, Location, Range
  <2> QED BY <1>7, <1>8, <1>20, <2>1, <2>2 DEF OpenOK, ListOK
<1>22. \A x \in 0 .. top - 1 : stack'[x] \in Values(Heap', instances)
  <2> TAKE x \in 0 .. top - 1
  <2>1. x \in Slot /\ x # top
    BY <1>2, <1>3, <1>14 DEF Slot
  <2>2. stack[x] \in Values(Heap, instances)
    BY <1>2, MachineFields DEF Live
  <2> QED BY <1>10, <1>15, <2>1, <2>2, ValuesGrow
<1>23. MachineOK(Machine', Heap')
  BY <1>8, <1>17, <1>18, <1>21 DEF MachineOK
<1>24. Bounded'
  <2>1. Len(closures') = N + 1
    BY <1>8, <1>10
  <2>2. N + 1 <= MaxClosures
    <3>1. N \in Nat /\ MaxClosures \in Nat
      BY <1>2, HeapTypes, HeapFields, InterpAssumption DEF N
    <3> QED BY <1>1, <3>1 DEF N
  <2> QED BY <1>8, <2>1, <2>2 DEF Bounded, IInv
<1>25. IInv'
  <2>1. CASE ~ method
    <3>1. Live(Machine', Heap', Machine'.top)
      <4>1. \A x \in 0 .. (top + 1) - 1 : x \in 0 .. top - 1 \/ x = top
        BY <1>14
      <4> QED BY <1>8, <1>11, <1>15, <1>22, <2>1, <4>1 DEF Live
    <3>2. OK(Machine', Heap')
      BY <1>8, <1>10, <1>23, <3>1 DEF OK
    <3> QED BY <1>1, <1>2, <1>8, <1>10, <1>24, <3>2, HeapStep
  <2>2. CASE method
    <3>1. Room(Machine, Heap, 1)
      BY <1>4, <2>2, TemporariesRoom
    <3>2. Last(frames).slots < top - 1 /\ Last(frames).slots \in Nat
      BY <1>2, <3>1, MachineFields DEF Room, Slot
    <3>3. Room(Machine', Heap', 2)
      <4>1. Last(frames).slots < (top + 1) - 2
        BY <1>14, <3>2
      <4>2. \A k \in DOMAIN s.open : Location(Heap', s.open[k]) < (top + 1) - 2
        <5> HIDE DEF OpenAt
        <5> QED BY <1>14, <1>19, <1>20, <2>2
      <4> QED BY <1>2, <1>8, <4>1, <4>2 DEF Room
    <3>4. Live(Machine', Heap', (top + 1) - 1)
      <4>1. (top + 1) - 1 = top
        BY <1>14
      <4> QED BY <1>8, <1>22, <4>1 DEF Live
    <3>5. Machine'.stack[(top + 1) - 1] = Fn(N + 1) /\ N + 1 \in Methods(Heap')
      <4>1. (top + 1) - 1 = top
        BY <1>14
      <4> QED BY <1>8, <1>11, <1>15, <2>2, <4>1
    <3>6. Machine'.stack[(top + 1) - 2] = Class(Len(classes))
      <4>1. (top + 1) - 2 = top - 1 /\ top - 1 \in Slot /\ top - 1 # top
        BY <1>2, <1>3, <1>14, <3>2 DEF Slot
      <4> QED BY <1>4, <1>8, <1>15, <2>2, <4>1 DEF peek
    <3>7. Pending(Machine', Heap')
      BY <1>4, <1>8, <2>2, <3>3, <3>4, <3>5, <3>6 DEF Pending
    <3>8. GlobalsOK(Heap, instances)'
      BY <1>1, <1>8, <1>10, GlobalsStay DEF IInv
    <3>9. OneScript'
      BY <1>1, <1>2 DEF OneScript
    <3>10. MachineOK(Machine, Heap)' /\ HeapOK(Heap, instances)' /\ Pending(Machine, Heap)'
      BY <1>8, <1>10, <1>23, <3>7
    <3> QED BY <1>24, <3>8, <3>9, <3>10 DEF IInv
  <2> QED BY <2>1, <2>2
<1>26. Stable
  <2> SUFFICES ASSUME NEW u \in DOMAIN upvalues
               PROVE  u \in DOMAIN upvalues' /\ Deref(u)' = Deref(u)
    BY DEF Stable
  <2>1. u \in DOMAIN upvalues' /\ upvalues'[u] = upvalues[u]
    BY <1>1, <1>7
  <2>2. CASE upvalues[u].location = Closed
    BY <2>1, <2>2 DEF Deref, Closed
  <2>3. CASE upvalues[u].location # Closed
    <3>1. PICK k \in DOMAIN open : u = open[k]
      BY <2>3, UpvalueFacts
    <3>2. upvalues[u].location < top /\ upvalues[u].location \in Slot
      BY <3>1, UpvalueFacts
    <3>3. upvalues[u].location # top
      BY <1>14, <3>2 DEF Slot
    <3>4. stack'[upvalues[u].location] = stack[upvalues[u].location]
      BY <1>15, <3>2, <3>3
    <3> QED BY <2>1, <2>3, <3>4 DEF Deref, Closed
  <2> QED BY <2>2, <2>3
<1> QED BY <1>25, <1>26

-----------------------------------------------------------------------------
(* The invariant.                                                            *)
LEMMA InitOK ==
  ASSUME Init
  PROVE  IInv
<1>1. /\ Heap.upvalues = <<>> /\ Heap.closures = <<>> /\ Heap.classes = <<>>
      /\ Machine.stack = [s \in Slot |-> NIL] /\ Machine.top = 0 /\ Machine.frames = <<>>
      /\ Machine.open = <<>> /\ Machine.instances = <<>> /\ instances = <<>> /\ line = 0
      /\ top = 0 /\ frames = <<>> /\ upvalues = <<>> /\ closures = <<>> /\ classes = <<>>
      /\ globals = [n \in Native |-> n]
  BY HeapFields, MachineFields DEF Init
<1>2. HeapOK(Heap, instances)
  BY <1>1 DEF HeapOK, Nearest
<1>3. \A v \in Plain : v \in Values(Heap, instances) /\ v \in Contents(Heap, instances)
  BY PlainIsValue DEF Contents
<1>4. Machine \in MachineSet(Heap, instances)
  <2>1. MaxSlots \in Nat /\ NIL \in Plain
    BY InterpAssumption
  <2>2. [s \in Slot |-> NIL] \in [Slot -> Contents(Heap, instances)]
    BY <1>3, <2>1
  <2>3. Machine = [stack |-> [s \in Slot |-> NIL], top |-> 0, frames |-> <<>>, open |-> <<>>,
                   instances |-> <<>>]
    BY DEF Init, Machine
  <2>4. \A S : <<>> \in Seq(S)
    OBVIOUS
  <2> QED BY <1>1, <2>1, <2>2, <2>3, <2>4 DEF MachineSet
<1>5. MachineOK(Machine, Heap)
  <2>1. Len(<<>>) <= FRAMES_MAX
    BY InterpAssumption
  <2>2. FramesOK(Machine, Heap)
    BY <1>1, <2>1 DEF FramesOK
  <2>3. OpenOK(Machine, Heap)
    BY <1>1 DEF OpenOK
  <2> QED BY <1>1, <1>4, <2>2, <2>3 DEF MachineOK
<1>6. Live(Machine, Heap, top)
  BY <1>1 DEF Live
<1>7. GlobalsOK(Heap, instances)
  <2>1. Native \in SUBSET (Name \union Native)
    OBVIOUS
  <2>2. globals \in [Native -> Values(Heap, instances)]
    BY <1>1, <1>3, InterpAssumption
  <2> QED BY <2>1, <2>2 DEF GlobalsOK, TableOf
<1>8. Bounded
  <2>1. MaxClosures \in Nat /\ MaxClasses \in Nat /\ MaxInstances \in Nat
    BY InterpAssumption
  <2> QED BY <1>1, <2>1 DEF Bounded
<1>9. OneScript
  BY <1>1 DEF OneScript
<1> QED BY <1>2, <1>5, <1>6, <1>7, <1>8, <1>9 DEF IInv

(* An action that assigns no captured variable.                              *)
Assigning == \E i \in Slot : SetLocal(i) \/ SetUpvalue(i)

(* Every step but an assignment keeps the invariant and the captured         *)
(* variables.                                                                *)
LEMMA NextCases ==
  ASSUME IInv, Lines = 1, Next, ~ Assigning
  PROVE  IInv' /\ Stable
<1>1. CASE interpret
  <2>1. IInv' /\ upvalues = <<>>
    BY <1>1, interpretOK
  <2> QED BY <2>1 DEF Stable
<1>2. CASE Pop
  BY <1>2, PopOK
<1>3. CASE CloseUpvalue
  BY <1>3, CloseUpvalueOK
<1>4. CASE Return
  BY <1>4, ReturnOK
<1>5. CASE DeclareClass
  BY <1>5, DeclareClassOK
<1>6. CASE Inherit
  BY <1>6, InheritOK
<1>7. CASE \E v \in Plain \ Native : Constant(v) \/ \E n \in 1 .. 2 : Operator(n, v)
  BY <1>7, ConstantOK, OperatorOK
<1>8. CASE \E i \in Slot : GetLocal(i) \/ SetLocal(i) \/ GetUpvalue(i) \/ SetUpvalue(i)
  BY <1>8, GetLocalOK, GetUpvalueOK DEF Assigning
<1>9. CASE \E n \in Name \union Native : GetGlobal(n)
  BY <1>9, GetGlobalOK
<1>10. CASE \E n \in Name : DefineGlobal(n) \/ SetGlobal(n)
  BY <1>10, DefineGlobalOK, SetGlobalOK
<1>11. CASE \E n \in Member : GetProperty(n) \/ SetProperty(n) \/ GetSuper(n) \/ Method(n)
  BY <1>11, GetPropertyOK, SetPropertyOK, GetSuperOK, MethodOK
<1>12. CASE \E a \in 0 .. MaxArity :
              \/ Call(a)
              \/ \E n \in Member : Invoke(n, a) \/ SuperInvoke(n, a)
              \/ Running /\ \E n \in 0 .. MaxCaptures, method \in BOOLEAN :
                   \E operands \in Injection(1 .. n, Operands(method)) :
                     Closure(a, operands, method)
  <2>1. PICK a \in 0 .. MaxArity :
              \/ Call(a)
              \/ \E n \in Member : Invoke(n, a) \/ SuperInvoke(n, a)
              \/ Running /\ \E n \in 0 .. MaxCaptures, method \in BOOLEAN :
                   \E operands \in Injection(1 .. n, Operands(method)) :
                     Closure(a, operands, method)
    BY <1>12
  <2>2. a \in Nat
    OBVIOUS
  <2>3. CASE Call(a)
    BY <2>2, <2>3, CallOK
  <2>4. CASE \E n \in Member : Invoke(n, a) \/ SuperInvoke(n, a)
    BY <2>2, <2>4, InvokeOK, SuperInvokeOK
  <2>5. CASE Running /\ \E n \in 0 .. MaxCaptures, method \in BOOLEAN :
               \E operands \in Injection(1 .. n, Operands(method)) : Closure(a, operands, method)
    <3>1. PICK n \in 0 .. MaxCaptures, method \in BOOLEAN :
            \E operands \in Injection(1 .. n, Operands(method)) : Closure(a, operands, method)
      BY <2>5
    <3>2. PICK operands \in Injection(1 .. n, Operands(method)) : Closure(a, operands, method)
      BY <3>1
    <3>3. operands \in [1 .. n -> Operands(method)] /\ n \in Nat
      BY <3>2 DEF Injection
    <3> QED BY <2>2, <2>5, <3>2, <3>3, ClosureOK
  <2> QED BY <2>1, <2>3, <2>4, <2>5
<1> QED BY <1>1, <1>2, <1>3, <1>4, <1>5, <1>6, <1>7, <1>8, <1>9, <1>10, <1>11, <1>12 DEF Next

(* Every step keeps the invariant.                                           *)
LEMMA NextKeeps ==
  ASSUME Lines = 1, IInv, [Next]_vars
  PROVE  IInv'
<1>1. CASE UNCHANGED vars
  <2>1. Machine' = Machine /\ Heap' = Heap /\ UNCHANGED <<top, instances, globals, line, frames,
          upvalues, closures, classes>>
    BY <1>1 DEF vars, heapvars, objects, Machine, Heap
  <2>2. GlobalsOK(Heap, instances)'
    BY <2>1 DEF IInv, GlobalsOK
  <2>3. Bounded' /\ OneScript'
    BY <2>1 DEF IInv, Bounded, OneScript
  <2>4. /\ MachineOK(Machine, Heap)' /\ HeapOK(Heap, instances)'
        /\ (Live(Machine, Heap, top) \/ Pending(Machine, Heap))'
    BY <2>1 DEF IInv
  <2> QED BY <2>2, <2>3, <2>4 DEF IInv
<1>2. CASE Next /\ ~ Assigning
  BY <1>2, NextCases
<1>3. CASE Assigning
  BY <1>3, SetLocalOK, SetUpvalueOK DEF Assigning
<1> QED BY <1>1, <1>2, <1>3

(* Running a file keeps the invariant.                                       *)
THEOREM Invariance ==
  ASSUME Lines = 1
  PROVE  Spec => []IInv
<1>1. Init => IInv
  BY InitOK
<1>2. IInv /\ [Next]_vars => IInv'
  BY NextKeeps
<1> QED BY <1>1, <1>2, PTL DEF Spec

-----------------------------------------------------------------------------
(* What the invariant says of the properties.                                *)
LEMMA ContentsAreValues ==
  ASSUME IInv
  PROVE  Contents(Heap, instances) \subseteq Value /\ Values(Heap, instances) \subseteq Value
<1>1. /\ \A c \in DOMAIN closures : c \in 1 .. MaxClosures
      /\ \A i \in DOMAIN instances : i \in 1 .. MaxInstances
  BY ClosureIndex, InstanceIndex
<1>2. \A k \in DOMAIN classes : k \in 1 .. MaxClasses
  <2>1. HeapOK(Heap, instances) /\ Len(classes) <= MaxClasses /\ MaxClasses \in Nat
    BY InterpAssumption DEF IInv, Bounded
  <2>2. DOMAIN classes = 1 .. Len(classes) /\ Len(classes) \in Nat
    BY <2>1, HeapTypes, HeapFields
  <2> QED BY <2>1, <2>2
<1>3. Methods(Heap) \subseteq DOMAIN closures
  BY HeapFields DEF Methods
<1>4. Values(Heap, instances) \subseteq Value
  <2> SUFFICES ASSUME NEW v \in Values(Heap, instances), v \notin Plain PROVE v \in Objects
    BY DEF Value
  <2>1. CASE \E c \in DOMAIN closures : v = Fn(c)
    BY <1>1, <2>1 DEF Objects
  <2>2. CASE \E k \in DOMAIN classes : v = Class(k)
    BY <1>2, <2>2 DEF Objects
  <2>3. CASE \E i \in DOMAIN instances : v = Instance(i)
    BY <1>1, <2>3 DEF Objects
  <2>4. CASE \E i \in DOMAIN instances : \E c \in MethodsOf(classes, instances[i].class) :
               v = Bound(Instance(i), c)
    <3>0. PICK i \in DOMAIN instances :
            \E c \in MethodsOf(classes, instances[i].class) : v = Bound(Instance(i), c)
      BY <2>4
    <3>1. PICK c \in MethodsOf(classes, instances[i].class) : v = Bound(Instance(i), c)
      BY <3>0
    <3>2. c \in Methods(Heap)
      BY MethodsOfMethods, HeapFields DEF IInv
    <3>3. c \in 1 .. MaxClosures /\ i \in 1 .. MaxInstances
      BY <1>1, <1>3, <3>2
    <3> QED BY <3>1, <3>3 DEF Objects
  <2> QED BY <2>1, <2>2, <2>3, <2>4, HeapFields DEF Values
<1>5. \A c \in Methods(Heap) : Fn(c) \in Value
  BY <1>1, <1>3 DEF Value, Objects
<1> QED BY <1>4, <1>5 DEF Contents

(* The invariant gives the types.                                            *)
LEMMA IInvTypes ==
  ASSUME IInv, Lines = 1
  PROVE  TypeOK
<1>1. /\ Machine \in MachineSet(Heap, instances) /\ HeapOK(Heap, instances)
      /\ FramesOK(Machine, Heap) /\ MaxSlots \in Nat
  BY MachineFields, InterpAssumption DEF IInv, MachineOK
<1>2. /\ stack \in [Slot -> Contents(Heap, instances)] /\ top \in 0 .. MaxSlots
      /\ frames \in Seq(FrameSet(Heap))
      /\ \A k \in DOMAIN open : open[k] \in DOMAIN upvalues
      /\ \A i \in DOMAIN instances :
           /\ instances[i].class \in DOMAIN classes
           /\ instances[i].fields \in TableOf(Member, Values(Heap, instances))
  BY <1>1, MachineTypes, MachineFields, HeapFields
<1>3. /\ upvalues \in Seq(UpvalueSet(Heap, instances))
      /\ \A c \in DOMAIN closures : closures[c].upvalues \in Seq(DOMAIN upvalues)
      /\ \A k \in DOMAIN classes : classes[k].methods \in TableOf(Member, Methods(Heap))
  BY <1>1, HeapTypes, HeapFields DEF HeapOK
<1>4. stack \in [Slot -> Value]
  BY <1>2, ContentsAreValues
<1>5. frames \in Seq([closure : DOMAIN closures, slots : Slot]) /\ Len(frames) <= FRAMES_MAX
  BY <1>1, <1>2, MachineFields, HeapFields DEF FrameSet, FramesOK
<1>6. upvalues \in Seq([location : Slot \union {Closed}, closed : Value, this : BOOLEAN])
  <2>1. 0 .. MaxSlots \subseteq Slot \union {Closed}
    BY <1>1 DEF Slot, Closed
  <2>2. UpvalueSet(Heap, instances) \subseteq [location : Slot \union {Closed}, closed : Value, this : BOOLEAN]
    BY <2>1, ContentsAreValues DEF UpvalueSet
  <2> DEFINE U == [location : Slot \union {Closed}, closed : Value, this : BOOLEAN]
  <2>3. upvalues \in Seq(UpvalueSet(Heap, instances)) /\ UpvalueSet(Heap, instances) \subseteq U
    BY <1>3, <2>2
  <2> HIDE DEF U
  <2>4. upvalues \in Seq(U)
    BY <2>3
  <2> QED BY <2>4 DEF U
<1>7. \A c \in DOMAIN closures : Range(closures[c].upvalues) \subseteq DOMAIN upvalues
  BY <1>3 DEF Range
<1>8. \A k \in DOMAIN classes : Range(classes[k].methods) \subseteq DOMAIN closures
  <2> TAKE k \in DOMAIN classes
  <2>1. Range(classes[k].methods) \subseteq Methods(Heap)
    BY <1>3, TableOfAll
  <2> QED BY <2>1, HeapFields DEF Methods
<1>9. \A i \in DOMAIN instances : Range(instances[i].fields) \subseteq Value
  <2> TAKE i \in DOMAIN instances
  <2>1. Range(instances[i].fields) \subseteq Values(Heap, instances)
    BY <1>2, TableOfAll
  <2> QED BY <2>1, ContentsAreValues
<1>10. line \in 0 .. Lines
  BY DEF IInv, OneScript
<1> QED BY <1>2, <1>4, <1>5, <1>6, <1>7, <1>8, <1>9, <1>10 DEF TypeOK

(* The invariant gives the order of the open list.                           *)
LEMMA IInvSorted ==
  ASSUME IInv
  PROVE  OpenListSorted
BY MachineFields, HeapFields DEF IInv, MachineOK, OpenOK, Location, OpenListSorted

(* The invariant gives that no live upvalue dangles.                         *)
LEMMA IInvNoDangling ==
  ASSUME IInv
  PROVE  NoDanglingUpvalue
<1> SUFFICES ASSUME Running, NEW u \in LiveUpvalues, upvalues[u].location # Closed
             PROVE  upvalues[u].location < top /\ u \in Range(open)
  BY DEF NoDanglingUpvalue
<1>1. PICK d \in DOMAIN closures : u \in Range(closures[d].upvalues)
  BY DEF LiveUpvalues
<1>2. u \in DOMAIN upvalues
  <2>1. closures[d].upvalues \in Seq(DOMAIN upvalues)
    BY HeapTypes, HeapFields DEF IInv
  <2> QED BY <1>1, <2>1 DEF Range
<1>3. PICK k \in DOMAIN open : u = open[k]
  BY <1>2, UpvalueFacts
<1>4. upvalues[open[k]].location < top
  BY UpvalueFacts
<1> QED BY <1>3, <1>4 DEF Range

(* The invariant gives what classes inherit.                                 *)
LEMMA IInvAncestry ==
  ASSUME IInv
  PROVE  /\ \A k \in DOMAIN classes : Ancestry[k] = Above(classes, k)
         /\ Hierarchy(classes) /\ Nearest(classes)
<1>1. HeapOK(Heap, instances)
  BY DEF IInv
<1>2. /\ Hierarchy(classes) /\ Nearest(classes) /\ Len(classes) \in Nat
      /\ DOMAIN classes = 1 .. Len(classes)
  BY <1>1, ClassesAreHierarchy, HeapFields, HeapTypes DEF HeapOK
<1>3. \A k \in DOMAIN classes : k \in 0 .. Len(classes)
  BY <1>2
<1> QED BY <1>2, <1>3, AncestryIsAbove

(* The invariant gives the callees.                                          *)
LEMMA IInvCallees ==
  ASSUME IInv
  PROVE  FramesKeepTheirCallee
<1> SUFFICES ASSUME NEW k \in DOMAIN frames
             PROVE  /\ frames[k].slots < top
                    /\ IF closures[frames[k].closure].method
                       THEN Understands(stack[frames[k].slots], frames[k].closure)
                       ELSE stack[frames[k].slots] = Fn(frames[k].closure)
                    /\ k > 1 => frames[k - 1].slots < frames[k].slots
  BY DEF FramesKeepTheirCallee
<1> DEFINE c == frames[k].closure
           v == stack[frames[k].slots]
<1>1. /\ Machine \in MachineSet(Heap, instances) /\ HeapOK(Heap, instances)
      /\ FramesOK(Machine, Heap)
  BY MachineFields DEF IInv, MachineOK
<1>2. /\ frames[k].slots < top /\ CalleeOK(Machine, Heap, v, c)
      /\ \A i, j \in DOMAIN frames : i < j => frames[i].slots < frames[j].slots
  BY <1>1, MachineFields DEF FramesOK
<1>3. /\ c \in DOMAIN closures /\ DOMAIN frames = 1 .. Len(frames) /\ Len(frames) \in Nat
      /\ \A i \in DOMAIN instances : instances[i].class \in DOMAIN classes
  BY <1>1, MachineTypes, MachineFields, HeapFields
<1>4. k > 1 => frames[k - 1].slots < frames[k].slots
  <2>1. k > 1 => k - 1 \in DOMAIN frames /\ k - 1 < k
    BY <1>3
  <2> QED BY <1>2, <2>1
<1>5. c \in Methods(Heap) <=> closures[c].method
  BY <1>3, HeapFields DEF Methods
<1> HIDE DEF c, v
<1>6. CASE closures[c].method
  <2>1. PICK i \in DOMAIN instances : v = Instance(i) /\ c \in MethodsOf(classes, instances[i].class)
    BY <1>2, <1>5, <1>6, MachineFields, HeapFields DEF CalleeOK
  <2>2. Is(v, "instance") /\ v.instance = i
    BY <2>1, InstanceIndex, InstanceTag
  <2>3. PICK j \in Above(classes, instances[i].class) : c \in Range(classes[j].own)
    BY <2>1 DEF MethodsOf
  <2>4. j \in Ancestry[instances[i].class]
    BY <1>3, IInvAncestry
  <2>5. Understands(v, c)
    BY <2>2, <2>3, <2>4 DEF Understands
  <2> QED BY <1>2, <1>4, <1>6, <2>5 DEF c, v
<1>7. CASE ~ closures[c].method
  BY <1>2, <1>4, <1>5, <1>7 DEF CalleeOK, c, v
<1> QED BY <1>6, <1>7

(* The invariant gives the nearest declarations.                             *)
LEMMA IInvNearest ==
  ASSUME IInv
  PROVE  NearestDeclaration
<1> SUFFICES ASSUME NEW k \in DOMAIN classes, NEW n \in Member
             PROVE  LET declaring == {j \in Ancestry[k] : n \in DOMAIN classes[j].own}
                    IN IF declaring = {} THEN n \notin DOMAIN classes[k].methods
                       ELSE n \in DOMAIN classes[k].methods
                            /\ classes[k].methods[n] = classes[Max(declaring)].own[n]
  BY DEF NearestDeclaration
<1>1. {j \in Ancestry[k] : n \in DOMAIN classes[j].own} = Declaring(classes, k, n)
  BY IInvAncestry DEF Declaring
<1>2. /\ Declaring(classes, k, n) = {} => n \notin DOMAIN classes[k].methods
      /\ Declaring(classes, k, n) # {} =>
           /\ n \in DOMAIN classes[k].methods
           /\ classes[k].methods[n] = classes[Max(Declaring(classes, k, n))].own[n]
  BY IInvAncestry DEF Nearest
<1> QED BY <1>1, <1>2

(* A captured variable that a step changes is assigned by it.                *)
LEMMA OnlyAssigned ==
  ASSUME IInv, Lines = 1, Next, NEW u \in DOMAIN upvalues, Deref(u)' # Deref(u)
  PROVE  Assigns(u)
<1>1. CASE ~ Assigning
  BY <1>1, NextCases DEF Stable
<1>2. ASSUME NEW i \in Slot, SetLocal(i)
      PROVE  Assigns(u)
  <2>1. upvalues[u].location = Local(i)
    BY <1>2, SetLocalOK
  <2>2. Running /\ i \in Locals
    BY <1>2 DEF SetLocal
  <2> QED BY <1>2, <2>1, <2>2 DEF Assigns
<1>3. ASSUME NEW i \in Slot, SetUpvalue(i)
      PROVE  Assigns(u)
  <2>1. FrameUpvalues[i] = u
    BY <1>3, SetUpvalueOK
  <2>2. Running /\ i \in DOMAIN FrameUpvalues
    BY <1>3 DEF SetUpvalue
  <2> QED BY <1>3, <2>1, <2>2 DEF Assigns
<1> QED BY <1>1, <1>2, <1>3 DEF Assigning

-----------------------------------------------------------------------------
(* OP_INVOKE and OP_SUPER_INVOKE against OP_GET_PROPERTY and OP_CALL.        *)

(* A slot that already holds the value.                                      *)
LEMMA PutTwice ==
  ASSUME NEW h, NEW is, NEW m \in MachineSet(h, is), NEW s \in Slot, NEW v, NEW w
  PROVE  /\ Put(m, s, v).stack[s] = v /\ Put(m, s, v).frames = m.frames
         /\ Put(Put(m, s, v), s, w) = Put(m, s, w)
         /\ m.stack[s] = w => Put(m, s, w) = m
<1>1. /\ m.stack \in [Slot -> Contents(h, is)]
      /\ m = [stack |-> m.stack, top |-> m.top, frames |-> m.frames, open |-> m.open,
              instances |-> m.instances]
  BY DEF MachineSet
<1>2. \A x : Put(m, s, x) = [stack |-> [m.stack EXCEPT ![s] = x], top |-> m.top,
                             frames |-> m.frames, open |-> m.open, instances |-> m.instances]
  BY <1>1 DEF Put
<1>3. Put(m, s, v).stack[s] = v /\ Put(m, s, v).frames = m.frames
  BY <1>1, <1>2
<1>4. Put(Put(m, s, v), s, w) = [stack |-> [[m.stack EXCEPT ![s] = v] EXCEPT ![s] = w],
                                 top |-> m.top, frames |-> m.frames, open |-> m.open,
                                 instances |-> m.instances]
  BY <1>2 DEF Put
<1>5. [[m.stack EXCEPT ![s] = v] EXCEPT ![s] = w] = [m.stack EXCEPT ![s] = w]
  BY <1>1
<1>6. m.stack[s] = w => [m.stack EXCEPT ![s] = w] = m.stack
  BY <1>1
<1> QED BY <1>1, <1>2, <1>3, <1>4, <1>5, <1>6

(* An instance is in the callee's slot, and b is c bound to it.              *)
BoundCallee(m, a, slot, i, c, b) ==
  /\ m \in MachineSet(Heap, instances) /\ slot \in Slot /\ slot = m.top - a - 1
  /\ i \in DOMAIN instances /\ m.stack[slot] = Instance(i)
  /\ c \in DOMAIN closures /\ b = Bound(Instance(i), c)

(* Calling a method that is bound to the value in the callee's slot.         *)
LEMMA CallBound ==
  ASSUME IInv, NEW m, NEW a, NEW slot, NEW i, NEW c, NEW b, BoundCallee(m, a, slot, i, c, b)
  PROVE  callValue(Put(m, slot, b), b, a) = call(m, c, a)
<1> USE DEF BoundCallee
<1>1. /\ b \in Objects /\ b \notin Plain
  <2>1. c \in 1 .. MaxClosures /\ i \in 1 .. MaxInstances
    BY ClosureIndex, InstanceIndex
  <2> QED BY <2>1, InterpAssumption DEF Objects
<1>2. /\ DOMAIN b = {"receiver", "method"} /\ b.receiver = Instance(i) /\ b.method = c
  BY DEF Bound
<1>3. /\ Is(b, "receiver") /\ ~ Is(b, "class") /\ ~ Is(b, "closure") /\ b \notin Native
  BY <1>1, <1>2, InterpAssumption DEF Is
<1>4. Put(m, slot, b).top = m.top
  BY DEF Put, MachineSet
<1>5. callValue(Put(m, slot, b), b, a) = call(Put(Put(m, slot, b), slot, Instance(i)), c, a)
  BY <1>2, <1>3, <1>4 DEF callValue
<1>6. Put(Put(m, slot, b), slot, Instance(i)) = m
  BY PutTwice
<1> QED BY <1>5, <1>6

(* A machine with its top elsewhere.                                         *)
Cut(m, t) == [m EXCEPT !.top = t]

(* What Cut changes.                                                         *)
LEMMA CutFields ==
  ASSUME NEW is, NEW m \in MachineSet(Heap, is), NEW t \in 0 .. MaxSlots
  PROVE  /\ Cut(m, t) \in MachineSet(Heap, is)
         /\ Cut(m, t).top = t /\ Cut(m, t).frames = m.frames /\ Cut(m, t).stack = m.stack
         /\ Cut(m, t).instances = m.instances
BY DEF Cut, MachineSet

(* Reading a method leaves it, bound, where its receiver was.                *)
LEMMA MethodRead ==
  ASSUME IInv, Running, NEW m \in MachineSet(Heap, instances), NEW a \in Nat,
         NEW slot \in Slot, slot = m.top - a - 1, NEW q \in MachineSet(Heap, instances),
         q.top = slot + 1, q.frames # <<>>, NEW i \in DOMAIN instances,
         m.stack[slot] = Instance(i), q.stack[slot] = Instance(i),
         NEW k, Inherits(Machine, Instance(i), k), NEW n
  PROVE  invokeFromClass(m, k, n, a) = CallResult(m, bindMethod(q, k, n), slot, a)
<1>0. q.top - 1 = slot
  BY DEF Slot
<1>1. CASE n \in DOMAIN classes[k].methods
  <2> DEFINE c == classes[k].methods[n]
             b == Bound(Instance(i), c)
             got == bindMethod(q, k, n)
  <2>1. c \in DOMAIN closures
    BY <1>1, RunningOK, Inheriting
  <2>2. invokeFromClass(m, k, n, a) = call(m, c, a)
    BY <1>1 DEF invokeFromClass
  <2>3. got = Put(q, slot, b)
    BY <1>0, <1>1 DEF bindMethod
  <2> HIDE DEF c, got
  <2>31. b = Bound(Instance(i), c)
    OBVIOUS
  <2> HIDE DEF b
  <2>4. got.stack[slot] = b /\ got.frames # <<>>
    <3>1. Put(q, slot, b).stack[slot] = b /\ Put(q, slot, b).frames = q.frames
      BY PutTwice
    <3> QED BY <2>3, <3>1
  <2>5. CallResult(m, got, slot, a) = callValue(Put(m, slot, b), b, a)
    BY <2>4 DEF CallResult
  <2>6. callValue(Put(m, slot, b), b, a) = call(m, c, a)
    <3>1. BoundCallee(m, a, slot, i, c, b)
      BY <2>1, <2>31 DEF BoundCallee
    <3> QED BY <3>1, CallBound
  <2> QED BY <2>2, <2>5, <2>6 DEF got
<1>2. CASE n \notin DOMAIN classes[k].methods
  <2>1. bindMethod(q, k, n) = runtimeError(q) /\ invokeFromClass(m, k, n, a) = runtimeError(m)
    BY <1>2 DEF bindMethod, invokeFromClass
  <2>2. runtimeError(q).frames = <<>>
    BY DEF runtimeError, MachineSet
  <2> QED BY <2>1, <2>2 DEF CallResult
<1> QED BY <1>1, <1>2

(* OP_INVOKE is OP_GET_PROPERTY and then OP_CALL.                            *)
LEMMA InvokeReads ==
  ASSUME IInv, Running, NEW n, NEW a \in Nat, NEW slot, slot = top - 1 - a, slot > Frame.slots
  PROVE  invoke(Machine, n, a)
           = CallResult(Machine, getProperty(Cut(Machine, slot + 1), n), slot, a)
<1> DEFINE m == Machine
           q == Cut(m, slot + 1)
           v == stack[slot]
<1>1. /\ OK(m, Heap) /\ frames # <<>> /\ Frame.slots \in Slot /\ top \in 0 .. MaxSlots
      /\ MaxSlots \in Nat
  BY RunningOK
<1>2. slot \in Slot /\ slot + 1 \in 0 .. MaxSlots /\ slot = top - a - 1 /\ (slot + 1) - 1 = slot
  BY <1>1 DEF Slot
<1>3. m \in MachineSet(Heap, instances) /\ v \in Contents(Heap, instances)
  BY <1>1, <1>2, MachineFields DEF OK, MachineOK, MachineSet
<1>4. /\ q \in MachineSet(Heap, instances) /\ q.top = slot + 1 /\ q.frames = frames
      /\ q.stack = stack /\ q.instances = instances
  BY <1>2, <1>3, CutFields, MachineFields
<1>5. m.stack = stack /\ m.top = top /\ m.frames = frames /\ m.instances = instances
  BY MachineFields
<1> DEFINE got == getProperty(q, n)
<1>6. got = getProperty(Cut(Machine, slot + 1), n)
  OBVIOUS
<1> HIDE DEF m, q, got
<1>7. CASE ~ Is(v, "instance")
  <2>1. invoke(m, n, a) = runtimeError(m)
    BY <1>2, <1>5, <1>7 DEF invoke
  <2>2. got = runtimeError(q)
    BY <1>2, <1>4, <1>7 DEF got, getProperty
  <2>3. runtimeError(q).frames = <<>>
    BY <1>4 DEF runtimeError, MachineSet
  <2> QED BY <1>6, <2>1, <2>2, <2>3 DEF CallResult, m
<1>8. CASE Is(v, "instance")
  <2>1. PICK i \in DOMAIN instances : v = Instance(i) /\ v.instance = i
    BY <1>3, <1>8, Tags
  <2> DEFINE o == instances[i]
  <2>2. CASE n \in DOMAIN o.fields
    <3> DEFINE f == o.fields[n]
    <3>1. invoke(m, n, a) = callValue(Put(m, slot, f), f, a)
      BY <1>2, <1>5, <1>8, <2>1, <2>2 DEF invoke
    <3>2. got = Put(q, slot, f)
      BY <1>2, <1>4, <1>8, <2>1, <2>2 DEF got, getProperty
    <3> HIDE DEF f
    <3>3. got.stack[slot] = f /\ got.frames # <<>>
      BY <1>1, <1>2, <1>4, <3>2, PutTwice
    <3> QED BY <1>6, <3>1, <3>3 DEF CallResult, m
  <2>3. CASE n \notin DOMAIN o.fields
    <3> DEFINE k == o.class
    <3>1. invoke(m, n, a) = invokeFromClass(m, k, n, a)
      BY <1>2, <1>5, <1>8, <2>1, <2>3 DEF invoke
    <3>2. got = bindMethod(q, k, n)
      BY <1>2, <1>4, <1>8, <2>1, <2>3 DEF got, getProperty
    <3>3. Inherits(Machine, Instance(i), k)
      BY <1>1, <1>5, InstanceInherits DEF m
    <3> HIDE DEF k
    <3>4. invokeFromClass(m, k, n, a) = CallResult(m, bindMethod(q, k, n), slot, a)
      BY <1>1, <1>2, <1>3, <1>4, <1>5, <2>1, <3>3, MethodRead
    <3> QED BY <1>6, <3>1, <3>2, <3>4 DEF m
  <2> QED BY <2>2, <2>3
<1> QED BY <1>7, <1>8

(* OP_SUPER_INVOKE is OP_GET_SUPER and then OP_CALL.                         *)
LEMMA SuperInvokeReads ==
  ASSUME IInv, Running, NEW n, NEW a \in Nat, NEW up, up = Drop(Machine, 1),
         NEW this, this = top - 2 - a, this > Frame.slots, SuperOf(stack[this], peek)
  PROVE  superInvoke(Machine, n, a)
           = CallResult(up, getSuper(Cut(Put(up, this + 1, peek), this + 2), n), this, a)
<1>1. /\ OK(Machine, Heap) /\ frames # <<>> /\ Frame.slots \in Slot /\ top \in 0 .. MaxSlots
      /\ MaxSlots \in Nat /\ peek \in Values(Heap, instances)
  BY RunningOK
<1>2. /\ this \in Slot /\ this + 1 \in Slot /\ this + 2 \in 0 .. MaxSlots
      /\ this = (top - 1) - a - 1 /\ (this + 2) - 1 = this + 1 /\ this # this + 1
      /\ top - 1 \in 0 .. MaxSlots /\ this + 1 \in 0 .. MaxSlots
  BY <1>1 DEF Slot
<1>3. /\ Machine \in MachineSet(Heap, instances) /\ stack[this] \in Contents(Heap, instances)
      /\ peek \in Contents(Heap, instances)
  BY <1>1, <1>2, MachineFields DEF OK, MachineOK, MachineSet, Contents
<1>4. /\ up \in MachineSet(Heap, instances) /\ up.top = top - 1 /\ up.frames = frames
      /\ up.stack = stack
  <2>1. Machine.top - 1 = top - 1
    BY MachineFields
  <2> QED BY <1>2, <1>3, <2>1, DropFields, MachineFields
<1> DEFINE p == Put(up, this + 1, peek)
           q == Cut(p, this + 2)
           r == Drop(q, 1)
           k == peek.class
<1>5. p \in MachineSet(Heap, instances) /\ p.frames = frames /\ p.stack[this + 1] = peek
      /\ p.stack[this] = stack[this]
  BY <1>2, <1>3, <1>4 DEF Put, MachineSet
<1> HIDE DEF p
<1>6. /\ q \in MachineSet(Heap, instances) /\ q.top = this + 2 /\ q.frames = frames
      /\ q.stack = p.stack
  BY <1>2, <1>5, CutFields
<1> HIDE DEF q
<1>7. /\ r \in MachineSet(Heap, instances) /\ r.top = this + 1 /\ r.frames = frames
      /\ r.stack = p.stack
  <2>1. q.top - 1 = this + 1
    BY <1>2, <1>6
  <2>2. q \in MachineSet(Heap, instances) /\ q.top - 1 \in 0 .. MaxSlots
    BY <1>2, <1>6, <2>1
  <2>3. /\ r \in MachineSet(Heap, instances) /\ r.top = q.top - 1
        /\ r.frames = q.frames /\ r.stack = q.stack
    BY <2>2, DropFields
  <2> HIDE DEF r
  <2> QED BY <1>6, <2>1, <2>3
<1> HIDE DEF r
<1>8. getSuper(q, n) = bindMethod(r, k, n)
  BY <1>2, <1>5, <1>6 DEF getSuper, r
<1>9. superInvoke(Machine, n, a) = invokeFromClass(up, k, n, a)
  BY MachineFields DEF superInvoke, peek
<1>10. Inherits(Machine, stack[this], k)
  BY <1>3, SuperInherits
<1>11. PICK i \in DOMAIN instances : stack[this] = Instance(i)
  BY <1>10, MachineFields DEF Inherits
<1> HIDE DEF k
<1>12. invokeFromClass(up, k, n, a) = CallResult(up, bindMethod(r, k, n), this, a)
  <2>1. this = up.top - a - 1 /\ up.stack[this] = Instance(i) /\ r.stack[this] = Instance(i)
        /\ r.frames # <<>> /\ Inherits(Machine, Instance(i), k)
    BY <1>1, <1>2, <1>4, <1>5, <1>7, <1>10, <1>11
  <2> QED BY <1>2, <1>4, <1>7, <2>1, MethodRead
<1> QED BY <1>8, <1>9, <1>12 DEF q, p

(* The invariant gives that both invocations are shortcuts.                  *)
LEMMA IInvInvoke ==
  ASSUME IInv
  PROVE  InvokeIsGetThenCall
<1> SUFFICES ASSUME Running, NEW n \in Member, NEW a \in 0 .. MaxArity
    PROVE  LET slot == top - 1 - a
               up   == Drop(Machine, 1)
               this == up.top - 1 - a
           IN /\ slot > Frame.slots =>
                   invoke(Machine, n, a)
                     = CallResult(Machine, getProperty([Machine EXCEPT !.top = slot + 1], n), slot, a)
              /\ this > Frame.slots /\ SuperOf(stack[this], peek) =>
                   superInvoke(Machine, n, a)
                     = CallResult(up, getSuper([Put(up, this + 1, peek) EXCEPT !.top = this + 2], n),
                                  this, a)
  BY DEF InvokeIsGetThenCall
<1> DEFINE slot == top - 1 - a
           up   == Drop(Machine, 1)
           this == up.top - 1 - a
<1>1. a \in Nat /\ top \in Nat
  BY RunningOK
<1>2. this = top - 2 - a
  <2>1. up.top = top - 1
    BY MachineFields DEF Drop, Machine
  <2> QED BY <1>1, <2>1
<1> HIDE DEF slot, up, this
<1>3. slot > Frame.slots =>
        invoke(Machine, n, a) = CallResult(Machine, getProperty(Cut(Machine, slot + 1), n), slot, a)
  BY <1>1, InvokeReads DEF slot
<1>4. this > Frame.slots /\ SuperOf(stack[this], peek) =>
        superInvoke(Machine, n, a)
          = CallResult(up, getSuper(Cut(Put(up, this + 1, peek), this + 2), n), this, a)
  BY <1>1, <1>2, SuperInvokeReads DEF up
<1> QED BY <1>3, <1>4 DEF Cut, slot, up, this

-----------------------------------------------------------------------------
(* The properties, of every run of a file.  In a REPL an error leaves        *)
(* upvalues pointing into the stack that the next line uses: hence Lines = 1.*)

(* Types: slots, frames, upvalues, classes and instances hold what they      *)
(* should, and never more frames than vm.frames has.                         *)
THEOREM Types ==
  ASSUME Lines = 1
  PROVE  Spec => []TypeOK
<1>1. Spec => []IInv
  BY Invariance
<1>2. IInv => TypeOK
  BY IInvTypes
<1> QED BY <1>1, <1>2, PTL

(* captureUpvalue and closeUpvalues keep vm.openUpvalues in descending order *)
(* of slots, so a walk along it misses no upvalue and makes none twice.      *)
THEOREM OpenInOrder ==
  ASSUME Lines = 1
  PROVE  Spec => []OpenListSorted
<1>1. Spec => []IInv
  BY Invariance
<1>2. IInv => OpenListSorted
  BY IInvSorted
<1> QED BY <1>1, <1>2, PTL

(* No closure reads a slot that its variable has left: every pop, return and *)
(* end of a scope closes the upvalues to the slots that go.                  *)
THEOREM NoneDangles ==
  ASSUME Lines = 1
  PROVE  Spec => []NoDanglingUpvalue
<1>1. Spec => []IInv
  BY Invariance
<1>2. IInv => NoDanglingUpvalue
  BY IInvNoDangling
<1> QED BY <1>1, <1>2, PTL

(* Each frame's slot 0 holds the closure it runs or, in a method, an         *)
(* instance that understands it, whatever the frames above did.              *)
THEOREM CalleesStay ==
  ASSUME Lines = 1
  PROVE  Spec => []FramesKeepTheirCallee
<1>1. Spec => []IInv
  BY Invariance
<1>2. IInv => FramesKeepTheirCallee
  BY IInvCallees
<1> QED BY <1>1, <1>2, PTL

(* The methods OP_INHERIT copied and OP_METHOD overrode are those a lookup   *)
(* along the superclasses would find.                                        *)
THEOREM MethodsAreNearest ==
  ASSUME Lines = 1
  PROVE  Spec => []NearestDeclaration
<1>1. Spec => []IInv
  BY Invariance
<1>2. IInv => NearestDeclaration
  BY IInvNearest
<1> QED BY <1>1, <1>2, PTL

(* OP_INVOKE and OP_SUPER_INVOKE do what OP_GET_PROPERTY or OP_GET_SUPER     *)
(* followed by OP_CALL does, errors included.                                *)
THEOREM InvokesAreShortcuts ==
  ASSUME Lines = 1
  PROVE  Spec => []InvokeIsGetThenCall
<1>1. Spec => []IInv
  BY Invariance
<1>2. IInv => InvokeIsGetThenCall
  BY IInvInvoke
<1> QED BY <1>1, <1>2, PTL

(* Whatever else a step does, closing an upvalue, returning or reusing its   *)
(* slot, a captured variable keeps its value unless the step assigns to it.  *)
THEOREM OnlyAssignmentsChange ==
  ASSUME Lines = 1
  PROVE  Spec => CapturedVariableStable
<1> DEFINE Kept == \A u \in DOMAIN upvalues :
             Deref(u)' # Deref(u) /\ u \in LiveUpvalues /\ u \in LiveUpvalues' => Assigns(u)
<1>1. Spec => []IInv
  BY Invariance
<1>2. IInv /\ [Next]_vars => [Kept]_vars
  BY OnlyAssigned
<1> QED BY <1>1, <1>2, PTL DEF Spec, CapturedVariableStable
=============================================================================

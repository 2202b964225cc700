---------------------------- MODULE CommonProof -----------------------------
(* Of what src/common keeps: for every set of keys, every hash function and  *)
(* every sequence of calls, the tables are well formed and implement         *)
(* Dictionary; interned strings are unique and found; and code of any        *)
(* instructions is listed one instruction after the other.                   *)
EXTENDS HashTable, Intern, Disassembler, Induction

Pair == [key : Key, value : Value]
Entry == {EmptyEntry, Tombstone} \union Pair

(* A probe for k takes d steps without stopping.                             *)
Passes(t, k, d) ==
  \A e \in 0 .. d - 1 :
    LET x == t.entries[Probe(t, Hash(k), e)] IN x # EmptyEntry /\ x.key # k

(* A probe for k that has not stopped before looks at slot i.                *)
Visits(t, k, i) == \E d \in Slots(t) : Probe(t, Hash(k), d) = i /\ Passes(t, k, d)

(* Values of the Table struct: an array of as many entries as the capacity.  *)
TableType ==
  UNION {[capacity : {c}, count : Nat, entries : [0 .. c - 1 -> Entry]] : c \in Nat}

(* The live entries, as a set: what the table says, wherever its entries     *)
(* are.                                                                      *)
PairsOf(t) == {t.entries[i] : i \in LiveSlots(t)}

(* What holds of every table between two calls. The last conjunct is the one *)
(* that deletions must keep and that no single property states: walking from *)
(* the home slot of a key to the slot it is in, a probe meets no empty slot, *)
(* so a tombstone may not become empty.                                      *)
WellFormed(t) ==
  /\ t \in TableType
  /\ t.count = Cardinality(UsedSlots(t))
  /\ t.capacity # 0 => t.capacity >= MinCapacity /\ t.count < t.capacity
  /\ \A i \in LiveSlots(t) : Visits(t, t.entries[i].key, i)

-----------------------------------------------------------------------------
(* The % of the probe is a slot number,                                      *)
LEMMA Remainder ==
  ASSUME NEW a \in Nat, NEW c \in Nat \ {0}
  PROVE  a % c \in 0 .. c - 1
OBVIOUS

(* and the remainder of a division,                                          *)
LEMMA Division ==
  ASSUME NEW a \in Nat, NEW c \in Nat \ {0}
  PROVE  \E q \in Nat : a = c * q + (a % c)
OBVIOUS

(* which adding a multiple of the capacity leaves alone.                     *)
LEMMA RemainderOfSum ==
  ASSUME NEW q \in Nat, NEW c \in Nat \ {0}, NEW i \in 0 .. c - 1
  PROVE  (c * q + i) % c = i
OBVIOUS

(* A probe of as many steps as there are slots looks at every slot,          *)
LEMMA ProbeReaches ==
  ASSUME NEW h \in Nat, NEW c \in Nat \ {0}, NEW i \in 0 .. c - 1
  PROVE  \E d \in 0 .. c - 1 : (h + d) % c = i
<1> DEFINE r == h % c
<1>1. PICK q \in Nat : h = c * q + r
  BY Division
<1>2. r \in 0 .. c - 1
  BY Remainder
<1> HIDE DEF r
<1>4. CASE i >= r
  <2>1. h + (i - r) = c * q + i /\ i - r \in 0 .. c - 1
    BY <1>1, <1>2, <1>4
  <2> QED BY <2>1, RemainderOfSum
<1>5. CASE i < r
  <2>1. h + (i - r + c) = c * (q + 1) + i /\ i - r + c \in 0 .. c - 1
    BY <1>1, <1>2, <1>5
  <2>2. q + 1 \in Nat
    OBVIOUS
  <2> QED BY <2>1, <2>2, RemainderOfSum
<1> QED BY <1>2, <1>4, <1>5

(* and at none of them twice.                                                *)
LEMMA ProbesDiffer ==
  ASSUME NEW h \in Nat, NEW c \in Nat \ {0}, NEW d \in 0 .. c - 1, NEW e \in 0 .. d - 1
  PROVE  (h + d) % c # (h + e) % c
<1>1. PICK q \in Nat : h + d = c * q + ((h + d) % c)
  <2>1. h + d \in Nat
    OBVIOUS
  <2> QED BY <2>1, Division
<1>2. PICK p \in Nat : h + e = c * p + ((h + e) % c)
  <2>1. h + e \in Nat
    OBVIOUS
  <2> QED BY <2>1, Division
<1> SUFFICES ASSUME (h + d) % c = (h + e) % c PROVE FALSE
  OBVIOUS
<1>3. (h + d) % c \in Nat
  OBVIOUS
<1>4. d - e = c * q - c * p
  BY <1>1, <1>2, <1>3
<1>5. c * q - c * p = c * (q - p)
  OBVIOUS
<1>6. c * (q - p) > 0 /\ c * (q - p) < c
  BY <1>4, <1>5
<1>7. q - p >= 1 => c * (q - p) >= c
  OBVIOUS
<1>8. q - p <= 0 => c * (q - p) <= 0
  OBVIOUS
<1> QED BY <1>6, <1>7, <1>8

(* Min of a nonempty set of distances is one of them and at most the others. *)
LEMMA LeastOf ==
  ASSUME NEW S \in SUBSET Nat, S # {}
  PROVE  Min(S) \in S /\ \A x \in S : Min(S) <= x
<1>1. \E x \in S : \A y \in S : x <= y
  BY LeastNumber
<1> QED BY <1>1 DEF Min

(* Entries of the three kinds are told apart by their keys and values.       *)
LEMMA Kinds ==
  /\ EmptyEntry # Tombstone
  /\ \A e \in Entry : e.key \in Key \union {NULL} /\ e.value \in Value
  /\ \A e \in Entry : e.key = NULL <=> e \in {EmptyEntry, Tombstone}
  /\ \A e \in Entry : e.key \in Key <=> e \in Pair
BY TableAssumption DEF Entry, EmptyEntry, Tombstone, Pair

(* The fields of a table have their types, and its slots are finitely many.  *)
LEMMA TableFields ==
  ASSUME NEW t \in TableType
  PROVE  /\ t.capacity \in Nat /\ t.count \in Nat
         /\ t.entries \in [Slots(t) -> Entry]
         /\ t = [capacity |-> t.capacity, count |-> t.count, entries |-> t.entries]
         /\ LiveSlots(t) \subseteq UsedSlots(t) /\ UsedSlots(t) \subseteq Slots(t)
         /\ IsFiniteSet(Slots(t)) /\ Cardinality(Slots(t)) = t.capacity
         /\ IsFiniteSet(UsedSlots(t)) /\ IsFiniteSet(LiveSlots(t))
<1>1. /\ t.capacity \in Nat /\ t.count \in Nat
      /\ t.entries \in [Slots(t) -> Entry]
      /\ t = [capacity |-> t.capacity, count |-> t.count, entries |-> t.entries]
  BY DEF TableType, Slots
<1>2. LiveSlots(t) \subseteq UsedSlots(t) /\ UsedSlots(t) \subseteq Slots(t)
  BY Kinds, <1>1 DEF LiveSlots, UsedSlots
<1>3. IsFiniteSet(Slots(t)) /\ Cardinality(Slots(t)) = t.capacity
  <2>1. 0 \in Int /\ t.capacity - 1 \in Int
    BY <1>1
  <2>2. /\ IsFiniteSet(0 .. t.capacity - 1)
        /\ Cardinality(0 .. t.capacity - 1)
             = IF 0 > t.capacity - 1 THEN 0 ELSE t.capacity - 1 - 0 + 1
    BY <2>1, FS_Interval
  <2> QED BY <1>1, <2>2 DEF Slots
<1>4. IsFiniteSet(UsedSlots(t)) /\ IsFiniteSet(LiveSlots(t))
  BY <1>2, <1>3, FS_Subset
<1> QED BY <1>1, <1>2, <1>3, <1>4

(* A probe stays in the array.                                               *)
LEMMA ProbeType ==
  ASSUME NEW t \in TableType, NEW k \in Key, NEW d \in Slots(t)
  PROVE  Probe(t, Hash(k), d) \in Slots(t)
<1>1. t.capacity \in Nat \ {0} /\ d \in Nat
  BY TableFields DEF Slots
<1>2. Hash(k) + d \in Nat
  BY <1>1, TableAssumption
<1>3. (Hash(k) + d) % t.capacity \in 0 .. t.capacity - 1
  BY <1>1, <1>2, Remainder
<1> QED BY <1>3 DEF Slots, Probe

(* A well-formed table that has an array has an empty slot,                  *)
LEMMA EmptySlot ==
  ASSUME NEW t, WellFormed(t), t.capacity # 0
  PROVE  \E i \in Slots(t) : t.entries[i] = EmptyEntry
<1>1. UsedSlots(t) # Slots(t)
  <2>1. t.count < t.capacity /\ t.count = Cardinality(UsedSlots(t))
    BY DEF WellFormed
  <2>2. Cardinality(Slots(t)) = t.capacity /\ t.capacity \in Nat
    BY TableFields DEF WellFormed
  <2> QED BY <2>1, <2>2
<1> QED BY <1>1 DEF UsedSlots

(* where every probe stops at the latest.                                    *)
LEMMA ProbeStops ==
  ASSUME NEW t, WellFormed(t), t.capacity # 0, NEW k \in Key
  PROVE  /\ StopsAt(t, k) # {}
         /\ Min(StopsAt(t, k)) \in StopsAt(t, k)
         /\ \A d \in StopsAt(t, k) : Min(StopsAt(t, k)) <= d
<1>1. t \in TableType
  BY DEF WellFormed
<1>2. \E i \in Slots(t) : t.entries[i] = EmptyEntry
  BY EmptySlot
<1>3. PICK i \in Slots(t) : t.entries[i] = EmptyEntry
  BY <1>2
<1>4. \E d \in Slots(t) : Probe(t, Hash(k), d) = i
  <2>1. t.capacity \in Nat \ {0} /\ Hash(k) \in Nat
    BY <1>1, TableFields, TableAssumption
  <2> QED BY <2>1, ProbeReaches DEF Slots, Probe
<1>5. StopsAt(t, k) # {}
  BY <1>3, <1>4 DEF StopsAt
<1>6. StopsAt(t, k) \in SUBSET Nat
  BY DEF StopsAt, Slots
<1> QED BY <1>5, <1>6, LeastOf

(* findEntry ends at the slot of the key or, when the table has none, at a   *)
(* free slot, and a later probe for the key comes to that slot.              *)
LEMMA FindEntry ==
  ASSUME NEW t, WellFormed(t), t.capacity # 0, NEW k \in Key
  PROVE  /\ findEntry(t, k) \in Slots(t)
         /\ Visits(t, k, findEntry(t, k))
         /\ \/ t.entries[findEntry(t, k)].key = k
            \/ /\ t.entries[findEntry(t, k)] \in {EmptyEntry, Tombstone}
               /\ k \notin KeysOf(t)
<1> DEFINE at(d) == t.entries[Probe(t, Hash(k), d)]
           stop  == Min(StopsAt(t, k))
           holes == {d \in 0 .. stop - 1 : at(d) = Tombstone}
           found == at(stop).key = k
<1>1. t \in TableType
  BY DEF WellFormed
<1>2. stop \in StopsAt(t, k) /\ \A d \in StopsAt(t, k) : stop <= d
  BY ProbeStops
<1>3. stop \in Slots(t) /\ stop \in Nat /\ (at(stop).key = k \/ at(stop) = EmptyEntry)
  BY <1>2 DEF StopsAt, Slots
<1>4. findEntry(t, k)
        = Probe(t, Hash(k), IF found \/ holes = {} THEN stop ELSE Min(holes))
  BY DEF findEntry
<1> HIDE DEF stop
<1>5. \A e \in 0 .. stop - 1 : e \in Slots(t) /\ at(e) # EmptyEntry /\ at(e).key # k
  <2> TAKE e \in 0 .. stop - 1
  <2>1. e \in Slots(t) /\ e < stop
    BY <1>1, <1>3, TableFields DEF Slots
  <2>2. e \notin StopsAt(t, k)
    BY <1>2, <1>3, <2>1 DEF Slots
  <2> QED BY <2>1, <2>2 DEF StopsAt
<1>6. \A d \in 0 .. stop : Passes(t, k, d)
  BY <1>3, <1>5 DEF Passes
<1>7. CASE found
  <2>1. findEntry(t, k) = Probe(t, Hash(k), stop)
    BY <1>4, <1>7
  <2>2. Probe(t, Hash(k), stop) \in Slots(t)
    BY <1>1, <1>3, ProbeType
  <2>3. Visits(t, k, Probe(t, Hash(k), stop))
    BY <1>3, <1>6 DEF Visits
  <2> QED BY <1>7, <2>1, <2>2, <2>3
<1>8. CASE ~ found
  <2>1. k \notin KeysOf(t)
    <3> SUFFICES ASSUME NEW i \in LiveSlots(t), t.entries[i].key = k
                 PROVE  FALSE
      BY DEF KeysOf
    <3>1. PICK d \in Slots(t) : Probe(t, Hash(k), d) = i /\ Passes(t, k, d)
      BY DEF WellFormed, Visits
    <3>2. d \in StopsAt(t, k)
      BY <3>1 DEF StopsAt
    <3>3. stop <= d /\ d \in Nat
      BY <1>2, <3>2 DEF Slots
    <3>4. CASE stop < d
      <4>1. stop \in 0 .. d - 1
        BY <1>3, <3>3, <3>4
      <4> QED BY <1>3, <1>8, <3>1, <4>1 DEF Passes
    <3>5. CASE stop = d
      BY <1>8, <3>1, <3>5
    <3> QED BY <1>3, <3>3, <3>4, <3>5
  <2>2. CASE holes = {}
    <3>1. findEntry(t, k) = Probe(t, Hash(k), stop)
      BY <1>4, <2>2
    <3>2. Probe(t, Hash(k), stop) \in Slots(t)
      BY <1>1, <1>3, ProbeType
    <3>3. Visits(t, k, Probe(t, Hash(k), stop))
      BY <1>3, <1>6 DEF Visits
    <3> QED BY <1>3, <1>8, <2>1, <3>1, <3>2, <3>3
  <2>3. CASE holes # {}
    <3>1. findEntry(t, k) = Probe(t, Hash(k), Min(holes))
      BY <1>4, <1>8, <2>3
    <3>2. holes \in SUBSET Nat
      BY <1>3
    <3>3. Min(holes) \in holes
      BY <2>3, <3>2, LeastOf
    <3>4. Min(holes) \in Slots(t) /\ Min(holes) \in 0 .. stop /\ at(Min(holes)) = Tombstone
      BY <1>3, <1>5, <3>3
    <3> HIDE DEF holes
    <3>5. Probe(t, Hash(k), Min(holes)) \in Slots(t)
      BY <1>1, <3>4, ProbeType
    <3>6. Visits(t, k, Probe(t, Hash(k), Min(holes)))
      BY <1>6, <3>4 DEF Visits
    <3> QED BY <2>1, <3>1, <3>4, <3>5, <3>6
  <2> QED BY <2>2, <2>3
<1> QED BY <1>7, <1>8

(* A lookup finds the one slot of a key, and nothing else.                   *)
LEMMA Lookup ==
  ASSUME NEW t, WellFormed(t), NEW k \in Key
  PROVE  /\ Holds(t, k) <=> k \in KeysOf(t)
         /\ \A i \in LiveSlots(t) : t.entries[i].key = k => findEntry(t, k) = i
<1>1. t \in TableType /\ t.count = Cardinality(UsedSlots(t))
  BY DEF WellFormed
<1>2. k # NULL
  BY TableAssumption
<1>3. CASE t.capacity = 0
  <2>1. Slots(t) = {}
    BY <1>3 DEF Slots
  <2>2. LiveSlots(t) = {} /\ UsedSlots(t) = {}
    BY <2>1 DEF LiveSlots, UsedSlots
  <2>3. t.count = 0
    BY <1>1, <2>2, FS_EmptySet
  <2> QED BY <2>2, <2>3 DEF Holds, KeysOf
<1>4. CASE t.capacity # 0
  <2> DEFINE s == findEntry(t, k)
  <2>1. /\ s \in Slots(t) /\ Visits(t, k, s)
        /\ \/ t.entries[s].key = k
           \/ t.entries[s] \in {EmptyEntry, Tombstone} /\ k \notin KeysOf(t)
    BY <1>4, FindEntry
  <2> HIDE DEF s
  <2>2. t.entries[s] \in {EmptyEntry, Tombstone} => t.entries[s].key = NULL
    BY DEF EmptyEntry, Tombstone
  <2>3. Holds(t, k) <=> k \in KeysOf(t)
    <3>1. CASE t.entries[s].key = k
      <4>1. s \in LiveSlots(t)
        BY <1>2, <2>1, <3>1 DEF LiveSlots
      <4>2. k \in KeysOf(t)
        BY <3>1, <4>1 DEF KeysOf
      <4>3. t.count # 0
        <5>1. s \in UsedSlots(t) /\ IsFiniteSet(UsedSlots(t))
          BY <1>1, <4>1, TableFields
        <5> QED BY <1>1, <5>1, FS_EmptySet
      <4> QED BY <1>2, <3>1, <4>2, <4>3 DEF Holds, s
    <3>2. CASE t.entries[s] \in {EmptyEntry, Tombstone} /\ k \notin KeysOf(t)
      BY <2>2, <3>2 DEF Holds, s
    <3> QED BY <2>1, <3>1, <3>2
  <2>4. ASSUME NEW i \in LiveSlots(t), t.entries[i].key = k
        PROVE  s = i
    <3>1. k \in KeysOf(t)
      BY <2>4 DEF KeysOf
    <3>2. t.entries[s].key = k
      BY <2>1, <3>1
    <3>3. PICK d \in Slots(t) : Probe(t, Hash(k), d) = s /\ Passes(t, k, d)
      BY <2>1 DEF Visits
    <3>4. PICK e \in Slots(t) : Probe(t, Hash(k), e) = i /\ Passes(t, k, e)
      BY <2>4 DEF WellFormed, Visits
    <3>5. ~ (d < e) /\ ~ (e < d)
      <4>1. d < e => d \in 0 .. e - 1
        BY DEF Slots
      <4>2. e < d => e \in 0 .. d - 1
        BY DEF Slots
      <4> QED BY <2>4, <3>2, <3>3, <3>4, <4>1, <4>2 DEF Passes
    <3>6. d = e
      BY <3>5 DEF Slots
    <3> QED BY <3>3, <3>4, <3>6
  <2> QED BY <2>3, <2>4 DEF s
<1> QED BY <1>3, <1>4

-----------------------------------------------------------------------------
(* Writing a pair to the slot that findEntry returns, in a table with room   *)
(* for it, replaces the pair of the key and no other; used slots stay        *)
(* counted, and every key stays within reach of its probe.                   *)
LEMMA Placing ==
  ASSUME NEW t, WellFormed(t), t.count + 1 < t.capacity, NEW k \in Key, NEW v \in Value
  PROVE  /\ WellFormed(Placed(t, k, v))
         /\ Placed(t, k, v).capacity = t.capacity
         /\ Placed(t, k, v).count <= t.count + 1
         /\ UsedSlots(t) = LiveSlots(t) =>
              UsedSlots(Placed(t, k, v)) = LiveSlots(Placed(t, k, v))
         /\ PairsOf(Placed(t, k, v))
              = {p \in PairsOf(t) : p.key # k} \union {[key |-> k, value |-> v]}
<1> DEFINE s == findEntry(t, k)
           pair == [key |-> k, value |-> v]
           u == Placed(t, k, v)
<1>1. /\ t \in TableType /\ t.count = Cardinality(UsedSlots(t))
      /\ t.capacity >= MinCapacity /\ t.capacity \in Nat \ {0} /\ t.count \in Nat
  BY TableFields DEF WellFormed
<1>2. /\ s \in Slots(t) /\ Visits(t, k, s)
      /\ \/ t.entries[s].key = k
         \/ t.entries[s] \in {EmptyEntry, Tombstone} /\ k \notin KeysOf(t)
  BY <1>1, FindEntry
<1>3. /\ u.capacity = t.capacity
      /\ u.entries = [t.entries EXCEPT ![s] = pair]
      /\ u.count = IF t.entries[s] = EmptyEntry THEN t.count + 1 ELSE t.count
      /\ u \in TableType
  <2>1. t = [capacity |-> t.capacity, count |-> t.count, entries |-> t.entries]
        /\ t.entries \in [Slots(t) -> Entry]
    BY <1>1, TableFields
  <2>2. u = [capacity |-> t.capacity,
             count |-> IF t.entries[s] = EmptyEntry THEN t.count + 1 ELSE t.count,
             entries |-> [t.entries EXCEPT ![s] = pair]]
    <3> HIDE DEF s, pair
    <3>1. [t EXCEPT !.entries[s] = pair]
            = [capacity |-> t.capacity, count |-> t.count,
               entries |-> [t.entries EXCEPT ![s] = pair]]
      BY <2>1
    <3>2. u = [[t EXCEPT !.entries[s] = pair] EXCEPT
                 !.count = IF t.entries[s] = EmptyEntry THEN @ + 1 ELSE @]
      BY DEF Placed, s, pair
    <3> QED BY <3>1, <3>2
  <2>3. [t.entries EXCEPT ![s] = pair] \in [Slots(t) -> Entry]
    BY <2>1 DEF Entry, Pair
  <2>4. u \in [capacity : {t.capacity}, count : Nat, entries : [0 .. t.capacity - 1 -> Entry]]
    BY <1>1, <2>2, <2>3 DEF Slots
  <2> QED BY <1>1, <2>2, <2>4 DEF TableType
<1> HIDE DEF s, u
<1>4. /\ Slots(u) = Slots(t)
      /\ \A i \in Slots(t) : u.entries[i] = IF i = s THEN pair ELSE t.entries[i]
  BY <1>1, <1>3, TableFields DEF Slots
<1>5. pair \in Entry /\ pair \in Pair /\ pair.key = k /\ pair # EmptyEntry /\ k # NULL
  BY TableAssumption DEF Entry, Pair, EmptyEntry
<1>6. UsedSlots(u) = UsedSlots(t) \union {s} /\ LiveSlots(u) = LiveSlots(t) \union {s}
  BY <1>2, <1>4, <1>5 DEF UsedSlots, LiveSlots
<1>7. u.count = Cardinality(UsedSlots(u))
  <2>1. IsFiniteSet(UsedSlots(t)) /\ (s \in UsedSlots(t) <=> t.entries[s] # EmptyEntry)
    BY <1>1, <1>2, TableFields DEF UsedSlots
  <2>2. Cardinality(UsedSlots(t) \union {s})
          = IF s \in UsedSlots(t) THEN Cardinality(UsedSlots(t))
            ELSE Cardinality(UsedSlots(t)) + 1
    BY <2>1, FS_AddElement
  <2> QED BY <1>1, <1>3, <1>6, <2>1, <2>2
<1>8. \A i \in LiveSlots(t) \ {s} : t.entries[i].key # k /\ t.entries[i].key \in Key
  <2> TAKE i \in LiveSlots(t) \ {s}
  <2>1. t.entries[i] \in Entry /\ t.entries[i].key # NULL
    BY <1>1, TableFields DEF LiveSlots
  <2> QED BY <2>1, Lookup, Kinds DEF s
<1>9. \A i \in LiveSlots(u) : Visits(u, u.entries[i].key, i)
  <2>1. Visits(u, k, s)
    <3>1. PICK d \in Slots(t) : Probe(t, Hash(k), d) = s /\ Passes(t, k, d)
      BY <1>2 DEF Visits
    <3>2. ASSUME NEW e \in 0 .. d - 1
          PROVE  Probe(t, Hash(k), e) # s /\ Probe(t, Hash(k), e) \in Slots(t)
      <4>1. e \in Slots(t)
        BY <1>1 DEF Slots
      <4>2. Hash(k) \in Nat /\ d \in 0 .. t.capacity - 1
        BY TableAssumption DEF Slots
      <4> QED BY <1>1, <3>1, <4>1, <4>2, ProbesDiffer, ProbeType DEF Probe
    <3>3. Passes(u, k, d)
      BY <1>3, <1>4, <3>1, <3>2 DEF Passes, Probe
    <3> QED BY <1>3, <1>4, <3>1, <3>3 DEF Visits, Probe
  <2>2. ASSUME NEW i \in LiveSlots(t) \ {s}
        PROVE  Visits(u, t.entries[i].key, i)
    <3> DEFINE x == t.entries[i].key
    <3>1. PICK d \in Slots(t) : Probe(t, Hash(x), d) = i /\ Passes(t, x, d)
      BY DEF WellFormed, Visits
    <3>2. x # k /\ x \in Key
      BY <1>8
    <3> HIDE DEF x
    <3>3. \A e \in 0 .. d - 1 : Probe(t, Hash(x), e) \in Slots(t)
      <4> TAKE e \in 0 .. d - 1
      <4>1. e \in Slots(t)
        BY <1>1 DEF Slots
      <4> QED BY <1>1, <3>2, <4>1, ProbeType
    <3>4. Passes(u, x, d)
      BY <1>3, <1>4, <1>5, <3>1, <3>2, <3>3 DEF Passes, Probe
    <3>5. Visits(u, x, i)
      BY <1>3, <1>4, <3>1, <3>4 DEF Visits, Probe
    <3> QED BY <3>5 DEF x
  <2> QED
    <3> TAKE i \in LiveSlots(u)
    <3>1. CASE i = s
      BY <1>2, <1>4, <1>5, <2>1, <3>1
    <3>2. CASE i # s
      <4>1. i \in LiveSlots(t) \ {s} /\ i \in Slots(t)
        BY <1>6, <3>2 DEF LiveSlots
      <4> QED BY <1>4, <2>2, <3>2, <4>1
    <3> QED BY <3>1, <3>2
<1>10. PairsOf(u) = {p \in PairsOf(t) : p.key # k} \union {pair}
  <2>1. ASSUME NEW p \in PairsOf(u)
        PROVE  p \in {q \in PairsOf(t) : q.key # k} \union {pair}
    <3>1. PICK i \in LiveSlots(u) : p = u.entries[i]
      BY <2>1 DEF PairsOf
    <3>2. CASE i = s
      BY <1>2, <1>4, <3>1, <3>2
    <3>3. CASE i # s
      <4>1. i \in LiveSlots(t) \ {s} /\ i \in Slots(t)
        BY <1>6, <3>3 DEF LiveSlots
      <4> QED BY <1>4, <1>8, <3>1, <3>3, <4>1 DEF PairsOf
    <3> QED BY <3>2, <3>3
  <2>2. pair \in PairsOf(u)
    BY <1>2, <1>4, <1>6 DEF PairsOf
  <2>3. ASSUME NEW p \in PairsOf(t), p.key # k
        PROVE  p \in PairsOf(u)
    <3>1. PICK i \in LiveSlots(t) : p = t.entries[i]
      BY DEF PairsOf
    <3>2. i # s
      BY <1>2, <2>3, <3>1, Kinds DEF LiveSlots, EmptyEntry, Tombstone
    <3> QED BY <1>4, <1>6, <3>1, <3>2 DEF PairsOf, LiveSlots
  <2> QED BY <2>1, <2>2, <2>3
<1>11. u.count <= t.count + 1 /\ u.count < t.capacity
  BY <1>1, <1>3
<1>12. WellFormed(u)
  BY <1>1, <1>3, <1>7, <1>9, <1>11 DEF WellFormed
<1> QED BY <1>3, <1>6, <1>10, <1>11, <1>12 DEF u

(* A tombstone takes the pair of the key away and leaves every other key     *)
(* within reach of its probe.                                                *)
LEMMA Deleting ==
  ASSUME NEW t, WellFormed(t), NEW k \in Key
  PROVE  /\ WellFormed(tableDelete(t, k))
         /\ tableDelete(t, k).capacity = t.capacity
         /\ PairsOf(tableDelete(t, k)) = {p \in PairsOf(t) : p.key # k}
<1> DEFINE s == findEntry(t, k)
           u == tableDelete(t, k)
<1>1. /\ t \in TableType /\ t.count = Cardinality(UsedSlots(t))
      /\ t.capacity \in Nat /\ t.count \in Nat
  BY TableFields DEF WellFormed
<1>2. \A p \in PairsOf(t) : p.key = k => k \in KeysOf(t)
  BY DEF PairsOf, KeysOf
<1>3. CASE ~ Holds(t, k)
  <2>1. u = t
    BY <1>3 DEF tableDelete
  <2>2. k \notin KeysOf(t)
    BY <1>3, Lookup
  <2> QED BY <1>2, <2>1, <2>2
<1>4. CASE Holds(t, k)
  <2>1. s \in LiveSlots(t) /\ t.entries[s].key = k
    <3>1. k \in KeysOf(t)
      BY <1>4, Lookup
    <3>2. PICK i \in LiveSlots(t) : t.entries[i].key = k
      BY <3>1 DEF KeysOf
    <3> QED BY <3>2, Lookup
  <2>2. /\ u.capacity = t.capacity /\ u.count = t.count
        /\ u.entries = [t.entries EXCEPT ![s] = Tombstone]
        /\ u \in TableType
    <3>1. t = [capacity |-> t.capacity, count |-> t.count, entries |-> t.entries]
          /\ t.entries \in [Slots(t) -> Entry]
      BY <1>1, TableFields
    <3>2. u = [capacity |-> t.capacity, count |-> t.count,
               entries |-> [t.entries EXCEPT ![s] = Tombstone]]
      BY <1>4, <3>1 DEF tableDelete
    <3>3. [t.entries EXCEPT ![s] = Tombstone] \in [Slots(t) -> Entry]
      BY <3>1 DEF Entry
    <3>4. u \in [capacity : {t.capacity}, count : Nat, entries : [0 .. t.capacity - 1 -> Entry]]
      BY <1>1, <3>2, <3>3 DEF Slots
    <3> QED BY <1>1, <3>2, <3>4 DEF TableType
  <2> HIDE DEF s, u
  <2>3. /\ Slots(u) = Slots(t)
        /\ \A i \in Slots(t) : u.entries[i] = IF i = s THEN Tombstone ELSE t.entries[i]
    BY <1>1, <2>2, TableFields DEF Slots
  <2>4. Tombstone # EmptyEntry /\ Tombstone.key = NULL /\ s \in UsedSlots(t)
    <3>1. s \in UsedSlots(t)
      BY <1>1, <2>1, TableFields
    <3> QED BY <3>1, Kinds DEF Tombstone
  <2>5. UsedSlots(u) = UsedSlots(t) /\ LiveSlots(u) = LiveSlots(t) \ {s}
    BY <2>3, <2>4 DEF UsedSlots, LiveSlots
  <2>6. \A i \in LiveSlots(t) \ {s} : t.entries[i].key # k /\ t.entries[i].key \in Key
    <3> TAKE i \in LiveSlots(t) \ {s}
    <3>1. t.entries[i] \in Entry /\ t.entries[i].key # NULL
      BY <1>1, TableFields DEF LiveSlots
    <3> QED BY <3>1, Lookup, Kinds DEF s
  <2>7. ASSUME NEW i \in LiveSlots(u)
        PROVE  Visits(u, u.entries[i].key, i)
    <3> DEFINE x == t.entries[i].key
    <3>1. i \in LiveSlots(t) \ {s} /\ u.entries[i].key = x
      BY <2>3, <2>5 DEF LiveSlots
    <3>2. PICK d \in Slots(t) : Probe(t, Hash(x), d) = i /\ Passes(t, x, d)
      BY <3>1 DEF WellFormed, Visits
    <3>3. x \in Key /\ x # NULL
      BY <2>6, <3>1, TableAssumption
    <3> HIDE DEF x
    <3>4. \A e \in 0 .. d - 1 : Probe(t, Hash(x), e) \in Slots(t)
      <4> TAKE e \in 0 .. d - 1
      <4>1. e \in Slots(t)
        BY <1>1 DEF Slots
      <4> QED BY <1>1, <3>3, <4>1, ProbeType
    <3>5. Passes(u, x, d)
      BY <2>2, <2>3, <2>4, <3>2, <3>3, <3>4 DEF Passes, Probe
    <3> QED BY <2>2, <2>3, <3>1, <3>2, <3>5 DEF Visits, Probe
  <2>8. PairsOf(u) = {p \in PairsOf(t) : p.key # k}
    <3>1. \A i \in LiveSlots(u) : u.entries[i] = t.entries[i] /\ i \in LiveSlots(t)
      BY <2>3, <2>5 DEF LiveSlots
    <3>2. \A p \in PairsOf(u) : p \in PairsOf(t) /\ p.key # k
      BY <2>5, <2>6, <3>1 DEF PairsOf
    <3>3. ASSUME NEW p \in PairsOf(t), p.key # k
          PROVE  p \in PairsOf(u)
      <4>1. PICK i \in LiveSlots(t) : p = t.entries[i]
        BY DEF PairsOf
      <4>2. i \in LiveSlots(u)
        BY <2>1, <2>5, <3>3, <4>1
      <4> QED BY <3>1, <4>1, <4>2 DEF PairsOf
    <3> QED BY <3>2, <3>3
  <2>9. WellFormed(u)
    BY <1>1, <2>2, <2>5, <2>7 DEF WellFormed
  <2> QED BY <2>2, <2>8, <2>9 DEF u
<1> QED BY <1>3, <1>4

(* The live entries of a table go to a larger array, one by one.             *)
LEMMA Rehashing ==
  ASSUME NEW t, WellFormed(t),
         NEW capacity \in Nat, capacity > t.capacity, capacity >= MinCapacity
  PROVE  /\ WellFormed(adjustCapacity(t, capacity))
         /\ adjustCapacity(t, capacity).capacity = capacity
         /\ adjustCapacity(t, capacity).count <= t.capacity
         /\ PairsOf(adjustCapacity(t, capacity)) = PairsOf(t)
<1> DEFINE fresh == [capacity |-> capacity, count |-> 0,
                     entries  |-> [i \in 0 .. capacity - 1 |-> EmptyEntry]]
           Move(u, n) ==
             LET e == t.entries[n - 1]
             IN IF e.key = NULL THEN u
                ELSE [u EXCEPT !.entries[findEntry(u, e.key)] = e, !.count = @ + 1]
           seq  == [n \in 1 .. t.capacity |-> n]
           step == [p \in TableType \X (1 .. t.capacity) |-> Move(p[1], p[2])]
           iter == CHOOSE g : g = [s \in SUBSET DOMAIN seq |->
                                     IF s = {} THEN fresh
                                     ELSE Move(g[s \ {Max(s)}], seq[Max(s)])]
<1>1. adjustCapacity(t, capacity) = iter[DOMAIN seq]
  BY DEF adjustCapacity, FoldLeft, MapThenFoldSet
<1>2. /\ t \in TableType /\ t.capacity \in Nat /\ capacity \in Nat \ {0}
      /\ DOMAIN seq = 1 .. t.capacity /\ \A n \in 1 .. t.capacity : seq[n] = n
  BY TableFields DEF WellFormed
<1>3. ASSUME NEW n \in 1 .. t.capacity
      PROVE  n - 1 \in Slots(t) /\ t.entries[n - 1] \in Entry
  BY <1>2, TableFields DEF Slots
<1>4. ASSUME NEW u \in TableType, NEW n \in 1 .. t.capacity
      PROVE  Move(u, n) \in TableType
  <2> DEFINE e == t.entries[n - 1]
             w == [capacity |-> u.capacity, count |-> u.count + 1,
                   entries |-> [u.entries EXCEPT ![findEntry(u, e.key)] = e]]
  <2>1. /\ u = [capacity |-> u.capacity, count |-> u.count, entries |-> u.entries]
        /\ u.entries \in [Slots(u) -> Entry] /\ u.capacity \in Nat /\ u.count \in Nat
    BY TableFields
  <2>2. Move(u, n) = u \/ Move(u, n) = w
    <3> DEFINE x == [u EXCEPT !.entries[findEntry(u, e.key)] = e]
    <3>1. x = [capacity |-> u.capacity, count |-> u.count,
               entries |-> [u.entries EXCEPT ![findEntry(u, e.key)] = e]]
      BY <2>1
    <3> HIDE DEF x
    <3>2. [x EXCEPT !.count = @ + 1] = w
      BY <3>1
    <3> QED BY <3>2 DEF x
  <2>3. w \in TableType
    <3>1. [u.entries EXCEPT ![findEntry(u, e.key)] = e] \in [Slots(u) -> Entry]
      BY <1>3, <2>1
    <3> QED BY <2>1, <3>1 DEF TableType, Slots
  <2> QED BY <2>2, <2>3
<1>5. fresh \in TableType
  BY <1>2 DEF TableType, Entry
<1> HIDE DEF Move, fresh, seq
<1>6. \A a \in TableType, n \in 1 .. t.capacity : step[<<a, n>>] = Move(a, n)
  OBVIOUS
<1> DEFINE it(n) == iter[1 .. n]
<1>8. it(0) = fresh /\ \A n \in 1 .. t.capacity : it(n) = Move(it(n - 1), n)
  <2>1. step \in [TableType \X (1 .. t.capacity) -> TableType]
    BY <1>4 DEF step
  <2>2. PICK g : Folds(g, TableType, fresh, t.capacity, step)
    BY <1>2, <1>5, <2>1, FoldExists
  <2>3. ASSUME NEW s \in SUBSET (1 .. t.capacity), s # {}
        PROVE  /\ Max(s) \in 1 .. t.capacity
               /\ seq[Max(s)] = Max(s)
               /\ g[s \ {Max(s)}] \in TableType
               /\ step[<<g[s \ {Max(s)}], Max(s)>>] = Move(g[s \ {Max(s)}], seq[Max(s)])
    <3>1. Max(s) \in s
      BY <1>2, <2>3, MaxIn
    <3>2. g[s \ {Max(s)}] \in TableType
      BY <2>2 DEF Folds
    <3> QED BY <1>2, <1>6, <3>1, <3>2
  <2>4. g = [s \in SUBSET DOMAIN seq |->
               IF s = {} THEN fresh ELSE Move(g[s \ {Max(s)}], seq[Max(s)])]
    <3> DEFINE k == [s \in SUBSET DOMAIN seq |->
                       IF s = {} THEN fresh ELSE Move(g[s \ {Max(s)}], seq[Max(s)])]
    <3>1. k = [s \in SUBSET (1 .. t.capacity) |-> k[s]]
      BY <1>2
    <3>2. \A s \in SUBSET (1 .. t.capacity) : k[s] = g[s]
      BY <1>2, <2>2, <2>3 DEF Folds
    <3>3. g = [s \in SUBSET (1 .. t.capacity) |-> g[s]]
      BY <2>2 DEF Folds
    <3> HIDE DEF k
    <3>4. g = k
      BY <3>1, <3>2, <3>3
    <3> QED BY <3>4 DEF k
  <2>5. iter = [s \in SUBSET DOMAIN seq |->
                  IF s = {} THEN fresh ELSE Move(iter[s \ {Max(s)}], seq[Max(s)])]
    BY <2>4
  <2> HIDE DEF iter
  <2>6. it(0) = fresh
    BY <1>2, <2>5, InitialSegments
  <2>7. \A n \in 1 .. t.capacity : it(n) = Move(it(n - 1), n)
    <3> TAKE n \in 1 .. t.capacity
    <3>1. /\ 1 .. n \in SUBSET (1 .. t.capacity) /\ 1 .. n # {}
          /\ Max(1 .. n) = n /\ (1 .. n) \ {n} = 1 .. n - 1
      BY <1>2, InitialSegments
    <3>2. iter[1 .. n] = Move(iter[(1 .. n) \ {Max(1 .. n)}], seq[Max(1 .. n)])
      BY <1>2, <2>5, <3>1
    <3> QED BY <1>2, <3>1, <3>2
  <2> QED BY <2>6, <2>7
<1> HIDE DEF iter, it
<1> DEFINE Before(n) == {t.entries[j] : j \in {i \in LiveSlots(t) : i < n}}
           Good(n) == /\ WellFormed(it(n))
                      /\ it(n).capacity = capacity
                      /\ it(n).count <= n
                      /\ UsedSlots(it(n)) = LiveSlots(it(n))
                      /\ PairsOf(it(n)) = Before(n)
           S == {n \in 0 .. t.capacity : Good(n)}
<1>9. 0 \in S
  <2>1. /\ fresh.capacity = capacity /\ fresh.count = 0
        /\ \A i \in 0 .. capacity - 1 : fresh.entries[i] = EmptyEntry
    BY DEF fresh
  <2>2. UsedSlots(fresh) = {} /\ LiveSlots(fresh) = {}
    BY <2>1 DEF UsedSlots, LiveSlots, Slots, EmptyEntry
  <2>3. WellFormed(fresh)
    <3>1. Cardinality(UsedSlots(fresh)) = 0
      BY <2>2, FS_EmptySet
    <3> QED BY <1>2, <1>5, <2>1, <2>2, <3>1 DEF WellFormed
  <2>4. Before(0) = {}
    BY DEF LiveSlots, Slots
  <2>5. PairsOf(fresh) = {}
    BY <2>2 DEF PairsOf
  <2> HIDE DEF Before, fresh
  <2>6. Good(0)
    <3>1. it(0) = fresh /\ fresh.count <= 0
      BY <1>8, <2>1
    <3> QED BY <2>1, <2>2, <2>3, <2>4, <2>5, <3>1
  <2> QED BY <1>2, <2>6
<1>10. ASSUME NEW n \in 1 .. t.capacity, n - 1 \in S
       PROVE  n \in S
  <2> DEFINE u == it(n - 1)
             e == t.entries[n - 1]
  <2>1. Good(n - 1) /\ it(n) = Move(u, n)
    BY <1>8, <1>10
  <2>2. n - 1 \in Slots(t) /\ e \in Entry /\ n \in Nat
    BY <1>2, <1>3
  <2>3. CASE e.key = NULL
    <3>1. it(n) = u
      BY <2>1, <2>3 DEF Move
    <3>2. {i \in LiveSlots(t) : i < n} = {i \in LiveSlots(t) : i < n - 1}
      BY <2>2, <2>3 DEF LiveSlots, Slots
    <3>3. Before(n) = Before(n - 1)
      BY <3>2
    <3>4. it(n).count <= n
      <4>1. it(n).count \in Nat
        BY <2>1, <3>1, TableFields DEF WellFormed
      <4> QED BY <2>1, <2>2, <3>1, <4>1
    <3> QED BY <2>1, <3>1, <3>3, <3>4
  <2>4. CASE e.key # NULL
    <3>1. /\ e \in Pair /\ e.key \in Key /\ e.value \in Value
          /\ e = [key |-> e.key, value |-> e.value]
      BY <2>2, <2>4, Kinds DEF Pair
    <3>2. n - 1 \in LiveSlots(t)
      BY <2>2, <2>4 DEF LiveSlots
    <3>3. u \in TableType /\ u.count \in Nat /\ u.count + 1 < u.capacity /\ u.capacity # 0
      <4>1. u \in TableType
        BY <2>1 DEF WellFormed
      <4>2. u.count \in Nat /\ u.count <= n - 1 /\ u.capacity = capacity
        BY <2>1, <4>1, TableFields
      <4> QED BY <1>2, <4>1, <4>2
    <3>4. \A p \in PairsOf(u) : p.key # e.key
      <4> SUFFICES ASSUME NEW j \in LiveSlots(t), j < n - 1, t.entries[j].key = e.key
                   PROVE  FALSE
        BY <2>1
      <4>1. findEntry(t, e.key) = j /\ findEntry(t, e.key) = n - 1
        BY <3>1, <3>2, Lookup
      <4> QED BY <2>2, <4>1
    <3>5. e.key \notin KeysOf(u)
      BY <3>4 DEF KeysOf, PairsOf
    <3>6. u.entries[findEntry(u, e.key)] = EmptyEntry
      <4> DEFINE f == findEntry(u, e.key)
      <4>1. /\ f \in Slots(u)
            /\ \/ u.entries[f].key = e.key
               \/ u.entries[f] \in {EmptyEntry, Tombstone}
        BY <2>1, <3>1, <3>3, FindEntry
      <4> HIDE DEF f
      <4>2. u.entries[f].key # e.key
        BY <2>4, <3>5, <4>1 DEF KeysOf, LiveSlots
      <4>3. u.entries[f] # Tombstone
        <5> SUFFICES ASSUME u.entries[f] = Tombstone PROVE FALSE
          OBVIOUS
        <5>1. f \in UsedSlots(u)
          BY <4>1, Kinds DEF UsedSlots
        <5>2. f \in LiveSlots(u)
          BY <2>1, <5>1
        <5> QED BY <5>2 DEF LiveSlots, Tombstone
      <4> QED BY <4>1, <4>2, <4>3 DEF f
    <3>7. it(n) = Placed(u, e.key, e.value)
      <4> DEFINE f == findEntry(u, e.key)
      <4>1. Placed(u, e.key, e.value)
              = [u EXCEPT !.entries[f] = e,
                          !.count = IF u.entries[f] = EmptyEntry THEN @ + 1 ELSE @]
        BY <3>1 DEF Placed
      <4>2. it(n) = [u EXCEPT !.entries[f] = e, !.count = @ + 1]
        BY <2>1, <2>4 DEF Move
      <4> HIDE DEF u, e
      <4> QED BY <3>6, <4>1, <4>2
    <3> HIDE DEF u, e
    <3>8. /\ WellFormed(it(n)) /\ it(n).capacity = u.capacity
          /\ it(n).count <= u.count + 1
          /\ UsedSlots(u) = LiveSlots(u) => UsedSlots(it(n)) = LiveSlots(it(n))
          /\ PairsOf(it(n)) = {p \in PairsOf(u) : p.key # e.key}
                               \union {[key |-> e.key, value |-> e.value]}
      BY <2>1, <3>1, <3>3, <3>7, Placing DEF u
    <3>9. PairsOf(it(n)) = PairsOf(u) \union {e}
      BY <3>1, <3>4, <3>8
    <3>10. Before(n) = Before(n - 1) \union {e}
      <4>1. {i \in LiveSlots(t) : i < n} = {i \in LiveSlots(t) : i < n - 1} \union {n - 1}
        BY <2>2, <3>2 DEF LiveSlots, Slots
      <4> QED BY <4>1 DEF e
    <3>11. it(n).count <= n
      <4>1. it(n).count \in Nat
        BY <3>8, TableFields DEF WellFormed
      <4> QED BY <2>1, <2>2, <3>3, <3>8, <4>1 DEF u
    <3> QED BY <2>1, <3>8, <3>9, <3>10, <3>11 DEF u
  <2> QED BY <2>3, <2>4
<1> HIDE DEF S
<1>11. t.capacity \in S
  <2>1. \A n \in 1 .. t.capacity : n - 1 \in S => n \in S
    BY <1>10
  <2>2. \A n \in 0 .. t.capacity : n \in S
    BY <1>2, <1>9, <2>1, UpTo
  <2>3. t.capacity \in 0 .. t.capacity
    BY <1>2
  <2> QED BY <2>2, <2>3
<1>12. Before(t.capacity) = PairsOf(t)
  <2>1. {i \in LiveSlots(t) : i < t.capacity} = LiveSlots(t)
    BY <1>2 DEF LiveSlots, Slots
  <2> QED BY <2>1 DEF PairsOf
<1>13. adjustCapacity(t, capacity) = it(t.capacity)
  BY <1>1, <1>2 DEF it
<1> QED BY <1>11, <1>12, <1>13 DEF S


(* Growing leaves room for one more key and an empty slot after it.          *)
LEMMA Growing ==
  ASSUME NEW t, WellFormed(t)
  PROVE  /\ WellFormed(Grown(t))
         /\ Grown(t).count + 1 < Grown(t).capacity
         /\ PairsOf(Grown(t)) = PairsOf(t)
<1>1. /\ t \in TableType /\ t.capacity \in Nat /\ t.count \in Nat
      /\ t.capacity # 0 => t.capacity >= MinCapacity /\ t.count < t.capacity
      /\ MinCapacity \in Nat /\ MinCapacity >= 2
  BY TableFields, TableAssumption DEF WellFormed
<1>2. CASE ~ Overloaded(t)
  <2>1. 4 * (t.count + 1) <= 3 * t.capacity
    BY <1>1, <1>2 DEF Overloaded
  <2>2. t.count + 1 < t.capacity
    BY <1>1, <2>1
  <2> QED BY <1>2, <2>2 DEF Grown
<1>3. CASE Overloaded(t)
  <2> DEFINE c == GrowCapacity(t.capacity)
             u == adjustCapacity(t, c)
  <2>1. c \in Nat /\ c > t.capacity /\ c >= MinCapacity /\ c >= t.capacity + 2
    BY <1>1 DEF GrowCapacity
  <2>2. Grown(t) = u
    BY <1>3 DEF Grown
  <2> HIDE DEF c
  <2>3. WellFormed(u) /\ u.capacity = c /\ u.count <= t.capacity /\ PairsOf(u) = PairsOf(t)
    BY <2>1, Rehashing
  <2>4. u.count \in Nat
    BY <2>3, TableFields DEF WellFormed
  <2> HIDE DEF u
  <2>5. u.count + 1 < u.capacity
    BY <1>1, <2>1, <2>3, <2>4
  <2> QED BY <2>2, <2>3, <2>5
<1> QED BY <1>2, <1>3

(* tableSet replaces the pair of its key, whether or not the table grew.     *)
LEMMA Setting ==
  ASSUME NEW t, WellFormed(t), NEW k \in Key, NEW v \in Value
  PROVE  /\ WellFormed(tableSet(t, k, v))
         /\ PairsOf(tableSet(t, k, v))
              = {p \in PairsOf(t) : p.key # k} \union {[key |-> k, value |-> v]}
<1>1. /\ WellFormed(Grown(t)) /\ Grown(t).count + 1 < Grown(t).capacity
      /\ PairsOf(Grown(t)) = PairsOf(t)
  BY Growing
<1> QED BY <1>1, Placing DEF tableSet

(* A new or freed table has no pair.                                         *)
LEMMA Initial ==
  WellFormed(initTable) /\ PairsOf(initTable) = {}
<1>1. initTable.capacity = 0 /\ initTable.count = 0 /\ Slots(initTable) = {}
  BY DEF initTable, Slots
<1>2. UsedSlots(initTable) = {} /\ LiveSlots(initTable) = {}
  BY <1>1 DEF UsedSlots, LiveSlots
<1>3. initTable \in TableType
  <2>1. initTable.entries \in [0 .. 0 - 1 -> Entry]
    BY DEF initTable
  <2>2. initTable \in [capacity : {0}, count : Nat, entries : [0 .. 0 - 1 -> Entry]]
    BY <2>1 DEF initTable
  <2> QED BY <2>2 DEF TableType
<1> QED BY <1>1, <1>2, <1>3, FS_EmptySet DEF WellFormed, PairsOf

(* A key has one slot.                                                       *)
LEMMA Unique ==
  ASSUME NEW t, WellFormed(t), NEW i \in LiveSlots(t)
  PROVE  /\ t.entries[i] \in Pair /\ t.entries[i].key \in Key
         /\ t.entries[i].value \in Value
         /\ t.entries[i] = [key |-> t.entries[i].key, value |-> t.entries[i].value]
         /\ \A j \in LiveSlots(t) : t.entries[i].key = t.entries[j].key => i = j
<1>1. t.entries[i] \in Pair /\ t.entries[i].key \in Key
  <2>1. t.entries[i] \in Entry /\ t.entries[i].key # NULL
    BY TableFields DEF WellFormed, LiveSlots
  <2> QED BY <2>1, Kinds
<1>2. \A j \in LiveSlots(t) : t.entries[i].key = t.entries[j].key => i = j
  BY <1>1, Lookup
<1> QED BY <1>1, <1>2 DEF Pair

(* The pairs of the source replace those of the target with the same keys.   *)
LEMMA AddingAll ==
  ASSUME NEW from, WellFormed(from), NEW to, WellFormed(to)
  PROVE  /\ WellFormed(tableAddAll(from, to))
         /\ PairsOf(tableAddAll(from, to))
              = {p \in PairsOf(to) : p.key \notin KeysOf(from)} \union PairsOf(from)
<1> DEFINE Good == {u \in TableType : WellFormed(u)}
           Move(u, n) == LET e == from.entries[n - 1]
                         IN IF e.key = NULL THEN u ELSE tableSet(u, e.key, e.value)
           seq  == [n \in 1 .. from.capacity |-> n]
           step == [p \in Good \X (1 .. from.capacity) |-> Move(p[1], p[2])]
           iter == CHOOSE g : g = [s \in SUBSET DOMAIN seq |->
                                     IF s = {} THEN to
                                     ELSE Move(g[s \ {Max(s)}], seq[Max(s)])]
<1>1. tableAddAll(from, to) = iter[DOMAIN seq]
  BY DEF tableAddAll, FoldLeft, MapThenFoldSet
<1>2. /\ from \in TableType /\ from.capacity \in Nat /\ to \in Good
      /\ DOMAIN seq = 1 .. from.capacity /\ \A n \in 1 .. from.capacity : seq[n] = n
  BY TableFields DEF WellFormed
<1>3. ASSUME NEW n \in 1 .. from.capacity
      PROVE  n - 1 \in Slots(from) /\ from.entries[n - 1] \in Entry
  BY <1>2, TableFields DEF Slots
<1>4. ASSUME NEW u \in Good, NEW n \in 1 .. from.capacity
      PROVE  Move(u, n) \in Good
  <2> DEFINE e == from.entries[n - 1]
  <2>1. CASE e.key = NULL
    BY <2>1
  <2>2. CASE e.key # NULL
    <3>1. e.key \in Key /\ e.value \in Value
      BY <1>3, <2>2, Unique DEF LiveSlots
    <3>2. WellFormed(tableSet(u, e.key, e.value))
      BY <3>1, Setting
    <3> QED BY <2>2, <3>2 DEF WellFormed
  <2> QED BY <2>1, <2>2
<1> HIDE DEF Move, seq, Good
<1>5. \A a \in Good, n \in 1 .. from.capacity : step[<<a, n>>] = Move(a, n)
  OBVIOUS
<1> DEFINE it(n) == iter[1 .. n]
<1>6. it(0) = to /\ \A n \in 1 .. from.capacity : it(n) = Move(it(n - 1), n)
  <2>1. step \in [Good \X (1 .. from.capacity) -> Good]
    BY <1>4 DEF step
  <2>2. PICK g : Folds(g, Good, to, from.capacity, step)
    BY <1>2, <2>1, FoldExists
  <2>3. ASSUME NEW s \in SUBSET (1 .. from.capacity), s # {}
        PROVE  /\ Max(s) \in 1 .. from.capacity
               /\ seq[Max(s)] = Max(s)
               /\ step[<<g[s \ {Max(s)}], Max(s)>>] = Move(g[s \ {Max(s)}], seq[Max(s)])
    <3>1. Max(s) \in s
      BY <1>2, <2>3, MaxIn
    <3>2. g[s \ {Max(s)}] \in Good
      BY <2>2 DEF Folds
    <3> QED BY <1>2, <1>5, <3>1, <3>2
  <2>4. g = [s \in SUBSET DOMAIN seq |->
               IF s = {} THEN to ELSE Move(g[s \ {Max(s)}], seq[Max(s)])]
    <3> DEFINE k == [s \in SUBSET DOMAIN seq |->
                       IF s = {} THEN to ELSE Move(g[s \ {Max(s)}], seq[Max(s)])]
    <3>1. k = [s \in SUBSET (1 .. from.capacity) |-> k[s]]
      BY <1>2
    <3>2. \A s \in SUBSET (1 .. from.capacity) : k[s] = g[s]
      BY <1>2, <2>2, <2>3 DEF Folds
    <3>3. g = [s \in SUBSET (1 .. from.capacity) |-> g[s]]
      BY <2>2 DEF Folds
    <3> HIDE DEF k
    <3>4. g = k
      BY <3>1, <3>2, <3>3
    <3> QED BY <3>4 DEF k
  <2>5. iter = [s \in SUBSET DOMAIN seq |->
                  IF s = {} THEN to ELSE Move(iter[s \ {Max(s)}], seq[Max(s)])]
    BY <2>4
  <2> HIDE DEF iter
  <2>6. it(0) = to
    BY <1>2, <2>5, InitialSegments
  <2>7. \A n \in 1 .. from.capacity : it(n) = Move(it(n - 1), n)
    <3> TAKE n \in 1 .. from.capacity
    <3>1. /\ 1 .. n \in SUBSET (1 .. from.capacity) /\ 1 .. n # {}
          /\ Max(1 .. n) = n /\ (1 .. n) \ {n} = 1 .. n - 1
      BY <1>2, InitialSegments
    <3>2. iter[1 .. n] = Move(iter[(1 .. n) \ {Max(1 .. n)}], seq[Max(1 .. n)])
      BY <1>2, <2>5, <3>1
    <3> QED BY <1>2, <3>1, <3>2
  <2> QED BY <2>6, <2>7
<1> HIDE DEF iter, it
<1> DEFINE Slot(n) == {i \in LiveSlots(from) : i < n}
           Copied(n) == {from.entries[j] : j \in Slot(n)}
           Kept(n) == {p \in PairsOf(to) : \A j \in Slot(n) : p.key # from.entries[j].key}
           S == {n \in 0 .. from.capacity :
                   it(n) \in Good /\ PairsOf(it(n)) = Kept(n) \union Copied(n)}
<1>7. 0 \in S
  <2>1. Slot(0) = {}
    BY <1>2 DEF LiveSlots, Slots
  <2>2. Kept(0) = PairsOf(to) /\ Copied(0) = {}
    BY <2>1
  <2> HIDE DEF Slot, Kept, Copied
  <2> QED BY <1>2, <1>6, <2>2
<1>8. ASSUME NEW n \in 1 .. from.capacity, n - 1 \in S
      PROVE  n \in S
  <2> DEFINE u == it(n - 1)
             e == from.entries[n - 1]
  <2>1. u \in Good /\ PairsOf(u) = Kept(n - 1) \union Copied(n - 1) /\ it(n) = Move(u, n)
    BY <1>6, <1>8
  <2>2. n - 1 \in Slots(from) /\ n \in Nat
    BY <1>2, <1>3
  <2>3. CASE e.key = NULL
    <3>1. it(n) = u
      BY <2>1, <2>3 DEF Move
    <3>2. Slot(n) = Slot(n - 1)
      BY <2>2, <2>3 DEF LiveSlots, Slots
    <3>3. Kept(n) = Kept(n - 1) /\ Copied(n) = Copied(n - 1)
      BY <3>2
    <3> QED BY <2>1, <3>1, <3>3
  <2>4. CASE e.key # NULL
    <3>1. n - 1 \in LiveSlots(from)
      BY <2>2, <2>4 DEF LiveSlots
    <3>2. /\ e.key \in Key /\ e.value \in Value
          /\ e = [key |-> e.key, value |-> e.value]
      BY <3>1, Unique
    <3>3. \A j \in Slot(n - 1) : from.entries[j].key # e.key
      <4> TAKE j \in Slot(n - 1)
      <4>1. j \in LiveSlots(from) /\ j # n - 1
        BY <2>2 DEF LiveSlots, Slots
      <4> QED BY <3>1, <4>1, Unique
    <3>4. Slot(n) = Slot(n - 1) \union {n - 1}
      BY <2>2, <3>1 DEF LiveSlots, Slots
    <3> DEFINE w == tableSet(u, e.key, e.value)
    <3>5. it(n) = w
      BY <2>1, <2>4 DEF Move
    <3>6. WellFormed(w) /\ w \in TableType
      BY <2>1, <3>2, Setting DEF Good, WellFormed
    <3>7. PairsOf(w) = {p \in PairsOf(u) : p.key # e.key} \union {e}
      BY <2>1, <3>2, Setting DEF Good
    <3> HIDE DEF u, w
    <3>8. Copied(n) = Copied(n - 1) \union {e}
      BY <3>4
    <3>9. Kept(n) = {p \in Kept(n - 1) : p.key # e.key}
      BY <3>4
    <3>10. \A p \in Copied(n - 1) : p.key # e.key
      BY <3>3
    <3> HIDE DEF Copied, Kept, e
    <3>11. PairsOf(w) = Kept(n) \union Copied(n)
      BY <2>1, <3>7, <3>8, <3>9, <3>10
    <3> QED BY <3>5, <3>6, <3>11 DEF Good
  <2> QED BY <2>3, <2>4
<1> HIDE DEF S
<1>9. from.capacity \in S
  <2>1. \A n \in 1 .. from.capacity : n - 1 \in S => n \in S
    BY <1>8
  <2>2. \A n \in 0 .. from.capacity : n \in S
    BY <1>2, <1>7, <2>1, UpTo
  <2> QED BY <1>2, <2>2
<1>10. /\ Copied(from.capacity) = PairsOf(from)
       /\ Kept(from.capacity) = {p \in PairsOf(to) : p.key \notin KeysOf(from)}
  <2>1. Slot(from.capacity) = LiveSlots(from)
    BY <1>2 DEF LiveSlots, Slots
  <2> QED BY <2>1 DEF PairsOf, KeysOf
<1>11. tableAddAll(from, to) = it(from.capacity)
  BY <1>1, <1>2 DEF it
<1> QED BY <1>9, <1>10, <1>11 DEF S, Good

(* Deleting the unmarked keys leaves the marked ones.                        *)
LEMMA RemovingWhite ==
  ASSUME NEW t, WellFormed(t), NEW marked
  PROVE  /\ WellFormed(tableRemoveWhite(t, marked))
         /\ tableRemoveWhite(t, marked).capacity = t.capacity
         /\ PairsOf(tableRemoveWhite(t, marked)) = {p \in PairsOf(t) : p.key \in marked}
<1> DEFINE Good == {u \in TableType : WellFormed(u)}
           Move(u, n) == LET k == t.entries[n - 1].key
                         IN IF k = NULL \/ k \in marked THEN u ELSE tableDelete(u, k)
           seq  == [n \in 1 .. t.capacity |-> n]
           step == [p \in Good \X (1 .. t.capacity) |-> Move(p[1], p[2])]
           iter == CHOOSE g : g = [s \in SUBSET DOMAIN seq |->
                                     IF s = {} THEN t
                                     ELSE Move(g[s \ {Max(s)}], seq[Max(s)])]
<1>1. tableRemoveWhite(t, marked) = iter[DOMAIN seq]
  BY DEF tableRemoveWhite, FoldLeft, MapThenFoldSet
<1>2. /\ t \in TableType /\ t.capacity \in Nat /\ t \in Good
      /\ DOMAIN seq = 1 .. t.capacity /\ \A n \in 1 .. t.capacity : seq[n] = n
  BY TableFields DEF WellFormed
<1>3. ASSUME NEW n \in 1 .. t.capacity
      PROVE  n - 1 \in Slots(t) /\ t.entries[n - 1] \in Entry
  BY <1>2, TableFields DEF Slots
<1>4. ASSUME NEW u \in Good, NEW n \in 1 .. t.capacity
      PROVE  Move(u, n) \in Good
  <2> DEFINE k == t.entries[n - 1].key
  <2>1. CASE k = NULL \/ k \in marked
    BY <2>1
  <2>2. CASE ~ (k = NULL \/ k \in marked)
    <3>1. k \in Key
      BY <1>3, <2>2, Unique DEF LiveSlots
    <3>2. WellFormed(tableDelete(u, k))
      BY <3>1, Deleting
    <3> QED BY <2>2, <3>2 DEF WellFormed
  <2> QED BY <2>1, <2>2
<1> HIDE DEF Move, seq, Good
<1>5. \A a \in Good, n \in 1 .. t.capacity : step[<<a, n>>] = Move(a, n)
  OBVIOUS
<1> DEFINE it(n) == iter[1 .. n]
<1>6. it(0) = t /\ \A n \in 1 .. t.capacity : it(n) = Move(it(n - 1), n)
  <2>1. step \in [Good \X (1 .. t.capacity) -> Good]
    BY <1>4 DEF step
  <2>2. PICK g : Folds(g, Good, t, t.capacity, step)
    BY <1>2, <2>1, FoldExists
  <2>3. ASSUME NEW s \in SUBSET (1 .. t.capacity), s # {}
        PROVE  /\ Max(s) \in 1 .. t.capacity
               /\ seq[Max(s)] = Max(s)
               /\ step[<<g[s \ {Max(s)}], Max(s)>>] = Move(g[s \ {Max(s)}], seq[Max(s)])
    <3>1. Max(s) \in s
      BY <1>2, <2>3, MaxIn
    <3>2. g[s \ {Max(s)}] \in Good
      BY <2>2 DEF Folds
    <3> QED BY <1>2, <1>5, <3>1, <3>2
  <2>4. g = [s \in SUBSET DOMAIN seq |->
               IF s = {} THEN t ELSE Move(g[s \ {Max(s)}], seq[Max(s)])]
    <3> DEFINE k == [s \in SUBSET DOMAIN seq |->
                       IF s = {} THEN t ELSE Move(g[s \ {Max(s)}], seq[Max(s)])]
    <3>1. k = [s \in SUBSET (1 .. t.capacity) |-> k[s]]
      BY <1>2
    <3>2. \A s \in SUBSET (1 .. t.capacity) : k[s] = g[s]
      BY <1>2, <2>2, <2>3 DEF Folds
    <3>3. g = [s \in SUBSET (1 .. t.capacity) |-> g[s]]
      BY <2>2 DEF Folds
    <3> HIDE DEF k
    <3>4. g = k
      BY <3>1, <3>2, <3>3
    <3> QED BY <3>4 DEF k
  <2>5. iter = [s \in SUBSET DOMAIN seq |->
                  IF s = {} THEN t ELSE Move(iter[s \ {Max(s)}], seq[Max(s)])]
    BY <2>4
  <2> HIDE DEF iter
  <2>6. it(0) = t
    BY <1>2, <2>5, InitialSegments
  <2>7. \A n \in 1 .. t.capacity : it(n) = Move(it(n - 1), n)
    <3> TAKE n \in 1 .. t.capacity
    <3>1. /\ 1 .. n \in SUBSET (1 .. t.capacity) /\ 1 .. n # {}
          /\ Max(1 .. n) = n /\ (1 .. n) \ {n} = 1 .. n - 1
      BY <1>2, InitialSegments
    <3>2. iter[1 .. n] = Move(iter[(1 .. n) \ {Max(1 .. n)}], seq[Max(1 .. n)])
      BY <1>2, <2>5, <3>1
    <3> QED BY <1>2, <3>1, <3>2
  <2> QED BY <2>6, <2>7
<1> HIDE DEF iter, it
<1> DEFINE Slot(n) == {i \in LiveSlots(t) : i < n}
           Kept(n) == {p \in PairsOf(t) :
                         \A j \in Slot(n) : p.key = t.entries[j].key => p.key \in marked}
           S == {n \in 0 .. t.capacity : /\ it(n) \in Good /\ PairsOf(it(n)) = Kept(n)
                                       /\ it(n).capacity = t.capacity}
<1>7. 0 \in S
  <2>1. Slot(0) = {}
    BY <1>2 DEF LiveSlots, Slots
  <2>2. Kept(0) = PairsOf(t)
    BY <2>1
  <2> QED BY <1>2, <1>6, <2>2
<1>8. ASSUME NEW n \in 1 .. t.capacity, n - 1 \in S
      PROVE  n \in S
  <2> DEFINE u == it(n - 1)
             k == t.entries[n - 1].key
  <2>1. /\ u \in Good /\ PairsOf(u) = Kept(n - 1) /\ it(n) = Move(u, n)
        /\ u.capacity = t.capacity
    BY <1>6, <1>8
  <2>2. n - 1 \in Slots(t) /\ n \in Nat
    BY <1>2, <1>3
  <2>3. CASE k = NULL
    <3>1. it(n) = u
      BY <2>1, <2>3 DEF Move
    <3>2. Slot(n) = Slot(n - 1)
      BY <2>2, <2>3 DEF LiveSlots, Slots
    <3>3. Kept(n) = Kept(n - 1)
      BY <3>2
    <3> QED BY <2>1, <3>1, <3>3
  <2>4. CASE k # NULL
    <3>1. n - 1 \in LiveSlots(t)
      BY <2>2, <2>4 DEF LiveSlots
    <3>2. Slot(n) = Slot(n - 1) \union {n - 1}
      BY <2>2, <3>1 DEF LiveSlots, Slots
    <3>3. Kept(n) = {p \in Kept(n - 1) : p.key = k => p.key \in marked}
      BY <3>2
    <3>4. CASE k \in marked
      <4>1. it(n) = u
        BY <2>1, <3>4 DEF Move
      <4>2. Kept(n) = Kept(n - 1)
        BY <3>3, <3>4
      <4> QED BY <2>1, <4>1, <4>2
    <3>5. CASE k \notin marked
      <4> DEFINE w == tableDelete(u, k)
      <4>1. it(n) = w
        BY <2>1, <2>4, <3>5 DEF Move
      <4>2. k \in Key
        BY <3>1, Unique
      <4>3. WellFormed(w) /\ w \in TableType
        BY <2>1, <4>2, Deleting DEF Good, WellFormed
      <4>4. PairsOf(w) = {p \in PairsOf(u) : p.key # k} /\ w.capacity = t.capacity
        BY <2>1, <4>2, Deleting DEF Good
      <4> HIDE DEF u, w, Kept, k
      <4>5. PairsOf(w) = Kept(n)
        BY <2>1, <3>3, <3>5, <4>4
      <4> QED BY <4>1, <4>3, <4>4, <4>5 DEF Good
    <3> QED BY <3>4, <3>5
  <2> QED BY <2>3, <2>4
<1> HIDE DEF S
<1>9. t.capacity \in S
  <2>1. \A n \in 1 .. t.capacity : n - 1 \in S => n \in S
    BY <1>8
  <2>2. \A n \in 0 .. t.capacity : n \in S
    BY <1>2, <1>7, <2>1, UpTo
  <2> QED BY <1>2, <2>2
<1>10. Kept(t.capacity) = {p \in PairsOf(t) : p.key \in marked}
  <2>1. Slot(t.capacity) = LiveSlots(t)
    BY <1>2 DEF LiveSlots, Slots
  <2> QED BY <2>1 DEF PairsOf
<1>11. tableRemoveWhite(t, marked) = it(t.capacity)
  BY <1>1, <1>2 DEF it
<1> QED BY <1>9, <1>10, <1>11 DEF S, Good

-----------------------------------------------------------------------------
(* The map that lookups see, and that it is the pairs in the array.          *)
DictOf(t) == [k \in {x \in Key : Holds(t, x)} |-> ValueAt(t, k)]

(* The pairs of a table are those of a map: one for each of its keys.        *)
LEMMA KeysAndPairs ==
  ASSUME NEW t, WellFormed(t)
  PROVE  /\ KeysOf(t) = {p.key : p \in PairsOf(t)} /\ KeysOf(t) \subseteq Key
         /\ PairsOf(t) \subseteq Pair
         /\ \A p, q \in PairsOf(t) : p.key = q.key => p = q
<1>1. KeysOf(t) = {p.key : p \in PairsOf(t)}
  BY DEF KeysOf, PairsOf
<1>2. KeysOf(t) \subseteq Key /\ PairsOf(t) \subseteq Pair
  BY Unique DEF KeysOf, PairsOf
<1>3. \A p, q \in PairsOf(t) : p.key = q.key => p = q
  BY Unique DEF PairsOf
<1> QED BY <1>1, <1>2, <1>3

(* What tableGet sees is the pairs in the array.                             *)
LEMMA Reading ==
  ASSUME NEW t, WellFormed(t)
  PROVE  /\ DOMAIN DictOf(t) = KeysOf(t)
         /\ \A p \in PairsOf(t) : DictOf(t)[p.key] = p.value
<1>1. DOMAIN DictOf(t) = KeysOf(t)
  BY Lookup, KeysAndPairs DEF DictOf
<1>2. ASSUME NEW p \in PairsOf(t)
      PROVE  DictOf(t)[p.key] = p.value
  <2>1. PICK i \in LiveSlots(t) : p = t.entries[i]
    BY DEF PairsOf
  <2>2. p.key \in Key /\ p.key \in KeysOf(t)
    BY <2>1, Unique DEF KeysOf
  <2>3. findEntry(t, p.key) = i
    BY <2>1, <2>2, Lookup
  <2>4. DictOf(t)[p.key] = ValueAt(t, p.key)
    BY <1>1, <2>2 DEF DictOf
  <2> QED BY <2>1, <2>3, <2>4 DEF ValueAt
<1> QED BY <1>1, <1>2

(* A table is the map d when its pairs are those of d.                       *)
LEMMA IsMap ==
  ASSUME NEW t, WellFormed(t), NEW d, d = [k \in DOMAIN d |-> d[k]],
         DOMAIN d = KeysOf(t), \A p \in PairsOf(t) : d[p.key] = p.value
  PROVE  DictOf(t) = d
<1>1. DOMAIN DictOf(t) = DOMAIN d
  BY Reading
<1>2. \A k \in DOMAIN d : DictOf(t)[k] = d[k]
  BY Reading, KeysAndPairs
<1>3. DictOf(t) = [k \in DOMAIN d |-> DictOf(t)[k]]
  BY <1>1 DEF DictOf
<1> QED BY <1>2, <1>3

(* tableSet is Bind of the abstract map.                                     *)
LEMMA SetBinds ==
  ASSUME NEW t, WellFormed(t), NEW k \in Key, NEW v \in Value
  PROVE  DictOf(tableSet(t, k, v)) = Abstract!Bind(DictOf(t), k, v)
<1> DEFINE u == tableSet(t, k, v)
           d == DictOf(t)
           b == [x \in KeysOf(t) \union {k} |-> IF x = k THEN v ELSE d[x]]
<1>1. /\ WellFormed(u)
      /\ PairsOf(u) = {p \in PairsOf(t) : p.key # k} \union {[key |-> k, value |-> v]}
  BY Setting
<1>2. DOMAIN d = KeysOf(t) /\ \A p \in PairsOf(t) : d[p.key] = p.value /\ p.key \in KeysOf(t)
  BY Reading, KeysAndPairs
<1>3. Abstract!Bind(d, k, v) = b
  BY <1>2 DEF Abstract!Bind
<1> HIDE DEF u, d
<1>4. KeysOf(u) = KeysOf(t) \union {k}
  <2>1. KeysOf(u) = {p.key : p \in PairsOf(u)} /\ PairsOf(t) \subseteq Pair
    BY <1>1, KeysAndPairs
  <2>2. KeysOf(t) = {p.key : p \in PairsOf(t)} /\ KeysOf(t) \subseteq Key
    BY KeysAndPairs
  <2>3. \A x \in KeysOf(u) : x \in KeysOf(t) \union {k}
    BY <1>1, <2>1, <2>2
  <2>4. \A x \in KeysOf(t) : x # k => x \in KeysOf(u)
    BY <1>1, <2>1, <2>2
  <2>5. k \in KeysOf(u)
    <3>1. [key |-> k, value |-> v].key = k
      OBVIOUS
    <3> QED BY <1>1, <2>1, <3>1
  <2> QED BY <2>3, <2>4, <2>5
<1>5. \A p \in PairsOf(u) : b[p.key] = p.value
  BY <1>1, <1>2
<1>6. b = [x \in DOMAIN b |-> b[x]] /\ DOMAIN b = KeysOf(t) \union {k}
  OBVIOUS
<1> HIDE DEF b
<1>7. DictOf(u) = b
  <2>1. DOMAIN b = KeysOf(u)
    BY <1>4, <1>6
  <2> QED BY <1>1, <1>5, <1>6, <2>1, IsMap
<1> QED BY <1>3, <1>7 DEF u, d

(* tableDelete keeps every key but one.                                      *)
LEMMA DeleteUnbinds ==
  ASSUME NEW t, WellFormed(t), NEW k \in Key
  PROVE  DictOf(tableDelete(t, k)) = Abstract!Keep(DictOf(t), Key \ {k})
<1> DEFINE u == tableDelete(t, k)
           d == DictOf(t)
           b == [x \in KeysOf(t) \intersect (Key \ {k}) |-> d[x]]
<1>1. WellFormed(u) /\ PairsOf(u) = {p \in PairsOf(t) : p.key # k}
  BY Deleting
<1>2. DOMAIN d = KeysOf(t) /\ \A p \in PairsOf(t) : d[p.key] = p.value /\ p.key \in KeysOf(t)
  BY Reading, KeysAndPairs
<1>3. Abstract!Keep(d, Key \ {k}) = b
  BY <1>2 DEF Abstract!Keep
<1> HIDE DEF u, d
<1>4. KeysOf(u) = KeysOf(t) \intersect (Key \ {k})
  <2>1. KeysOf(u) = {p.key : p \in PairsOf(u)} /\ PairsOf(t) \subseteq Pair
    BY <1>1, KeysAndPairs
  <2>2. KeysOf(t) = {p.key : p \in PairsOf(t)} /\ KeysOf(t) \subseteq Key
    BY KeysAndPairs
  <2> QED BY <1>1, <2>1, <2>2
<1>5. \A p \in PairsOf(u) : b[p.key] = p.value
  BY <1>1, <1>2, KeysAndPairs
<1>6. b = [x \in DOMAIN b |-> b[x]] /\ DOMAIN b = KeysOf(t) \intersect (Key \ {k})
  OBVIOUS
<1> HIDE DEF b
<1>7. DictOf(u) = b
  <2>1. DOMAIN b = KeysOf(u)
    BY <1>4, <1>6
  <2> QED BY <1>1, <1>5, <1>6, <2>1, IsMap
<1> QED BY <1>3, <1>7 DEF u, d

(* tableAddAll is Overlay: OP_INHERIT gives the subclass the methods of its  *)
(* superclass.                                                               *)
LEMMA AddAllOverlays ==
  ASSUME NEW from, WellFormed(from), NEW to, WellFormed(to)
  PROVE  DictOf(tableAddAll(from, to)) = Abstract!Overlay(DictOf(to), DictOf(from))
<1> DEFINE u == tableAddAll(from, to)
           d == DictOf(to)
           e == DictOf(from)
           D == KeysOf(to) \union KeysOf(from)
           b == [x \in D |-> IF x \in KeysOf(from) THEN e[x] ELSE d[x]]
<1>1. /\ WellFormed(u)
      /\ PairsOf(u) = {p \in PairsOf(to) : p.key \notin KeysOf(from)} \union PairsOf(from)
  BY AddingAll
<1>2. /\ DOMAIN d = KeysOf(to) /\ DOMAIN e = KeysOf(from)
      /\ \A p \in PairsOf(to) : d[p.key] = p.value /\ p.key \in KeysOf(to)
      /\ \A p \in PairsOf(from) : e[p.key] = p.value /\ p.key \in KeysOf(from)
  BY Reading, KeysAndPairs
<1>3. Abstract!Overlay(d, e) = b
  BY <1>2 DEF Abstract!Overlay
<1> HIDE DEF u, d, e
<1>4. KeysOf(u) = D
  <2>1. KeysOf(u) = {p.key : p \in PairsOf(u)} 
    BY <1>1, KeysAndPairs
  <2>2. /\ KeysOf(from) = {p.key : p \in PairsOf(from)}
        /\ KeysOf(to) = {p.key : p \in PairsOf(to)}
    BY KeysAndPairs
  <2> QED BY <1>1, <2>1, <2>2
<1>5. \A p \in PairsOf(u) : b[p.key] = p.value
  BY <1>1, <1>2
<1>6. b = [x \in DOMAIN b |-> b[x]] /\ DOMAIN b = D
  OBVIOUS
<1> HIDE DEF b, D
<1>7. DictOf(u) = b
  <2>1. DOMAIN b = KeysOf(u)
    BY <1>4, <1>6
  <2> QED BY <1>1, <1>5, <1>6, <2>1, IsMap
<1> QED BY <1>3, <1>7 DEF u, d, e

(* tableRemoveWhite keeps the marked keys: the string table loses what the   *)
(* collector frees, and nothing else.                                        *)
LEMMA RemoveWhiteKeeps ==
  ASSUME NEW t, WellFormed(t), NEW marked
  PROVE  DictOf(tableRemoveWhite(t, marked)) = Abstract!Keep(DictOf(t), marked)
<1> DEFINE u == tableRemoveWhite(t, marked)
           d == DictOf(t)
           b == [x \in KeysOf(t) \intersect marked |-> d[x]]
<1>1. WellFormed(u) /\ PairsOf(u) = {p \in PairsOf(t) : p.key \in marked}
  BY RemovingWhite
<1>2. DOMAIN d = KeysOf(t) /\ \A p \in PairsOf(t) : d[p.key] = p.value /\ p.key \in KeysOf(t)
  BY Reading, KeysAndPairs
<1>3. Abstract!Keep(d, marked) = b
  BY <1>2 DEF Abstract!Keep
<1> HIDE DEF u, d
<1>4. KeysOf(u) = KeysOf(t) \intersect marked
  <2>1. KeysOf(u) = {p.key : p \in PairsOf(u)} /\ PairsOf(t) \subseteq Pair
    BY <1>1, KeysAndPairs
  <2>2. KeysOf(t) = {p.key : p \in PairsOf(t)} /\ KeysOf(t) \subseteq Key
    BY KeysAndPairs
  <2> QED BY <1>1, <2>1, <2>2
<1>5. \A p \in PairsOf(u) : b[p.key] = p.value
  BY <1>1, <1>2
<1>6. b = [x \in DOMAIN b |-> b[x]] /\ DOMAIN b = KeysOf(t) \intersect marked
  OBVIOUS
<1> HIDE DEF b
<1>7. DictOf(u) = b
  <2>1. DOMAIN b = KeysOf(u)
    BY <1>4, <1>6
  <2> QED BY <1>1, <1>5, <1>6, <2>1, IsMap
<1> QED BY <1>3, <1>7 DEF u, d

(* initTable is the empty map.                                               *)
LEMMA InitialIsEmpty ==
  DictOf(initTable) = Abstract!Empty
<1>1. KeysOf(initTable) = {} /\ WellFormed(initTable)
  BY Initial, KeysAndPairs
<1>2. DictOf(initTable) = [x \in {} |-> DictOf(initTable)[x]]
  BY <1>1, Reading DEF DictOf
<1> QED BY <1>2 DEF Abstract!Empty

-----------------------------------------------------------------------------
(* What every call relies on.                                                *)
IInv == /\ DOMAIN tables = Table /\ tables = [t \in Table |-> tables[t]]
        /\ \A t \in Table : WellFormed(tables[t])

(* Each call leaves every table well formed, whatever came before it.        *)
LEMMA Step == IInv /\ [Next]_vars => IInv'
<1> SUFFICES ASSUME IInv, [Next]_vars PROVE IInv'
  OBVIOUS
<1>1. ASSUME NEW t \in Table, NEW w, WellFormed(w),
             tables' = [tables EXCEPT ![t] = w]
      PROVE  IInv'
  <2>1. \A x \in Table : tables'[x] = IF x = t THEN w ELSE tables[x]
    BY <1>1 DEF IInv
  <2> QED BY <1>1, <2>1 DEF IInv
<1>2. CASE UNCHANGED tables
  BY <1>2 DEF IInv
<1>3. ASSUME NEW t \in Table, NEW k \in Key, Get(t, k) PROVE IInv'
  BY <1>2, <1>3 DEF Get
<1>4. ASSUME NEW t \in Table, NEW k \in Key, Delete(t, k) PROVE IInv'
  <2>1. WellFormed(tableDelete(tables[t], k))
    BY Deleting DEF IInv
  <2>2. tables' = [tables EXCEPT ![t] = tableDelete(tables[t], k)]
    BY <1>4 DEF Delete, IInv
  <2> QED BY <1>1, <2>1, <2>2
<1>5. ASSUME NEW t \in Table, NEW k \in Key, NEW v \in Value, Set(t, k, v) PROVE IInv'
  <2>1. WellFormed(tableSet(tables[t], k, v))
    BY Setting DEF IInv
  <2>2. tables' = [tables EXCEPT ![t] = tableSet(tables[t], k, v)]
    BY <1>5 DEF Set, IInv
  <2> QED BY <1>1, <2>1, <2>2
<1>6. ASSUME NEW t \in Table, NEW to \in Table, AddAll(t, to) PROVE IInv'
  <2>1. WellFormed(tableAddAll(tables[t], tables[to]))
    BY AddingAll DEF IInv
  <2>2. tables' = [tables EXCEPT ![to] = tableAddAll(tables[t], tables[to])]
    BY <1>6 DEF AddAll
  <2> QED BY <1>1, <2>1, <2>2
<1>7. ASSUME NEW t \in Table, NEW marked, RemoveWhite(t, marked) PROVE IInv'
  <2>1. WellFormed(tableRemoveWhite(tables[t], marked))
    BY RemovingWhite DEF IInv
  <2>2. tables' = [tables EXCEPT ![t] = tableRemoveWhite(tables[t], marked)]
    BY <1>7 DEF RemoveWhite, IInv
  <2> QED BY <1>1, <2>1, <2>2
<1>8. ASSUME NEW t \in Table, Free(t) PROVE IInv'
  BY <1>1, <1>8, Initial DEF Free
<1> QED BY <1>2, <1>3, <1>4, <1>5, <1>6, <1>7, <1>8 DEF Next, vars

(* Every table is well formed after every sequence of calls.                 *)
THEOREM Invariance == Spec => []IInv
<1>1. Init => IInv
  BY Initial DEF Init, IInv
<1> QED BY <1>1, Step, PTL DEF Spec

(* The probe loops of findEntry end, for every key, in every table that      *)
(* calls can build: the count that decides when a table grows is the number  *)
(* of used slots, so one slot at least is empty.                             *)
THEOREM ProbesEnd == Spec => []ProbeTerminates
<1>1. IInv => ProbeTerminates
  <2> SUFFICES ASSUME IInv, NEW t \in Table
               PROVE  /\ tables[t].count = Cardinality(UsedSlots(tables[t]))
                      /\ tables[t].capacity > 0 =>
                           \A k \in Key : StopsAt(tables[t], k) # {}
    BY DEF ProbeTerminates
  <2>1. WellFormed(tables[t])
    BY DEF IInv
  <2>2. tables[t].count = Cardinality(UsedSlots(tables[t]))
    BY <2>1 DEF WellFormed
  <2>3. tables[t].capacity > 0 => tables[t].capacity # 0
    OBVIOUS
  <2> QED BY <2>1, <2>2, <2>3, ProbeStops
<1> QED BY <1>1, Invariance, PTL

(* No sequence of calls leaves two slots with the same key.                  *)
THEOREM KeysAreUnique == Spec => []OneSlotPerKey
<1>1. IInv => OneSlotPerKey
  BY Unique DEF IInv, OneSlotPerKey
<1> QED BY <1>1, Invariance, PTL

-----------------------------------------------------------------------------
(* The initial tables are empty maps.                                        *)
LEMMA InitialMaps == Init => Abstract!Init
<1> SUFFICES ASSUME Init PROVE Abstract!Init
  OBVIOUS
<1>1. [t \in Table |-> DictOf(tables[t])] = [t \in Table |-> Abstract!Empty]
  BY InitialIsEmpty DEF Init
<1> QED BY <1>1 DEF Init, Absent, Abstract!Init, Abstract!Absent, DictOf

(* A call on the tables is the same call on the maps: what it returns and    *)
(* what it leaves behind.                                                    *)
LEMMA CallsMap == IInv /\ [Next]_vars => [Abstract!Next]_(Abstract!vars)
<1> SUFFICES ASSUME IInv, [Next]_vars PROVE [Abstract!Next]_(Abstract!vars)
  OBVIOUS
<1> DEFINE D == [t \in Table |-> DictOf(tables[t])]
<1>1. ASSUME NEW t \in Table, NEW w, NEW d,
             tables' = [tables EXCEPT ![t] = w], DictOf(w) = d
      PROVE  D' = [D EXCEPT ![t] = d]
  <2>1. \A x \in Table : tables'[x] = IF x = t THEN w ELSE tables[x]
    BY <1>1 DEF IInv
  <2>2. \A x \in Table : DictOf(tables'[x]) = IF x = t THEN d ELSE DictOf(tables[x])
    BY <1>1, <2>1
  <2>3. D' = [x \in Table |-> DictOf(tables'[x])]
    OBVIOUS
  <2>4. D' = [x \in Table |-> IF x = t THEN d ELSE DictOf(tables[x])]
    BY <2>2, <2>3
  <2> QED BY <2>4
<1>2. \A t \in Table : WellFormed(tables[t]) /\ D[t] = DictOf(tables[t])
  BY DEF IInv
<1>3. \A t \in Table, k \in Key :
        (Holds(tables[t], k) <=> k \in DOMAIN D[t]) /\
        (Holds(tables[t], k) => D[t][k] = ValueAt(tables[t], k))
  BY <1>2 DEF DictOf
<1>4. CASE UNCHANGED vars
  BY <1>4 DEF vars, Abstract!vars
<1>5. ASSUME NEW t \in Table, NEW k \in Key, Get(t, k) PROVE Abstract!Get(t, k)
  BY <1>3, <1>5 DEF Get, Present, Absent, Abstract!Get, Abstract!Present,
                    Abstract!Absent, DictOf
<1>6. ASSUME NEW t \in Table, NEW k \in Key, Delete(t, k) PROVE Abstract!Delete(t, k)
  <2>1. tables' = [tables EXCEPT ![t] = tableDelete(tables[t], k)]
    BY <1>6 DEF Delete, IInv
  <2>2. DictOf(tableDelete(tables[t], k)) = Abstract!Keep(D[t], Key \ {k})
    BY <1>2, DeleteUnbinds
  <2>3. D' = [D EXCEPT ![t] = Abstract!Keep(D[t], Key \ {k})]
    BY <1>1, <2>1, <2>2
  <2>4. result' = [deleted |-> k \in DOMAIN D[t]]
    <3>1. result' = [deleted |-> Holds(tables[t], k)]
      BY <1>6 DEF Delete
    <3>2. Holds(tables[t], k) = (k \in DOMAIN D[t])
      <4>1. Holds(tables[t], k) \in BOOLEAN
        BY DEF Holds
      <4> QED BY <1>3, <4>1
    <3> QED BY <3>1, <3>2
  <2> QED BY <1>6, <2>3, <2>4 DEF Delete, Abstract!Delete, DictOf
<1>7. ASSUME NEW t \in Table, NEW k \in Key, NEW v \in Value, Set(t, k, v)
      PROVE  Abstract!Set(t, k, v)
  <2>1. tables' = [tables EXCEPT ![t] = tableSet(tables[t], k, v)]
    BY <1>7 DEF Set, IInv
  <2>2. DictOf(tableSet(tables[t], k, v)) = Abstract!Bind(D[t], k, v)
    BY <1>2, SetBinds
  <2>3. D' = [D EXCEPT ![t] = Abstract!Bind(D[t], k, v)]
    BY <1>1, <2>1, <2>2
  <2>4. result' = [isNewKey |-> k \notin DOMAIN D[t]]
    <3> DEFINE g == Grown(tables[t])
    <3>1. WellFormed(g) /\ g.capacity # 0 /\ KeysOf(g) = KeysOf(tables[t])
      <4>1. WellFormed(g) /\ g.count + 1 < g.capacity /\ PairsOf(g) = PairsOf(tables[t])
        BY <1>2, Growing
      <4>2. g.count \in Nat
        BY <4>1, TableFields DEF WellFormed
      <4> HIDE DEF g
      <4>3. g.capacity # 0
        BY <4>1, <4>2
      <4> QED BY <1>2, <4>1, <4>3, KeysAndPairs
    <3> HIDE DEF g
    <3>2. g.entries[findEntry(g, k)].key = NULL <=> k \notin KeysOf(g)
      <4> DEFINE s == findEntry(g, k)
      <4>1. /\ s \in Slots(g)
            /\ \/ g.entries[s].key = k
               \/ g.entries[s] \in {EmptyEntry, Tombstone} /\ k \notin KeysOf(g)
        BY <3>1, FindEntry
      <4>2. k # NULL
        BY TableAssumption
      <4> HIDE DEF s
      <4>3. g.entries[s].key = k => k \in KeysOf(g)
        BY <4>1, <4>2 DEF KeysOf, LiveSlots
      <4> QED BY <4>1, <4>2, <4>3 DEF s, EmptyEntry, Tombstone
    <3>3. DOMAIN D[t] = KeysOf(g)
      BY <1>2, <3>1, Reading
    <3>4. result' = [isNewKey |-> g.entries[findEntry(g, k)].key = NULL]
      BY <1>7 DEF Set, g
    <3> QED BY <3>2, <3>3, <3>4
  <2> QED BY <1>7, <2>3, <2>4 DEF Set, Abstract!Set, DictOf
<1>8. ASSUME NEW t \in Table, NEW to \in Table, AddAll(t, to) PROVE Abstract!AddAll(t, to)
  <2>1. tables' = [tables EXCEPT ![to] = tableAddAll(tables[t], tables[to])]
    BY <1>8 DEF AddAll
  <2>2. DictOf(tableAddAll(tables[t], tables[to])) = Abstract!Overlay(D[to], D[t])
    BY <1>2, AddAllOverlays
  <2>3. D' = [D EXCEPT ![to] = Abstract!Overlay(D[to], D[t])]
    BY <1>1, <2>1, <2>2
  <2> QED BY <1>8, <2>3 DEF AddAll, Abstract!AddAll, DictOf
<1>9. ASSUME NEW t \in Table, NEW marked, RemoveWhite(t, marked)
      PROVE  Abstract!RemoveWhite(t, marked)
  <2>1. tables' = [tables EXCEPT ![t] = tableRemoveWhite(tables[t], marked)]
    BY <1>9 DEF RemoveWhite, IInv
  <2>2. DictOf(tableRemoveWhite(tables[t], marked)) = Abstract!Keep(D[t], marked)
    BY <1>2, RemoveWhiteKeeps
  <2>3. D' = [D EXCEPT ![t] = Abstract!Keep(D[t], marked)]
    BY <1>1, <2>1, <2>2
  <2> QED BY <1>9, <2>3 DEF RemoveWhite, Abstract!RemoveWhite, DictOf
<1>10. ASSUME NEW t \in Table, Free(t) PROVE Abstract!Free(t)
  <2>1. D' = [D EXCEPT ![t] = Abstract!Empty]
    BY <1>1, <1>10, InitialIsEmpty DEF Free
  <2> QED BY <1>10, <2>1 DEF Free, Abstract!Free, DictOf
<1>11. Next => Abstract!Next
  BY <1>5, <1>6, <1>7, <1>8, <1>9, <1>10 DEF Next, Abstract!Next
<1> QED BY <1>4, <1>11

(* The hash tables implement the dictionaries: whatever the hashes, the      *)
(* collisions, the tombstones and the growth, a caller of hashtable.cc sees  *)
(* a finite map.                                                             *)
THEOREM Implements == Spec => ImplementsDictionary
BY InitialMaps, CallsMap, Invariance, PTL DEF Spec, ImplementsDictionary, Abstract!Spec
-----------------------------------------------------------------------------
(* The string table, which is one of these tables: what its keys are.        *)
OneKeyPerContent(t) == \A x, y \in KeysOf(t) : x.chars = y.chars => x = y
Lacks(t, c) == \A x \in KeysOf(t) : x.chars # c

(* What holds between the steps of the string constructors: the table has at *)
(* most one string of each content, only strings that were not freed, and    *)
(* all that the program holds; a string under construction is the first of   *)
(* its content from the lookup on, through any collection, until it is in.   *)
InternIInv ==
  /\ WellFormed(strings) /\ OneKeyPerContent(strings)
  /\ heap \subseteq Key /\ KeysOf(strings) \subseteq heap /\ roots \subseteq KeysOf(strings)
  /\ pc \in {"chars", "take", "object"} => chars \in Chars
  /\ pc \in {"chars", "object", "intern"} => Lacks(strings, chars)
  /\ pc = "intern" => string \in heap /\ string.chars = chars
  /\ pc = "return" => string \in KeysOf(strings)

(* The keys a collection and a tableSet leave.                               *)
LEMMA KeysLeft ==
  ASSUME NEW t, WellFormed(t), NEW live
  PROVE  /\ WellFormed(tableRemoveWhite(t, live))
         /\ KeysOf(tableRemoveWhite(t, live)) = KeysOf(t) \intersect live
<1> DEFINE u == tableRemoveWhite(t, live)
<1>1. WellFormed(u) /\ PairsOf(u) = {p \in PairsOf(t) : p.key \in live}
  BY RemovingWhite
<1> HIDE DEF u
<1>2. KeysOf(u) = {p.key : p \in PairsOf(u)} /\ KeysOf(t) = {p.key : p \in PairsOf(t)}
  BY <1>1, KeysAndPairs
<1>3. KeysOf(u) = KeysOf(t) \intersect live
  BY <1>1, <1>2
<1> QED BY <1>1, <1>3 DEF u

(* tableSet keeps a table well formed and adds the key to its keys.          *)
LEMMA KeysSet ==
  ASSUME NEW t, WellFormed(t), NEW k \in Key, NEW v \in Value
  PROVE  WellFormed(tableSet(t, k, v)) /\ KeysOf(tableSet(t, k, v)) = KeysOf(t) \union {k}
<1> DEFINE u == tableSet(t, k, v)
           new == [key |-> k, value |-> v]
<1>1. WellFormed(u) /\ PairsOf(u) = {p \in PairsOf(t) : p.key # k} \union {new}
  BY Setting
<1>2. new.key = k
  OBVIOUS
<1> HIDE DEF u, new
<1>3. KeysOf(u) = {p.key : p \in PairsOf(u)} /\ KeysOf(t) = {p.key : p \in PairsOf(t)}
  BY <1>1, KeysAndPairs
<1>4. KeysOf(u) = KeysOf(t) \union {k}
  BY <1>1, <1>2, <1>3
<1> QED BY <1>1, <1>4 DEF u

(* A collection inside tableSet, while the new array is allocated, comes     *)
(* before the live entries are copied into it.                               *)
LEMMA KeysCollected ==
  ASSUME NEW t, WellFormed(t), NEW live, NEW k \in Key, NEW v \in Value
  PROVE  LET u == Placed(adjustCapacity(tableRemoveWhite(t, live),
                                        GrowCapacity(t.capacity)), k, v)
         IN WellFormed(u) /\ KeysOf(u) = (KeysOf(t) \intersect live) \union {k}
<1> DEFINE w == tableRemoveWhite(t, live)
           c == GrowCapacity(t.capacity)
           g == adjustCapacity(w, c)
           u == Placed(g, k, v)
           new == [key |-> k, value |-> v]
<1>1. WellFormed(w) /\ w.capacity = t.capacity /\ KeysOf(w) = KeysOf(t) \intersect live
  BY RemovingWhite, KeysLeft
<1>2. t.capacity \in Nat /\ MinCapacity \in Nat /\ MinCapacity >= 2
      /\ (t.capacity # 0 => t.capacity >= MinCapacity)
  BY TableFields, TableAssumption DEF WellFormed
<1>3. c \in Nat /\ c >= MinCapacity /\ c >= t.capacity + 2
  BY <1>2 DEF GrowCapacity
<1> HIDE DEF w, c
<1>4. c > w.capacity
  BY <1>1, <1>2, <1>3
<1>5. WellFormed(g) /\ g.capacity = c /\ g.count <= w.capacity /\ PairsOf(g) = PairsOf(w)
  BY <1>1, <1>3, <1>4, Rehashing
<1> HIDE DEF g
<1>6. g.count + 1 < g.capacity
  <2>1. g.count \in Nat
    BY <1>5, TableFields DEF WellFormed
  <2> QED BY <1>1, <1>2, <1>3, <1>5, <2>1
<1>7. WellFormed(u) /\ PairsOf(u) = {p \in PairsOf(g) : p.key # k} \union {new}
  BY <1>5, <1>6, Placing
<1>8. new.key = k
  OBVIOUS
<1> HIDE DEF u, new
<1>9. KeysOf(u) = {p.key : p \in PairsOf(u)} /\ KeysOf(w) = {p.key : p \in PairsOf(w)}
  BY <1>1, <1>7, KeysAndPairs
<1>10. KeysOf(u) = KeysOf(w) \union {k}
  BY <1>5, <1>7, <1>8, <1>9
<1>11. WellFormed(u) /\ KeysOf(u) = (KeysOf(t) \intersect live) \union {k}
  BY <1>1, <1>7, <1>10
<1> QED BY <1>11 DEF u, g, c, w

(* A lookup by content, in a table that has an array, stops.                 *)
LEMMA FindStopsSomewhere ==
  ASSUME WellFormed(strings), strings.capacity # 0, NEW c \in Chars
  PROVE  /\ FindStops(c) # {} /\ FindStops(c) \in SUBSET Nat
         /\ Min(FindStops(c)) \in FindStops(c)
         /\ \A d \in FindStops(c) : Min(FindStops(c)) <= d
<1>1. \E i \in Slots(strings) : strings.entries[i] = EmptyEntry
  BY EmptySlot
<1>2. PICK i \in Slots(strings) : strings.entries[i] = EmptyEntry
  BY <1>1
<1>3. \E d \in Slots(strings) : Probe(strings, HashString(c), d) = i
  <2>1. strings.capacity \in Nat \ {0} /\ HashString(c) \in Nat
    BY TableFields, InternAssumption DEF WellFormed
  <2> QED BY <1>2, <2>1, ProbeReaches DEF Slots, Probe
<1>4. FindStops(c) # {}
  BY <1>2, <1>3 DEF FindStops
<1>5. FindStops(c) \in SUBSET Nat
  BY DEF FindStops, Slots
<1> QED BY <1>4, <1>5, LeastOf

(* A table with entries has an array.                                        *)
LEMMA NoArray ==
  ASSUME NEW t, WellFormed(t), t.capacity = 0
  PROVE  t.count = 0 /\ KeysOf(t) = {}
<1>1. Slots(t) = {}
  BY DEF Slots
<1>2. LiveSlots(t) = {} /\ UsedSlots(t) = {}
  BY <1>1 DEF LiveSlots, UsedSlots
<1> QED BY <1>2, FS_EmptySet DEF WellFormed, KeysOf

(* and one with keys has a count.                                            *)
LEMMA KeysCount ==
  ASSUME NEW t, WellFormed(t), KeysOf(t) # {}
  PROVE  t.count # 0
<1>1. PICK i \in LiveSlots(t) : TRUE
  BY DEF KeysOf
<1>2. t \in TableType /\ t.count = Cardinality(UsedSlots(t))
  BY DEF WellFormed
<1>3. i \in UsedSlots(t) /\ IsFiniteSet(UsedSlots(t))
  BY <1>1, <1>2, TableFields
<1> QED BY <1>2, <1>3, FS_EmptySet

(* The string of the table that has these characters, wherever it is: a      *)
(* probe for its address and one for its characters start at the same slot,  *)
(* and no other string on the way has the characters.                        *)
LEMMA FindsString ==
  ASSUME WellFormed(strings), OneKeyPerContent(strings), NEW s \in KeysOf(strings)
  PROVE  FindStops(s.chars) # {} /\ tableFindString(s.chars) = s
<1> DEFINE c == s.chars
           at(d) == strings.entries[Probe(strings, HashString(c), d)]
<1>1. s \in Key /\ c \in Chars /\ Hash(s) = HashString(c) /\ s # NULL
  BY KeysAndPairs, InternAssumption, TableAssumption
<1>2. strings.capacity # 0 /\ strings.count # 0
  BY NoArray, KeysCount
<1>3. PICK i \in LiveSlots(strings) : strings.entries[i].key = s
  BY DEF KeysOf
<1>4. PICK d \in Slots(strings) : /\ Probe(strings, HashString(c), d) = i
                                  /\ Passes(strings, s, d)
  <2>1. Visits(strings, s, i)
    BY <1>3 DEF WellFormed
  <2> QED BY <1>1, <2>1 DEF Visits
<1>5. at(d).key = s
  BY <1>3, <1>4
<1>6. \A e \in 0 .. d - 1 : at(e) # EmptyEntry /\ at(e).key # s
  BY <1>1, <1>4 DEF Passes
<1>7. FindStops(c) = {e \in Slots(strings) :
                        at(e) = EmptyEntry \/ (at(e).key # NULL /\ at(e).key.chars = c)}
  BY DEF FindStops
<1>8. \A e \in Slots(strings) : at(e).key # NULL => at(e).key \in KeysOf(strings)
  <2>1. \A e \in Slots(strings) : Probe(strings, HashString(c), e) \in Slots(strings)
    BY <1>1, ProbeType DEF WellFormed
  <2> QED BY <2>1 DEF KeysOf, LiveSlots
<1> HIDE DEF at
<1>9. d \in FindStops(c)
  BY <1>1, <1>5, <1>7
<1>10. ASSUME NEW e \in FindStops(c)
       PROVE  d <= e
  <2>1. e \in Slots(strings)
    BY <1>7
  <2>2. CASE e \in 0 .. d - 1
    <3>1. at(e).key # NULL /\ at(e).key.chars = c /\ at(e).key # s
      BY <1>6, <1>7, <2>2
    <3>2. at(e).key \in KeysOf(strings)
      BY <1>8, <2>1, <3>1
    <3> QED BY <3>1, <3>2 DEF OneKeyPerContent
  <2>3. CASE e \notin 0 .. d - 1
    BY <2>1, <2>3 DEF Slots
  <2> QED BY <2>2, <2>3
<1>11. Min(FindStops(c)) = d
  <2>1. /\ Min(FindStops(c)) \in FindStops(c) /\ FindStops(c) \in SUBSET Nat
        /\ \A x \in FindStops(c) : Min(FindStops(c)) <= x
    BY <1>1, <1>2, FindStopsSomewhere
  <2>2. d <= Min(FindStops(c)) /\ Min(FindStops(c)) <= d
    BY <1>9, <1>10, <2>1
  <2>3. d \in Nat /\ Min(FindStops(c)) \in Nat
    BY <1>9, <2>1
  <2> QED BY <2>2, <2>3
<1>12. tableFindString(c) = strings.entries[Probe(strings, HashString(c), d)].key
  BY <1>2, <1>11 DEF tableFindString
<1> QED BY <1>5, <1>9, <1>12 DEF at

(* What a lookup finds is in the table, and has the characters; it finds     *)
(* nothing only if no string has them.                                       *)
LEMMA FindString ==
  ASSUME WellFormed(strings), OneKeyPerContent(strings), NEW c \in Chars
  PROVE  /\ tableFindString(c) # NULL => tableFindString(c) \in KeysOf(strings)
         /\ tableFindString(c) = NULL => Lacks(strings, c)
<1>1. CASE \E s \in KeysOf(strings) : s.chars = c
  <2>1. PICK s \in KeysOf(strings) : s.chars = c
    BY <1>1
  <2>2. tableFindString(c) = s
    BY <2>1, FindsString
  <2>3. s # NULL
    BY KeysAndPairs, TableAssumption
  <2> QED BY <2>2, <2>3
<1>2. CASE ~ \E s \in KeysOf(strings) : s.chars = c
  <2>1. Lacks(strings, c)
    BY <1>2 DEF Lacks
  <2>2. CASE strings.count = 0
    BY <2>1, <2>2 DEF tableFindString
  <2>3. CASE strings.count # 0
    <3> DEFINE d == Min(FindStops(c))
               p == Probe(strings, HashString(c), d)
               e == strings.entries[p]
    <3>1. d \in FindStops(c)
      BY <2>3, NoArray, FindStopsSomewhere
    <3>2. d \in Slots(strings) /\ (e = EmptyEntry \/ (e.key # NULL /\ e.key.chars = c))
      BY <3>1 DEF FindStops
    <3>3. p \in Slots(strings)
      <4>1. HashString(c) \in Nat
        BY InternAssumption
      <4>2. strings.capacity \in Nat \ {0} /\ d \in Nat
        BY <3>2, TableFields DEF WellFormed, Slots
      <4> HIDE DEF d
      <4>3. (HashString(c) + d) % strings.capacity \in 0 .. strings.capacity - 1
        BY <4>1, <4>2, Remainder
      <4> QED BY <4>3 DEF Slots, Probe
    <3>4. tableFindString(c) = e.key
      BY <2>3 DEF tableFindString
    <3> HIDE DEF d, p
    <3>5. e.key # NULL => e.key \in KeysOf(strings)
      BY <3>3 DEF KeysOf, LiveSlots
    <3> QED BY <2>1, <3>4, <3>5
  <2> QED BY <2>2, <2>3
<1> QED BY <1>1, <1>2

-----------------------------------------------------------------------------
(* A collection while nothing is under construction: what the program holds  *)
(* stays, and no string becomes a second one of its content.                 *)
LEMMA CollectionKeeps ==
  ASSUME InternIInv, MayCollect(roots)
  PROVE  /\ WellFormed(strings') /\ OneKeyPerContent(strings')
         /\ heap' \subseteq Key /\ KeysOf(strings') \subseteq heap'
         /\ roots \subseteq KeysOf(strings')
         /\ \A c : Lacks(strings, c) => Lacks(strings', c)
<1>1. CASE UNCHANGED <<heap, strings>>
  BY <1>1 DEF InternIInv
<1>2. CASE heap' = heap \intersect roots /\ strings' = tableRemoveWhite(strings, roots)
  <2>1. WellFormed(strings') /\ KeysOf(strings') = KeysOf(strings) \intersect roots
    BY <1>2, KeysLeft DEF InternIInv
  <2> QED BY <1>2, <2>1 DEF InternIInv, OneKeyPerContent, Lacks
<1> QED BY <1>1, <1>2 DEF MayCollect

(* A lookup changes nothing: what it finds is returned, and if it finds      *)
(* nothing the string is to be made.                                         *)
LEMMA copyStringStep ==
  ASSUME InternIInv, NEW c \in Chars, copyString(c)
  PROVE  InternIInv'
<1>1. /\ tableFindString(c) # NULL => tableFindString(c) \in KeysOf(strings)
      /\ tableFindString(c) = NULL => Lacks(strings, c)
  BY FindString DEF InternIInv
<1>2. /\ UNCHANGED <<heap, roots, strings>> /\ chars' = c /\ string' = tableFindString(c)
      /\ pc' = IF string' # NULL THEN "return" ELSE "chars"
  BY DEF copyString
<1> QED BY <1>1, <1>2 DEF InternIInv

(* The characters are copied: what was not found is still not there.         *)
LEMMA AllocateCharsStep ==
  ASSUME InternIInv, AllocateChars
  PROVE  InternIInv'
<1>1. /\ MayCollect(roots) /\ pc = "chars" /\ pc' = "object"
      /\ UNCHANGED <<roots, chars, string>>
  BY DEF AllocateChars
<1>2. chars \in Chars /\ Lacks(strings, chars)
  BY <1>1 DEF InternIInv
<1> QED BY <1>1, <1>2, CollectionKeeps DEF InternIInv

(* The characters of a concatenation are allocated.                          *)
LEMMA concatenateStep ==
  ASSUME InternIInv, NEW c \in Chars, concatenate(c)
  PROVE  InternIInv'
<1>1. MayCollect(roots) /\ pc' = "take" /\ chars' = c /\ UNCHANGED <<roots, string>>
  BY DEF concatenate
<1> QED BY <1>1, CollectionKeeps DEF InternIInv

(* takeString finds the string of its characters, or there is none.          *)
LEMMA takeStringStep ==
  ASSUME InternIInv, takeString
  PROVE  InternIInv'
<1>1. /\ UNCHANGED <<heap, roots, strings, chars>> /\ string' = tableFindString(chars)
      /\ pc' = IF string' # NULL THEN "return" ELSE "object"
      /\ chars \in Chars
  BY DEF takeString, InternIInv
<1>2. /\ tableFindString(chars) # NULL => tableFindString(chars) \in KeysOf(strings)
      /\ tableFindString(chars) = NULL => Lacks(strings, chars)
  BY <1>1, FindString DEF InternIInv
<1> QED BY <1>1, <1>2 DEF InternIInv

(* The new object is none of those in the table: its address was free.       *)
LEMMA allocateStringStep ==
  ASSUME InternIInv, allocateString
  PROVE  InternIInv'
<1>1. pc = "object" /\ pc' = "intern" /\ UNCHANGED <<roots, chars>>
  BY DEF allocateString
<1>2. PICK live \in {heap, roots} :
        /\ strings' = IF live = heap THEN strings ELSE tableRemoveWhite(strings, live)
        /\ \E s \in Key \ (heap \intersect live) :
             /\ s.chars = chars
             /\ heap' = (heap \intersect live) \union {s}
             /\ string' = s
  BY DEF allocateString
<1>3. PICK s \in Key : s.chars = chars /\ heap' = (heap \intersect live) \union {s} /\ string' = s
  BY <1>2
<1>4. WellFormed(strings') /\ KeysOf(strings') = KeysOf(strings) \intersect live
  <2>1. CASE live = heap
    BY <1>2, <2>1 DEF InternIInv
  <2>2. CASE live # heap
    BY <1>2, <2>2, KeysLeft DEF InternIInv
  <2> QED BY <2>1, <2>2
<1>5. roots \subseteq KeysOf(strings) \intersect live /\ Lacks(strings, chars)
  BY <1>1 DEF InternIInv
<1>6. OneKeyPerContent(strings') /\ Lacks(strings', chars)
  BY <1>4, <1>5 DEF InternIInv, OneKeyPerContent, Lacks
<1>7. heap' \subseteq Key /\ KeysOf(strings') \subseteq heap'
  BY <1>3, <1>4 DEF InternIInv
<1> QED BY <1>1, <1>3, <1>4, <1>5, <1>6, <1>7 DEF InternIInv

(* The string is on the stack when tableSet allocates, so it is in the table *)
(* at the end, and the only one of its content.                              *)
LEMMA TableSetStep ==
  ASSUME InternIInv, TableSet
  PROVE  InternIInv'
<1> DEFINE live == roots \union {string}
<1>1. pc = "intern" /\ pc' = "return" /\ UNCHANGED <<roots, chars, string>>
  BY DEF TableSet
<1>2. string \in heap /\ string \in Key /\ string.chars = chars /\ Lacks(strings, chars)
  BY <1>1 DEF InternIInv
<1>3. NIL \in Value
  BY TableAssumption
<1>4. \E left \in {heap, live} :
        /\ heap' = heap \intersect left
        /\ WellFormed(strings')
        /\ KeysOf(strings') = (KeysOf(strings) \intersect left) \union {string}
  <2>1. CASE strings' = tableSet(strings, string, NIL) /\ UNCHANGED heap
    <3>1. WellFormed(strings') /\ KeysOf(strings') = KeysOf(strings) \union {string}
      BY <1>2, <1>3, <2>1, KeysSet DEF InternIInv
    <3> QED BY <2>1, <3>1 DEF InternIInv
  <2>2. CASE /\ heap' = heap \intersect live
             /\ strings' = Placed(adjustCapacity(tableRemoveWhite(strings, live),
                                                 GrowCapacity(strings.capacity)),
                                  string, NIL)
    <3>1. WellFormed(strings') /\ KeysOf(strings') = (KeysOf(strings) \intersect live) \union {string}
      <4> HIDE DEF live
      <4> QED BY <1>2, <1>3, <2>2, KeysCollected DEF InternIInv
    <3> QED BY <2>2, <3>1
  <2> QED BY <2>1, <2>2 DEF TableSet
<1>5. PICK left \in {heap, live} :
        /\ heap' = heap \intersect left
        /\ WellFormed(strings')
        /\ KeysOf(strings') = (KeysOf(strings) \intersect left) \union {string}
  BY <1>4
<1>6. string \in left /\ roots \subseteq KeysOf(strings) \intersect left
  BY <1>2 DEF InternIInv
<1>7. OneKeyPerContent(strings')
  BY <1>2, <1>5 DEF InternIInv, OneKeyPerContent, Lacks
<1>8. heap' \subseteq Key /\ KeysOf(strings') \subseteq heap'
  BY <1>2, <1>5, <1>6 DEF InternIInv
<1> HIDE DEF live
<1> QED BY <1>1, <1>5, <1>6, <1>7, <1>8 DEF InternIInv

(* A string is handed to the program, which may hold it.                     *)
LEMMA ReturnStep ==
  ASSUME InternIInv, Return
  PROVE  InternIInv'
<1>1. /\ pc = "return" /\ roots' \in {roots, roots \union {string}} /\ pc' = "idle"
      /\ UNCHANGED <<heap, strings>>
  BY DEF Return
<1> QED BY <1>1 DEF InternIInv

(* The program drops a string it held.                                       *)
LEMMA DropStep ==
  ASSUME InternIInv, NEW s, Drop(s)
  PROVE  InternIInv'
BY DEF InternIInv, Drop

(* At the start there is no string.                                          *)
LEMMA InternInitHolds == InternInit => InternIInv
<1> SUFFICES ASSUME InternInit PROVE InternIInv
  OBVIOUS
<1>1. strings = initTable /\ roots = {} /\ heap = {} /\ pc = "idle"
  BY DEF InternInit
<1>2. WellFormed(strings) /\ KeysOf(strings) = {}
  <2>1. WellFormed(initTable) /\ PairsOf(initTable) = {}
    BY Initial
  <2>2. KeysOf(initTable) = {p.key : p \in PairsOf(initTable)}
    BY <2>1, KeysAndPairs
  <2> QED BY <1>1, <2>1, <2>2
<1> QED BY <1>1, <1>2 DEF InternIInv, OneKeyPerContent

(* In every state of the string constructors: the table has one string of    *)
(* each content, and all that the program holds.                             *)
THEOREM InternInvariance == InternSpec => []InternIInv
<1>1. InternIInv /\ [InternNext]_internVars => InternIInv'
  <2> SUFFICES ASSUME InternIInv, [InternNext]_internVars PROVE InternIInv'
    OBVIOUS
  <2>1. ASSUME NEW c \in Chars, copyString(c) PROVE InternIInv'
    BY <2>1, copyStringStep
  <2>2. ASSUME NEW c \in Chars, concatenate(c) PROVE InternIInv'
    BY <2>2, concatenateStep
  <2>3. CASE AllocateChars
    BY <2>3, AllocateCharsStep
  <2>4. CASE takeString
    BY <2>4, takeStringStep
  <2>5. CASE allocateString
    BY <2>5, allocateStringStep
  <2>6. CASE TableSet
    BY <2>6, TableSetStep
  <2>7. CASE Return
    BY <2>7, ReturnStep
  <2>8. ASSUME NEW s \in roots, Drop(s) PROVE InternIInv'
    BY <2>8, DropStep
  <2>9. CASE UNCHANGED internVars
    BY <2>9 DEF internVars, InternIInv
  <2> QED BY <2>1, <2>2, <2>3, <2>4, <2>5, <2>6, <2>7, <2>8, <2>9 DEF InternNext
<1> QED BY <1>1, InternInitHolds, PTL DEF InternSpec

(* Two strings the program can see with the same characters are one object,  *)
(* through any interleaving of constructions and collections.                *)
THEOREM StringsAreUnique == InternSpec => []OneStringPerContent
<1>1. InternIInv => OneStringPerContent
  <2> SUFFICES ASSUME InternIInv PROVE OneStringPerContent
    OBVIOUS
  <2>1. Visible \subseteq KeysOf(strings)
    BY DEF InternIInv, Visible
  <2> QED BY <2>1 DEF InternIInv, OneKeyPerContent, OneStringPerContent
<1> QED BY <1>1, InternInvariance, PTL

(* A string in use is found again by its characters, wherever collections    *)
(* have left tombstones and however the table grew.                          *)
THEOREM StringsAreFound == InternSpec => []HeldStringsAreFound
<1>1. InternIInv => HeldStringsAreFound
  <2> SUFFICES ASSUME InternIInv, NEW s \in roots
               PROVE  FindStops(s.chars) # {} /\ tableFindString(s.chars) = s
    BY DEF HeldStringsAreFound
  <2>1. s \in KeysOf(strings)
    BY DEF InternIInv
  <2> QED BY <2>1, FindsString DEF InternIInv
<1> QED BY <1>1, InternInvariance, PTL

(* The weak table never holds a string that was freed.                       *)
THEOREM KeysAreLive == InternSpec => []NoFreedKey
<1>1. InternIInv => NoFreedKey
  BY DEF InternIInv, NoFreedKey
<1> QED BY <1>1, InternInvariance, PTL

(*-------------------------- chunks and their listing ----------------------*)

(* What code and constants are made of.                                      *)
Cell == {Opcode(o) : o \in AllOps} \union {Byte(n) : n \in 0 .. UINT8_MAX}
Constant == {"name"} \union [upvalueCount : Nat]
ChunkType == [code : Seq(Cell), constants : Seq(Constant), error : BOOLEAN]

(* Where the opcodes are.                                                    *)
Ops(c) == {o \in 0 .. Count(c) - 1 : DOMAIN At(c, o) = {"op"}}

(* The instruction at o is followed by its operands and then by another      *)
(* instruction, or the end.                                                  *)
Whole(c, o) ==
  LET next == disassembleInstruction(c, o)
  IN /\ next \in o + 1 .. Count(c) /\ next \in Instructions(c)
     /\ \A x \in o + 1 .. next - 1 : x \notin Ops(c)
     /\ At(c, o) = Opcode("OP_CLOSURE") =>
          o + 2 <= Count(c) /\ At(c, o + 1).byte + 1 \in DOMAIN c.constants

(* Code is one instruction after the other.                                  *)
Parsed(c) == 0 \in Instructions(c) /\ \A o \in Ops(c) : Whole(c, o)

(* The instructions that have a distance for operand.                        *)
Jumps == Opcodes(JumpOps \union {"OP_LOOP"})

(* Unless an operand was too large, there are whole instructions; those that *)
(* wait for a target are jumps, and those that have theirs show it.          *)
EmissionIInv ==
  /\ emitted \in ChunkType /\ pending \subseteq Nat
  /\ ~emitted.error =>
       /\ Parsed(emitted)
       /\ \A j \in pending : j - 1 \in Ops(emitted) /\ At(emitted, j - 1) \in Opcodes(JumpOps)
       /\ \A o \in DOMAIN targets :
            /\ o \in Ops(emitted) /\ At(emitted, o) \in Jumps
            /\ jumpInstruction(emitted, o) = targets[o]

-----------------------------------------------------------------------------
(* Numbers and bytes *)

USE ChunkAssumption DEF ChunkAssumption

(* A distance that two bytes can hold is read back from them.                *)
LEMMA TwoBytesHold ==
  ASSUME NEW n \in Int
  PROVE  /\ High(n) \in 0 .. UINT8_MAX /\ Low(n) \in 0 .. UINT8_MAX
         /\ n \in 0 .. UINT16_MAX => High(n) * Base + Low(n) = n
<1> DEFINE q == n \div Base
           r == n % Base
<1>1. q \in Int /\ r \in 0 .. Base - 1 /\ n = Base * q + r
  OBVIOUS
<1>2. q % Base \in 0 .. Base - 1
  BY <1>1
<1> HIDE DEF q, r
<1>3. ASSUME n \in 0 .. UINT16_MAX PROVE q \in 0 .. Base - 1
  <2>1. n >= 0 /\ n < Base * Base /\ Base > 1
    BY <1>3 DEF UINT16_MAX
  <2>2. ~ (q < 0)
    <3> SUFFICES ASSUME q < 0 PROVE FALSE
      OBVIOUS
    <3>1. Base * q <= Base * (0 - 1)
      BY <1>1
    <3> QED BY <1>1, <2>1, <3>1
  <2>3. ~ (q >= Base)
    <3> SUFFICES ASSUME q >= Base PROVE FALSE
      OBVIOUS
    <3>1. Base * q >= Base * Base
      BY <1>1
    <3> QED BY <1>1, <2>1, <3>1
  <2> QED BY <1>1, <2>2, <2>3
<1>4. ASSUME q \in 0 .. Base - 1 PROVE q % Base = q
  BY <1>4
<1>5. High(n) = q % Base /\ Low(n) = r
  BY DEF High, Low, q, r
<1>6. ASSUME n \in 0 .. UINT16_MAX PROVE High(n) * Base + Low(n) = n
  <2>1. High(n) = q
    BY <1>3, <1>4, <1>5, <1>6
  <2>2. q * Base = Base * q
    BY <1>1
  <2> QED BY <1>1, <1>5, <2>1, <2>2
<1>7. UINT8_MAX = Base - 1
  BY DEF UINT8_MAX
<1> QED BY <1>1, <1>2, <1>5, <1>6, <1>7

(* An opcode is not a byte.                                                  *)
LEMMA Cells ==
  /\ \A o : DOMAIN Opcode(o) = {"op"} /\ Opcode(o).op = o
  /\ \A n : DOMAIN Byte(n) = {"byte"} /\ Byte(n).byte = n
  /\ \A n : DOMAIN Byte(n) # {"op"}
BY DEF Opcode, Byte

(* How many bytes the disassembler takes an instruction for.                 *)
LEMMA Sizes ==
  ASSUME NEW c, NEW o, NEW op \in AllOps, At(c, o) = Opcode(op)
  PROVE  /\ op \in SimpleOps => disassembleInstruction(c, o) = o + 1
         /\ op \in ByteOps \union ConstantOps => disassembleInstruction(c, o) = o + 2
         /\ op \in InvokeOps \union JumpOps \union {"OP_LOOP"} =>
              disassembleInstruction(c, o) = o + 3
         /\ op = "OP_CLOSURE" =>
              disassembleInstruction(c, o) =
                o + (2 + 2 * c.constants[At(c, o + 1).byte + 1].upvalueCount)
<1>1. \A names : Opcode(op) \in Opcodes(names) <=> op \in names
  BY Cells DEF Opcodes
<1>2. Opcode(op) = Opcode("OP_CLOSURE") <=> op = "OP_CLOSURE"
  BY Cells
<1>3. /\ op \in InvokeOps \union JumpOps \union {"OP_LOOP"} =>
           op \notin ByteOps \union ConstantOps /\ op # "OP_CLOSURE"
      /\ op \in ByteOps \union ConstantOps => op # "OP_CLOSURE"
  BY DEF InvokeOps, JumpOps, ByteOps, ConstantOps
<1>4. op \in SimpleOps => op \notin ByteOps \union ConstantOps \union InvokeOps \union JumpOps
                                      \union {"OP_CLOSURE", "OP_LOOP"}
  BY DisassemblerAssumption DEF DisassemblerAssumption
<1> QED BY <1>1, <1>2, <1>3, <1>4 DEF disassembleInstruction, TwoBytes, ThreeBytes

-----------------------------------------------------------------------------
(* Emission *)

(* d is c with the instruction op after it, of n bytes so far.               *)
Extends(c, d, op, n) ==
  /\ d \in ChunkType /\ n \in Nat \ {0} /\ Count(d) = Count(c) + n
  /\ \A x \in 0 .. Count(c) - 1 : At(d, x) = At(c, x)
  /\ At(d, Count(c)) = Opcode(op)
  /\ \A x \in Count(c) + 1 .. Count(d) - 1 : DOMAIN At(d, x) = {"byte"}
  /\ Len(d.constants) >= Len(c.constants)
  /\ \A k \in 1 .. Len(c.constants) : d.constants[k] = c.constants[k]
  /\ c.error => d.error

(* The fields of a chunk.                                                    *)
LEMMA ChunkFields ==
  ASSUME NEW c \in ChunkType
  PROVE  /\ c.code \in Seq(Cell) /\ c.constants \in Seq(Constant) /\ c.error \in BOOLEAN
         /\ Count(c) \in Nat /\ DOMAIN c.code = 1 .. Count(c) /\ Len(c.constants) \in Nat
         /\ DOMAIN c.constants = 1 .. Len(c.constants)
         /\ \A x \in 0 .. Count(c) - 1 : At(c, x) \in Cell
<1>1. c.code \in Seq(Cell) /\ c.constants \in Seq(Constant) /\ c.error \in BOOLEAN
  BY DEF ChunkType
<1>2. Count(c) \in Nat /\ DOMAIN c.code = 1 .. Count(c) /\ Len(c.constants) \in Nat
      /\ DOMAIN c.constants = 1 .. Len(c.constants)
  BY <1>1 DEF Count
<1>3. \A i \in 1 .. Count(c) : c.code[i] \in Cell
  BY <1>1 DEF Count
<1>4. ASSUME NEW x \in 0 .. Count(c) - 1 PROVE At(c, x) \in Cell
  BY <1>2, <1>3 DEF At
<1> QED BY <1>1, <1>2, <1>4

(* A cell more.                                                              *)
LEMMA Writing ==
  ASSUME NEW c \in ChunkType, NEW b \in Cell
  PROVE  LET d == writeChunk(c, b)
         IN /\ d \in ChunkType /\ Count(d) = Count(c) + 1
            /\ \A x \in 0 .. Count(c) - 1 : At(d, x) = At(c, x)
            /\ At(d, Count(c)) = b
            /\ d.constants = c.constants /\ d.error = c.error
<1> DEFINE d == writeChunk(c, b)
<1>1. d.code = Append(c.code, b) /\ d.constants = c.constants /\ d.error = c.error
  BY DEF writeChunk, ChunkType
<1>2. c.code \in Seq(Cell) /\ Count(c) \in Nat /\ DOMAIN c.code = 1 .. Count(c)
  BY ChunkFields
<1>3. d.code \in Seq(Cell) /\ Len(d.code) = Count(c) + 1 /\ d.code[Count(c) + 1] = b
      /\ \A i \in 1 .. Count(c) : d.code[i] = c.code[i]
  BY <1>1, <1>2 DEF Count
<1>4. d \in ChunkType
  BY <1>1, <1>3 DEF writeChunk, ChunkType
<1> HIDE DEF d
<1>5. Count(d) = Count(c) + 1 /\ At(d, Count(c)) = b
  BY <1>3 DEF Count, At
<1>6. ASSUME NEW x \in 0 .. Count(c) - 1 PROVE At(d, x) = At(c, x)
  <2>1. x + 1 \in 1 .. Count(c)
    BY <1>2
  <2> QED BY <1>3, <2>1 DEF At
<1> QED BY <1>1, <1>4, <1>5, <1>6 DEF d

(* The opcode.                                                               *)
LEMMA EmitExtends ==
  ASSUME NEW c \in ChunkType, NEW op \in AllOps
  PROVE  Extends(c, emit(c, op), op, 1) /\ emit(c, op).constants = c.constants
         /\ emit(c, op).error = c.error
<1>1. Opcode(op) \in Cell
  BY DEF Cell
<1>2. Count(c) \in Nat /\ Len(c.constants) \in Nat
  BY ChunkFields
<1> QED BY <1>1, <1>2, Writing DEF emit, Extends

(* A byte of an operand.                                                     *)
LEMMA OperandWrites ==
  ASSUME NEW d \in ChunkType, NEW k \in 0 .. UINT8_MAX
  PROVE  /\ emitOperand(d, k) \in ChunkType /\ Count(emitOperand(d, k)) = Count(d) + 1
         /\ \A x \in 0 .. Count(d) - 1 : At(emitOperand(d, k), x) = At(d, x)
         /\ At(emitOperand(d, k), Count(d)) = Byte(k)
         /\ emitOperand(d, k).constants = d.constants /\ emitOperand(d, k).error = d.error
<1>1. Byte(k) \in Cell
  BY DEF Cell
<1> QED BY <1>1, Writing DEF emitOperand

(* A byte more of an instruction.                                            *)
LEMMA OperandExtends ==
  ASSUME NEW c \in ChunkType, NEW op, NEW n \in Nat, NEW d, Extends(c, d, op, n),
         NEW k \in 0 .. UINT8_MAX
  PROVE  Extends(c, emitOperand(d, k), op, n + 1)
<1> DEFINE e == emitOperand(d, k)
<1>1. d \in ChunkType
  BY DEF Extends
<1>2. Count(c) \in Nat /\ Len(c.constants) \in Nat /\ Count(d) = Count(c) + n /\ n >= 1
  BY ChunkFields DEF Extends
<1>3. /\ e \in ChunkType /\ Count(e) = Count(d) + 1
      /\ \A x \in 0 .. Count(d) - 1 : At(e, x) = At(d, x)
      /\ At(e, Count(d)) = Byte(k) /\ e.constants = d.constants /\ e.error = d.error
  BY <1>1, OperandWrites
<1> HIDE DEF e
<1>4. \A x \in 0 .. Count(c) - 1 : At(e, x) = At(c, x)
  BY <1>2, <1>3 DEF Extends
<1>5. At(e, Count(c)) = Opcode(op)
  BY <1>2, <1>3 DEF Extends
<1>6. ASSUME NEW x \in Count(c) + 1 .. Count(e) - 1 PROVE DOMAIN At(e, x) = {"byte"}
  <2>1. CASE x = Count(d)
    BY <1>3, <2>1, Cells
  <2>2. CASE x # Count(d)
    <3>1. x \in Count(c) + 1 .. Count(d) - 1 /\ x \in 0 .. Count(d) - 1
      BY <1>2, <1>3, <2>2
    <3> QED BY <1>3, <3>1 DEF Extends
  <2> QED BY <2>1, <2>2
<1>7. Count(e) = Count(c) + (n + 1) /\ n + 1 \in Nat \ {0}
  BY <1>2, <1>3
<1>8. Extends(c, e, op, n + 1)
  BY <1>3, <1>4, <1>5, <1>6, <1>7 DEF Extends
<1> QED BY <1>8 DEF e

(* An opcode and a byte.                                                     *)
LEMMA BytesExtend ==
  ASSUME NEW c \in ChunkType, NEW op \in AllOps, NEW k \in 0 .. UINT8_MAX
  PROVE  /\ Extends(c, emitBytes(c, op, k), op, 2)
         /\ At(emitBytes(c, op, k), Count(c) + 1) = Byte(k)
         /\ emitBytes(c, op, k).constants = c.constants /\ emitBytes(c, op, k).error = c.error
<1>1. Extends(c, emit(c, op), op, 1) /\ emit(c, op).constants = c.constants
      /\ emit(c, op).error = c.error /\ Count(emit(c, op)) = Count(c) + 1
  BY EmitExtends DEF Extends
<1> DEFINE d == emit(c, op)
<1> HIDE DEF d
<1>2. d \in ChunkType /\ 1 \in Nat /\ Extends(c, d, op, 1) /\ Count(d) = Count(c) + 1
  BY <1>1 DEF d, Extends
<1>5. Extends(c, emitOperand(d, k), op, 1 + 1)
  BY <1>2, OperandExtends
<1>6. /\ At(emitOperand(d, k), Count(d)) = Byte(k)
      /\ emitOperand(d, k).constants = d.constants /\ emitOperand(d, k).error = d.error
  BY <1>2, OperandWrites
<1>3. emitBytes(c, op, k) = emitOperand(d, k)
  BY DEF emitBytes, d
<1>4. 1 + 1 = 2
  OBVIOUS
<1> QED BY <1>1, <1>2, <1>3, <1>4, <1>5, <1>6 DEF d

(* An instruction with a constant has the index of it, unless there are too  *)
(* many.                                                                     *)
LEMMA ConstantExtends ==
  ASSUME NEW c \in ChunkType, NEW op \in AllOps, NEW v \in Constant
  PROVE  LET d == emitWithConstant(c, op, v)
         IN /\ Extends(c, d, op, 2)
            /\ ~d.error => /\ At(d, Count(c) + 1).byte + 1 \in DOMAIN d.constants
                           /\ d.constants[At(d, Count(c) + 1).byte + 1] = v
<1> DEFINE n == Len(c.constants)
           k == makeConstant(c, v)
           d == emitWithConstant(c, op, v)
<1>0. n \in Nat /\ c.constants \in Seq(Constant) /\ UINT8_MAX \in Nat /\ Count(c) \in Nat
      /\ c.error \in BOOLEAN
  BY ChunkFields DEF UINT8_MAX
<1>1. /\ k.chunk.code = c.code /\ k.chunk.constants = Append(c.constants, v)
      /\ k.chunk.error = (c.error \/ n > UINT8_MAX)
  BY DEF makeConstant, addConstant, ChunkType
<1>2. k.chunk \in ChunkType
  <2>1. Append(c.constants, v) \in Seq(Constant) /\ (c.error \/ n > UINT8_MAX) \in BOOLEAN
    BY <1>0
  <2> QED BY <2>1 DEF makeConstant, addConstant, ChunkType
<1>3. k.index = IF n > UINT8_MAX THEN 0 ELSE n
  BY DEF makeConstant
<1>4. k.index \in 0 .. UINT8_MAX
  BY <1>0, <1>3
<1>5. d = emitBytes(k.chunk, op, k.index)
  BY DEF emitWithConstant
<1>6. Count(k.chunk) = Count(c) /\ \A x : At(k.chunk, x) = At(c, x)
  BY <1>1 DEF Count, At
<1> HIDE DEF k, d
<1>7. /\ Extends(k.chunk, d, op, 2) /\ At(d, Count(c) + 1) = Byte(k.index)
      /\ d.constants = k.chunk.constants /\ d.error = k.chunk.error
  BY <1>2, <1>4, <1>5, <1>6, BytesExtend
<1>8. Len(d.constants) = n + 1 /\ d.constants[n + 1] = v
      /\ \A i \in 1 .. n : d.constants[i] = c.constants[i]
  BY <1>0, <1>1, <1>7
<1> HIDE DEF n
<1>9. Extends(c, d, op, 2)
  <2>1. Len(d.constants) >= Len(c.constants)
    BY <1>0, <1>8 DEF n
  <2>2. \A i \in 1 .. Len(c.constants) : d.constants[i] = c.constants[i]
    BY <1>8 DEF n
  <2>3. c.error => d.error
    BY <1>1, <1>7
  <2> QED BY <1>6, <1>7, <2>1, <2>2, <2>3 DEF Extends
<1>10. ASSUME ~d.error
       PROVE  /\ At(d, Count(c) + 1).byte + 1 \in DOMAIN d.constants
              /\ d.constants[At(d, Count(c) + 1).byte + 1] = v
  <2>1. k.index = n
    BY <1>1, <1>3, <1>7, <1>10
  <2>2. At(d, Count(c) + 1).byte = n
    BY <1>7, <2>1, Cells
  <2>3. DOMAIN d.constants = 1 .. n + 1
    BY <1>8, <1>9, ChunkFields DEF Extends
  <2> QED BY <1>0, <1>8, <2>2, <2>3
<1> QED BY <1>9, <1>10 DEF d

-----------------------------------------------------------------------------
(* What stays when code grows *)

(* The disassembler reads an instruction by its opcode, and OP_CLOSURE also  *)
(* by its constant.                                                          *)
LEMMA SameSize ==
  ASSUME NEW c \in ChunkType, NEW d, NEW o \in Ops(c), At(d, o) = At(c, o),
         At(c, o) = Opcode("OP_CLOSURE") =>
           /\ At(d, o + 1) = At(c, o + 1)
           /\ LET k == At(c, o + 1).byte + 1 IN d.constants[k] = c.constants[k]
  PROVE  disassembleInstruction(d, o) = disassembleInstruction(c, o)
BY DEF disassembleInstruction

(* The instructions of code that an instruction is added to.                 *)
LEMMA Growth ==
  ASSUME NEW c \in ChunkType, Parsed(c), NEW d, NEW op \in AllOps, NEW n, Extends(c, d, op, n),
         disassembleInstruction(d, Count(c)) = Count(c) + n,
         op = "OP_CLOSURE" => n >= 2 /\ At(d, Count(c) + 1).byte + 1 \in DOMAIN d.constants
  PROVE  /\ Parsed(d) /\ Ops(d) = Ops(c) \union {Count(c)}
         /\ \A o \in Ops(c) : At(c, o) \in Jumps => jumpInstruction(d, o) = jumpInstruction(c, o)
<1>1. /\ Count(c) \in Nat /\ n \in Nat \ {0} /\ Count(d) = Count(c) + n /\ d \in ChunkType
      /\ DOMAIN c.constants = 1 .. Len(c.constants) /\ Len(c.constants) \in Nat
      /\ DOMAIN d.constants = 1 .. Len(d.constants) /\ Len(d.constants) \in Nat
      /\ Len(d.constants) >= Len(c.constants)
      /\ \A k \in 1 .. Len(c.constants) : d.constants[k] = c.constants[k]
  BY ChunkFields DEF Extends
<1>2. \A x \in 0 .. Count(c) - 1 : At(d, x) = At(c, x)
  BY DEF Extends
<1>3. At(d, Count(c)) = Opcode(op)
  BY DEF Extends
<1>4. \A x \in Count(c) + 1 .. Count(d) - 1 : DOMAIN At(d, x) # {"op"}
  <2>1. \A x \in Count(c) + 1 .. Count(d) - 1 : DOMAIN At(d, x) = {"byte"}
    BY DEF Extends
  <2>2. {"byte"} # {"op"}
    OBVIOUS
  <2> QED BY <2>1, <2>2
<1>5. Ops(d) = Ops(c) \union {Count(c)}
  <2>1. ASSUME NEW x \in 0 .. Count(d) - 1
        PROVE  DOMAIN At(d, x) = {"op"} <=> x \in Ops(c) \/ x = Count(c)
    <3>1. CASE x < Count(c)
      BY <1>1, <1>2, <3>1 DEF Ops
    <3>2. CASE x = Count(c)
      BY <1>3, <3>2, Cells
    <3>3. CASE x > Count(c)
      <4>1. x \in Count(c) + 1 .. Count(d) - 1
        BY <1>1, <3>3
      <4>2. x \notin Ops(c) /\ x # Count(c)
        BY <1>1, <3>3 DEF Ops
      <4> QED BY <1>4, <4>1, <4>2
    <3> QED BY <1>1, <3>1, <3>2, <3>3
  <2>2. \A x \in Ops(c) \union {Count(c)} : x \in 0 .. Count(d) - 1
    BY <1>1 DEF Ops
  <2> QED BY <2>1, <2>2 DEF Ops
<1>6. Instructions(c) = Ops(c) \union {Count(c)} /\ Instructions(d) = Ops(d) \union {Count(d)}
  BY DEF Instructions, Ops
<1>7. ASSUME NEW o \in Ops(c) PROVE Whole(d, o)
  <2>1. Whole(c, o) /\ o \in 0 .. Count(c) - 1
    BY DEF Parsed, Ops
  <2> DEFINE next == disassembleInstruction(c, o)
  <2>2. At(d, o) = At(c, o)
    BY <1>2, <2>1
  <2>3. ASSUME At(c, o) = Opcode("OP_CLOSURE")
        PROVE  /\ o + 2 <= Count(d) /\ At(d, o + 1) = At(c, o + 1)
               /\ At(c, o + 1).byte + 1 \in DOMAIN d.constants
               /\ LET k == At(c, o + 1).byte + 1 IN d.constants[k] = c.constants[k]
    <3>1. o + 2 <= Count(c) /\ At(c, o + 1).byte + 1 \in DOMAIN c.constants
      BY <2>1, <2>3 DEF Whole
    <3>2. o + 1 \in 0 .. Count(c) - 1 /\ o + 2 <= Count(d)
      BY <1>1, <2>1, <3>1
    <3>3. At(d, o + 1) = At(c, o + 1)
      BY <1>2, <3>2
    <3>4. \A k \in DOMAIN c.constants : k \in DOMAIN d.constants /\ d.constants[k] = c.constants[k]
      BY <1>1
    <3> QED BY <3>1, <3>2, <3>3, <3>4
  <2>4. disassembleInstruction(d, o) = next
    BY <2>2, <2>3, SameSize
  <2>5. /\ next \in o + 1 .. Count(c) /\ next \in Instructions(c)
        /\ \A x \in o + 1 .. next - 1 : x \notin Ops(c)
    BY <2>1 DEF Whole
  <2> HIDE DEF next
  <2>6. next \in o + 1 .. Count(d) /\ next \in Instructions(d)
    BY <1>1, <1>5, <1>6, <2>1, <2>5
  <2>7. \A x \in o + 1 .. next - 1 : x \notin Ops(d)
    BY <1>1, <1>5, <2>1, <2>5
  <2> QED BY <2>2, <2>3, <2>4, <2>6, <2>7 DEF Whole
<1>8. Whole(d, Count(c))
  <2>1. \A x \in Count(c) + 1 .. Count(d) - 1 : x \notin Ops(d)
    BY <1>4 DEF Ops
  <2>2. At(d, Count(c)) = Opcode("OP_CLOSURE") => op = "OP_CLOSURE"
    <3>1. Opcode(op).op = op /\ Opcode("OP_CLOSURE").op = "OP_CLOSURE"
      BY Cells
    <3> QED BY <1>3, <3>1
  <2>3. Count(d) \in Count(c) + 1 .. Count(d) /\ Count(d) \in Instructions(d)
    BY <1>1, <1>6
  <2>4. n >= 2 => Count(c) + 2 <= Count(d)
    BY <1>1
  <2>5. disassembleInstruction(d, Count(c)) = Count(d)
    BY <1>1
  <2> QED BY <2>1, <2>2, <2>3, <2>4, <2>5 DEF Whole
<1>9. 0 \in Instructions(d)
  BY <1>5, <1>6 DEF Parsed
<1>10. ASSUME NEW o \in Ops(c), At(c, o) \in Jumps
       PROVE  jumpInstruction(d, o) = jumpInstruction(c, o)
  <2>1. o \in 0 .. Count(c) - 1 /\ Whole(c, o)
    BY DEF Ops, Parsed
  <2>2. disassembleInstruction(c, o) = o + 3
    <3>1. PICK j \in JumpOps \union {"OP_LOOP"} : At(c, o) = Opcode(j)
      BY <1>10 DEF Jumps, Opcodes
    <3>2. j \in AllOps /\ j \in InvokeOps \union JumpOps \union {"OP_LOOP"}
      BY DEF AllOps
    <3> QED BY <3>1, <3>2, Sizes
  <2>3. o + 3 <= Count(c)
    BY <2>1, <2>2, <1>1 DEF Whole
  <2>4. o + 1 \in 0 .. Count(c) - 1 /\ (o + 1) + 1 \in 0 .. Count(c) - 1
    BY <1>1, <2>1, <2>3
  <2> QED BY <1>2, <2>1, <2>4 DEF jumpInstruction, Short
<1> QED BY <1>5, <1>7, <1>8, <1>9, <1>10 DEF Parsed

-----------------------------------------------------------------------------
(* The actions *)

(* What Emits keeps: an instruction comes after the others, all of it.       *)
LEMMA Emitting ==
  ASSUME EmissionIInv, NEW op \in AllOps, NEW n, NEW d,
         Emits(d), Extends(emitted, d, op, n), UNCHANGED <<pending, targets>>,
         ~d.error =>
           /\ disassembleInstruction(d, Count(emitted)) = Count(emitted) + n
           /\ op = "OP_CLOSURE" =>
                n >= 2 /\ At(d, Count(emitted) + 1).byte + 1 \in DOMAIN d.constants
  PROVE  EmissionIInv'
<1>1. emitted' = d /\ ~emitted.error /\ emitted \in ChunkType /\ d \in ChunkType
  BY DEF Emits, EmissionIInv, Extends
<1>2. ASSUME ~d.error
      PROVE  /\ Parsed(d) /\ Ops(d) = Ops(emitted) \union {Count(emitted)}
             /\ \A o \in Ops(emitted) : At(emitted, o) \in Jumps =>
                  jumpInstruction(d, o) = jumpInstruction(emitted, o)
  BY <1>1, <1>2, Growth DEF EmissionIInv
<1>3. \A o \in Ops(emitted) : At(d, o) = At(emitted, o)
  BY DEF Extends, Ops
<1>4. ASSUME ~d.error
      PROVE  /\ \A j \in pending : j - 1 \in Ops(d) /\ At(d, j - 1) \in Opcodes(JumpOps)
             /\ \A o \in DOMAIN targets : /\ o \in Ops(d) /\ At(d, o) \in Jumps
                                          /\ jumpInstruction(d, o) = targets[o]
  BY <1>1, <1>2, <1>3, <1>4 DEF EmissionIInv
<1> QED BY <1>1, <1>2, <1>4 DEF EmissionIInv

(* An instruction of one byte.                                               *)
LEMMA SimpleKeeps ==
  ASSUME EmissionIInv, NEW op \in SimpleOps, Simple(op)
  PROVE  EmissionIInv'
<1> DEFINE d == emit(emitted, op)
<1>1. Emits(d) /\ UNCHANGED <<pending, targets>> /\ emitted \in ChunkType
  BY DEF Simple, EmissionIInv
<1>2. op \in AllOps /\ op # "OP_CLOSURE"
  BY DisassemblerAssumption DEF AllOps, DisassemblerAssumption
<1>3. Extends(emitted, d, op, 1)
  BY <1>1, <1>2, EmitExtends
<1> HIDE DEF d
<1>4. disassembleInstruction(d, Count(emitted)) = Count(emitted) + 1
  BY <1>2, <1>3, Sizes DEF Extends
<1> QED BY <1>1, <1>2, <1>3, <1>4, Emitting

(* An instruction with a byte that is no constant.                           *)
LEMMA WithByteKeeps ==
  ASSUME EmissionIInv, NEW op \in ByteOps, NEW k \in Operand, WithByte(op, k)
  PROVE  EmissionIInv'
<1> DEFINE d == emitBytes(emitted, op, k)
<1>1. Emits(d) /\ UNCHANGED <<pending, targets>> /\ emitted \in ChunkType
  BY DEF WithByte, EmissionIInv
<1>2. op \in AllOps /\ op # "OP_CLOSURE" /\ k \in 0 .. UINT8_MAX
  BY DisassemblerAssumption DEF AllOps, ByteOps, DisassemblerAssumption
<1>3. Extends(emitted, d, op, 2)
  BY <1>1, <1>2, BytesExtend
<1> HIDE DEF d
<1>4. disassembleInstruction(d, Count(emitted)) = Count(emitted) + 2
  BY <1>2, <1>3, Sizes DEF Extends
<1> QED BY <1>1, <1>2, <1>3, <1>4, Emitting

(* An instruction with a constant.                                           *)
LEMMA WithConstantKeeps ==
  ASSUME EmissionIInv, NEW op \in ConstantOps, WithConstant(op)
  PROVE  EmissionIInv'
<1> DEFINE d == emitWithConstant(emitted, op, "name")
<1>1. Emits(d) /\ UNCHANGED <<pending, targets>> /\ emitted \in ChunkType
  BY DEF WithConstant, EmissionIInv
<1>2. op \in AllOps /\ op # "OP_CLOSURE" /\ "name" \in Constant
  BY DEF AllOps, ConstantOps, Constant
<1>3. Extends(emitted, d, op, 2)
  BY <1>1, <1>2, ConstantExtends
<1> HIDE DEF d
<1>4. disassembleInstruction(d, Count(emitted)) = Count(emitted) + 2
  BY <1>2, <1>3, Sizes DEF Extends
<1> QED BY <1>1, <1>2, <1>3, <1>4, Emitting

(* An instruction with a constant and a byte.                                *)
LEMMA InvocationKeeps ==
  ASSUME EmissionIInv, NEW op \in InvokeOps, NEW k \in Operand, Invocation(op, k)
  PROVE  EmissionIInv'
<1> DEFINE d == emitWithConstant(emitted, op, "name")
           e == emitOperand(d, k)
<1>1. Emits(e) /\ UNCHANGED <<pending, targets>> /\ emitted \in ChunkType
  BY DEF Invocation, EmissionIInv
<1>2. op \in AllOps /\ op # "OP_CLOSURE" /\ "name" \in Constant /\ k \in 0 .. UINT8_MAX
  BY DisassemblerAssumption DEF AllOps, InvokeOps, Constant, DisassemblerAssumption
<1>3. Extends(emitted, d, op, 2)
  BY <1>1, <1>2, ConstantExtends
<1> HIDE DEF d
<1>4. Extends(emitted, e, op, 3)
  <2>1. 2 \in Nat /\ 2 + 1 = 3
    OBVIOUS
  <2>2. Extends(emitted, e, op, 2 + 1)
    BY <1>1, <1>2, <1>3, <2>1, OperandExtends
  <2> QED BY <2>1, <2>2
<1> HIDE DEF e
<1>5. disassembleInstruction(e, Count(emitted)) = Count(emitted) + 3
  BY <1>2, <1>4, Sizes DEF Extends
<1> QED BY <1>1, <1>2, <1>4, <1>5, Emitting

(* Three bytes, of which two are going to be patched.                        *)
LEMMA JumpExtends ==
  ASSUME NEW c \in ChunkType, NEW op \in AllOps, NEW h \in 0 .. UINT8_MAX, NEW l \in 0 .. UINT8_MAX
  PROVE  LET d == emitOperand(emitOperand(emit(c, op), h), l)
         IN /\ Extends(c, d, op, 3) /\ d.error = c.error
            /\ At(d, Count(c) + 1) = Byte(h) /\ At(d, Count(c) + 2) = Byte(l)
<1> DEFINE a == emitBytes(c, op, h)
           d == emitOperand(a, l)
<1>1. /\ Extends(c, a, op, 2) /\ At(a, Count(c) + 1) = Byte(h) /\ a.error = c.error
  BY BytesExtend
<1> HIDE DEF a
<1>2. Count(a) = Count(c) + 2 /\ Count(c) \in Nat
  BY <1>1, ChunkFields DEF Extends
<1>3. /\ Extends(c, d, op, 2 + 1) /\ At(d, Count(a)) = Byte(l) /\ d.error = a.error
      /\ \A x \in 0 .. Count(a) - 1 : At(d, x) = At(a, x)
  <2>1. 2 \in Nat /\ a \in ChunkType
    BY <1>1 DEF Extends
  <2>2. Extends(c, d, op, 2 + 1)
    BY <1>1, <2>1, OperandExtends
  <2>3. /\ At(d, Count(a)) = Byte(l) /\ d.error = a.error
        /\ \A x \in 0 .. Count(a) - 1 : At(d, x) = At(a, x)
    BY <2>1, OperandWrites
  <2> QED BY <2>2, <2>3
<1>4. 2 + 1 = 3 /\ Count(c) + 1 \in 0 .. Count(a) - 1
  BY <1>2
<1>5. d = emitOperand(emitOperand(emit(c, op), h), l)
  BY DEF a, emitBytes
<1> HIDE DEF d
<1>6. Extends(c, d, op, 3)
  BY <1>3, <1>4
<1>7. At(d, Count(c) + 1) = Byte(h) /\ At(d, Count(c) + 2) = Byte(l) /\ d.error = c.error
  BY <1>1, <1>2, <1>3, <1>4
<1> QED BY <1>5, <1>6, <1>7

(* A jump that waits for its target.                                         *)
LEMMA JumpKeeps ==
  ASSUME EmissionIInv, NEW op \in JumpOps, Jump(op)
  PROVE  EmissionIInv'
<1> DEFINE d == emitJump(emitted, op)
           N == Count(emitted)
<1>1. /\ Emits(d) /\ pending' = pending \union {JumpAt(d)} /\ UNCHANGED targets
      /\ emitted \in ChunkType /\ N \in Nat /\ emitted' = d /\ ~emitted.error
  BY ChunkFields DEF Jump, Emits, EmissionIInv
<1>2. op \in AllOps /\ op # "OP_CLOSURE" /\ Base - 1 \in 0 .. UINT8_MAX
  BY DEF AllOps, JumpOps, UINT8_MAX
<1>3. Extends(emitted, d, op, 3)
  BY <1>1, <1>2, JumpExtends DEF emitJump, emitBytes
<1> HIDE DEF d
<1>4. disassembleInstruction(d, N) = N + 3
  BY <1>2, <1>3, Sizes DEF Extends
<1>5. JumpAt(d) = N + 1 /\ d \in ChunkType /\ At(d, N) = Opcode(op)
  BY <1>1, <1>3 DEF JumpAt, Extends
<1>6. ASSUME ~d.error
      PROVE  /\ Parsed(d) /\ Ops(d) = Ops(emitted) \union {N}
             /\ \A o \in Ops(emitted) : At(emitted, o) \in Jumps =>
                  jumpInstruction(d, o) = jumpInstruction(emitted, o)
  BY <1>1, <1>2, <1>3, <1>4, Growth DEF EmissionIInv
<1>7. \A o \in Ops(emitted) : At(d, o) = At(emitted, o)
  BY <1>3 DEF Extends, Ops
<1> HIDE DEF N
<1>8. ASSUME ~d.error
      PROVE  /\ \A j \in pending' : j - 1 \in Ops(d) /\ At(d, j - 1) \in Opcodes(JumpOps)
             /\ \A o \in DOMAIN targets : /\ o \in Ops(d) /\ At(d, o) \in Jumps
                                          /\ jumpInstruction(d, o) = targets[o]
  <2>1. \A j \in pending : j - 1 \in Ops(d) /\ At(d, j - 1) \in Opcodes(JumpOps)
    BY <1>1, <1>6, <1>7, <1>8 DEF EmissionIInv
  <2>2. N + 1 - 1 = N /\ N \in Ops(d) /\ At(d, N) \in Opcodes(JumpOps)
    BY <1>1, <1>5, <1>6, <1>8 DEF Opcodes
  <2>3. \A o \in DOMAIN targets : /\ o \in Ops(d) /\ At(d, o) \in Jumps
                                  /\ jumpInstruction(d, o) = targets[o]
    BY <1>1, <1>6, <1>7, <1>8 DEF EmissionIInv
  <2> QED BY <1>1, <1>5, <2>1, <2>2, <2>3
<1>9. pending' \subseteq Nat
  BY <1>1, <1>5 DEF EmissionIInv
<1> QED BY <1>1, <1>5, <1>6, <1>8, <1>9 DEF EmissionIInv

(* emitLoop counts the distance from the opcode, as run and listing do.      *)
LEMMA LoopBackKeeps ==
  ASSUME EmissionIInv, NEW start \in Instructions(emitted), LoopBack(start)
  PROVE  EmissionIInv'
<1> DEFINE N == Count(emitted)
           d == emitLoop(emitted, start)
           offset == N + 1 - start + 2
           e == emitOperand(emitOperand(emit(emitted, "OP_LOOP"), High(offset)), Low(offset))
<1>1. /\ Emits(d) /\ UNCHANGED pending /\ emitted' = d /\ ~emitted.error
      /\ targets' = [o \in DOMAIN targets \union {N} |-> IF o = N THEN start ELSE targets[o]]
      /\ emitted \in ChunkType /\ N \in Nat
  BY ChunkFields DEF LoopBack, Emits, EmissionIInv
<1>2. "OP_LOOP" \in AllOps /\ "OP_LOOP" # "OP_CLOSURE"
  BY DEF AllOps
<1>3. start \in 0 .. N /\ offset \in Nat /\ offset >= 3
  BY <1>1 DEF Instructions
<1>4. /\ High(offset) \in 0 .. UINT8_MAX /\ Low(offset) \in 0 .. UINT8_MAX
      /\ offset <= UINT16_MAX => High(offset) * Base + Low(offset) = offset
  <2>1. offset \in Int /\ (offset <= UINT16_MAX => offset \in 0 .. UINT16_MAX)
    BY <1>3 DEF UINT16_MAX
  <2> HIDE DEF offset
  <2> QED BY <2>1, TwoBytesHold
<1>5. Count(emit(emitted, "OP_LOOP")) = N + 1
  BY <1>1, <1>2, EmitExtends DEF Extends
<1>6. d = [e EXCEPT !.error = e.error \/ offset > UINT16_MAX]
  <2>1. offset = Count(emit(emitted, "OP_LOOP")) - start + 2
    BY <1>1, <1>3, <1>5
  <2> HIDE DEF offset
  <2> QED BY <2>1 DEF emitLoop
<1> HIDE DEF offset
<1>7. /\ Extends(emitted, e, "OP_LOOP", 3) /\ e.error = emitted.error
      /\ At(e, N + 1) = Byte(High(offset)) /\ At(e, N + 2) = Byte(Low(offset))
  <2> DEFINE h == High(offset)
             l == Low(offset)
             op == "OP_LOOP"
  <2>1. op \in AllOps /\ h \in 0 .. UINT8_MAX /\ l \in 0 .. UINT8_MAX
    BY <1>2, <1>4
  <2>2. e = emitOperand(emitOperand(emit(emitted, op), h), l)
    OBVIOUS
  <2> HIDE DEF h, l, op, e
  <2>3. /\ Extends(emitted, e, op, 3) /\ e.error = emitted.error
        /\ At(e, N + 1) = Byte(h) /\ At(e, N + 2) = Byte(l)
    BY <1>1, <2>1, <2>2, JumpExtends
  <2> QED BY <2>3 DEF h, l, op
<1> HIDE DEF d, e
<1>8. e \in ChunkType
  BY <1>7 DEF Extends
<1>9. /\ d \in ChunkType /\ d.code = e.code /\ d.constants = e.constants
      /\ d.error = (e.error \/ offset > UINT16_MAX)
  BY <1>6, <1>8 DEF ChunkType
<1>10. Count(d) = Count(e) /\ \A x : At(d, x) = At(e, x)
  BY <1>9 DEF Count, At
<1>11. Extends(emitted, d, "OP_LOOP", 3)
  BY <1>7, <1>9, <1>10 DEF Extends
<1>12. disassembleInstruction(d, N) = N + 3 /\ At(d, N) = Opcode("OP_LOOP")
  BY <1>2, <1>11, Sizes DEF Extends
<1>13. ASSUME ~d.error PROVE jumpInstruction(d, N) = start
  <2>1. Short(d, N + 1) = offset
    <3>1. At(d, N + 1).byte = High(offset) /\ At(d, N + 2).byte = Low(offset)
      BY <1>7, <1>10, Cells
    <3>2. (N + 1) + 1 = N + 2
      BY <1>1
    <3>3. offset <= UINT16_MAX
      <4>1. ~ (offset > UINT16_MAX)
        BY <1>9, <1>13
      <4>2. UINT16_MAX \in Int /\ offset \in Int
        BY <1>3 DEF UINT16_MAX
      <4> QED BY <4>1, <4>2
    <3> QED BY <1>4, <3>1, <3>2, <3>3 DEF Short
  <2>2. N + 3 + (-1) * offset = start
    BY <1>1, <1>3 DEF offset
  <2> QED BY <1>12, <2>1, <2>2 DEF jumpInstruction
<1>14. ASSUME ~d.error
       PROVE  /\ Parsed(d) /\ Ops(d) = Ops(emitted) \union {N}
              /\ \A o \in Ops(emitted) : At(emitted, o) \in Jumps =>
                   jumpInstruction(d, o) = jumpInstruction(emitted, o)
  BY <1>1, <1>2, <1>11, <1>12, <1>14, Growth DEF EmissionIInv
<1>15. \A o \in Ops(emitted) : At(d, o) = At(emitted, o) /\ o # N
  BY <1>1, <1>11 DEF Extends, Ops
<1>16. At(d, N) \in Jumps
  BY <1>12 DEF Jumps, Opcodes
<1> HIDE DEF N
<1>17. ASSUME ~d.error
       PROVE  /\ \A j \in pending : j - 1 \in Ops(d) /\ At(d, j - 1) \in Opcodes(JumpOps)
              /\ \A o \in DOMAIN targets' : /\ o \in Ops(d) /\ At(d, o) \in Jumps
                                            /\ jumpInstruction(d, o) = targets'[o]
  <2>1. \A j \in pending : j - 1 \in Ops(d) /\ At(d, j - 1) \in Opcodes(JumpOps)
    BY <1>1, <1>14, <1>15, <1>17 DEF EmissionIInv
  <2>2. ASSUME NEW o \in DOMAIN targets'
        PROVE  o \in Ops(d) /\ At(d, o) \in Jumps /\ jumpInstruction(d, o) = targets'[o]
    <3>1. CASE o = N
      BY <1>1, <1>13, <1>14, <1>16, <1>17, <3>1
    <3>2. CASE o # N
      <4>1. o \in DOMAIN targets /\ targets'[o] = targets[o]
        BY <1>1, <3>2
      <4>2. /\ o \in Ops(emitted) /\ At(emitted, o) \in Jumps
            /\ jumpInstruction(emitted, o) = targets[o]
        BY <1>1, <4>1 DEF EmissionIInv
      <4> QED BY <1>14, <1>15, <1>17, <4>1, <4>2
    <3> QED BY <3>1, <3>2
  <2> QED BY <2>1, <2>2
<1> QED BY <1>1, <1>9, <1>14, <1>17 DEF EmissionIInv

(* patchJump writes over the operand of one jump.                            *)
LEMMA PatchKeeps ==
  ASSUME EmissionIInv, NEW j \in pending, Patch(j)
  PROVE  EmissionIInv'
<1> DEFINE c == emitted
           d == patchJump(c, j)
           N == Count(c)
           jump == N - j - 2
           o1 == j - 1
<1>1. /\ c \in ChunkType /\ N \in Nat /\ j \in Nat /\ emitted' = d
      /\ DOMAIN c.code = 1 .. N /\ c.code \in Seq(Cell) /\ c.error \in BOOLEAN
      /\ pending' = pending \ {j}
      /\ targets' = [o \in DOMAIN targets \union {o1} |-> IF o = o1 THEN N ELSE targets[o]]
  BY ChunkFields DEF Patch, EmissionIInv
<1>2. /\ High(jump) \in 0 .. UINT8_MAX /\ Low(jump) \in 0 .. UINT8_MAX
      /\ jump \in 0 .. UINT16_MAX => High(jump) * Base + Low(jump) = jump
  <2>1. jump \in Int
    BY <1>1
  <2> HIDE DEF jump
  <2> QED BY <2>1, TwoBytesHold
<1> DEFINE code == [c.code EXCEPT ![j + 1] = Byte(High(jump)), ![j + 2] = Byte(Low(jump))]
<1>3. /\ d.code = code /\ d.constants = c.constants
      /\ d.error = (c.error \/ jump > UINT16_MAX)
      /\ d = [code |-> code, constants |-> d.constants, error |-> d.error]
  <2> DEFINE h == Byte(High(jump))
             l == Byte(Low(jump))
  <2>1. d = [c EXCEPT !.code[j + 1] = h, !.code[j + 2] = l, !.error = @ \/ jump > UINT16_MAX]
    BY DEF patchJump
  <2>2. c = [code |-> c.code, constants |-> c.constants, error |-> c.error]
    BY <1>1 DEF ChunkType
  <2>3. code = [c.code EXCEPT ![j + 1] = h, ![j + 2] = l]
    OBVIOUS
  <2> HIDE DEF d, h, l, jump, code
  <2> DEFINE e == [code |-> code, constants |-> c.constants, error |-> c.error \/ jump > UINT16_MAX]
  <2>4. d = e
    BY <2>1, <2>2, <2>3
  <2> QED BY <2>4
<1> HIDE DEF d
<1>4. code \in Seq(Cell) /\ DOMAIN code = 1 .. N /\ Len(code) = N
  <2>1. Byte(High(jump)) \in Cell /\ Byte(Low(jump)) \in Cell
    BY <1>2 DEF Cell
  <2>2. c.code \in [1 .. N -> Cell]
    BY <1>1
  <2> HIDE DEF jump
  <2>3. code \in [1 .. N -> Cell]
    BY <2>1, <2>2
  <2> HIDE DEF code
  <2> QED BY <1>1, <2>3
<1>5. d \in ChunkType /\ Count(d) = N
  BY <1>1, <1>3, <1>4, ChunkFields DEF ChunkType, Count
<1>6. pending' \subseteq Nat
  BY <1>1 DEF EmissionIInv
<1> HIDE DEF code
<1>7. SUFFICES ASSUME ~d.error
               PROVE  /\ Parsed(d)
                      /\ \A k \in pending' : k - 1 \in Ops(d) /\ At(d, k - 1) \in Opcodes(JumpOps)
                      /\ \A o \in DOMAIN targets' : /\ o \in Ops(d) /\ At(d, o) \in Jumps
                                                    /\ jumpInstruction(d, o) = targets'[o]
  BY <1>1, <1>5, <1>6 DEF EmissionIInv
<1>8. ~c.error /\ ~(jump > UINT16_MAX)
  BY <1>3, <1>7
<1>9. /\ Parsed(c)
      /\ \A k \in pending : k - 1 \in Ops(c) /\ At(c, k - 1) \in Opcodes(JumpOps)
      /\ \A o \in DOMAIN targets : /\ o \in Ops(c) /\ At(c, o) \in Jumps
                                   /\ jumpInstruction(c, o) = targets[o]
  BY <1>8 DEF EmissionIInv
<1>10. ASSUME NEW o \in Ops(c), At(c, o) \in Jumps
       PROVE  disassembleInstruction(c, o) = o + 3
  <2>1. PICK k \in JumpOps \union {"OP_LOOP"} : At(c, o) = Opcode(k)
    BY <1>10 DEF Jumps, Opcodes
  <2>2. k \in AllOps /\ k \in InvokeOps \union JumpOps \union {"OP_LOOP"}
    BY DEF AllOps
  <2> QED BY <2>1, <2>2, Sizes
<1>11. /\ o1 \in Ops(c) /\ At(c, o1) \in Jumps /\ At(c, o1) \in Opcodes(JumpOps)
       /\ j >= 1 /\ j + 2 <= N /\ j \notin Ops(c) /\ j + 1 \notin Ops(c)
  <2>1. o1 \in Ops(c) /\ At(c, o1) \in Opcodes(JumpOps)
    BY <1>9
  <2>2. At(c, o1) \in Jumps
    BY <2>1 DEF Jumps, Opcodes
  <2>3. disassembleInstruction(c, o1) = o1 + 3
    BY <1>10, <2>1, <2>2
  <2>4. o1 + 3 \in o1 + 1 .. N /\ \A x \in o1 + 1 .. (o1 + 3) - 1 : x \notin Ops(c)
    BY <1>9, <2>1, <2>3 DEF Parsed, Whole
  <2>5. o1 \in 0 .. N - 1
    BY <2>1 DEF Ops
  <2>6. j \in o1 + 1 .. (o1 + 3) - 1 /\ j + 1 \in o1 + 1 .. (o1 + 3) - 1
    BY <1>1, <2>5
  <2>7. j >= 1 /\ j + 2 <= N
    BY <1>1, <2>4, <2>5
  <2> QED BY <2>1, <2>2, <2>4, <2>6, <2>7
<1>12. /\ At(d, j) = Byte(High(jump)) /\ At(d, j + 1) = Byte(Low(jump))
       /\ \A x \in 0 .. N - 1 : x # j /\ x # j + 1 => At(d, x) = At(c, x)
  <2>1. j + 1 \in 1 .. N /\ j + 2 \in 1 .. N /\ (j + 1) + 1 = j + 2 /\ j + 1 # j + 2
    BY <1>1, <1>11
  <2> HIDE DEF jump
  <2>2. code[j + 1] = Byte(High(jump)) /\ code[j + 2] = Byte(Low(jump))
    BY <1>1, <2>1 DEF code
  <2>3. \A i \in 1 .. N : i # j + 1 /\ i # j + 2 => code[i] = c.code[i]
    BY <1>1 DEF code
  <2>4. ASSUME NEW x \in 0 .. N - 1, x # j, x # j + 1 PROVE At(d, x) = At(c, x)
    <3>1. x + 1 \in 1 .. N /\ x + 1 # j + 1 /\ x + 1 # j + 2
      BY <1>1, <2>4
    <3> QED BY <1>3, <2>3, <3>1 DEF At
  <2> QED BY <1>3, <2>1, <2>2, <2>4 DEF At
<1>13. Ops(d) = Ops(c) /\ Instructions(d) = Instructions(c)
  <2>1. ASSUME NEW x \in 0 .. N - 1 PROVE x \in Ops(d) <=> x \in Ops(c)
    <3>1. CASE x = j \/ x = j + 1
      BY <1>11, <1>12, <3>1, Cells DEF Ops
    <3>2. CASE x # j /\ x # j + 1
      BY <1>5, <1>12, <3>2 DEF Ops
    <3> QED BY <3>1, <3>2
  <2>2. \A x \in Ops(c) \union Ops(d) : x \in 0 .. N - 1
    BY <1>5 DEF Ops
  <2>3. Ops(d) = Ops(c)
    BY <2>1, <2>2
  <2>4. Instructions(c) = Ops(c) \union {N} /\ Instructions(d) = Ops(d) \union {N}
    BY <1>5 DEF Instructions, Ops
  <2> QED BY <2>3, <2>4
<1>14. \A o \in Ops(c) : o \in 0 .. N - 1 /\ o # j /\ o # j + 1 /\ At(d, o) = At(c, o)
  BY <1>11, <1>12 DEF Ops
<1>15. ASSUME NEW o \in Ops(c) PROVE Whole(d, o)
  <2>1. Whole(c, o)
    BY <1>9 DEF Parsed
  <2>2. ASSUME At(c, o) = Opcode("OP_CLOSURE")
        PROVE  At(d, o + 1) = At(c, o + 1)
    <3>1. o # o1
      <4>1. PICK k \in JumpOps : At(c, o1) = Opcode(k)
        BY <1>11 DEF Opcodes
      <4>2. k # "OP_CLOSURE"
        BY DEF JumpOps
      <4>3. Opcode(k).op = k /\ Opcode("OP_CLOSURE").op = "OP_CLOSURE"
        BY Cells
      <4> QED BY <2>2, <4>1, <4>2, <4>3
    <3>2. o + 2 <= N
      BY <2>1, <2>2 DEF Whole
    <3>3. o + 1 \in 0 .. N - 1 /\ o + 1 # j /\ o + 1 # j + 1
      BY <1>1, <1>14, <3>1, <3>2
    <3> QED BY <1>12, <3>3
  <2>3. At(d, o) = At(c, o)
    BY <1>14
  <2>4. disassembleInstruction(d, o) = disassembleInstruction(c, o)
    BY <1>1, <1>3, <2>2, <2>3, SameSize
  <2> QED BY <1>3, <1>5, <1>13, <2>1, <2>2, <2>3, <2>4 DEF Whole
<1>16. Parsed(d)
  BY <1>9, <1>13, <1>15 DEF Parsed
<1>17. \A k \in pending' : k - 1 \in Ops(d) /\ At(d, k - 1) \in Opcodes(JumpOps)
  BY <1>1, <1>9, <1>13, <1>14
<1>18. jumpInstruction(d, o1) = N
  <2>1. jump \in 0 .. UINT16_MAX
    BY <1>1, <1>8, <1>11 DEF UINT16_MAX
  <2>2. At(d, j).byte = High(jump) /\ At(d, j + 1).byte = Low(jump)
    BY <1>12, Cells
  <2>3. o1 + 1 = j /\ o1 + 3 + 1 * jump = N
    BY <1>1
  <2>4. At(d, o1) # Opcode("OP_LOOP")
    <3>1. PICK k \in JumpOps : At(c, o1) = Opcode(k)
      BY <1>11 DEF Opcodes
    <3>2. k # "OP_LOOP"
      BY DEF JumpOps
    <3>3. Opcode(k).op = k /\ Opcode("OP_LOOP").op = "OP_LOOP"
      BY Cells
    <3> QED BY <1>11, <1>14, <3>1, <3>2, <3>3
  <2> HIDE DEF jump, o1
  <2>5. Short(d, o1 + 1) = jump
    BY <1>2, <2>1, <2>2, <2>3 DEF Short
  <2> QED BY <2>3, <2>4, <2>5 DEF jumpInstruction
<1>19. ASSUME NEW o \in DOMAIN targets, o # o1
       PROVE  jumpInstruction(d, o) = jumpInstruction(c, o)
  <2>1. o \in Ops(c) /\ At(c, o) \in Jumps /\ Whole(c, o) /\ o \in 0 .. N - 1
    BY <1>9, <1>14 DEF Parsed
  <2>2. o + 3 <= N /\ \A x \in o + 1 .. o + 2 : x \notin Ops(c)
    <3>1. disassembleInstruction(c, o) = o + 3 /\ (o + 3) - 1 = o + 2
      BY <1>10, <2>1
    <3>2. o + 3 \in o + 1 .. N /\ \A x \in o + 1 .. (o + 3) - 1 : x \notin Ops(c)
      BY <2>1, <3>1 DEF Whole
    <3> QED BY <2>1, <3>1, <3>2
  <2>3. o # j - 2
    <3> SUFFICES ASSUME o = j - 2 PROVE FALSE
      OBVIOUS
    <3>1. o1 \in o + 1 .. o + 2
      BY <1>1, <2>1
    <3> QED BY <1>11, <2>2, <3>1
  <2>4. /\ o + 1 \in 0 .. N - 1 /\ o + 1 # j /\ o + 1 # j + 1
        /\ (o + 1) + 1 \in 0 .. N - 1 /\ (o + 1) + 1 # j /\ (o + 1) + 1 # j + 1
    BY <1>1, <1>14, <1>19, <2>1, <2>2, <2>3
  <2>5. At(d, o + 1) = At(c, o + 1) /\ At(d, (o + 1) + 1) = At(c, (o + 1) + 1)
    BY <1>12, <2>4
  <2> QED BY <1>14, <2>1, <2>5 DEF jumpInstruction, Short
<1> HIDE DEF N, o1, c
<1>20. ASSUME NEW o \in DOMAIN targets'
       PROVE  o \in Ops(d) /\ At(d, o) \in Jumps /\ jumpInstruction(d, o) = targets'[o]
  <2>1. CASE o = o1
    BY <1>1, <1>11, <1>13, <1>14, <1>18, <2>1
  <2>2. CASE o # o1
    <3>1. o \in DOMAIN targets /\ targets'[o] = targets[o]
      BY <1>1, <2>2
    <3> QED BY <1>9, <1>13, <1>14, <1>19, <2>2, <3>1
  <2> QED BY <2>1, <2>2
<1> QED BY <1>16, <1>17, <1>20

(* The pairs of OP_CLOSURE, as many as its function has upvalues.            *)
LEMMA ClosureKeeps ==
  ASSUME EmissionIInv, NEW k \in 0 .. MaxUpvalues, NEW us \in [1 .. k -> {0, 1} \X Operand],
         Closure(us)
  PROVE  EmissionIInv'
<1> DEFINE op == "OP_CLOSURE"
           N == Count(emitted)
           function == [upvalueCount |-> Len(us)]
           base == emitWithConstant(emitted, op, function)
           Pairs(c, i) == emitOperand(emitOperand(c, us[i][1]), us[i][2])
           step == [p \in ChunkType \X (1 .. k) |-> Pairs(p[1], p[2])]
           iter == CHOOSE g : g = [s \in SUBSET DOMAIN us |->
                                     IF s = {} THEN base
                                     ELSE Pairs(g[s \ {Max(s)}], Max(s))]
           d == iter[DOMAIN us]
<1>1. Emits(d) /\ UNCHANGED <<pending, targets>>
  BY DEF Closure, FoldLeft, MapThenFoldSet
<1>2. /\ k \in Nat /\ Len(us) = k /\ DOMAIN us = 1 .. k
      /\ \A i \in 1 .. k : us[i][1] \in 0 .. UINT8_MAX /\ us[i][2] \in 0 .. UINT8_MAX
  <2>1. k \in Nat /\ Len(us) = k /\ DOMAIN us = 1 .. k
    OBVIOUS
  <2>2. \A i \in 1 .. k : us[i][1] \in {0, 1} /\ us[i][2] \in Operand
    OBVIOUS
  <2>3. {0, 1} \subseteq 0 .. UINT8_MAX /\ Operand \subseteq 0 .. UINT8_MAX
    BY DisassemblerAssumption DEF DisassemblerAssumption, UINT8_MAX
  <2> QED BY <2>1, <2>2, <2>3
<1>3. /\ Extends(emitted, base, op, 2)
      /\ ~base.error => /\ At(base, N + 1).byte + 1 \in DOMAIN base.constants
                        /\ base.constants[At(base, N + 1).byte + 1] = function
  <2>1. emitted \in ChunkType /\ op \in AllOps /\ function \in Constant
    BY <1>2 DEF EmissionIInv, AllOps, Constant
  <2> HIDE DEF op, function
  <2> QED BY <2>1, ConstantExtends
<1>4. N \in Nat /\ base \in ChunkType /\ Count(base) = N + 2 /\ emitted \in ChunkType
  BY <1>3, ChunkFields DEF EmissionIInv, Extends
<1>5. ASSUME NEW c \in ChunkType, NEW i \in 1 .. k
      PROVE  /\ Pairs(c, i) \in ChunkType
             /\ \A x \in 0 .. Count(c) - 1 : At(Pairs(c, i), x) = At(c, x)
             /\ Pairs(c, i).constants = c.constants /\ Pairs(c, i).error = c.error
  <2> DEFINE e == emitOperand(c, us[i][1])
  <2>1. /\ e \in ChunkType /\ Count(e) = Count(c) + 1 /\ Count(c) \in Nat
        /\ \A x \in 0 .. Count(c) - 1 : At(e, x) = At(c, x)
        /\ e.constants = c.constants /\ e.error = c.error
    BY <1>2, OperandWrites, ChunkFields
  <2> HIDE DEF e
  <2>2. /\ emitOperand(e, us[i][2]) \in ChunkType
        /\ \A x \in 0 .. Count(e) - 1 : At(emitOperand(e, us[i][2]), x) = At(e, x)
        /\ emitOperand(e, us[i][2]).constants = e.constants
        /\ emitOperand(e, us[i][2]).error = e.error
    BY <1>2, <2>1, OperandWrites
  <2>3. Pairs(c, i) = emitOperand(e, us[i][2])
    BY DEF e
  <2>4. \A x \in 0 .. Count(c) - 1 : x \in 0 .. Count(e) - 1
    BY <2>1
  <2> HIDE DEF Pairs
  <2> QED BY <2>1, <2>2, <2>3, <2>4
<1>6. ASSUME NEW c, NEW n \in Nat, Extends(emitted, c, op, n), NEW i \in 1 .. k
      PROVE  Extends(emitted, Pairs(c, i), op, n + 2)
  <2> DEFINE e == emitOperand(c, us[i][1])
  <2>1. us[i][1] \in 0 .. UINT8_MAX /\ us[i][2] \in 0 .. UINT8_MAX
    BY <1>2
  <2>2. Extends(emitted, e, op, n + 1)
    <3> HIDE DEF op
    <3> QED BY <1>4, <1>6, <2>1, OperandExtends
  <2> HIDE DEF e
  <2>3. n + 1 \in Nat /\ (n + 1) + 1 = n + 2
    OBVIOUS
  <2>4. Extends(emitted, emitOperand(e, us[i][2]), op, (n + 1) + 1)
    <3> HIDE DEF op
    <3> QED BY <1>4, <2>1, <2>2, <2>3, OperandExtends
  <2> QED BY <2>3, <2>4 DEF e
<1> HIDE DEF base, Pairs
<1>7. \A c \in ChunkType, i \in 1 .. k : step[<<c, i>>] = Pairs(c, i)
  OBVIOUS
<1> DEFINE it(n) == iter[1 .. n]
<1>8. it(0) = base /\ \A n \in 1 .. k : it(n) = Pairs(it(n - 1), n)
  <2>1. step \in [ChunkType \X (1 .. k) -> ChunkType]
    BY <1>5 DEF step
  <2>2. PICK g : Folds(g, ChunkType, base, k, step)
    BY <1>2, <1>4, <2>1, FoldExists
  <2>3. ASSUME NEW s \in SUBSET (1 .. k), s # {}
        PROVE  step[<<g[s \ {Max(s)}], Max(s)>>] = Pairs(g[s \ {Max(s)}], Max(s))
    <3>1. Max(s) \in 1 .. k
      BY <1>2, <2>3, MaxIn
    <3>2. g[s \ {Max(s)}] \in ChunkType
      BY <2>2 DEF Folds
    <3> QED BY <1>7, <3>1, <3>2
  <2>4. g = [s \in SUBSET DOMAIN us |->
               IF s = {} THEN base ELSE Pairs(g[s \ {Max(s)}], Max(s))]
    <3> DEFINE f == [s \in SUBSET DOMAIN us |->
                       IF s = {} THEN base ELSE Pairs(g[s \ {Max(s)}], Max(s))]
    <3>1. f = [s \in SUBSET (1 .. k) |-> f[s]]
      BY <1>2
    <3>2. \A s \in SUBSET (1 .. k) : f[s] = g[s]
      BY <1>2, <2>2, <2>3 DEF Folds
    <3>3. g = [s \in SUBSET (1 .. k) |-> g[s]]
      BY <2>2 DEF Folds
    <3> HIDE DEF f
    <3>4. g = f
      BY <3>1, <3>2, <3>3
    <3> QED BY <3>4 DEF f
  <2>5. iter = [s \in SUBSET DOMAIN us |->
                  IF s = {} THEN base ELSE Pairs(iter[s \ {Max(s)}], Max(s))]
    BY <2>4
  <2> HIDE DEF iter
  <2>6. it(0) = base
    BY <1>2, <2>5, InitialSegments
  <2>7. \A n \in 1 .. k : it(n) = Pairs(it(n - 1), n)
    <3> TAKE n \in 1 .. k
    <3>1. /\ 1 .. n \in SUBSET (1 .. k) /\ 1 .. n # {}
          /\ Max(1 .. n) = n /\ (1 .. n) \ {n} = 1 .. n - 1
      BY <1>2, InitialSegments
    <3>2. iter[1 .. n] = Pairs(iter[(1 .. n) \ {Max(1 .. n)}], Max(1 .. n))
      BY <1>2, <2>5, <3>1
    <3> QED BY <3>1, <3>2
  <2> QED BY <2>6, <2>7
<1>9. d = it(k)
  BY <1>2
<1> HIDE DEF iter, it, d, step, function
<1> DEFINE Longer(c, n) ==
             /\ Extends(emitted, c, op, 2 + 2 * n) /\ At(c, N + 1) = At(base, N + 1)
             /\ c.constants = base.constants /\ c.error = base.error
           S == {n \in 0 .. k : Longer(it(n), n)}
<1>10. 0 \in S
  <2>1. 2 + 2 * 0 = 2 /\ 0 \in 0 .. k
    BY <1>2
  <2> QED BY <1>3, <1>8, <2>1
<1>11. ASSUME NEW n \in 1 .. k, n - 1 \in S PROVE n \in S
  <2> DEFINE c == it(n - 1)
             m == 2 + 2 * (n - 1)
  <2>1. Extends(emitted, c, op, m) /\ At(c, N + 1) = At(base, N + 1)
        /\ c.constants = base.constants /\ c.error = base.error
    BY <1>11
  <2>2. n \in Nat /\ m \in Nat /\ m >= 2 /\ m + 2 = 2 + 2 * n /\ n \in 0 .. k
    BY <1>2
  <2> HIDE DEF c, m
  <2>3. c \in ChunkType /\ Count(c) = N + m
    BY <2>1 DEF Extends
  <2>4. it(n) = Pairs(c, n)
    BY <1>8 DEF c
  <2>5. Extends(emitted, it(n), op, m + 2)
    BY <1>6, <2>1, <2>2, <2>4
  <2>6. N + 1 \in 0 .. Count(c) - 1
    BY <1>4, <2>2, <2>3
  <2>7. At(it(n), N + 1) = At(c, N + 1) /\ it(n).constants = c.constants /\ it(n).error = c.error
    BY <1>5, <2>3, <2>4, <2>6
  <2>8. Longer(it(n), n)
    BY <2>1, <2>2, <2>5, <2>7
  <2> QED BY <2>2, <2>8
<1> HIDE DEF S
<1>12. k \in S
  <2>1. k \in Nat /\ k \in 0 .. k
    BY <1>2
  <2>2. \A n \in 1 .. k : n - 1 \in S => n \in S
    BY <1>11
  <2>3. \A n \in 0 .. k : n \in S
    BY <1>10, <2>1, <2>2, UpTo
  <2> QED BY <2>1, <2>3
<1>13. /\ Extends(emitted, d, op, 2 + 2 * k) /\ At(d, N + 1) = At(base, N + 1)
       /\ d.constants = base.constants /\ d.error = base.error
  BY <1>9, <1>12 DEF S
<1>14. ASSUME ~d.error
       PROVE  /\ disassembleInstruction(d, N) = N + (2 + 2 * k)
              /\ At(d, N + 1).byte + 1 \in DOMAIN d.constants
  <2>1. d.constants[At(d, N + 1).byte + 1].upvalueCount = k
    BY <1>2, <1>3, <1>13, <1>14 DEF function
  <2>2. op \in AllOps /\ At(d, N) = Opcode(op)
    BY <1>13 DEF AllOps, Extends
  <2>3. disassembleInstruction(d, N) =
          N + (2 + 2 * d.constants[At(d, N + 1).byte + 1].upvalueCount)
    BY <2>2, Sizes
  <2> QED BY <1>3, <1>13, <1>14, <2>1, <2>3
<1>15. op \in AllOps /\ 2 + 2 * k >= 2
  BY <1>2 DEF AllOps
<1> HIDE DEF op
<1> QED BY <1>1, <1>13, <1>14, <1>15, Emitting

-----------------------------------------------------------------------------
(* The listing *)

(* What disassembleChunk has seen on its way: every instruction up to where  *)
(* it is.                                                                    *)
Listings(c) ==
  {seen \in Seq(Nat) : /\ seen # <<>> /\ Last(seen) \in Instructions(c)
                       /\ ToSet(seen) = {x \in Instructions(c) : x <= Last(seen)}}

(* The listing has every instruction, and comes to the end: it goes on by a  *)
(* byte at least each time, and is given as many times as there are bytes.   *)
LEMMA ListsAll ==
  ASSUME NEW c \in ChunkType, Parsed(c)
  PROVE  /\ ToSet(disassembleChunk(c)) = Instructions(c)
         /\ Last(disassembleChunk(c)) = Count(c)
<1> DEFINE N == Count(c)
           A == Listings(c)
           Onward(seen) == IF Last(seen) < N
                         THEN Append(seen, disassembleInstruction(c, Last(seen)))
                         ELSE seen
           step == [p \in A \X (1 .. N) |-> Onward(p[1])]
           iter == CHOOSE g : g = [s \in SUBSET DOMAIN c.code |->
                                     IF s = {} THEN <<0>> ELSE Onward(g[s \ {Max(s)}])]
<1>1. disassembleChunk(c) = iter[DOMAIN c.code]
  BY DEF disassembleChunk, FoldLeft, MapThenFoldSet
<1>2. /\ N \in Nat /\ DOMAIN c.code = 1 .. N
      /\ Instructions(c) = Ops(c) \union {N} /\ Ops(c) \subseteq 0 .. N - 1
  BY ChunkFields DEF Instructions, Ops
<1>3. <<0>> \in A
  <2> DEFINE z == <<0>>
  <2>1. z \in Seq(Nat) /\ z # <<>> /\ Len(z) = 1 /\ z[1] = 0 /\ DOMAIN z = {1}
    OBVIOUS
  <2> HIDE DEF z
  <2>2. Last(z) = 0 /\ ToSet(z) = {0}
    BY <2>1 DEF Last, ToSet
  <2>3. 0 \in Instructions(c) /\ \A x \in Instructions(c) : x <= 0 => x = 0
    BY <1>2 DEF Parsed
  <2>4. {0} = {x \in Instructions(c) : x <= 0}
    BY <2>3
  <2>5. z \in A
    BY <2>1, <2>2, <2>3, <2>4 DEF Listings
  <2> QED BY <2>5 DEF z
<1>4. ASSUME NEW seen \in A
      PROVE  /\ Onward(seen) \in A /\ Last(seen) \in 0 .. N
             /\ Last(seen) < N => Last(Onward(seen)) > Last(seen)
  <2> DEFINE o == Last(seen)
             next == disassembleInstruction(c, o)
  <2>1. /\ seen \in Seq(Nat) /\ seen # <<>> /\ o \in Instructions(c)
        /\ ToSet(seen) = {x \in Instructions(c) : x <= o}
    BY DEF Listings
  <2>2. o \in 0 .. N
    BY <1>2, <2>1
  <2> HIDE DEF o, A
  <2>3. ASSUME o < N PROVE Onward(seen) \in A /\ Last(Onward(seen)) > o
    <3>1. o \in Ops(c)
      BY <1>2, <2>1, <2>2, <2>3
    <3>2. /\ next \in o + 1 .. N /\ next \in Instructions(c)
          /\ \A x \in o + 1 .. next - 1 : x \notin Ops(c)
      BY <3>1 DEF Parsed, Whole
    <3> HIDE DEF next
    <3> DEFINE all == Append(seen, next)
    <3>3. Onward(seen) = all
      BY <2>3 DEF o, next
    <3>4. next \in Nat /\ next > o
      BY <2>2, <3>2
    <3>5. /\ all \in Seq(Nat) /\ all # <<>> /\ Len(all) = Len(seen) + 1
          /\ all[Len(all)] = next /\ DOMAIN all = 1 .. Len(seen) + 1
          /\ \A i \in 1 .. Len(seen) : all[i] = seen[i]
          /\ Len(seen) \in Nat /\ DOMAIN seen = 1 .. Len(seen)
      BY <2>1, <3>4
    <3> HIDE DEF all
    <3>6. Last(all) = next
      BY <3>5 DEF Last
    <3>7. ToSet(all) = ToSet(seen) \union {next}
      <4>1. \A i \in DOMAIN all : all[i] \in ToSet(seen) \union {next}
        BY <3>5 DEF ToSet
      <4>2. \A i \in DOMAIN seen : i \in DOMAIN all /\ all[i] = seen[i]
        BY <3>5
      <4>3. Len(all) \in DOMAIN all
        BY <3>5
      <4> QED BY <3>5, <4>1, <4>2, <4>3 DEF ToSet
    <3>8. \A x \in Instructions(c) : x <= next <=> x <= o \/ x = next
      <4> SUFFICES ASSUME NEW x \in Instructions(c) PROVE x <= next <=> x <= o \/ x = next
        OBVIOUS
      <4>1. x \in 0 .. N /\ (x \in Ops(c) \/ x = N)
        BY <1>2
      <4>2. ~(x > o /\ x < next)
        BY <1>2, <2>2, <3>2, <4>1
      <4> QED BY <2>2, <3>2, <3>4, <4>1, <4>2
    <3>9. ToSet(all) = {x \in Instructions(c) : x <= next}
      BY <2>1, <3>2, <3>4, <3>7, <3>8
    <3>10. all \in A
      BY <3>2, <3>5, <3>6, <3>9 DEF A, Listings
    <3> QED BY <3>3, <3>4, <3>6, <3>10
  <2>4. CASE ~(o < N)
    BY <2>2, <2>4 DEF o
  <2> QED BY <2>2, <2>3, <2>4 DEF o
<1> HIDE DEF A, Onward
<1>5. \A seen \in A, n \in 1 .. N : step[<<seen, n>>] = Onward(seen)
  OBVIOUS
<1> DEFINE it(n) == iter[1 .. n]
<1>6. it(0) = <<0>> /\ \A n \in 1 .. N : it(n) = Onward(it(n - 1))
  <2>1. step \in [A \X (1 .. N) -> A]
    BY <1>4 DEF step
  <2>2. PICK g : Folds(g, A, <<0>>, N, step)
    BY <1>2, <1>3, <2>1, FoldExists
  <2>3. ASSUME NEW s \in SUBSET (1 .. N), s # {}
        PROVE  step[<<g[s \ {Max(s)}], Max(s)>>] = Onward(g[s \ {Max(s)}])
    <3>1. Max(s) \in 1 .. N
      BY <1>2, <2>3, MaxIn
    <3>2. g[s \ {Max(s)}] \in A
      BY <2>2 DEF Folds
    <3> QED BY <1>5, <3>1, <3>2
  <2>4. g = [s \in SUBSET DOMAIN c.code |-> IF s = {} THEN <<0>> ELSE Onward(g[s \ {Max(s)}])]
    <3> DEFINE f == [s \in SUBSET DOMAIN c.code |->
                       IF s = {} THEN <<0>> ELSE Onward(g[s \ {Max(s)}])]
    <3>1. f = [s \in SUBSET (1 .. N) |-> f[s]]
      BY <1>2
    <3>2. \A s \in SUBSET (1 .. N) : f[s] = g[s]
      BY <1>2, <2>2, <2>3 DEF Folds
    <3>3. g = [s \in SUBSET (1 .. N) |-> g[s]]
      BY <2>2 DEF Folds
    <3> HIDE DEF f
    <3>4. g = f
      BY <3>1, <3>2, <3>3
    <3> QED BY <3>4 DEF f
  <2>5. iter = [s \in SUBSET DOMAIN c.code |->
                  IF s = {} THEN <<0>> ELSE Onward(iter[s \ {Max(s)}])]
    BY <2>4
  <2> HIDE DEF iter
  <2>6. it(0) = <<0>>
    BY <1>2, <2>5, InitialSegments
  <2>7. \A n \in 1 .. N : it(n) = Onward(it(n - 1))
    <3> TAKE n \in 1 .. N
    <3>1. /\ 1 .. n \in SUBSET (1 .. N) /\ 1 .. n # {}
          /\ Max(1 .. n) = n /\ (1 .. n) \ {n} = 1 .. n - 1
      BY <1>2, InitialSegments
    <3>2. iter[1 .. n] = Onward(iter[(1 .. n) \ {Max(1 .. n)}])
      BY <1>2, <2>5, <3>1
    <3> QED BY <3>1, <3>2
  <2> QED BY <2>6, <2>7
<1>7. disassembleChunk(c) = it(N)
  BY <1>1, <1>2
<1> HIDE DEF iter, it, step
<1> DEFINE S == {n \in 0 .. N : it(n) \in A /\ (Last(it(n)) = N \/ Last(it(n)) >= n)}
<1>8. 0 \in S
  <2>1. it(0) \in A /\ Last(it(0)) \in 0 .. N
    BY <1>3, <1>4, <1>6
  <2>2. Last(it(0)) >= 0 /\ 0 \in 0 .. N
    BY <1>2, <2>1
  <2> QED BY <2>1, <2>2
<1>9. ASSUME NEW n \in 1 .. N, n - 1 \in S PROVE n \in S
  <2> DEFINE seen == it(n - 1)
  <2>1. seen \in A /\ (Last(seen) = N \/ Last(seen) >= n - 1)
    BY <1>9
  <2>2. it(n) = Onward(seen) /\ n \in 0 .. N
    BY <1>2, <1>6
  <2> HIDE DEF seen
  <2>3. Onward(seen) \in A /\ Last(seen) \in 0 .. N
    BY <1>4, <2>1
  <2>4. CASE Last(seen) < N
    <3>1. Last(Onward(seen)) > Last(seen) /\ Last(Onward(seen)) \in 0 .. N
      BY <1>4, <2>1, <2>3, <2>4
    <3>2. Last(Onward(seen)) >= n
      BY <1>2, <2>1, <2>3, <2>4, <3>1
    <3> QED BY <2>2, <2>3, <3>2
  <2>5. CASE ~(Last(seen) < N)
    <3>1. Onward(seen) = seen /\ Last(seen) = N
      BY <1>2, <2>3, <2>5 DEF Onward
    <3> QED BY <2>1, <2>2, <3>1
  <2> QED BY <2>4, <2>5
<1> HIDE DEF S
<1>10. N \in S
  <2>1. N \in Nat /\ N \in 0 .. N
    BY <1>2
  <2>2. \A n \in 1 .. N : n - 1 \in S => n \in S
    BY <1>9
  <2>3. \A n \in 0 .. N : n \in S
    BY <1>8, <2>1, <2>2, UpTo
  <2> QED BY <2>1, <2>3
<1>11. it(N) \in A /\ Last(it(N)) = N
  <2>1. it(N) \in A /\ (Last(it(N)) = N \/ Last(it(N)) >= N)
    BY <1>10 DEF S
  <2>2. Last(it(N)) \in 0 .. N
    BY <1>4, <2>1
  <2> QED BY <1>2, <2>1, <2>2
<1>12. ToSet(it(N)) = {x \in Instructions(c) : x <= N}
  BY <1>11 DEF A, Listings
<1>13. \A x \in Instructions(c) : x <= N
  BY <1>2
<1> QED BY <1>7, <1>11, <1>12, <1>13

-----------------------------------------------------------------------------
(* Whatever is emitted in whatever order, an instruction that was emitted is *)
(* there in whole, and a jump that was patched goes where it was meant to.   *)
THEOREM EmissionInvariance == EmissionSpec => []EmissionIInv
<1>1. ASSUME EmissionInit PROVE EmissionIInv
  <2>1. emitted \in ChunkType /\ Count(emitted) = 0
    BY <1>1 DEF EmissionInit, EmptyChunk, ChunkType, Count
  <2>2. Ops(emitted) = {} /\ Instructions(emitted) = {0}
    BY <2>1 DEF Ops, Instructions
  <2> QED BY <1>1, <2>1, <2>2 DEF EmissionInit, EmissionIInv, Parsed
<1>2. EmissionIInv /\ [EmissionNext]_emissionVars => EmissionIInv'
  <2> SUFFICES ASSUME EmissionIInv, [EmissionNext]_emissionVars PROVE EmissionIInv'
    OBVIOUS
  <2>1. ASSUME NEW op \in SimpleOps, Simple(op) PROVE EmissionIInv'
    BY <2>1, SimpleKeeps
  <2>2. ASSUME NEW op \in ByteOps, NEW n \in Operand, WithByte(op, n) PROVE EmissionIInv'
    BY <2>2, WithByteKeeps
  <2>3. ASSUME NEW op \in ConstantOps, WithConstant(op) PROVE EmissionIInv'
    BY <2>3, WithConstantKeeps
  <2>4. ASSUME NEW op \in InvokeOps, NEW n \in Operand, Invocation(op, n) PROVE EmissionIInv'
    BY <2>4, InvocationKeeps
  <2>5. ASSUME NEW k \in 0 .. MaxUpvalues, NEW us \in [1 .. k -> {0, 1} \X Operand], Closure(us)
        PROVE  EmissionIInv'
    BY <2>5, ClosureKeeps
  <2>6. ASSUME NEW op \in JumpOps, Jump(op) PROVE EmissionIInv'
    BY <2>6, JumpKeeps
  <2>7. ASSUME NEW jump \in pending, Patch(jump) PROVE EmissionIInv'
    BY <2>7, PatchKeeps
  <2>8. ASSUME NEW start \in Instructions(emitted), LoopBack(start) PROVE EmissionIInv'
    BY <2>8, LoopBackKeeps
  <2>9. CASE UNCHANGED emissionVars
    BY <2>9 DEF emissionVars, EmissionIInv
  <2> QED BY <2>1, <2>2, <2>3, <2>4, <2>5, <2>6, <2>7, <2>8, <2>9 DEF EmissionNext
<1> QED BY <1>1, <1>2, PTL DEF EmissionSpec

(* For code of any instructions: the disassembler stops at each of them and  *)
(* nowhere else, and shows where each patched jump goes.                     *)
THEOREM Listing == EmissionSpec => []ListsInstructions
<1>1. ASSUME EmissionIInv, ~emitted.error
      PROVE  /\ ToSet(disassembleChunk(emitted)) = Instructions(emitted)
             /\ Last(disassembleChunk(emitted)) = Count(emitted)
             /\ \A o \in DOMAIN targets : jumpInstruction(emitted, o) = targets[o]
  BY <1>1, ListsAll DEF EmissionIInv
<1>2. EmissionIInv => ListsInstructions
  BY <1>1 DEF ListsInstructions
<1> QED BY <1>2, EmissionInvariance, PTL
=============================================================================

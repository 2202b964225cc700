------------------------------ MODULE TableOps ------------------------------
(* src/common/hashtable.cc as pure operators on a Table value: a record of   *)
(* capacity, count and an array of entries.  A slot is                       *)
(*    empty       key NULL, value nil                                        *)
(*    tombstone   key NULL, value true                                       *)
(*    live        any other key (whatever its value: nil and true included)  *)
(* Keys are ObjString addresses, compared as pointers; Hash(k) is the hash   *)
(* stored in the string.                                                     *)
EXTENDS Integers, SequencesExt

CONSTANTS Key, Value,
          Hash(_),       \* key->hash
          NULL, NIL, TRUE_VAL,
          MinCapacity    \* GROW_CAPACITY's first capacity, 8 in the code

ASSUME TableAssumption ==
  /\ MinCapacity \in Nat \ {0, 1}
  /\ NULL \notin Key /\ \A k \in Key : Hash(k) \in Nat
  /\ NIL # TRUE_VAL
  /\ {NIL, TRUE_VAL} \subseteq Value

EmptyEntry == [key |-> NULL, value |-> NIL]
Tombstone  == [key |-> NULL, value |-> TRUE_VAL]

initTable == [capacity |-> 0, count |-> 0, entries |-> <<>>]

Slots(t) == 0 .. t.capacity - 1

LiveSlots(t) == {i \in Slots(t) : t.entries[i].key # NULL}
KeysOf(t) == {t.entries[i].key : i \in LiveSlots(t)}
UsedSlots(t) == {i \in Slots(t) : t.entries[i] # EmptyEntry}

(* The slot a probe for hash h looks at after d steps.                       *)
Probe(t, h, d) == (h + d) % t.capacity

(* The distances at which the probe loop returns: at the key, or at an       *)
(* empty slot.  The loop runs forever when there is none.                    *)
StopsAt(t, k) ==
  {d \in Slots(t) : t.entries[Probe(t, Hash(k), d)].key = k
                    \/ t.entries[Probe(t, Hash(k), d)] = EmptyEntry}

findEntry_TakesFirstHole(t, k) ==
  LET stop  == Min(StopsAt(t, k))
      holes == {d \in 0 .. stop - 1 :
                  t.entries[Probe(t, Hash(k), d)] = Tombstone}
  IN Probe(t, Hash(k), IF holes = {} THEN stop ELSE Min(holes))

(* An absent key lands in the first tombstone the probe passed, if any.      *)
findEntry(t, k) ==
  LET stop  == Min(StopsAt(t, k))
      holes == {d \in 0 .. stop - 1 :
                  t.entries[Probe(t, Hash(k), d)] = Tombstone}
      found == t.entries[Probe(t, Hash(k), stop)].key = k
  IN Probe(t, Hash(k), IF found \/ holes = {} THEN stop ELSE Min(holes))

Holds(t, k) == t.count # 0 /\ t.entries[findEntry(t, k)].key # NULL

(* tableGet's value, when Holds(t, k).                                       *)
ValueAt(t, k) == t.entries[findEntry(t, k)].value

GrowCapacity(n) == IF n < MinCapacity THEN MinCapacity ELSE 2 * n

(* Live entries move, in slot order, to a fresh array; tombstones are left   *)
(* behind, so the count is recomputed.                                       *)
adjustCapacity(t, capacity) ==
  LET fresh == [capacity |-> capacity, count |-> 0,
                entries  |-> [i \in 0 .. capacity - 1 |-> EmptyEntry]]
      Move(u, n) ==
        LET e == t.entries[n - 1]
        IN IF e.key = NULL THEN u
           ELSE [u EXCEPT !.entries[findEntry(u, e.key)] = e, !.count = @ + 1]
  IN FoldLeft(Move, fresh, [n \in 1 .. t.capacity |-> n])

Overloaded_WhenFull(t) == t.count > t.capacity \/ t.capacity = 0

(* TABLE_MAX_LOAD is 3/4, of used slots: tombstones count.                   *)
Overloaded(t) == 4 * (t.count + 1) > 3 * t.capacity

Grown(t) ==
  IF Overloaded(t) THEN adjustCapacity(t, GrowCapacity(t.capacity)) ELSE t

(* A reused tombstone is already counted.                                    *)
Placed(t, k, v) ==
  LET slot == findEntry(t, k)
  IN [t EXCEPT !.entries[slot] = [key |-> k, value |-> v],
               !.count = IF t.entries[slot] = EmptyEntry THEN @ + 1 ELSE @]

tableSet(t, k, v) == Placed(Grown(t), k, v)

tableDelete_LeavesEmpty(t, k) ==
  IF Holds(t, k) THEN [t EXCEPT !.entries[findEntry(t, k)] = EmptyEntry] ELSE t

tableDelete(t, k) ==
  IF Holds(t, k) THEN [t EXCEPT !.entries[findEntry(t, k)] = Tombstone] ELSE t

tableAddAll_SkipsLastSlot(from, to) ==
  LET Add(u, n) == LET e == from.entries[n - 1]
                   IN IF e.key = NULL THEN u ELSE tableSet(u, e.key, e.value)
  IN FoldLeft(Add, to, [n \in 1 .. from.capacity - 1 |-> n])

tableAddAll(from, to) ==
  LET Add(u, n) == LET e == from.entries[n - 1]
                   IN IF e.key = NULL THEN u ELSE tableSet(u, e.key, e.value)
  IN FoldLeft(Add, to, [n \in 1 .. from.capacity |-> n])

tableRemoveWhite(t, marked) ==
  LET Drop(u, n) == LET k == t.entries[n - 1].key
                    IN IF k = NULL \/ k \in marked THEN u ELSE tableDelete(u, k)
  IN FoldLeft(Drop, t, [n \in 1 .. t.capacity |-> n])
=============================================================================

---------------------------- MODULE LibraryProof ----------------------------
(* Of the library: for every finite set of keys and every sequence of calls, *)
(* the map of the cache names the items of its list, the count covers them,  *)
(* and those evicted are the oldest; the spin lock excludes and publishes,   *)
(* for any set of threads; and a file has the bytes a memory stream has.     *)
EXTENDS LRUCache, SpinLock, Stream, FiniteSetTheorems, TLAPS

(*------------------------------- the cache --------------------------------*)

Item == [id : Id, key : Key, value : Value]

(* The map names the items of the list, which differ in key and in identity. *)
Indexed(list, map) ==
  /\ list \in Seq(Item)
  /\ DOMAIN map = {list[i].key : i \in DOMAIN list}
  /\ \A i, j \in DOMAIN list : list[i].key = list[j].key => i = j
  /\ \A i, j \in DOMAIN list : list[i].id = list[j].id => i = j
  /\ \A i \in DOMAIN list : map[list[i].key] = list[i].id

(* The list is in the order of use: each item was used since those after it. *)
ByUse(list, used) ==
  \A i, j \in DOMAIN list : i < j => <<list[j].key, list[i].key>> \in used

IInv ==
  /\ Indexed(items_list, items_indexing_map)
  /\ ByUse(items_list, older)
  /\ cur_size \in Nat /\ max_size \in Nat
  /\ Len(items_list) <= cur_size

-----------------------------------------------------------------------------
(* Lists *)

(* What is left of a list without one of its items.                          *)
LEMMA RemoveAtItems ==
  ASSUME NEW S, NEW list \in Seq(S), NEW p \in DOMAIN list
  PROVE  /\ RemoveAt(list, p) \in Seq(S)
         /\ Len(RemoveAt(list, p)) = Len(list) - 1
         /\ \A i \in 1 .. Len(list) - 1 :
              RemoveAt(list, p)[i] = IF i < p THEN list[i] ELSE list[i + 1]
<1> DEFINE a == SubSeq(list, 1, p - 1)
           b == SubSeq(list, p + 1, Len(list))
<1>0. Len(list) \in Nat /\ p \in 1 .. Len(list)
  OBVIOUS
<1>1. a \in Seq(S) /\ Len(a) = p - 1 /\ \A i \in 1 .. p - 1 : a[i] = list[i]
  BY <1>0
<1>2. b \in Seq(S) /\ Len(b) = Len(list) - p
      /\ \A i \in 1 .. Len(list) - p : b[i] = list[p + i]
  BY <1>0
<1> HIDE DEF a, b
<1>3. a \o b \in Seq(S) /\ Len(a \o b) = Len(list) - 1
  BY <1>0, <1>1, <1>2
<1>4. ASSUME NEW i \in 1 .. Len(list) - 1
      PROVE  (a \o b)[i] = IF i < p THEN list[i] ELSE list[i + 1]
  <2>1. CASE i < p
    BY <1>0, <1>1, <1>2, <2>1
  <2>2. CASE i >= p
    <3>1. (a \o b)[i] = b[i - (p - 1)]
      BY <1>0, <1>1, <1>2, <2>2
    <3>2. i - (p - 1) \in 1 .. Len(list) - p /\ p + (i - (p - 1)) = i + 1
      BY <1>0, <2>2
    <3>3. b[i - (p - 1)] = list[i + 1]
      BY <1>2, <3>2
    <3> QED BY <1>0, <3>1, <3>3, <2>2
  <2>3. i < p \/ i >= p
    BY <1>0
  <2> QED BY <2>1, <2>2, <2>3
<1> QED BY <1>3, <1>4 DEF RemoveAt, a, b

(* An item goes, with its key.                                               *)
LEMMA RemovalKeepsIndex ==
  ASSUME NEW list, NEW map, Indexed(list, map), NEW p \in DOMAIN list
  PROVE  /\ Indexed(RemoveAt(list, p), Without(map, list[p].key))
         /\ \A i \in DOMAIN RemoveAt(list, p) :
              \E j \in DOMAIN list : RemoveAt(list, p)[i] = list[j]
         /\ list[p].key \notin DOMAIN Without(map, list[p].key)
<1> DEFINE rest == RemoveAt(list, p)
           old(i) == IF i < p THEN i ELSE i + 1
           k == list[p].key
<1>1. list \in Seq(Item)
  BY DEF Indexed
<1>2. /\ rest \in Seq(Item) /\ Len(rest) = Len(list) - 1
      /\ \A i \in 1 .. Len(list) - 1 : rest[i] = IF i < p THEN list[i] ELSE list[i + 1]
  BY <1>1, RemoveAtItems
<1>3. \A i \in DOMAIN rest : old(i) \in DOMAIN list \ {p} /\ rest[i] = list[old(i)]
  BY <1>1, <1>2
<1>4. \A i, j \in DOMAIN rest : old(i) = old(j) => i = j
  BY <1>2
<1>5. \A j \in DOMAIN list \ {p} : \E i \in DOMAIN rest : old(i) = j
  <2> SUFFICES ASSUME NEW j \in DOMAIN list \ {p}
               PROVE  \E i \in DOMAIN rest : old(i) = j
    OBVIOUS
  <2>1. CASE j < p
    BY <1>1, <1>2, <2>1
  <2>2. CASE j > p
    <3>1. j - 1 \in DOMAIN rest /\ old(j - 1) = j
      BY <1>1, <1>2, <2>2
    <3> QED BY <3>1
  <2> QED BY <1>1, <2>1, <2>2
<1>6. \A i \in DOMAIN list \ {p} : list[i].key # k
  BY DEF Indexed
<1> HIDE DEF rest, old
<1>7. DOMAIN map \ {k} = {rest[i].key : i \in DOMAIN rest}
  <2>1. \A i \in DOMAIN rest : rest[i].key \in DOMAIN map \ {k}
    BY <1>3, <1>6 DEF Indexed
  <2>2. \A x \in DOMAIN map \ {k} : \E i \in DOMAIN rest : x = rest[i].key
    <3> TAKE x \in DOMAIN map \ {k}
    <3>1. PICK j \in DOMAIN list : x = list[j].key
      BY DEF Indexed
    <3>2. PICK i \in DOMAIN rest : old(i) = j
      BY <1>5, <3>1
    <3> QED BY <1>3, <3>1, <3>2
  <2> QED BY <2>1, <2>2
<1>8. DOMAIN Without(map, k) = DOMAIN map \ {k}
      /\ \A x \in DOMAIN map \ {k} : Without(map, k)[x] = map[x]
  BY DEF Without
<1>9. Indexed(rest, Without(map, k))
  <2>1. \A i, j \in DOMAIN rest : rest[i].key = rest[j].key => i = j
    BY <1>3, <1>4 DEF Indexed
  <2>2. \A i, j \in DOMAIN rest : rest[i].id = rest[j].id => i = j
    BY <1>3, <1>4 DEF Indexed
  <2>3. \A i \in DOMAIN rest : Without(map, k)[rest[i].key] = rest[i].id
    <3> TAKE i \in DOMAIN rest
    <3>1. rest[i].key \in DOMAIN map \ {k}
      BY <1>7
    <3>2. map[rest[i].key] = rest[i].id
      BY <1>3 DEF Indexed
    <3> QED BY <1>8, <3>1, <3>2
  <2> QED BY <1>2, <1>7, <1>8, <2>1, <2>2, <2>3 DEF Indexed
<1> QED BY <1>3, <1>8, <1>9 DEF rest

(* An item of a new key and identity comes in front.                         *)
LEMMA InsertionKeepsIndex ==
  ASSUME NEW list, NEW map, Indexed(list, map),
         NEW x \in Item, x.key \notin DOMAIN map,
         \A i \in DOMAIN list : list[i].id # x.id
  PROVE  Indexed(<<x>> \o list, With(map, x.key, x.id))
<1> DEFINE all == <<x>> \o list
           index == With(map, x.key, x.id)
<1>1. list \in Seq(Item)
  BY DEF Indexed
<1>2. /\ all \in Seq(Item) /\ Len(all) = Len(list) + 1 /\ all[1] = x
      /\ \A i \in 2 .. Len(list) + 1 : i - 1 \in DOMAIN list /\ all[i] = list[i - 1]
  BY <1>1
<1>3. DOMAIN all = {1} \union 2 .. Len(list) + 1 /\ DOMAIN list = 1 .. Len(list)
      /\ Len(list) \in Nat
  BY <1>1, <1>2
<1>4. DOMAIN index = DOMAIN map \union {x.key} /\ index[x.key] = x.id
      /\ \A k \in DOMAIN map : index[k] = map[k]
  BY DEF With
<1>5. \A i \in DOMAIN list : list[i].key \in DOMAIN map
  BY DEF Indexed
<1> HIDE DEF all, index
<1>6. DOMAIN index = {all[i].key : i \in DOMAIN all}
  <2>1. \A i \in DOMAIN all : all[i].key \in DOMAIN index
    BY <1>2, <1>3, <1>4, <1>5
  <2>2. \A k \in DOMAIN index : \E i \in DOMAIN all : k = all[i].key
    <3> TAKE k \in DOMAIN index
    <3>1. CASE k = x.key
      BY <1>2, <1>3, <3>1
    <3>2. CASE k \in DOMAIN map
      <4>1. PICK j \in DOMAIN list : k = list[j].key
        BY <3>2 DEF Indexed
      <4>2. j + 1 \in 2 .. Len(list) + 1 /\ (j + 1) - 1 = j
        BY <1>3
      <4>3. j + 1 \in DOMAIN all /\ all[j + 1] = list[j]
        BY <1>2, <1>3, <4>2
      <4> QED BY <4>1, <4>3
    <3> QED BY <1>4, <3>1, <3>2
  <2> QED BY <2>1, <2>2
<1>7. ASSUME NEW i \in DOMAIN all, NEW j \in DOMAIN all
      PROVE  /\ all[i].key = all[j].key => i = j
             /\ all[i].id = all[j].id => i = j
  <2>1. CASE i = 1 /\ j = 1
    BY <2>1
  <2>2. CASE i = 1 /\ j \in 2 .. Len(list) + 1
    BY <1>2, <1>5, <2>2
  <2>3. CASE i \in 2 .. Len(list) + 1 /\ j = 1
    BY <1>2, <1>5, <2>3
  <2>4. CASE i \in 2 .. Len(list) + 1 /\ j \in 2 .. Len(list) + 1
    <3>1. i - 1 \in DOMAIN list /\ j - 1 \in DOMAIN list
          /\ all[i] = list[i - 1] /\ all[j] = list[j - 1]
      BY <1>2, <2>4
    <3>2. (all[i].key = all[j].key \/ all[i].id = all[j].id) => i - 1 = j - 1
      BY <3>1 DEF Indexed
    <3> QED BY <3>2, <2>4
  <2> QED BY <1>3, <2>1, <2>2, <2>3, <2>4
<1>8. \A i \in DOMAIN all : index[all[i].key] = all[i].id
  <2> TAKE i \in DOMAIN all
  <2>1. CASE i = 1
    BY <1>2, <1>4, <2>1
  <2>2. CASE i \in 2 .. Len(list) + 1
    <3>1. i - 1 \in DOMAIN list /\ all[i] = list[i - 1]
      BY <1>2, <2>2
    <3>2. map[list[i - 1].key] = list[i - 1].id
      BY <3>1 DEF Indexed
    <3> QED BY <1>4, <1>5, <3>1, <3>2
  <2> QED BY <1>3, <2>1, <2>2
<1> QED BY <1>2, <1>6, <1>7, <1>8 DEF Indexed, all, index

(* What is left of a list is in the order of use too.                        *)
LEMMA RemovalKeepsOrder ==
  ASSUME NEW S, NEW list \in Seq(S), NEW used, ByUse(list, used), NEW p \in DOMAIN list
  PROVE  ByUse(RemoveAt(list, p), used)
<1> DEFINE rest == RemoveAt(list, p)
           old(i) == IF i < p THEN i ELSE i + 1
<1>1. /\ rest \in Seq(S) /\ Len(rest) = Len(list) - 1
      /\ \A i \in 1 .. Len(list) - 1 : rest[i] = IF i < p THEN list[i] ELSE list[i + 1]
  BY RemoveAtItems
<1>2. \A i \in DOMAIN rest : old(i) \in DOMAIN list /\ rest[i] = list[old(i)]
  BY <1>1
<1>3. \A i, j \in DOMAIN rest : i < j => old(i) < old(j)
  BY <1>1
<1> HIDE DEF rest, old
<1>4. ByUse(rest, used)
  BY <1>2, <1>3 DEF ByUse
<1> QED BY <1>4 DEF rest

(* A list in the order of use, with an item of a key that is now used first. *)
LEMMA UseKeepsOrder ==
  ASSUME NEW list \in Seq(Item), ByUse(list, older), NEW x \in Item, Use(x.key),
         \A i \in DOMAIN list : list[i].key # x.key
  PROVE  ByUse(<<x>> \o list, older')
<1> DEFINE all == <<x>> \o list
<1>1. /\ DOMAIN all = 1 .. Len(list) + 1 /\ DOMAIN list = 1 .. Len(list) /\ all[1] = x
      /\ \A i \in 2 .. Len(list) + 1 : i - 1 \in DOMAIN list /\ all[i] = list[i - 1]
  OBVIOUS
<1>2. \A i \in DOMAIN list : list[i].key \in Key \ {x.key}
  <2>1. \A i \in DOMAIN list : list[i] \in Item
    OBVIOUS
  <2> QED BY <2>1 DEF Item
<1>3. Len(list) \in Nat
  OBVIOUS
<1> HIDE DEF all
<1>4. ASSUME NEW i \in DOMAIN all, NEW j \in DOMAIN all, i < j
      PROVE  <<all[j].key, all[i].key>> \in older'
  <2>1. j \in 2 .. Len(list) + 1 /\ (i = 1 \/ i \in 2 .. Len(list) + 1)
    BY <1>1, <1>3, <1>4
  <2>2. j - 1 \in DOMAIN list /\ all[j] = list[j - 1] /\ all[j].key \in Key \ {x.key}
    BY <1>1, <1>2, <2>1
  <2>3. CASE i = 1
    BY <1>1, <2>2, <2>3 DEF Use
  <2>4. CASE i \in 2 .. Len(list) + 1
    <3>1. i - 1 \in DOMAIN list /\ all[i] = list[i - 1] /\ i - 1 < j - 1
      BY <1>1, <1>3, <1>4, <2>1, <2>4
    <3>2. <<all[j].key, all[i].key>> \in older
      BY <2>2, <3>1 DEF ByUse
    <3> QED BY <2>2, <3>2 DEF Use
  <2> QED BY <2>1, <2>3, <2>4
<1>5. ByUse(all, older')
  BY <1>4 DEF ByUse
<1> QED BY <1>5 DEF all

-----------------------------------------------------------------------------
(* Identities *)

(* There are more identities than keys, hence one that no item has.          *)
LEMMA FreshIdIsFree ==
  ASSUME NEW list, NEW map, Indexed(list, map)
  PROVE  \E id \in Id : \A i \in DOMAIN list : list[i].id # id
<1>1. Cardinality(Key) \in Nat /\ IsFiniteSet(Key)
  BY FS_CardinalityType, LRUAssumption
<1>2. IsFiniteSet(Id) /\ Cardinality(Id) = Cardinality(Key) + 1
  BY <1>1, FS_Interval DEF Id
<1> SUFFICES ASSUME \A id \in Id : \E i \in DOMAIN list : list[i].id = id
             PROVE  FALSE
  OBVIOUS
<1> DEFINE place(id) == CHOOSE i \in DOMAIN list : list[i].id = id
           owner == [id \in Id |-> list[place(id)].key]
<1>3. \A id \in Id : place(id) \in DOMAIN list /\ list[place(id)].id = id
  OBVIOUS
<1>4. list \in Seq(Item)
  BY DEF Indexed
<1>5. \A i \in DOMAIN list : list[i].key \in Key
  <2>1. \A i \in DOMAIN list : list[i] \in Item
    BY <1>4
  <2> QED BY <2>1 DEF Item
<1>6. owner \in [Id -> Key] /\ \A id \in Id : owner[id] = list[place(id)].key
  BY <1>3, <1>5
<1> HIDE DEF place, owner
<1>7. PICK x \in Id, y \in Id : x # y /\ owner[x] = owner[y]
  BY <1>1, <1>2, <1>6, FS_PigeonHole
<1>8. place(x) = place(y)
  BY <1>3, <1>6, <1>7 DEF Indexed
<1> QED BY <1>3, <1>7, <1>8

(* The map leads to the item of its key.                                     *)
LEMMA ItemAtKey ==
  ASSUME Indexed(items_list, items_indexing_map), NEW k, Found(k)
  PROVE  ItemAt(k) \in DOMAIN items_list /\ items_list[ItemAt(k)].key = k
<1>1. PICK j \in DOMAIN items_list : items_list[j].key = k
  BY DEF Indexed, Found
<1>2. items_list[j].id = items_indexing_map[k]
  BY <1>1 DEF Indexed
<1>3. ItemAt(k) \in DOMAIN items_list /\ items_list[ItemAt(k)].id = items_indexing_map[k]
  BY <1>2 DEF ItemAt
<1>4. ItemAt(k) = j
  BY <1>2, <1>3 DEF Indexed
<1> QED BY <1>1, <1>4

-----------------------------------------------------------------------------
(* The calls *)

(* The empty list and the empty map name each other; nothing is out of order. *)
LEMMA EmptyIsIndexed == Indexed(<<>>, NoKeys) /\ \A used : ByUse(<<>>, used)
BY DEF Indexed, NoKeys, ByUse

(* A Put up to the eviction: the list with the new item and without the old  *)
(* one of its key, the map that names its items, and what is kept of both.   *)
(* `rest' is the list, and `others' the map, without the old item.           *)
LEMMA PutInserts ==
  ASSUME IInv, NEW k \in Key, NEW v \in Value, Put(k, v)
  PROVE  \E list, index :
           /\ Indexed(list, index) /\ ByUse(list, older')
           /\ {list[i].key : i \in DOMAIN list} = Keys \union {k}
           /\ Len(list) \in DOMAIN list /\ Len(list) <= Count(k) /\ Count(k) \in Nat
           /\ IF Count(k) > max_size
              THEN /\ items_list' = RemoveAt(list, Len(list))
                   /\ items_indexing_map' = Without(index, list[Len(list)].key)
                   /\ cur_size' = Count(k) - 1
              ELSE /\ items_list' = list /\ items_indexing_map' = index
                   /\ cur_size' = Count(k)
<1> DEFINE new    == [id |-> FreshId, key |-> k, value |-> v]
           rest   == IF Found(k) THEN RemoveAt(items_list, ItemAt(k)) ELSE items_list
           others == IF Found(k) THEN Without(items_indexing_map, k) ELSE items_indexing_map
           list   == <<new>> \o rest
           index  == With(items_indexing_map, k, new.id)
<1>1. FreshId \in Id /\ \A i \in DOMAIN items_list : items_list[i].id # FreshId
  BY FreshIdIsFree DEF IInv, FreshId
<1>2. /\ Indexed(rest, others) /\ k \notin DOMAIN others
      /\ \A i \in DOMAIN rest : rest[i].id # FreshId
      /\ Len(rest) = Len(items_list) - (IF Found(k) THEN 1 ELSE 0)
      /\ ByUse(rest, older)
  <2>1. CASE Found(k)
    <3>1. ItemAt(k) \in DOMAIN items_list /\ items_list[ItemAt(k)].key = k
      BY <2>1, ItemAtKey DEF IInv
    <3>2. Len(rest) = Len(items_list) - 1
      BY <2>1, <3>1, RemoveAtItems DEF IInv, Indexed
    <3>3. /\ Indexed(RemoveAt(items_list, ItemAt(k)), Without(items_indexing_map, k))
          /\ \A i \in DOMAIN RemoveAt(items_list, ItemAt(k)) :
               \E j \in DOMAIN items_list : RemoveAt(items_list, ItemAt(k))[i] = items_list[j]
          /\ k \notin DOMAIN Without(items_indexing_map, k)
      BY <3>1, RemovalKeepsIndex DEF IInv
    <3>4. ByUse(RemoveAt(items_list, ItemAt(k)), older)
      BY <3>1, RemovalKeepsOrder DEF IInv, Indexed
    <3> QED BY <1>1, <2>1, <3>2, <3>3, <3>4
  <2>2. CASE ~Found(k)
    BY <1>1, <2>2 DEF IInv, Indexed, Found
  <2> QED BY <2>1, <2>2
<1>3. index = With(others, k, FreshId) /\ DOMAIN index = DOMAIN items_indexing_map \union {k}
  BY DEF With, Without
<1>4. new \in Item /\ new.key = k /\ new.id = FreshId
  BY <1>1 DEF Item
<1>5. Len(list) = Len(rest) + 1 /\ Len(rest) \in Nat
  BY <1>2 DEF Indexed
<1>6. IF Count(k) > max_size
      THEN /\ items_list' = Front(list) /\ items_indexing_map' = Without(index, Last(list).key)
           /\ cur_size' = Count(k) - 1
      ELSE /\ items_list' = list /\ items_indexing_map' = index /\ cur_size' = Count(k)
  BY DEF Put
<1>7. Use(k)
  BY DEF Put
<1> HIDE DEF new, rest, others, index
<1>8. Indexed(list, index)
  <2>1. Indexed(<<new>> \o rest, With(others, new.key, new.id))
    BY <1>2, <1>4, InsertionKeepsIndex
  <2> QED BY <1>3, <1>4, <2>1
<1>9. ByUse(list, older')
  <2>1. \A i \in DOMAIN rest : rest[i].key # new.key
    BY <1>2, <1>4 DEF Indexed
  <2> QED BY <1>2, <1>4, <1>7, <2>1, UseKeepsOrder DEF Indexed
<1>10. {list[i].key : i \in DOMAIN list} = Keys \union {k}
  <2>1. DOMAIN index = {list[i].key : i \in DOMAIN list}
    BY <1>8 DEF Indexed
  <2>2. DOMAIN items_indexing_map = Keys
    BY DEF IInv, Indexed, Keys
  <2> QED BY <1>3, <2>1, <2>2
<1>11. Count(k) \in Nat /\ Len(list) <= Count(k)
  BY <1>2, <1>5 DEF Count, IInv, Indexed
<1>12. Len(list) \in DOMAIN list /\ list \in Seq(Item)
  BY <1>5, <1>8 DEF Indexed
<1> HIDE DEF list
<1>13. Front(list) = RemoveAt(list, Len(list)) /\ Last(list) = list[Len(list)]
  BY <1>12 DEF Front, RemoveAt, Last
<1> QED BY <1>6, <1>8, <1>9, <1>10, <1>11, <1>12, <1>13

(* A Put keeps list, map and count together.                                 *)
LEMMA PutKeeps ==
  ASSUME IInv, NEW k \in Key, NEW v \in Value, Put(k, v)
  PROVE  IInv'
<1>1. PICK list, index :
        /\ Indexed(list, index) /\ ByUse(list, older')
        /\ Len(list) \in DOMAIN list /\ Len(list) <= Count(k) /\ Count(k) \in Nat
        /\ IF Count(k) > max_size
           THEN /\ items_list' = RemoveAt(list, Len(list))
                /\ items_indexing_map' = Without(index, list[Len(list)].key)
                /\ cur_size' = Count(k) - 1
           ELSE /\ items_list' = list /\ items_indexing_map' = index
                /\ cur_size' = Count(k)
  BY PutInserts
<1>2. max_size' = max_size /\ max_size \in Nat
  BY DEF Put, IInv
<1>3. list \in Seq(Item)
  BY <1>1 DEF Indexed
<1>4. CASE Count(k) > max_size
  <2>1. Indexed(items_list', items_indexing_map')
    BY <1>1, <1>4, RemovalKeepsIndex
  <2>2. ByUse(items_list', older')
    BY <1>1, <1>3, <1>4, RemovalKeepsOrder
  <2>3. Len(items_list') = Len(list) - 1
    BY <1>1, <1>3, <1>4, RemoveAtItems
  <2>4. cur_size' = Count(k) - 1 /\ Count(k) >= 1
    BY <1>1, <1>2, <1>4
  <2> QED BY <1>1, <1>2, <1>3, <2>1, <2>2, <2>3, <2>4 DEF IInv
<1>5. CASE ~(Count(k) > max_size)
  BY <1>1, <1>2, <1>5 DEF IInv
<1> QED BY <1>4, <1>5

(* A Get changes the order of the items only.                                *)
LEMMA GetKeeps ==
  ASSUME IInv, NEW k \in Key, Get(k)
  PROVE  IInv'
<1> DEFINE p == ItemAt(k)
           x == items_list[p]
           rest == RemoveAt(items_list, p)
           others == Without(items_indexing_map, k)
<1>1. Found(k) /\ Indexed(items_list, items_indexing_map)
  BY DEF Get, IInv
<1>2. p \in DOMAIN items_list /\ x.key = k
  BY <1>1, ItemAtKey
<1>3. x \in Item /\ items_list \in Seq(Item) /\ x.id = items_indexing_map[k]
  BY <1>1, <1>2 DEF Indexed
<1>4. /\ Indexed(rest, others) /\ k \notin DOMAIN others
      /\ rest \in Seq(Item) /\ Len(rest) = Len(items_list) - 1
  BY <1>1, <1>2, <1>3, RemovalKeepsIndex, RemoveAtItems
<1>5. \A i \in DOMAIN rest : rest[i].id # x.id
  <2>1. \A i \in DOMAIN rest : rest[i].key \in DOMAIN others
        /\ others[rest[i].key] = rest[i].id
    BY <1>4 DEF Indexed
  <2> SUFFICES ASSUME NEW i \in DOMAIN rest PROVE rest[i].id # x.id
    OBVIOUS
  <2>2. PICK j \in DOMAIN items_list : rest[i] = items_list[j]
    BY <1>1, <1>2, RemovalKeepsIndex
  <2>3. rest[i].key # k
    BY <1>4, <2>1
  <2> QED BY <1>1, <1>2, <2>2, <2>3 DEF Indexed
<1>6. Indexed(<<x>> \o rest, With(others, k, x.id))
  <2> HIDE DEF x, rest, others, p
  <2> QED BY <1>2, <1>3, <1>4, <1>5, InsertionKeepsIndex
<1>7. items_list' = <<x>> \o rest /\ Len(items_list') = Len(items_list)
  BY <1>3, <1>4 DEF Get
<1>9. ByUse(items_list', older')
  <2>1. ByUse(rest, older)
    BY <1>2, <1>3, RemovalKeepsOrder DEF IInv
  <2>2. Use(x.key)
    BY <1>2 DEF Get
  <2>3. \A i \in DOMAIN rest : rest[i].key # x.key
    BY <1>2, <1>4 DEF Indexed
  <2> HIDE DEF x, rest
  <2> QED BY <1>3, <1>4, <1>7, <2>1, <2>2, <2>3, UseKeepsOrder
<1>8. Indexed(items_list', items_indexing_map)
  <2>1. DOMAIN With(others, k, x.id) = DOMAIN items_indexing_map
        /\ \A j \in DOMAIN items_indexing_map :
             With(others, k, x.id)[j] = items_indexing_map[j]
    BY <1>1, <1>3 DEF With, Without, Found
  <2> HIDE DEF x, rest, others, p
  <2>2. \A i \in DOMAIN items_list' : items_list'[i].key \in DOMAIN With(others, k, x.id)
    BY <1>6, <1>7 DEF Indexed
  <2>3. \A i \in DOMAIN items_list' :
          items_indexing_map[items_list'[i].key] = items_list'[i].id
    <3> TAKE i \in DOMAIN items_list'
    <3>1. With(others, k, x.id)[items_list'[i].key] = items_list'[i].id
      BY <1>6, <1>7 DEF Indexed
    <3> QED BY <2>1, <2>2, <3>1
  <2>4. DOMAIN items_indexing_map = {items_list'[i].key : i \in DOMAIN items_list'}
    <3>1. Indexed(items_list', With(others, k, x.id))
      BY <1>6, <1>7
    <3> QED BY <2>1, <3>1 DEF Indexed
  <2> QED BY <1>6, <1>7, <2>3, <2>4 DEF Indexed
<1> QED BY <1>7, <1>8, <1>9 DEF IInv, Get

(* An Erase takes the item and its key.                                      *)
LEMMA EraseKeeps ==
  ASSUME IInv, NEW k \in Key, Erase(k)
  PROVE  IInv'
<1>1. Found(k) /\ Indexed(items_list, items_indexing_map)
  BY DEF Erase, IInv
<1>2. ItemAt(k) \in DOMAIN items_list /\ items_list[ItemAt(k)].key = k
  BY <1>1, ItemAtKey
<1>3. Indexed(items_list', items_indexing_map')
  BY <1>1, <1>2, RemovalKeepsIndex DEF Erase
<1>4. Len(items_list') = Len(items_list) - 1 /\ Len(items_list) \in Nat \ {0}
  BY <1>1, <1>2, RemoveAtItems DEF Erase, Indexed
<1>5. ByUse(items_list', older')
  BY <1>1, <1>2, RemovalKeepsOrder DEF IInv, Erase, Indexed
<1> QED BY <1>3, <1>4, <1>5 DEF IInv, Erase

(* A Clear empties list and map; the count may only be too high.             *)
LEMMA ClearKeeps == IInv /\ Clear => IInv'
BY EmptyIsIndexed DEF IInv, Clear

(* A new size empties both, or changes neither.                              *)
LEMMA SetMaxSizeKeeps ==
  ASSUME IInv, NEW n \in Sizes, SetMaxSize(n)
  PROVE  IInv'
BY EmptyIsIndexed, LRUAssumption DEF IInv, SetMaxSize

(* A new cache is empty.                                                     *)
LEMMA InitEstablishes == Init => IInv
BY EmptyIsIndexed, LRUAssumption DEF Init, IInv

-----------------------------------------------------------------------------
(* Every reachable state: the map names the items of the list one by one,    *)
(* keys and identities are not repeated, and the count is at least the       *)
(* length.                                                                   *)
THEOREM Invariance == Spec => []IInv
<1>1. IInv /\ [Next]_vars => IInv'
  <2> SUFFICES ASSUME IInv, [Next]_vars PROVE IInv'
    OBVIOUS
  <2>1. ASSUME NEW k \in Key, NEW v \in Value, Put(k, v) PROVE IInv'
    BY <2>1, PutKeeps
  <2>2. ASSUME NEW k \in Key, Get(k) PROVE IInv'
    BY <2>2, GetKeeps
  <2>3. ASSUME NEW k \in Key, Erase(k) PROVE IInv'
    BY <2>3, EraseKeeps
  <2>4. CASE Clear
    BY <2>4, ClearKeeps
  <2>5. ASSUME NEW n \in Sizes, SetMaxSize(n) PROVE IInv'
    BY <2>5, SetMaxSizeKeeps
  <2>6. CASE UNCHANGED vars
    BY <2>6 DEF vars, IInv
  <2> QED BY <2>1, <2>2, <2>3, <2>4, <2>5, <2>6 DEF Next
<1> QED BY <1>1, InitEstablishes, PTL DEF Spec

(* After any calls, however often the cache was cleared and resized, its map *)
(* has exactly the keys of its list, and its count is not behind.            *)
THEOREM Agreement == Spec => []IndexAgrees
<1>1. IInv => IndexAgrees
  BY DEF IInv, Indexed, IndexAgrees, Keys
<1> QED BY <1>1, Invariance, PTL

(* Whatever was put, read, erased and cleared before, a Put takes out no key *)
(* but the one that has gone unused for longest.                             *)
THEOREM Eviction == Spec => EvictsOldest
<1>1. ASSUME IInv, NEW k \in Key, NEW v \in Value, Put(k, v),
             NEW e \in (Keys \union {k}) \ Keys', NEW j \in Keys \union {k}, j # e
      PROVE  <<e, j>> \in older'
  <2>1. PICK list, index :
          /\ Indexed(list, index) /\ ByUse(list, older')
          /\ {list[i].key : i \in DOMAIN list} = Keys \union {k}
          /\ Len(list) \in DOMAIN list
          /\ IF Count(k) > max_size THEN items_list' = RemoveAt(list, Len(list))
                                    ELSE items_list' = list
    BY <1>1, PutInserts
  <2>2. list \in Seq(Item) /\ DOMAIN list = 1 .. Len(list) /\ Len(list) \in Nat
    BY <2>1 DEF Indexed
  <2>3. PICK p \in DOMAIN list : e = list[p].key
    BY <2>1
  <2>4. PICK q \in DOMAIN list : j = list[q].key
    BY <2>1
  <2>5. items_list' = RemoveAt(list, Len(list))
    BY <2>1, <2>3 DEF Keys
  <2>6. \A i \in 1 .. Len(list) - 1 : i \in DOMAIN items_list' /\ items_list'[i] = list[i]
    BY <2>1, <2>2, <2>5, RemoveAtItems
  <2>7. p = Len(list)
    <3>1. \A i \in 1 .. Len(list) - 1 : list[i].key \in Keys'
      BY <2>6 DEF Keys
    <3> QED BY <2>2, <2>3, <3>1
  <2>8. q < p
    BY <1>1, <2>2, <2>3, <2>4, <2>7
  <2> QED BY <2>1, <2>3, <2>4, <2>8 DEF ByUse
<1>2. IInv => [\A k \in Key, v \in Value : Put(k, v) =>
                 \A e \in (Keys \union {k}) \ Keys', j \in Keys \union {k} :
                   j # e => <<e, j>> \in older']_vars
  BY <1>1
<1> QED BY <1>2, Invariance, PTL DEF EvictsOldest

(*------------------------------ the spin lock -----------------------------*)
USE SpinLockAssumption DEF SpinLockAssumption

(* The inductive invariant holds at first.                                   *)
LEMMA LockInitOK == LockInit => LockIInv
<1> SUFFICES ASSUME LockInit
             PROVE  LockIInv
  OBVIOUS
<1>1. TypeOK
  <2>1. flag \in BOOLEAN
    BY DEF LockInit
  <2>2. 0 \in 0 .. MaxUpdates
    OBVIOUS
  <2> QED
    BY <2>1, <2>2 DEF LockInit, TypeOK
<1>2. \A t \in Thread : pc[t] # "inside"
  BY DEF LockInit
<1>3. ~flag /\ published = version
  BY DEF LockInit
<1> QED
  BY <1>1, <1>2, <1>3 DEF LockIInv, MutualExclusion, HolderIsUpToDate

(* A test_and_set that returns false finds nobody inside, so its thread is   *)
(* alone there, and it receives all that the last clear() published.         *)
LEMMA Entering ==
  ASSUME NEW t \in Thread, LockIInv, pc[t] # "inside", test_and_set(t)
  PROVE  LockIInv'
<1>1. \A u \in Thread : pc[u] # "inside"
  BY DEF LockIInv, test_and_set
<1>2. \A u \in Thread : pc'[u] = "inside" <=> u = t
  BY <1>1 DEF LockIInv, TypeOK, test_and_set
<1>3. TypeOK'
  BY DEF LockIInv, TypeOK, test_and_set
<1>4. MutualExclusion'
  BY <1>2 DEF MutualExclusion
<1>5. HolderIsUpToDate'
  BY <1>2 DEF LockIInv, TypeOK, HolderIsUpToDate, test_and_set
<1>6. flag' /\ \E u \in Thread : pc'[u] = "inside"
  BY <1>2 DEF test_and_set
<1> QED
  BY <1>3, <1>4, <1>5, <1>6 DEF LockIInv

(* Every step keeps the invariant.                                           *)
LEMMA LockStepOK == LockIInv /\ [LockNext]_lockVars => LockIInv'
<1> SUFFICES ASSUME LockIInv, [LockNext]_lockVars
             PROVE  LockIInv'
  OBVIOUS
<1> USE DEF LockIInv, TypeOK, MutualExclusion, HolderIsUpToDate
<1>1. CASE UNCHANGED lockVars
  BY <1>1 DEF lockVars
<1>2. ASSUME NEW t \in Thread, lock(t)
      PROVE  LockIInv'
  BY <1>2 DEF lock
<1>3. ASSUME NEW t \in Thread, Acquire(t) \/ try_lock(t)
      PROVE  LockIInv'
  BY <1>3, Entering DEF Acquire, try_lock
<1>4. ASSUME NEW t \in Thread, Update(t)
      PROVE  LockIInv'
  <2>1. \A u \in Thread : pc[u] = "inside" <=> u = t
    BY <1>4 DEF Update
  <2>2. seen[t] = version /\ version + 1 \in 0 .. MaxUpdates
    BY <1>4, <2>1 DEF Update
  <2> QED
    BY <1>4, <2>1, <2>2 DEF Update
<1>5. ASSUME NEW t \in Thread, unlock(t)
      PROVE  LockIInv'
  <2>1. \A u \in Thread : pc'[u] # "inside"
    BY <1>5 DEF unlock
  <2>2. published' = version'
    BY <1>5 DEF unlock
  <2> QED
    BY <1>5, <2>1, <2>2 DEF unlock
<1> QED
  BY <1>1, <1>2, <1>3, <1>4, <1>5 DEF LockNext

(* The inductive invariant holds throughout.                                 *)
THEOREM LockInvariance == LockSpec => []LockIInv
  BY LockInitOK, LockStepOK, PTL DEF LockSpec

(* lock, try_lock and unlock keep two threads from being inside together.    *)
THEOREM Exclusion == LockSpec => []MutualExclusion
<1>1. LockIInv => MutualExclusion
  BY DEF LockIInv
<1> QED
  BY LockInvariance, <1>1, PTL

(* The thread inside sees every update made under the lock before.           *)
THEOREM Publication == LockSpec => []HolderIsUpToDate
<1>1. LockIInv => HolderIsUpToDate
  BY DEF LockIInv
<1> QED
  BY LockInvariance, <1>1, PTL

(*------------------------------- the streams ------------------------------*)

(* A FileStream f on a file g that is at this offset and has these bytes; the *)
(* position that f keeps to save a seek is where g is written next.          *)
IsAt(f, g, offset, data) ==
  /\ DOMAIN f = {"offset_", "result_", "pos", "open"} /\ DOMAIN g = {"data", "next"}
  /\ f.open = TRUE /\ f.result_ = "Ok"
  /\ f.offset_ = offset /\ f.pos = g.next /\ g.data = data

(* As long as no call has failed, the file stream is where the memory stream *)
(* is and the file has the bytes of the buffer.                              *)
Level == IsAt(fs, file, ms.offset_, ms.data)

StreamIInv ==
  /\ failed \in BOOLEAN
  /\ DOMAIN ms = {"offset_", "result_", "data"}
  /\ ~failed => Level

(* What a write to the file does that does not fail.                         *)
LEMMA WriteLands ==
  ASSUME Level, NEW at, NEW src,
         NEW out \in UnlessFailed(FileStream_WriteDataImpl(at, src)),
         out.fs.result_ # "Error"
  PROVE  IsAt(out.fs, out.file, ms.offset_, Stored(ms.data, at, src))
<1> USE DEF Level
<1>1. out \in FileStream_WriteDataImpl(at, src)
  BY DEF UnlessFailed, IsAt
<1>2. CASE src = <<>>
  <2>1. out = [fs |-> fs, file |-> file]
    BY <1>1, <1>2 DEF FileStream_WriteDataImpl, IsAt
  <2> QED BY <1>2, <2>1 DEF IsAt, Stored
<1>3. CASE src # <<>>
  <2> DEFINE next == IF at # fs.pos THEN at ELSE file.next
             put(bytes) == [data |-> Stored(file.data, next, bytes), next |-> next + Len(bytes)]
  <2>1. next = at
    BY DEF IsAt
  <2>2. \/ out = [fs |-> [fs EXCEPT !.pos = at + Len(src)], file |-> put(src)]
        \/ out.fs.result_ = "Error"
    <3>1. \/ out = [fs |-> [fs EXCEPT !.pos = at + Len(src)], file |-> put(src)]
          \/ \E n \in 0 .. Len(src) - 1 :
               out = [Error([fs EXCEPT !.pos = at]) EXCEPT !.file = put(SubSeq(src, 1, n))]
          \/ out = Error(fs)
      BY <1>1, <1>3, Zenon DEF FileStream_WriteDataImpl, IsAt
    <3> HIDE DEF put, next
    <3>2. ASSUME NEW n \in 0 .. Len(src) - 1,
                 out = [Error([fs EXCEPT !.pos = at]) EXCEPT !.file = put(SubSeq(src, 1, n))]
          PROVE  out.fs.result_ = "Error"
      <4>1. out.fs = [[fs EXCEPT !.pos = at] EXCEPT !.result_ = "Error"]
        BY <3>2 DEF Error
      <4>2. "result_" \in DOMAIN [fs EXCEPT !.pos = at]
        BY DEF IsAt
      <4> QED BY <4>1, <4>2
    <3>3. ASSUME out = Error(fs) PROVE out.fs.result_ = "Error"
      BY <3>3 DEF Error, IsAt
    <3> QED BY <3>1, <3>2, <3>3
  <2>3. out.fs = [fs EXCEPT !.pos = at + Len(src)] /\ out.file = put(src)
    BY <2>2
  <2>4. /\ out.fs.pos = at + Len(src) /\ DOMAIN out.fs = DOMAIN fs
        /\ out.fs.open = fs.open /\ out.fs.result_ = fs.result_ /\ out.fs.offset_ = fs.offset_
    BY <2>3 DEF IsAt
  <2>5. /\ out.file.next = next + Len(src) /\ out.file.data = Stored(file.data, next, src)
        /\ DOMAIN out.file = {"data", "next"}
    BY <2>3
  <2> HIDE DEF next, put
  <2> QED BY <2>1, <2>4, <2>5 DEF IsAt
<1> QED BY <1>2, <1>3

(* The two streams are written in the same place, and are then at the same   *)
(* offset.                                                                   *)
LEMMA WriteKeeps ==
  ASSUME StreamIInv, NEW at, NEW src, NEW offset,
         FileCall(FileStream_WriteDataImpl(at, src), offset),
         DOMAIN ms' = DOMAIN ms, ms'.data = Stored(ms.data, at, src),
         ms'.offset_ = offset
  PROVE  StreamIInv'
<1>1. PICK out \in UnlessFailed(FileStream_WriteDataImpl(at, src)) :
        /\ fs' = [out.fs EXCEPT !.offset_ = offset] /\ file' = out.file
        /\ failed' = (failed \/ out.fs.result_ = "Error")
  BY DEF FileCall
<1>2. DOMAIN ms' = {"offset_", "result_", "data"}
  BY DEF StreamIInv
<1>3. ASSUME ~failed' PROVE IsAt(fs', file', ms'.offset_, ms'.data)
  <2>1. ~failed /\ out.fs.result_ # "Error"
    BY <1>1, <1>3
  <2>2. IsAt(out.fs, out.file, ms.offset_, Stored(ms.data, at, src))
    BY <2>1, WriteLands DEF StreamIInv
  <2>3. /\ DOMAIN fs' = DOMAIN out.fs /\ fs'.offset_ = offset
        /\ fs'.open = out.fs.open /\ fs'.result_ = out.fs.result_ /\ fs'.pos = out.fs.pos
    BY <1>1, <2>2 DEF IsAt
  <2> QED BY <1>1, <1>2, <2>2, <2>3 DEF IsAt
<1>4. failed' \in BOOLEAN
  BY <1>1
<1> QED BY <1>2, <1>3, <1>4 DEF StreamIInv, Level

(* A FileStream moves nothing but what is empty; the rest fails.             *)
LEMMA MoveKeeps ==
  ASSUME StreamIInv, NEW dst, NEW src, NEW size, MoveData(dst, src, size)
  PROVE  StreamIInv'
<1>1. PICK out \in UnlessFailed(FileStream_MoveDataImpl(size)) :
        /\ fs' = [out.fs EXCEPT !.offset_ = fs.offset_] /\ file' = out.file
        /\ failed' = (failed \/ out.fs.result_ = "Error")
  BY DEF MoveData, FileCall
<1>2. /\ DOMAIN ms' = {"offset_", "result_", "data"} /\ ms'.offset_ = ms.offset_
      /\ size = 0 => ms'.data = ms.data
  BY DEF StreamIInv, MoveData, MemoryStream_MoveDataImpl
<1>3. ASSUME ~failed' PROVE IsAt(fs', file', ms'.offset_, ms'.data)
  <2>1. ~failed /\ out.fs.result_ # "Error" /\ Level
    BY <1>1, <1>3 DEF StreamIInv
  <2>2. out \in FileStream_MoveDataImpl(size)
    BY <2>1 DEF UnlessFailed, Level, IsAt
  <2>3. size = 0 /\ out = [fs |-> fs, file |-> file]
    <3>1. Error(fs).fs.result_ = "Error"
      BY <2>1 DEF Error, Level, IsAt
    <3> QED BY <2>1, <2>2, <3>1 DEF FileStream_MoveDataImpl
  <2>4. /\ DOMAIN fs' = DOMAIN fs /\ fs'.offset_ = fs.offset_
        /\ fs'.open = fs.open /\ fs'.result_ = fs.result_ /\ fs'.pos = fs.pos
    BY <1>1, <2>1, <2>3 DEF Level, IsAt
  <2> QED BY <1>1, <1>2, <2>1, <2>3, <2>4 DEF Level, IsAt
<1> QED BY <1>1, <1>2, <1>3 DEF StreamIInv, Level

(* The states of the streams.                                                *)
THEOREM StreamInvariance == StreamSpec => []StreamIInv
<1>1. ASSUME StreamInit PROVE StreamIInv
  <2>1. /\ DOMAIN ms = {"offset_", "result_", "data"} /\ DOMAIN file = {"data", "next"}
        /\ DOMAIN fs = {"offset_", "result_", "pos", "open"}
    BY <1>1 DEF StreamInit
  <2>2. /\ fs.open = TRUE /\ fs.result_ = "Ok" /\ fs.offset_ = 0 /\ fs.pos = 0
        /\ ms.offset_ = 0 /\ ms.data = <<>> /\ file.data = <<>> /\ file.next = 0
    BY <1>1 DEF StreamInit
  <2>3. failed = FALSE
    BY <1>1 DEF StreamInit
  <2> QED BY <2>1, <2>2, <2>3 DEF StreamIInv, Level, IsAt
<1>2. StreamIInv /\ [StreamNext]_streamVars => StreamIInv'
  <2> SUFFICES ASSUME StreamIInv, [StreamNext]_streamVars PROVE StreamIInv'
    OBVIOUS
  <2>1. ASSUME NEW kind, NEW v, WriteNumber(kind, v) PROVE StreamIInv'
    <3> DEFINE src == Encoded(kind, v)
    <3>1. /\ ms' = [ms EXCEPT !.data = Stored(@, ms.offset_, src), !.offset_ = @ + Len(src)]
          /\ FileCall(FileStream_WriteDataImpl(fs.offset_, src), fs.offset_ + Len(src))
      BY <2>1 DEF WriteNumber, WriteData
    <3> HIDE DEF src
    <3>2. /\ DOMAIN ms' = DOMAIN ms /\ ms'.data = Stored(ms.data, ms.offset_, src)
          /\ ms'.offset_ = ms.offset_ + Len(src)
      BY <3>1 DEF StreamIInv
    <3>3. CASE failed
      BY <3>1, <3>2, <3>3 DEF FileCall, StreamIInv
    <3>4. CASE ~failed
      <4>1. fs.offset_ = ms.offset_
        BY <3>4 DEF StreamIInv, Level, IsAt
      <4> QED BY <3>1, <3>2, <4>1, WriteKeeps
    <3> QED BY <3>3, <3>4
  <2>2. ASSUME NEW at, NEW kind, NEW v, WriteNumberAt(at, kind, v) PROVE StreamIInv'
    <3> DEFINE src == Encoded(kind, v)
    <3>1. /\ ms' = [ms EXCEPT !.data = Stored(@, at, src)]
          /\ FileCall(FileStream_WriteDataImpl(at, src), fs.offset_)
      BY <2>2 DEF WriteNumberAt, WriteDataAt
    <3> HIDE DEF src
    <3>2. /\ DOMAIN ms' = DOMAIN ms /\ ms'.data = Stored(ms.data, at, src)
          /\ ms'.offset_ = ms.offset_
      BY <3>1 DEF StreamIInv
    <3>3. CASE failed
      BY <3>1, <3>2, <3>3 DEF FileCall, StreamIInv
    <3>4. CASE ~failed
      <4>1. fs.offset_ = ms.offset_
        BY <3>4 DEF StreamIInv, Level, IsAt
      <4> QED BY <3>1, <3>2, <4>1, WriteKeeps
    <3> QED BY <3>3, <3>4
  <2>3. ASSUME NEW src, NEW dst, NEW size, MoveData(dst, src, size) PROVE StreamIInv'
    BY <2>3, MoveKeeps
  <2>4. ASSUME NEW delta, AddOffset(delta) PROVE StreamIInv'
    BY <2>4 DEF AddOffset, StreamIInv, Level, IsAt
  <2>5. CASE MoveStream
    BY <2>5 DEF MoveStream, StreamIInv, Level, IsAt
  <2>6. CASE ClearAndReopen
    <3>1. PICK open \in BOOLEAN :
            /\ fs' = [offset_ |-> ms.offset_, result_ |-> "Ok", pos |-> 0, open |-> open]
            /\ file' = IF open THEN [data |-> <<>>, next |-> 0] ELSE file
            /\ failed' = ~open
      BY <2>6 DEF ClearAndReopen
    <3>2. ms' = [ms EXCEPT !.data = <<>>]
      BY <2>6 DEF ClearAndReopen
    <3>3. DOMAIN ms' = DOMAIN ms /\ ms'.data = <<>> /\ ms'.offset_ = ms.offset_
      BY <3>2 DEF StreamIInv
    <3>4. CASE open = TRUE
      <4>1. /\ DOMAIN file' = {"data", "next"} /\ file'.data = <<>> /\ file'.next = 0
        BY <3>1, <3>4
      <4>2. /\ DOMAIN fs' = {"offset_", "result_", "pos", "open"} /\ fs'.open = TRUE
            /\ fs'.result_ = "Ok" /\ fs'.offset_ = ms.offset_ /\ fs'.pos = 0
        BY <3>1, <3>4
      <4>3. IsAt(fs', file', ms'.offset_, ms'.data)
        BY <3>3, <4>1, <4>2 DEF IsAt
      <4> QED BY <3>1, <3>3, <4>3 DEF StreamIInv, Level
    <3>5. CASE open = FALSE
      BY <3>1, <3>3, <3>5 DEF StreamIInv
    <3> QED BY <3>4, <3>5
  <2>7. CASE UNCHANGED streamVars
    BY <2>7 DEF streamVars, StreamIInv, Level, IsAt
  <2> QED BY <2>1, <2>2, <2>3, <2>4, <2>5, <2>6, <2>7 DEF StreamNext
<1> QED BY <1>1, <1>2, PTL DEF StreamSpec

(* Whatever is written, filled in, skipped and moved on to, a file that no   *)
(* call has failed on has the bytes of the buffer.                           *)
THEOREM FileHasTheBytes == StreamSpec => []FileAgreesWithMemory
<1>1. StreamIInv => FileAgreesWithMemory
  BY DEF StreamIInv, Level, IsAt, FileAgreesWithMemory
<1> QED BY <1>1, StreamInvariance, PTL
=============================================================================

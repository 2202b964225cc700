------------------------------ MODULE LRUCache ------------------------------
(* src/base/types/lru-cache.h: a list of <key, value> items, the most        *)
(* recently used first, a map from keys to list positions, and a count kept  *)
(* beside them.  A list iterator is the identity of its item, which moves    *)
(* through the list unchanged until the item is erased.                      *)
(*                                                                           *)
(* Operators named X_Something are faulty X's that the properties notice.    *)
EXTENDS Integers, FiniteSets, SequencesExt

CONSTANTS Key, Value,
          Sizes        \* the sizes the cache is made and SetMaxSize is called with

ASSUME LRUAssumption == IsFiniteSet(Key) /\ Sizes \subseteq Nat /\ Sizes # {}

VARIABLES
  items_list,          \* front first: [id, key, value]
  items_indexing_map,  \* [key -> id], for the keys it has
  cur_size, max_size,
  older                \* <<j, k>>: k was used since j was; not in the code

vars == <<items_list, items_indexing_map, cur_size, max_size, older>>

(* One more identity than keys: an item is added before another goes.        *)
Id == 1 .. Cardinality(Key) + 1
NoKeys == [k \in {} |-> 1]
FreshId == CHOOSE id \in Id : \A i \in DOMAIN items_list : items_list[i].id # id
Found(k) == k \in DOMAIN items_indexing_map

(* Where in the list the item is that the map has for the key.               *)
ItemAt(k) == CHOOSE i \in DOMAIN items_list : items_list[i].id = items_indexing_map[k]

Without_Nothing(map, k) == map

Without(map, k) == [j \in DOMAIN map \ {k} |-> map[j]]
With(map, k, id) == [j \in DOMAIN map \union {k} |-> IF j = k THEN id ELSE map[j]]

Init ==
  /\ items_list = <<>> /\ items_indexing_map = NoKeys
  /\ cur_size = 0 /\ max_size \in Sizes
  /\ older = {}

(* The count after a Put, before the eviction.                               *)
Count(k) == (IF Found(k) THEN cur_size - 1 ELSE cur_size) + 1

Use(k) == older' = {p \in older : p[1] # k} \union {<<j, k>> : j \in Key \ {k}}

(* The item goes in front, the old item of its key goes, and if the count is *)
(* then over the size the last item goes too.                                *)
Put(k, v) ==
  LET new   == [id |-> FreshId, key |-> k, value |-> v]
      list  == <<new>> \o (IF Found(k)
                           THEN RemoveAt(items_list, ItemAt(k))
                           ELSE items_list)
      index == With(items_indexing_map, k, new.id)
  IN /\ IF Count(k) > max_size
        THEN /\ items_list' = Front(list)
             /\ items_indexing_map' = Without(index, Last(list).key)
             /\ cur_size' = Count(k) - 1
        ELSE /\ items_list' = list
             /\ items_indexing_map' = index
             /\ cur_size' = Count(k)
     /\ Use(k)
     /\ UNCHANGED max_size

Get_LeavesItInPlace(k) ==
  /\ Found(k)
  /\ Use(k)
  /\ UNCHANGED <<items_list, items_indexing_map, cur_size, max_size>>

(* Get moves the item to the front; the value it returns is the item's.      *)
Get(k) ==
  /\ Found(k)
  /\ items_list' = <<items_list[ItemAt(k)]>> \o RemoveAt(items_list, ItemAt(k))
  /\ Use(k)
  /\ UNCHANGED <<items_indexing_map, cur_size, max_size>>

Erase(k) ==
  /\ Found(k)
  /\ cur_size' = cur_size - 1
  /\ items_list' = RemoveAt(items_list, ItemAt(k))
  /\ items_indexing_map' = Without(items_indexing_map, k)
  /\ UNCHANGED <<max_size, older>>

(* Clear empties the list and the map and leaves the count as it is.         *)
Clear ==
  /\ items_list' = <<>> /\ items_indexing_map' = NoKeys
  /\ UNCHANGED <<cur_size, max_size, older>>

SetMaxSize(n) ==
  /\ max_size' = n
  /\ IF max_size < n
     THEN items_list' = <<>> /\ items_indexing_map' = NoKeys
     ELSE UNCHANGED <<items_list, items_indexing_map>>
  /\ UNCHANGED <<cur_size, older>>

Next ==
  \/ \E k \in Key, v \in Value : Put(k, v)
  \/ \E k \in Key : Get(k) \/ Erase(k)
  \/ Clear
  \/ \E n \in Sizes : SetMaxSize(n)

Spec == Init /\ [][Next]_vars

(*------------------------------- properties -------------------------------*)

Keys == {items_list[i].key : i \in DOMAIN items_list}

(* The map names exactly the keys in the list, each with its one item, so no *)
(* iterator in the map outlives its item; and the count that decides on      *)
(* eviction never lags behind the list, so a Put that finds the count within *)
(* the size leaves a list within it too.                                     *)
IndexAgrees ==
  /\ DOMAIN items_indexing_map = Keys
  /\ \A i, j \in DOMAIN items_list : items_list[i].key = items_list[j].key => i = j
  /\ \A i \in DOMAIN items_list : items_indexing_map[items_list[i].key] = items_list[i].id
  /\ Len(items_list) <= cur_size

(* Who is evicted: the key that a Put drops is the one, of those held, that  *)
(* has gone unused, by Put and by Get, for longest: all others were used     *)
(* since it was, and so no two are dropped.                                  *)
EvictsOldest ==
  [][\A k \in Key, v \in Value : Put(k, v) =>
       \A e \in (Keys \union {k}) \ Keys', j \in Keys \union {k} :
         j # e => <<e, j>> \in older']_vars

(* A pair that was just put is held (in a cache that may hold any).          *)
NewestIsHeld ==
  [][\A k \in Key, v \in Value : Put(k, v) /\ max_size > 0 => k \in Keys']_vars
=============================================================================

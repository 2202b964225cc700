------------------------------ MODULE HashTable ------------------------------
(* The tables of hashtable.cc under every sequence of calls the VM makes.    *)
EXTENDS TableOps

CONSTANTS Table,
          MaxCapacity    \* bound: no call grows a table beyond it

VARIABLES tables,   \* [Table -> the Table struct]
          call,     \* the last call: operation and arguments
          result    \* what it returned

vars == <<tables, call, result>>

Absent == [found |-> FALSE]
Present(v) == [found |-> TRUE, value |-> v]

Init == /\ tables = [t \in Table |-> initTable]
        /\ call = <<>> /\ result = Absent

Get(t, k) ==
  /\ call' = <<"Get", t, k>>
  /\ result' = IF Holds(tables[t], k) THEN Present(ValueAt(tables[t], k))
                                      ELSE Absent
  /\ UNCHANGED tables

Set(t, k, v) ==
  LET grown == Grown(tables[t])
  IN /\ grown.capacity <= MaxCapacity
     /\ call' = <<"Set", t, k, v>>
     /\ tables' = [tables EXCEPT ![t] = tableSet(@, k, v)]
     /\ result' = [isNewKey |-> grown.entries[findEntry(grown, k)].key = NULL]

Delete(t, k) ==
  /\ call' = <<"Delete", t, k>>
  /\ tables' = [tables EXCEPT ![t] = tableDelete(@, k)]
  /\ result' = [deleted |-> Holds(tables[t], k)]

(* OP_INHERIT copies the superclass's methods down.                          *)
AddAll(from, to) ==
  LET copied == tableAddAll(tables[from], tables[to])
  IN /\ copied.capacity <= MaxCapacity
     /\ call' = <<"AddAll", from, to>>
     /\ tables' = [tables EXCEPT ![to] = copied]
     /\ UNCHANGED result

(* The collector drops the keys it did not mark.                             *)
RemoveWhite(t, marked) ==
  /\ call' = <<"RemoveWhite", t, marked>>
  /\ tables' = [tables EXCEPT ![t] = tableRemoveWhite(@, marked)]
  /\ UNCHANGED result

Free(t) ==
  /\ call' = <<"Free", t>>
  /\ tables' = [tables EXCEPT ![t] = initTable]
  /\ UNCHANGED result

Next ==
  \E t \in Table :
    \/ \E k \in Key : Get(t, k) \/ Delete(t, k) \/ \E v \in Value : Set(t, k, v)
    \/ \E to \in Table \ {t} : AddAll(t, to)
    \/ \E marked \in SUBSET Key : RemoveWhite(t, marked)
    \/ Free(t)

Spec == Init /\ [][Next]_vars

-----------------------------------------------------------------------------
(* The probe loops of findEntry have no other exit than the key and an empty *)
(* slot.  Every key, present or not, meets one: deletions leave tombstones   *)
(* and give no slot back, so this rests on count, which decides when a table *)
(* grows, being exactly the slots a probe cannot stop at, tombstones         *)
(* included, through every reuse of a tombstone and every rehash.            *)
ProbeTerminates ==
  \A t \in Table :
    /\ tables[t].count = Cardinality(UsedSlots(tables[t]))
    /\ tables[t].capacity > 0 => \A k \in Key : StopsAt(tables[t], k) # {}

(* A key has one slot: reusing a tombstone that precedes the key's own slot  *)
(* would leave a second, stale copy which a later delete uncovers.           *)
OneSlotPerKey ==
  \A t \in Table : \A i, j \in LiveSlots(tables[t]) :
    tables[t].entries[i].key = tables[t].entries[j].key => i = j

(* Each call behaves as on the map of the keys a lookup finds.               *)
Abstract == INSTANCE Dictionary
  WITH dict <- [t \in Table |->
         [k \in {x \in Key : Holds(tables[t], x)} |-> ValueAt(tables[t], k)]]

ImplementsDictionary == Abstract!Spec
=============================================================================

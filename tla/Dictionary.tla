----------------------------- MODULE Dictionary -----------------------------
(* What the hash tables of the VM (globals, the interned strings, methods    *)
(* and fields) promise: each table is a finite map, and every call answers   *)
(* as that map would.  hashtable.cc implements it with open addressing; the  *)
(* module HashTable is the detailed specification.                           *)
EXTENDS Naturals

CONSTANTS Key, Value, Table

VARIABLES dict,    \* [Table -> a function from a set of keys to Value]
          call,    \* the last call: operation and arguments
          result   \* what it returned to its caller

vars == <<dict, call, result>>

Absent == [found |-> FALSE]
Present(v) == [found |-> TRUE, value |-> v]

Bind(d, k, v) ==
  [x \in DOMAIN d \union {k} |-> IF x = k THEN v ELSE d[x]]

Keep(d, S) == [x \in DOMAIN d \intersect S |-> d[x]]

Overlay(d, e) ==
  [x \in DOMAIN d \union DOMAIN e |-> IF x \in DOMAIN e THEN e[x] ELSE d[x]]

Empty == [x \in {} |-> x]

Init == /\ dict = [t \in Table |-> Empty]
        /\ call = <<>> /\ result = Absent

Get(t, k) ==
  /\ call' = <<"Get", t, k>>
  /\ UNCHANGED dict
  /\ result' = IF k \in DOMAIN dict[t] THEN Present(dict[t][k]) ELSE Absent

Set(t, k, v) ==
  /\ call' = <<"Set", t, k, v>>
  /\ result' = [isNewKey |-> k \notin DOMAIN dict[t]]
  /\ dict' = [dict EXCEPT ![t] = Bind(@, k, v)]

Delete(t, k) ==
  /\ call' = <<"Delete", t, k>>
  /\ result' = [deleted |-> k \in DOMAIN dict[t]]
  /\ dict' = [dict EXCEPT ![t] = Keep(@, Key \ {k})]

AddAll(from, to) ==
  /\ call' = <<"AddAll", from, to>>
  /\ UNCHANGED result
  /\ dict' = [dict EXCEPT ![to] = Overlay(@, dict[from])]

RemoveWhite(t, marked) ==
  /\ call' = <<"RemoveWhite", t, marked>>
  /\ UNCHANGED result
  /\ dict' = [dict EXCEPT ![t] = Keep(@, marked)]

Free(t) ==
  /\ call' = <<"Free", t>>
  /\ UNCHANGED result
  /\ dict' = [dict EXCEPT ![t] = Empty]

Next ==
  \E t \in Table :
    \/ \E k \in Key : Get(t, k) \/ Delete(t, k) \/ \E v \in Value : Set(t, k, v)
    \/ \E to \in Table \ {t} : AddAll(t, to)
    \/ \E marked \in SUBSET Key : RemoveWhite(t, marked)
    \/ Free(t)

Spec == Init /\ [][Next]_vars
=============================================================================

----------------------------- MODULE MCLibrary ------------------------------
(* Instances of the library's parts, src/base, in one run: they share no     *)
(* state, so a behaviour is that of the one part that is chosen for it, and  *)
(* the others stay as they began.                                            *)
EXTENDS LRUCache, DataStream, Stream, TLC

VARIABLE part

Parts == {"cache", "numbers", "streams"}

libraryVars == <<part, vars, packVars, streamVars>>

(*-------------------------------- instances -------------------------------*)

Symmetric == Permutations(Key)

MCNumbers == {100, -1}

Raw(n)      == [kind |-> "raw", size |-> n]
Plain(k)    == [kind |-> k]
Many(k, t)  == [kind |-> k, of |-> t]
Array(n, t) == [kind |-> "array", size |-> n, of |-> t]
Map(k, t)   == [kind |-> "map", key |-> k, of |-> t]

MCTypes ==
  {Raw(1), Raw(2), Plain("bool"), Plain("VarUInt"), Plain("VarInt"), Plain("string"),
   Array(1, Raw(1)), Array(2, Plain("bool")),
   Many("vector", Raw(2)), Many("vector", Plain("VarInt")),
   Many("vector", Many("vector", Raw(1))),
   Many("set", Raw(1)), Map(Raw(1), Plain("VarUInt"))}

(* Elements of containers: a few of each type, at its edges.                 *)
RECURSIVE Elements(_)
UpTo(n, S) == UNION {[1 .. m -> S] : m \in 0 .. n}
Elements(t) ==
  CASE t.kind = "raw"     -> [1 .. t.size -> {0, 5, 15}]
    [] t.kind = "bool"    -> BOOLEAN
    [] t.kind = "VarUInt" -> {0, 7, 8, 255}
    [] t.kind = "VarInt"  -> {0, -1, 3, 4, -128}
    [] t.kind = "vector"  -> UpTo(1, Elements(t.of))

(* Every number; containers with one element more than they may have.        *)
MCValues(t) ==
  CASE t.kind \in {"raw", "bool"} -> Elements(t)
    [] t.kind = "VarUInt" -> Unsigned(W32)
    [] t.kind = "VarInt"  -> Signed(W32)
    [] t.kind = "string"  -> UpTo(3, {0, 5, 15})
    [] t.kind = "array"   -> [1 .. t.size -> Elements(t.of)]
    [] t.kind = "vector"  -> UpTo(3, Elements(t.of))
    [] t.kind = "set"     -> SUBSET Elements(t.of)
    [] t.kind = "map"     -> UNION {[K -> Elements(t.of)] : K \in SUBSET Elements(t.key)}

(*---------------------------------- steps ---------------------------------*)

LibraryInit ==
  /\ part \in Parts
  /\ Init /\ (part = "cache" \/ \A n \in Sizes : max_size <= n)
  /\ PackInit /\ StreamInit

LibraryNext ==
  \/ part = "cache" /\ Next /\ UNCHANGED <<part, packVars, streamVars>>
  \/ part = "numbers" /\ PackNext /\ UNCHANGED <<part, vars, streamVars>>
  \/ part = "streams" /\ StreamNext /\ UNCHANGED <<part, vars, packVars>>

LibrarySpec == LibraryInit /\ [][LibraryNext]_libraryVars
=============================================================================

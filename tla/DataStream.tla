----------------------------- MODULE DataStream -----------------------------
(* src/base/stream/data-stream.h: values packed into bytes and unpacked, by  *)
(* one operator<< and one operator>> for each kind of type.  Errors do not   *)
(* throw: they set errno_, and unpacking goes on with what it has.           *)
(*                                                                           *)
(* A type is [kind |-> "raw", size], of sizeof(T) bytes, or [kind |-> "bool" *)
(* | "VarUInt" | "VarInt" | "string"], or [kind |-> "array", size, of],      *)
(* [kind |-> "vector" | "set", of], [kind |-> "map", key, of].  Values of    *)
(* raw types are their bytes.  An operator named X_Something is a faulty X.  *)
EXTENDS Leb128, SequencesExt

CONSTANTS Types,            \* the types that are packed
          Values(_),        \* values of each
          kMaxElementNum,
          Garbage           \* what a variable holds that nothing was read into

ASSUME DataStreamAssumption == kMaxElementNum \in Nat

(*-------------------------------- packing ---------------------------------*)
(* pack: the buffer is made as long as pack_size says, which the same        *)
(* operators compute on a stream that only counts.                           *)

writeVarUInt(v) ==
  LET loop[x \in Nat] == IF x \div More > 0 THEN <<(x % More) + More>> \o loop[x \div More]
                         ELSE <<x>>
  IN loop[v]

writeVarInt(v) ==
  LET ended(x) == \/ x \div More = 0 /\ x % More < Sign
                  \/ x \div More = -1 /\ x % More >= Sign
      loop[x \in Int] == IF ended(x) THEN <<x % More>>
                         ELSE <<(x % More) + More>> \o loop[x \div More]
  IN loop[v]

RECURSIVE pack(_, _)

(* The elements of a sequence; in a T[N] of primitives they lie the same.    *)
packAll(t, vs) == FlattenSeq([i \in DOMAIN vs |-> pack(t, vs[i])])

(* Sets and maps are walked in the order of their keys.                      *)
InOrder(S) ==
  [i \in 1 .. Cardinality(S) |->
     CHOOSE x \in S : Cardinality({y \in S : y[1] < x[1]}) = i - 1]

packString(v)    == writeVarUInt(Len(v)) \o v
packArray(t, v)  == writeVarUInt(t.size) \o packAll(t.of, v)
packVector(t, v) == writeVarUInt(Len(v)) \o packAll(t.of, v)
packSet(t, v)    == writeVarUInt(Cardinality(v)) \o packAll(t.of, InOrder(v))
packMap(t, v) ==
  LET keys == InOrder(DOMAIN v)
  IN writeVarUInt(Len(keys)) \o
     FlattenSeq([i \in DOMAIN keys |-> pack(t.key, keys[i]) \o pack(t.of, v[keys[i]])])

pack(t, v) ==
  CASE t.kind = "raw"     -> v
    [] t.kind = "bool"    -> IF v THEN <<1>> ELSE <<0>>
    [] t.kind = "VarUInt" -> writeVarUInt(v)
    [] t.kind = "VarInt"  -> writeVarInt(v)
    [] t.kind = "string"  -> packString(v)
    [] t.kind = "array"   -> packArray(t, v)
    [] t.kind = "vector"  -> packVector(t, v)
    [] t.kind = "set"     -> packSet(t, v)
    [] t.kind = "map"     -> packMap(t, v)

(*------------------------------- unpacking --------------------------------*)
(* The stream being read: pos_ as the number of bytes consumed and errno_;   *)
(* undefined, when a shift was by more than the width of its operand.  Each  *)
(* reader gives the stream afterwards and the value, Garbage if none came.   *)

Opened == [pos |-> 0, errno |-> "SUCCESS", undefined |-> FALSE]
Got(ds, v) == [ds |-> ds, val |-> v]
Trap(ds, errno) == Got([ds EXCEPT !.errno = errno], Garbage)

read_TakesWhatIsThere(p, ds, n) ==
  LET end == Min({ds.pos + n, Len(p)})
  IN Got([ds EXCEPT !.pos = end], SubSeq(p, ds.pos + 1, end))

read(p, ds, n) ==
  IF Len(p) - ds.pos < n THEN Trap(ds, "OUT_OF_STREAM")
  ELSE Got([ds EXCEPT !.pos = @ + n], SubSeq(p, ds.pos + 1, ds.pos + n))

(* The bytes of a variable length integer, read one by one: n of them, or    *)
(* all there are if none ends it.                                            *)
VarBytes(p, ds) ==
  LET last == {i \in ds.pos + 1 .. Len(p) : p[i] < More}
  IN IF last = {} THEN 0 ELSE Min(last) - ds.pos
Groups(p, ds, n) ==
  MapThenSumSet(LAMBDA i : (p[ds.pos + i] % More) * More ^ (i - 1), 1 .. n) % 2 ^ W32

(* The last shift is by the width of the groups before the last.             *)
readVarUInt(p, ds) ==
  LET n == VarBytes(p, ds)
  IN IF n = 0 THEN Trap([ds EXCEPT !.pos = Len(p)], "OUT_OF_STREAM")
     ELSE Got([ds EXCEPT !.pos = @ + n, !.undefined = @ \/ Group * (n - 1) >= W32],
              Groups(p, ds, n))

(* The sign is looked for in the top bit of the last group, by a shift over  *)
(* all the groups: of the longest sequence that is more than the width.      *)
readVarInt(p, ds) ==
  LET n == VarBytes(p, ds)
  IN IF n = 0 THEN Trap([ds EXCEPT !.pos = Len(p)], "OUT_OF_STREAM")
     ELSE Got([ds EXCEPT !.pos = @ + n, !.undefined = @ \/ Group * n - 1 >= W32],
              SignExtended(Groups(p, ds, n), n))

(* A count; VarUInt's own value, when none could be read, is zero.           *)
Counted(got) == IF got.val = Garbage THEN 0 ELSE got.val

RECURSIVE unpack(_, _, _)

(* n values one after the other, whatever happens to each; a map's are pairs *)
(* of a key and a value.                                                     *)
unpackAll(p, ds, n, t) ==
  FoldLeft(LAMBDA sofar, i : LET got == unpack(p, sofar.ds, t)
                             IN Got(got.ds, Append(sofar.val, got.val)),
           Got(ds, <<>>), [i \in 1 .. n |-> i])

unpackPair(p, ds, t) ==
  LET k == unpack(p, ds, t.key)
      v == unpack(p, k.ds, t.of)
  IN Got(v.ds, [key |-> k.val, val |-> v.val])

(* The count comes first.                                                    *)
Within(limit, s, got) == IF limit THEN got ELSE Trap(s.ds, "OUT_OF_CAPACITY")
Fits(s) == Counted(s) <= kMaxElementNum

unpackString(p, ds) ==
  LET s == readVarUInt(p, ds) IN Within(Fits(s), s, read(p, s.ds, Counted(s)))

unpackArray(p, ds, t) ==
  LET s == readVarUInt(p, ds)
  IN Within(t.size = Counted(s) /\ t.size < kMaxElementNum, s,
            unpackAll(p, s.ds, t.size, t.of))

unpackVector(p, ds, t) ==
  LET s == readVarUInt(p, ds)
  IN Within(Fits(s), s, unpackAll(p, s.ds, Counted(s), t.of))

unpackSet(p, ds, t) ==
  LET s   == readVarUInt(p, ds)
      all == unpackAll(p, s.ds, Counted(s), t.of)
  IN Within(Fits(s), s, Got(all.ds, ToSet(all.val)))

(* emplace keeps the value that came first.                                  *)
Emplaced(pairs) ==
  [k \in {pairs[i].key : i \in DOMAIN pairs} |->
     pairs[Min({i \in DOMAIN pairs : pairs[i].key = k})].val]

unpackMap(p, ds, t) ==
  LET s   == readVarUInt(p, ds)
      all == unpackAll(p, s.ds, Counted(s), [t EXCEPT !.kind = "pair"])
  IN Within(Fits(s), s, Got(all.ds, Emplaced(all.val)))

unpack(p, ds, t) ==
  CASE t.kind = "raw"     -> read(p, ds, t.size)
    [] t.kind = "bool"    -> LET got == read(p, ds, 1)
                             IN Got(got.ds, got.val \notin {Garbage, <<0>>})
    [] t.kind = "VarUInt" -> readVarUInt(p, ds)
    [] t.kind = "VarInt"  -> readVarInt(p, ds)
    [] t.kind = "string"  -> unpackString(p, ds)
    [] t.kind = "array"   -> unpackArray(p, ds, t)
    [] t.kind = "vector"  -> unpackVector(p, ds, t)
    [] t.kind = "set"     -> unpackSet(p, ds, t)
    [] t.kind = "map"     -> unpackMap(p, ds, t)
    [] t.kind = "pair"    -> unpackPair(p, ds, t)

(*------------------------------ the buffer --------------------------------*)

VARIABLES
  bytes,       \* what a reader is given
  item         \* what was packed into bytes

packVars == <<bytes, item>>

Nothing == [kind |-> "nothing"]

PackInit == item = Nothing /\ bytes = <<>>

(* Bytes from anywhere.  Bound: as long as the longest number.               *)
Arrives(b) ==
  /\ item = Nothing /\ Len(bytes) < MaxBytes(W64)
  /\ bytes' = Append(bytes, b) /\ UNCHANGED item

Pack(t, v) ==
  /\ item = Nothing /\ bytes = <<>>
  /\ item' = [type |-> t, value |-> v] /\ bytes' = pack(t, v)

(* The buffer handed to unpack is shorter than what was packed.              *)
Cut ==
  /\ item # Nothing /\ bytes # <<>>
  /\ bytes' = Front(bytes) /\ UNCHANGED item

PackNext ==
  \/ \E b \in Byte : Arrives(b)
  \/ \E t \in Types : \E v \in Values(t) : Pack(t, v)
  \/ Cut

PackSpec == PackInit /\ [][PackNext]_packVars

(*------------------------------- properties -------------------------------*)

(* The number that a sequence of bytes in front stands for.                  *)
Number(n) == MapThenSumSet(LAMBDA i : (bytes[i] % More) * More ^ (i - 1), 1 .. n)

Standing(signed, w) ==
  {[length |-> n, value |-> IF signed /\ bytes[n] % More >= Sign
                            THEN Number(n) - More ^ n ELSE Number(n)] :
     n \in {m \in DOMAIN bytes : /\ m <= MaxBytes(w) /\ bytes[m] < More
                                 /\ \A i \in 1 .. m - 1 : bytes[i] >= More}}

ReadsTheNumber(got, signed, w) ==
  LET right == {r \in Standing(signed, w) :
                  r.value \in (IF signed THEN Signed(w) ELSE Unsigned(w))}
  IN IF right = {} THEN got = Refused ELSE right = {got}

(* The readers take exactly the sequences that stand for a number of their   *)
(* type, padded ones included, and refuse all others: those that do not end, *)
(* end too late, or stand for a number too large.                            *)
(* VarUInt and VarInt of data-stream.h, which accept more, read what these   *)
(* accept as the same number and write the same bytes.                       *)
LebReadsNumbers ==
  LET u   == ReadU32Leb128(bytes)
      s   == ReadSigned(bytes, W32)
      var == readVarUInt(bytes, Opened)
      int == readVarInt(bytes, Opened)
  IN /\ ReadsTheNumber(u, FALSE, W32)
     /\ \A w \in {W32, W64} : ReadsTheNumber(ReadSigned(bytes, w), TRUE, w)
     /\ u.length > 0 =>
          /\ var.ds.pos = u.length /\ var.val = u.value /\ ~var.ds.undefined
          /\ writeVarUInt(u.value) = WriteU32Leb128(u.value)
     /\ s.length > 0 =>
          /\ int.ds.pos = s.length /\ (int.val = s.value \/ int.ds.undefined)
          /\ writeVarInt(s.value) = WriteSigned(s.value, W32)

(* A number that was read is written, in no more bytes and in no more than   *)
(* the array has that it is built in, as a sequence which reads as the same  *)
(* number.  Every number of the type is read from some sequence, so that     *)
(* none is lost in writing and reading back.  U32Leb128Length foretells the  *)
(* length.                                                                   *)
LebRoundTrips ==
  LET u == ReadU32Leb128(bytes)
      short == WriteU32Leb128(u.value)
      fixed == WriteFixedU32Leb128(u.value)
  IN /\ u.length > 0 =>
          /\ Len(short) <= u.length /\ Len(short) = U32Leb128Length(u.value)
          /\ ReadU32Leb128(short) = [length |-> Len(short), value |-> u.value]
          /\ ReadU32Leb128(fixed) = [length |-> MaxBytes(W32), value |-> u.value]
     /\ \A w \in {W32, W64} :
          LET s == ReadSigned(bytes, w)
              signed == WriteSigned(s.value, w)
          IN s.length > 0 =>
               /\ Len(signed) <= s.length
               /\ ReadSigned(signed, w) = [length |-> Len(signed), value |-> s.value]

(* What unpack cannot give back although pack wrote it: more elements than   *)
(* the limit, an array of just as many, and a VarInt that fills its last     *)
(* byte.                                                                     *)
RECURSIVE Refusable(_, _)
Refusable(t, v) ==
  CASE t.kind \in {"raw", "bool", "VarUInt"} -> FALSE
    [] t.kind = "VarInt" -> Len(writeVarInt(v)) = MaxBytes(W32)
    [] t.kind = "string" -> Len(v) > kMaxElementNum
    [] t.kind \in {"array", "vector"} ->
         \/ Len(v) > kMaxElementNum - (IF t.kind = "array" THEN 1 ELSE 0)
         \/ \E x \in ToSet(v) : Refusable(t.of, x)
    [] t.kind = "set" -> Cardinality(v) > kMaxElementNum \/ \E x \in v : Refusable(t.of, x)
    [] t.kind = "map" ->
         \/ Cardinality(DOMAIN v) > kMaxElementNum
         \/ \E k \in DOMAIN v : Refusable(t.key, k) \/ Refusable(t.of, v[k])

(* A value of any type, nested as it may be, is unpacked as it was packed,   *)
(* without an error and to the last byte; and when bytes are missing from    *)
(* the end, wherever the cut falls, errno_ says so.                          *)
UnpackedAsPacked ==
  item # Nothing =>
    LET got   == unpack(bytes, Opened, item.type)
        whole == bytes = pack(item.type, item.value)
    IN ~Refusable(item.type, item.value) =>
         IF whole
         THEN got = Got([Opened EXCEPT !.pos = Len(bytes)], item.value)
         ELSE got.ds.errno # "SUCCESS"
=============================================================================

------------------------------- MODULE Leb128 -------------------------------
(* src/base/codec/leb128.cpp: integers of a fixed width as byte sequences,   *)
(* least significant group first; the top bit of a byte says that another    *)
(* follows.  Groups are 7 bits there and the widths 32 and 64, so that the   *)
(* last byte of the longest sequence has bits to spare, which the readers    *)
(* check.  Signed numbers are two's complement: an integer of TLA+ here, so  *)
(* that >> is \div and & 0x7f is %.                                          *)
(*                                                                           *)
(* A reader answers [length, value]; length 0 is a refusal.  An operator     *)
(* named X_Something is a faulty X that a property notices.                  *)
EXTENDS Integers, Sequences, FiniteSetsExt

CONSTANTS Group,        \* payload bits of a byte, 7
          W32, W64      \* the widths, 32 and 64

ASSUME Leb128Assumption ==
  /\ Group \in Nat \ {0, 1}
  /\ W32 \in Nat /\ Group < W32 /\ W32 % Group # 0
  /\ W64 \in Nat /\ W32 < W64 /\ W64 % Group # 0

More == 2 ^ Group                    \* 0x80
Sign == 2 ^ (Group - 1)              \* 0x40
Byte == 0 .. 2 * More - 1

Unsigned(w) == 0 .. 2 ^ w - 1
Signed(w) == -(2 ^ (w - 1)) .. 2 ^ (w - 1) - 1
AsSigned(v, w) == IF v < 2 ^ (w - 1) THEN v ELSE v - 2 ^ w

(* MAX_U32_LEB128_BYTES and MAX_U64_LEB128_BYTES.                            *)
MaxBytes(w) == (w + Group - 1) \div Group

(*-------------------------------- writing ---------------------------------*)

U32Leb128Length(v) == Min({n \in 1 .. MaxBytes(W32) : v < More ^ n})

WriteU32Leb128(v) ==
  LET loop[x \in Unsigned(W32)] ==
        IF x \div More = 0 THEN <<x % More>>
        ELSE <<(x % More) + More>> \o loop[x \div More]
  IN loop[v]

(* All the bytes, with the top bit set on all but the last, which keeps only *)
(* the bits that are left of the value: 0x0f.                                *)
WriteFixedU32Leb128(v) ==
  [i \in 1 .. MaxBytes(W32) |->
     ((v \div More ^ (i - 1)) % More) + (IF i = MaxBytes(W32) THEN 0 ELSE More)]

WriteSigned_StopsAtZero(v, w) ==
  LET loop[x \in Signed(w)] ==
        IF x \div More \in {0, -1} THEN <<x % More>>
        ELSE <<(x % More) + More>> \o loop[x \div More]
  IN loop[v]

(* WriteS32Leb128 and WriteS64Leb128: a byte is the last when what remains   *)
(* is only copies of the sign, and the byte's own top bit is one too.        *)
WriteSigned(v, w) ==
  LET loop[x \in Signed(w)] ==
        IF \/ x \div More = -1 /\ x % More >= Sign
           \/ x \div More = 0 /\ x % More < Sign
        THEN <<x % More>>
        ELSE <<(x % More) + More>> \o loop[x \div More]
  IN loop[v]

(*-------------------------------- reading ---------------------------------*)

(* The chain of conditions: the first byte within reach without a top bit.   *)
Ends(p, w) == {i \in 1 .. MaxBytes(w) : i <= Len(p) /\ p[i] < More}

Refused == [length |-> 0]

(* LEB128_n: the n groups, cut off at the width of the type.                 *)
Bits(p, n, w) ==
  MapThenSumSet(LAMBDA i : (p[i] % More) * More ^ (i - 1), 1 .. n) % 2 ^ w

(* The bits of a full-length sequence's last byte that are part of a value.  *)
LastBits(w) == 2 ^ (w % Group)

ReadU32Leb128_TakesSpareBits(p) ==
  IF Ends(p, W32) = {} THEN Refused
  ELSE LET n == Min(Ends(p, W32)) IN [length |-> n, value |-> Bits(p, n, W32)]

ReadU32Leb128(p) ==
  IF Ends(p, W32) = {} THEN Refused
  ELSE LET n == Min(Ends(p, W32))
       IN IF n = MaxBytes(W32) /\ p[n] >= LastBits(W32) THEN Refused
          ELSE [length |-> n, value |-> Bits(p, n, W32)]

(* SIGN_EXTEND: by the top bit of the last group.                            *)
SignExtended(v, n) == IF v < More ^ n \div 2 THEN v ELSE v - More ^ n

(* ReadS32Leb128 and ReadS64Leb128.  In a full-length sequence the sign is   *)
(* the value's own top bit, and the spare bits have to be copies of it.      *)
ReadSigned(p, w) ==
  IF Ends(p, w) = {} THEN Refused
  ELSE LET n     == Min(Ends(p, w))
           spare == p[n] \div LastBits(w)
           sign  == p[n] % LastBits(w) >= LastBits(w) \div 2
       IN IF n < MaxBytes(w)
          THEN [length |-> n, value |-> SignExtended(Bits(p, n, w), n)]
          ELSE IF spare # (IF sign THEN More \div LastBits(w) - 1 ELSE 0)
          THEN Refused
          ELSE [length |-> n, value |-> AsSigned(Bits(p, n, w), w)]
=============================================================================

------------------------------- MODULE Chunk --------------------------------
(* src/common/chunk.cc: code and constants, which only grow.  The helpers of *)
(* src/compiler/parser.cc that every piece of code is emitted with, and how  *)
(* src/disassembler/disassembler.cc finds the instructions again.            *)
(*                                                                           *)
(* An operand is one byte, of Base values, and a jump's distance two.  A     *)
(* byte of the code is [op] or [byte]; offsets count from zero.  Operators   *)
(* named X_Something are faulty X's that the properties notice.              *)
EXTENDS Integers, SequencesExt

CONSTANT Base         \* 256: the values of a byte

ASSUME ChunkAssumption == Base \in Nat \ {0, 1}

UINT8_MAX == Base - 1
UINT16_MAX == Base * Base - 1

(* With parser.hadError.  A line number is kept with each byte.              *)
EmptyChunk == [code |-> <<>>, constants |-> <<>>, error |-> FALSE]
Count(c) == Len(c.code)
At(c, offset) == c.code[offset + 1]

Opcode(o) == [op |-> o]
Byte(n) == [byte |-> n]

writeChunk(c, b) == [c EXCEPT !.code = Append(@, b)]
emit(c, o) == writeChunk(c, Opcode(o))
emitOperand(c, n) == writeChunk(c, Byte(n))
emitBytes(c, o, n) == emitOperand(emit(c, o), n)

(* Every use of a constant adds one: there is no sharing.                    *)
addConstant(c, v) == [c EXCEPT !.constants = Append(@, v)]

makeConstant(c, v) ==
  LET constant == Len(c.constants)
      refused  == constant > UINT8_MAX
  IN [chunk |-> [addConstant(c, v) EXCEPT !.error = @ \/ refused],
      index |-> IF refused THEN 0 ELSE constant]

emitWithConstant(c, o, v) ==
  LET k == makeConstant(c, v) IN emitBytes(k.chunk, o, k.index)

emitConstant(c, v) == emitWithConstant(c, "OP_CONSTANT", v)

(*--------------------------------- jumps ----------------------------------*)

High(n) == (n \div Base) % Base
Low(n)  == n % Base

(* emitJump's placeholder; the jump is patched through its offset.           *)
emitJump(c, op) == emitOperand(emitBytes(c, op, Base - 1), Base - 1)
JumpAt(c) == Count(c) - 2

patchJump_RefusesTheLongest(c, offset) ==
  LET jump == Count(c) - offset - 2
  IN [c EXCEPT !.code[offset + 1] = Byte(High(jump)),
               !.code[offset + 2] = Byte(Low(jump)),
               !.error = @ \/ jump >= UINT16_MAX]

patchJump(c, offset) ==
  LET jump == Count(c) - offset - 2
  IN [c EXCEPT !.code[offset + 1] = Byte(High(jump)),
               !.code[offset + 2] = Byte(Low(jump)),
               !.error = @ \/ jump > UINT16_MAX]

emitLoop_ForgetsOperand(c, loopStart) ==
  LET d      == emit(c, "OP_LOOP")
      offset == Count(d) - loopStart
  IN emitOperand(emitOperand(d, High(offset)), Low(offset))

(* The offset is counted once OP_LOOP is emitted; +2 for its own operand.    *)
emitLoop(c, loopStart) ==
  LET d      == emit(c, "OP_LOOP")
      offset == Count(d) - loopStart + 2
  IN [emitOperand(emitOperand(d, High(offset)), Low(offset))
        EXCEPT !.error = @ \/ offset > UINT16_MAX]

Short(c, offset) == At(c, offset).byte * Base + At(c, offset + 1).byte

(*------------------------------ disassembling -----------------------------*)

ByteOps == {"OP_GET_LOCAL", "OP_SET_LOCAL", "OP_GET_UPVALUE", "OP_SET_UPVALUE", "OP_CALL"}
ConstantOps ==
  {"OP_CONSTANT", "OP_GET_GLOBAL", "OP_DEFINE_GLOBAL", "OP_SET_GLOBAL",
   "OP_GET_PROPERTY", "OP_SET_PROPERTY", "OP_GET_SUPER", "OP_CLASS", "OP_METHOD"}
InvokeOps == {"OP_INVOKE", "OP_SUPER_INVOKE"}
JumpOps == {"OP_JUMP", "OP_JUMP_IF_FALSE"}

Opcodes(names) == {Opcode(o) : o \in names}
TwoBytes   == Opcodes(ByteOps \union ConstantOps)
ThreeBytes == Opcodes(InvokeOps \union JumpOps \union {"OP_LOOP"})

disassembleInstruction_ClosureIsConstant(c, offset) ==
  offset + CASE At(c, offset) \in TwoBytes \union Opcodes({"OP_CLOSURE"}) -> 2
             [] At(c, offset) \in ThreeBytes -> 3
             [] OTHER -> 1

(* Where the next instruction begins.  OP_CLOSURE is followed by a pair of   *)
(* bytes for each upvalue of the function it names.                          *)
disassembleInstruction(c, offset) ==
  LET o        == At(c, offset)
      function == c.constants[At(c, offset + 1).byte + 1]
  IN offset + CASE o = Opcode("OP_CLOSURE") -> 2 + 2 * function.upvalueCount
                [] o \in TwoBytes -> 2
                [] o \in ThreeBytes -> 3
                [] OTHER -> 1

(* The offsets it stops at, the last of them past the code.                  *)
disassembleChunk(c) ==
  LET next(seen, i) == IF Last(seen) < Count(c)
                       THEN Append(seen, disassembleInstruction(c, Last(seen)))
                       ELSE seen
  IN FoldLeft(next, <<0>>, c.code)

(* The target that is shown for a jump.                                      *)
jumpInstruction(c, offset) ==
  LET sign == IF At(c, offset) = Opcode("OP_LOOP") THEN -1 ELSE 1
  IN offset + 3 + sign * Short(c, offset + 1)

(* Where instructions were in fact emitted, and the end.                     *)
Instructions(c) ==
  {o \in 0 .. Count(c) - 1 : DOMAIN At(c, o) = {"op"}} \union {Count(c)}
=============================================================================

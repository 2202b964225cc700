---------------------------- MODULE Disassembler ----------------------------
(* Code of every kind of instruction the compiler emits, in any order, as    *)
(* src/disassembler/disassembler.cc lists it.  Which statement emits what is *)
(* left to other modules; here are the shapes: each action is a call, or the *)
(* few that always come together, of the emit functions of parser.cc.        *)
EXTENDS Chunk

CONSTANTS SimpleOps,          \* instructions of one byte
          Operand,            \* operands that are not indexes of constants
          MaxUpvalues,        \* bound on the upvalues of a function
          MaxInstructions     \* bound on the length of the code

(* Every opcode there is.                                                    *)
AllOps == SimpleOps \union ByteOps \union ConstantOps \union InvokeOps \union JumpOps
            \union {"OP_CLOSURE", "OP_LOOP"}

ASSUME DisassemblerAssumption ==
  /\ Operand \subseteq 0 .. UINT8_MAX
  /\ SimpleOps \intersect (ByteOps \union ConstantOps \union InvokeOps \union JumpOps
                              \union {"OP_CLOSURE", "OP_LOOP"}) = {}

VARIABLES
  emitted,     \* the chunk
  pending,     \* offsets of jumps yet to be patched
  targets      \* [offset of a jump's instruction -> where it was meant to go]

emissionVars == <<emitted, pending, targets>>

Emits(c) ==
  /\ ~emitted.error /\ Cardinality(Instructions(emitted)) <= MaxInstructions
  /\ emitted' = c

Simple(op) == Emits(emit(emitted, op)) /\ UNCHANGED <<pending, targets>>

WithByte(op, n) == Emits(emitBytes(emitted, op, n)) /\ UNCHANGED <<pending, targets>>

WithConstant(op) ==
  Emits(emitWithConstant(emitted, op, "name")) /\ UNCHANGED <<pending, targets>>

(* dot, super_: the name and the argument count.                             *)
Invocation(op, argCount) ==
  /\ Emits(emitOperand(emitWithConstant(emitted, op, "name"), argCount))
  /\ UNCHANGED <<pending, targets>>

(* function: for each upvalue whether it is a local, and the index.          *)
Closure(upvalues) ==
  LET function == [upvalueCount |-> Len(upvalues)]
      pair(c, u) == emitOperand(emitOperand(c, u[1]), u[2])
  IN /\ Emits(FoldLeft(pair, emitWithConstant(emitted, "OP_CLOSURE", function), upvalues))
     /\ UNCHANGED <<pending, targets>>

Jump(op) ==
  LET c == emitJump(emitted, op)
  IN /\ Emits(c)
     /\ pending' = pending \union {JumpAt(c)}
     /\ UNCHANGED targets

Patch(jump) ==
  /\ emitted' = patchJump(emitted, jump)
  /\ pending' = pending \ {jump}
  /\ targets' = [o \in DOMAIN targets \union {jump - 1} |->
                   IF o = jump - 1 THEN Count(emitted) ELSE targets[o]]

LoopBack(start) ==
  /\ Emits(emitLoop(emitted, start))
  /\ targets' = [o \in DOMAIN targets \union {Count(emitted)} |->
                   IF o = Count(emitted) THEN start ELSE targets[o]]
  /\ UNCHANGED pending

EmissionInit == emitted = EmptyChunk /\ pending = {} /\ targets = [o \in {} |-> 0]

EmissionNext ==
  \/ \E op \in SimpleOps : Simple(op)
  \/ \E op \in ByteOps, n \in Operand : WithByte(op, n)
  \/ \E op \in ConstantOps : WithConstant(op)
  \/ \E op \in InvokeOps, n \in Operand : Invocation(op, n)
  \/ \E k \in 0 .. MaxUpvalues : \E us \in [1 .. k -> {0, 1} \X Operand] : Closure(us)
  \/ \E op \in JumpOps : Jump(op)
  \/ \E jump \in pending : Patch(jump)
  \/ \E start \in Instructions(emitted) : LoopBack(start)

EmissionSpec == EmissionInit /\ [][EmissionNext]_emissionVars

-----------------------------------------------------------------------------
(* The listing goes from instruction to instruction, stops at each one that  *)
(* was emitted and nowhere else, and ends where the code ends: how much each *)
(* opcode takes is said in three places, where it is emitted, where it is    *)
(* run and here.  The jumps that were patched are shown to go where they     *)
(* were meant to.                                                            *)
ListsInstructions ==
  ~emitted.error =>
    LET listing == disassembleChunk(emitted)
    IN /\ ToSet(listing) = Instructions(emitted) /\ Last(listing) = Count(emitted)
       /\ \A o \in DOMAIN targets : jumpInstruction(emitted, o) = targets[o]
=============================================================================

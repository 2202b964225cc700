---------------------------- MODULE ControlFlow -----------------------------
(* src/compiler/parser.cc emits code for `and', `or', if, while and for in   *)
(* one pass, leaving forward jumps to be patched and counting backward ones; *)
(* src/vm/interp/interp.cc runs it.  This module compiles a program, given   *)
(* as a syntax tree, the way the parser walks through its text, runs the     *)
(* code step by step, and compares what it does with what the program means. *)
(*                                                                           *)
(* With a small Base for the values of a byte, short programs reach the      *)
(* second byte of a jump, the longest jump and the last constant there are.  *)
(* Programs have the globals g and h, and the values true, false, nil and a  *)
(* number, one.                                                              *)
EXTENDS Chunk

CONSTANTS Programs,     \* syntax trees, see below
          MaxEvents,    \* bound: a program is followed for that many events
          MaxRounds     \* bound on the rounds of a loop the meaning unfolds

(* Trees: [op |-> "lit", val], [op |-> "get", name], [op |-> "set", name, e],*)
(* [op |-> "not", e], [op |-> "and" | "or" | "eq", a, b] are expressions,    *)
(* and [op |-> "print" | "expr", e], [op |-> "if", c, then, else],           *)
(* [op |-> "while", c, body], [op |-> "for", init, c, inc, body] statements; *)
(* `none' stands for a missing else, initializer, condition or increment.    *)
none == [op |-> "none"]
Missing(t) == t.op = "none"

Value == {"true", "false", "nil", "one"}
Name == {"g", "h"}
isFalsey(v) == v \in {"false", "nil"}
BoolVal(b) == IF b THEN "true" ELSE "false"

(*----------------------------- the compiler -------------------------------*)

RECURSIVE expression(_, _)

(* A number is a constant; the other values have instructions of their own.  *)
literal(c, v) ==
  CASE v = "true"  -> emit(c, "OP_TRUE")
    [] v = "false" -> emit(c, "OP_FALSE")
    [] v = "nil"   -> emit(c, "OP_NIL")
    [] v = "one"   -> emitConstant(c, v)

(* The name becomes a constant before the value that is assigned is compiled.*)
namedVariable(c, e) ==
  LET arg == makeConstant(c, e.name)
  IN IF e.op = "get" THEN emitBytes(arg.chunk, "OP_GET_GLOBAL", arg.index)
     ELSE emitBytes(expression(arg.chunk, e.e), "OP_SET_GLOBAL", arg.index)

and_(c, e) ==
  LET left    == emitJump(expression(c, e.a), "OP_JUMP_IF_FALSE")
      endJump == JumpAt(left)
      right   == expression(emit(left, "OP_POP"), e.b)
  IN patchJump(right, endJump)

or_(c, e) ==
  LET left     == emitJump(expression(c, e.a), "OP_JUMP_IF_FALSE")
      elseJump == JumpAt(left)
      short    == emitJump(left, "OP_JUMP")
      endJump  == JumpAt(short)
      right    == emit(patchJump(short, elseJump), "OP_POP")
  IN patchJump(expression(right, e.b), endJump)

expression(c, e) ==
  CASE e.op = "lit" -> literal(c, e.val)
    [] e.op \in {"get", "set"} -> namedVariable(c, e)
    [] e.op = "not" -> emit(expression(c, e.e), "OP_NOT")
    [] e.op = "eq"  -> emit(expression(expression(c, e.a), e.b), "OP_EQUAL")
    [] e.op = "and" -> and_(c, e)
    [] e.op = "or"  -> or_(c, e)

RECURSIVE statement(_, _)

printStatement(c, s) == emit(expression(c, s.e), "OP_PRINT")

expressionStatement(c, s) == emit(expression(c, s.e), "OP_POP")

ifStatement(c, s) ==
  LET cond     == emitJump(expression(c, s.c), "OP_JUMP_IF_FALSE")
      thenJump == JumpAt(cond)
      then     == statement(emit(cond, "OP_POP"), s.then)
      over     == emitJump(then, "OP_JUMP")
      elseJump == JumpAt(over)
      other    == emit(patchJump(over, thenJump), "OP_POP")
  IN patchJump(IF Missing(s.else) THEN other ELSE statement(other, s.else),
               elseJump)

whileStatement(c, s) ==
  LET loopStart == Count(c)
      cond      == emitJump(expression(c, s.c), "OP_JUMP_IF_FALSE")
      exitJump  == JumpAt(cond)
      body      == statement(emit(cond, "OP_POP"), s.body)
  IN emit(patchJump(emitLoop(body, loopStart), exitJump), "OP_POP")

(* The increment is compiled before the body and run after it: the body's    *)
(* loop goes back to the increment, and the increment's to the condition.    *)
forStatement(c, s) ==
  LET init      == IF Missing(s.init) THEN c ELSE expressionStatement(c, s.init)
      condStart == Count(init)
      cond      == IF Missing(s.c) THEN init
                   ELSE emitJump(expression(init, s.c), "OP_JUMP_IF_FALSE")
      exitJump  == JumpAt(cond)
      entered   == IF Missing(s.c) THEN cond ELSE emit(cond, "OP_POP")
      over      == emitJump(entered, "OP_JUMP")
      bodyJump  == JumpAt(over)
      incStart  == Count(over)
      inc       == emitLoop(emit(expression(over, s.inc), "OP_POP"), condStart)
      body      == IF Missing(s.inc) THEN statement(entered, s.body)
                   ELSE statement(patchJump(inc, bodyJump), s.body)
      loop      == emitLoop(body, IF Missing(s.inc) THEN condStart ELSE incStart)
  IN IF Missing(s.c) THEN loop
     ELSE emit(patchJump(loop, exitJump), "OP_POP")

statement(c, s) ==
  CASE s.op = "print" -> printStatement(c, s)
    [] s.op = "expr"  -> expressionStatement(c, s)
    [] s.op = "if"    -> ifStatement(c, s)
    [] s.op = "while" -> whileStatement(c, s)
    [] s.op = "for"   -> forStatement(c, s)

emitReturn(c) == emit(emit(c, "OP_NIL"), "OP_RETURN")

compile(program) == emitReturn(FoldLeft(statement, EmptyChunk, program))

(*------------------------- what a program means ---------------------------*)
(* States of the meaning: the globals, and the events so far.                *)

Event(kind, v) == [kind |-> kind, val |-> v]
Happens(m, ev) == IF Len(m.events) < MaxEvents
                  THEN [m EXCEPT !.events = Append(@, ev)] ELSE m

(* An expression's value, with the state after it.                           *)
RECURSIVE Eval(_, _)
Eval(e, m) ==
  CASE e.op = "lit" -> [val |-> e.val, m |-> m]
    [] e.op = "get" -> [val |-> m.globals[e.name], m |-> m]
    [] e.op = "set" ->
         LET r == Eval(e.e, m)
         IN [val |-> r.val,
             m   |-> Happens([r.m EXCEPT !.globals[e.name] = r.val], Event(e.name, r.val))]
    [] e.op = "not" ->
         LET r == Eval(e.e, m) IN [val |-> BoolVal(isFalsey(r.val)), m |-> r.m]
    [] e.op = "eq" ->
         LET l == Eval(e.a, m)
             r == Eval(e.b, l.m)
         IN [val |-> BoolVal(l.val = r.val), m |-> r.m]
    [] e.op = "and" ->
         LET l == Eval(e.a, m) IN IF isFalsey(l.val) THEN l ELSE Eval(e.b, l.m)
    [] e.op = "or" ->
         LET l == Eval(e.a, m) IN IF isFalsey(l.val) THEN Eval(e.b, l.m) ELSE l

RECURSIVE Exec(_, _)
RECURSIVE Loop(_, _, _, _, _)

(* while (c) { body; inc }, for so many rounds.                              *)
Loop(c, inc, body, m, rounds) ==
  LET test == IF Missing(c) THEN [val |-> "true", m |-> m] ELSE Eval(c, m)
      done == Exec(body, test.m)
      next == IF Missing(inc) THEN done ELSE Eval(inc, done).m
  IN IF isFalsey(test.val) \/ rounds = 0 THEN test.m
     ELSE Loop(c, inc, body, next, rounds - 1)

Exec(s, m) ==
  CASE s.op = "print" ->
         LET r == Eval(s.e, m) IN Happens(r.m, Event("print", r.val))
    [] s.op = "expr" -> Eval(s.e, m).m
    [] s.op = "if" ->
         LET r == Eval(s.c, m)
         IN IF ~isFalsey(r.val) THEN Exec(s.then, r.m)
            ELSE IF Missing(s.else) THEN r.m ELSE Exec(s.else, r.m)
    [] s.op = "while" -> Loop(s.c, none, s.body, m, MaxRounds)
    [] s.op = "for" ->
         Loop(s.c, s.inc, s.body,
              IF Missing(s.init) THEN m ELSE Exec(s.init, m), MaxRounds)

Meaning(program, globals) ==
  FoldLeft(LAMBDA m, s : Exec(s, m), [globals |-> globals, events |-> <<>>], program).events

(*--------------------- what the operands can express ----------------------*)
(* The sizes of a program's code, told from its text: how far each jump goes *)
(* and how many constants there are.                                         *)

(* The names of a tree's subtrees.                                           *)
Parts(t) ==
  DOMAIN t \intersect {"e", "a", "b", "c", "then", "else", "init", "inc", "body"}

RECURSIVE Constants(_)
Constants(t) ==
  (IF t.op \in {"get", "set"} \/ (t.op = "lit" /\ t.val = "one") THEN 1 ELSE 0)
    + MapThenSumSet(LAMBDA part : Constants(t[part]), Parts(t))

(* Bytes: a jump has three, an instruction that names something two.         *)
RECURSIVE Size(_)
Size(t) ==
  MapThenSumSet(LAMBDA part : Size(t[part]), Parts(t)) +
  CASE t.op = "none" -> 0
    [] t.op = "lit" -> IF t.val = "one" THEN 2 ELSE 1
    [] t.op \in {"get", "set"} -> 2
    [] t.op \in {"not", "eq", "print", "expr"} -> 1
    [] t.op = "and" -> 3 + 1
    [] t.op = "or"  -> 3 + 3 + 1
    [] t.op \in {"if", "while"} -> 3 + 1 + 3 + 1
    [] t.op = "for" -> (IF Missing(t.c) THEN 0 ELSE 3 + 1 + 1)
                         + (IF Missing(t.inc) THEN 0 ELSE 3 + 1 + 3) + 3

(* How many bytes each jump goes over, its own not counted if it is forward, *)
(* counted if it is backward.                                                *)
JumpsOf(t) ==
  CASE t.op = "and" -> {1 + Size(t.b)}
    [] t.op = "or"  -> {3, 1 + Size(t.b)}
    [] t.op = "if"  -> {1 + Size(t.then) + 3, 1 + Size(t.else)}
    [] t.op = "while" ->
         {1 + Size(t.body) + 3, Size(t.c) + 3 + 1 + Size(t.body) + 3}
    [] t.op = "for" ->
         LET loop == Size(t.body) + 3
             test == IF Missing(t.c) THEN 0 ELSE Size(t.c) + 3 + 1
             step == Size(t.inc) + 1 + 3
         IN IF Missing(t.inc)
            THEN {test + loop} \union (IF Missing(t.c) THEN {} ELSE {1 + loop})
            ELSE {step, test + 3 + step, step + loop}
                   \union (IF Missing(t.c) THEN {} ELSE {1 + 3 + step + loop})
    [] OTHER -> {}

RECURSIVE Distances(_)
Distances(t) == JumpsOf(t) \union UNION {Distances(t[part]) : part \in Parts(t)}

Fits(program) ==
  /\ MapThenSumSet(LAMBDA i : Constants(program[i]), DOMAIN program) <= UINT8_MAX + 1
  /\ \A i \in DOMAIN program : \A d \in Distances(program[i]) : d <= UINT16_MAX

(*------------------------------- the run ----------------------------------*)

VARIABLES
  chunk,       \* the compiled program: code, constants and error
  meant,       \* its events, as the program means them, and if operands hold it
  ip,          \* offset of the next instruction in chunk.code
  stack,       \* the value stack
  globals,
  events       \* what has happened

vars == <<chunk, meant, ip, stack, globals, events>>

Start(program, v) ==
  /\ chunk = compile(program)
  /\ globals = [n \in Name |-> IF n = "g" THEN v ELSE "one"]
  /\ meant = [events |-> Meaning(program, globals), fits |-> Fits(program)]
  /\ ip = 0 /\ stack = <<>> /\ events = <<>>

Init == \E program \in Programs, v \in {"true", "nil"} : Start(program, v)

(* compile returns NULL after an error, and such code is not run.            *)
Running(op) == /\ ~chunk.error /\ Len(events) < MaxEvents
               /\ At(chunk, ip) = Opcode(op)

READ_SHORT == Short(chunk, ip + 1)
READ_CONSTANT == chunk.constants[At(chunk, ip + 1).byte + 1]
peek == Last(stack)
Push(v) == stack' = Append(stack, v)
Step(n) == ip' = ip + n
Quiet == UNCHANGED <<chunk, meant, events>>

OP_LITERAL ==
  \E v \in Value \ {"one"} :
    /\ Running(At(literal(EmptyChunk, v), 0).op)
    /\ Push(v) /\ Step(1) /\ UNCHANGED globals /\ Quiet

OP_CONSTANT ==
  /\ Running("OP_CONSTANT")
  /\ Push(READ_CONSTANT) /\ Step(2) /\ UNCHANGED globals /\ Quiet

OP_POP ==
  /\ Running("OP_POP")
  /\ stack' = Front(stack) /\ Step(1) /\ UNCHANGED globals /\ Quiet

OP_GET_GLOBAL ==
  /\ Running("OP_GET_GLOBAL")
  /\ Push(globals[READ_CONSTANT]) /\ Step(2) /\ UNCHANGED globals /\ Quiet

OP_SET_GLOBAL ==
  /\ Running("OP_SET_GLOBAL")
  /\ globals' = [globals EXCEPT ![READ_CONSTANT] = peek] /\ Step(2)
  /\ events' = Append(events, Event(READ_CONSTANT, peek))
  /\ UNCHANGED <<chunk, meant, stack>>

OP_NOT ==
  /\ Running("OP_NOT")
  /\ stack' = Append(Front(stack), BoolVal(isFalsey(peek)))
  /\ Step(1) /\ UNCHANGED globals /\ Quiet

OP_EQUAL ==
  /\ Running("OP_EQUAL")
  /\ LET a == Last(Front(stack))
     IN stack' = Append(Front(Front(stack)), BoolVal(a = peek))
  /\ Step(1) /\ UNCHANGED globals /\ Quiet

OP_PRINT ==
  /\ Running("OP_PRINT")
  /\ events' = Append(events, Event("print", peek))
  /\ stack' = Front(stack) /\ Step(1)
  /\ UNCHANGED <<chunk, meant, globals>>

OP_JUMP ==
  /\ Running("OP_JUMP")
  /\ Step(3 + READ_SHORT)
  /\ UNCHANGED <<stack, globals>> /\ Quiet

OP_JUMP_IF_FALSE ==
  /\ Running("OP_JUMP_IF_FALSE")
  /\ Step(3 + (IF isFalsey(peek) THEN READ_SHORT ELSE 0))
  /\ UNCHANGED <<stack, globals>> /\ Quiet

OP_LOOP ==
  /\ Running("OP_LOOP")
  /\ Step(3 - READ_SHORT)
  /\ UNCHANGED <<stack, globals>> /\ Quiet

Next ==
  \/ OP_LITERAL \/ OP_CONSTANT \/ OP_POP \/ OP_GET_GLOBAL \/ OP_SET_GLOBAL \/ OP_NOT
  \/ OP_EQUAL \/ OP_PRINT \/ OP_JUMP \/ OP_JUMP_IF_FALSE \/ OP_LOOP

Spec == Init /\ [][Next]_vars

(*------------------------------- properties -------------------------------*)

Ended == ~chunk.error /\ At(chunk, ip) = Opcode("OP_RETURN")

(* How many values an instruction takes.                                     *)
Operands(o) ==
  CASE o \in {"OP_POP", "OP_SET_GLOBAL", "OP_NOT", "OP_PRINT",
              "OP_JUMP_IF_FALSE", "OP_RETURN"} -> 1
    [] o = "OP_EQUAL" -> 2
    [] OTHER -> 0

(* The instruction pointer is always at an instruction, never inside an      *)
(* operand and never past the end; the values it takes are there; the        *)
(* disassembler, if it gets there, goes on from it to the next instruction.  *)
(* No path through a statement leaves anything on the stack: at the end it   *)
(* has only what OP_RETURN returns.                                          *)
AtInstruction ==
  ~chunk.error =>
    /\ ip \in Instructions(chunk) \ {Count(chunk)}
    /\ disassembleInstruction(chunk, ip) = Min({o \in Instructions(chunk) : o > ip})
    /\ Len(stack) >= Operands(At(chunk, ip).op)
    /\ Ended => stack = <<"nil">>

(* The compiled program does what its text means, event by event, and does   *)
(* all of it when it ends, whichever jumps it took.  A program is refused if *)
(* it has more constants, or a jump over more bytes, than operands can name, *)
(* and for no other reason: the longest jump and the last constant are used. *)
RunsAsMeant ==
  /\ IsPrefix(events, meant.events)
  /\ Ended => events = meant.events
  /\ chunk.error <=> ~meant.fits
=============================================================================

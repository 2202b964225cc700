------------------------------ MODULE Rooting -------------------------------
(* Any allocation may collect, and the collector does not see the locals of  *)
(* the C functions that allocate.  This module follows the functions of      *)
(* interp.cc, parser.cc and ysobject.cc from one allocation to the next:     *)
(* `held' are the locals that are read again afterwards, and what keeps them *)
(* is what the code has put on the stack, in a table or in another object    *)
(* before.  Numbers, names and control flow are left out: every opcode whose *)
(* operands have the right kinds may come next.                              *)
(*                                                                           *)
(* An operator named X_Something is a faulty X, kept to show that the        *)
(* property notices.                                                         *)
EXTENDS Integers, SequencesExt

CONSTANTS Limits,      \* bounds: sets of [supply, stack], the most objects of
                       \* each kind and the greatest height of the stack
          Plain,       \* every value that is no object
          MaxFrames, MaxFunctions    \* bounds

Kind == UNION {DOMAIN l.supply : l \in Limits}
Obj == UNION {UNION {[kind : {k}, n : 1 .. l.supply[k]] : k \in DOMAIN l.supply} : l \in Limits}

ASSUME RootingAssumption == IsFiniteSet(Obj) /\ Plain \notin Obj

VARIABLES
  limits,      \* of this behaviour
  allocated,   \* vm.objects
  refs,        \* [Obj -> SUBSET Obj], what blackenObject marks
  stack,       \* values and objects
  frames,      \* [closure, slots], slots counts from 0
  open,        \* vm.openUpvalues: [upvalue -> slot]
  global,      \* one variable of vm.globals
  compilers,   \* the functions of current and its enclosing chain
  at,          \* the allocation that is next, "run" between opcodes, "dropped"
               \* when an error has dropped upvalues that are open
  held         \* the C locals that are read after it

graph == <<allocated, refs>>
machine == <<stack, frames, open, global, compilers>>
control == <<at, held>>
rootingVars == <<graph, machine, control, limits>>

RootingInit ==
  /\ limits \in Limits
  /\ allocated = {} /\ refs = [o \in Obj |-> {}]
  /\ stack = <<>> /\ frames = <<>> /\ open = [u \in {} |-> 0]
  /\ global = Plain /\ compilers = <<>>
  /\ at = "run" /\ held = <<>>

Of(S, k) == {o \in S \ {Plain} : o.kind = k}
markedRoots ==
  (ToSet(stack) \union {f.closure : f \in ToSet(frames)} \union DOMAIN open
     \union {global} \union ToSet(compilers)) \ {Plain}

(* Addresses of one kind are alike: the first that is free.                  *)
Free(k) == {n \in 1 .. (IF k \in DOMAIN limits.supply THEN limits.supply[k] ELSE 0) :
              [kind |-> k, n |-> n] \notin allocated}
New(k) == {[kind |-> k, n |-> n] : n \in {m \in Free(k) : \A o \in Free(k) : m <= o}}

(* What tracing from the roots reaches.                                      *)
Live ==
  LET traced[n \in 0 .. Cardinality(Obj)] ==
        IF n = 0 THEN markedRoots
        ELSE LET S == traced[n - 1] IN S \union UNION {refs[o] : o \in S}
  IN traced[Cardinality(Obj)]

Goes(point, locals) == at' = point /\ held' = locals
Done == Goes("run", <<>>)
Pushed(s, v) == Append(s, v)
Top == Last(stack)
Below == stack[Len(stack) - 1]

(* allocateObject, with what the new object refers to.                       *)
Allocate(o, S) ==
  /\ allocated' = allocated \union {o}
  /\ refs' = [refs EXCEPT ![o] = S]

(* A reference stored in an object that exists.                              *)
Store(o, S) == refs' = [refs EXCEPT ![o] = @ \union S] /\ UNCHANGED allocated

(* At every allocation, or not.                                              *)
collectGarbage ==
  /\ at # "run"
  /\ LET live == Live
     IN /\ ~(allocated \subseteq live)
        /\ allocated' = allocated \intersect live
        /\ refs' = [o \in Obj |-> IF o \in live THEN refs[o] ELSE {}]
  /\ UNCHANGED <<machine, control>>

-----------------------------------------------------------------------------
(* compile and interpret *)

Compiling == compilers # <<>>

initCompiler ==
  /\ at = "run" /\ frames = <<>> /\ Len(compilers) < MaxFunctions
  /\ Goes("newFunction", <<>>)
  /\ UNCHANGED <<graph, machine>>

(* current is the new compiler before the function gets its name.            *)
newFunction ==
  /\ at = "newFunction"
  /\ \E f \in New("function") : Allocate(f, {}) /\ compilers' = Append(compilers, f)
  /\ Goes(IF Compiling THEN "name" ELSE "run", <<>>)
  /\ UNCHANGED <<stack, frames, open, global>>

(* copyString finds the string, or makes it.                                 *)
Strings == Of(allocated, "string") \union New("string")

functionName ==
  /\ at = "name"
  /\ \E s \in Strings :
       /\ allocated' = allocated \union {s}
       /\ refs' = [refs EXCEPT ![s] = {}, ![Last(compilers)] = @ \union {s}]
  /\ Done /\ UNCHANGED machine

(* identifierConstant, string.                                               *)
StringConstant ==
  /\ at = "run" /\ Compiling
  /\ Goes("copyString", <<>>)
  /\ UNCHANGED <<graph, machine>>

makeConstant_WithoutPush ==
  /\ at = "copyString"
  /\ \E s \in Strings : Allocate(s, {}) /\ Goes("addConstant", <<s>>)
  /\ UNCHANGED machine

(* copyString, then makeConstant: addConstant pushes the value.              *)
makeConstant ==
  /\ at = "copyString"
  /\ \E s \in Strings :
       Allocate(s, {}) /\ stack' = Pushed(stack, s) /\ Goes("addConstant", <<s>>)
  /\ UNCHANGED <<frames, open, global, compilers>>

(* writeValueArray has grown.  The pairs that follow OP_CLOSURE are emitted  *)
(* by the count of upvalues that the function has.                           *)
addConstant ==
  /\ at = "addConstant"
  /\ Store(Last(compilers), {held[1]})
  /\ stack' = Front(stack)
  /\ IF held[1].kind = "function" THEN Goes("emitByte", held) ELSE Done
  /\ UNCHANGED <<frames, open, global, compilers>>

emitByte ==
  /\ at = "emitByte"
  /\ Done /\ UNCHANGED <<graph, machine>>

(* The function leaves the chain of compilers; it goes on the stack in       *)
(* addConstant or, the outermost, in interpret.                              *)
endCompiler ==
  /\ at = "run" /\ Compiling
  /\ compilers' = Front(compilers)
  /\ \/ /\ stack' = Pushed(stack, Last(compilers))
        /\ Goes(IF Len(compilers) = 1 THEN "interpret" ELSE "addConstant", <<Last(compilers)>>)
     \/ Len(compilers) = 1 /\ Done /\ UNCHANGED stack         \* parser.hadError
  /\ UNCHANGED <<graph, frames, open, global>>

interpret ==
  /\ at = "interpret"
  /\ \E c \in New("closure") :
       /\ Allocate(c, {held[1]})
       /\ stack' = Pushed(Front(stack), c)
       /\ frames' = <<[closure |-> c, slots |-> 0]>>
  /\ Done /\ UNCHANGED <<open, global, compilers>>

-----------------------------------------------------------------------------
(* Opcodes that do not allocate *)

Running == at = "run" /\ frames # <<>>
Frame == Last(frames)
(* The first slot of a frame has a name, `this', in a method only.           *)
Locals == {s \in Frame.slots .. Len(stack) - 1 :
             s = Frame.slots => stack[s + 1] # Plain /\ stack[s + 1].kind = "instance"}
Temporary(n) == Len(stack) - n > Frame.slots
Uncaptured(n) == \A u \in DOMAIN open : open[u] < Len(stack) - n
Operands(n) == Running /\ Temporary(n) /\ Uncaptured(n)

Constants(k) ==
  UNION {Of(refs[f], k) : f \in Of(refs[Frame.closure], "function")}

(* What a variable of the running closure holds.                             *)
Captured ==
  UNION {IF u \in DOMAIN open THEN {stack[open[u] + 1]} ELSE refs[u] :
           u \in Of(refs[Frame.closure], "upvalue")}

(* A constant or a variable; a literal is what the global holds at first.     *)
Push ==
  /\ Running /\ Len(stack) < limits.stack
  /\ \E v \in Constants("string") \union Captured \union {global}
               \union {stack[s + 1] : s \in Locals} :
       stack' = Pushed(stack, v)
  /\ UNCHANGED <<graph, frames, open, global, compilers, control>>

(* OP_SET_LOCAL, OP_SET_UPVALUE.                                             *)
Assign ==
  /\ Running /\ Temporary(1)
  /\ \/ \E s \in Locals \union {open[u] : u \in Of(refs[Frame.closure], "upvalue") \intersect DOMAIN open} :
          stack' = [stack EXCEPT ![s + 1] = Top] /\ UNCHANGED refs
     \/ \E u \in Of(refs[Frame.closure], "upvalue") \ DOMAIN open :
          refs' = [refs EXCEPT ![u] = {Top} \ {Plain}] /\ UNCHANGED stack
  /\ UNCHANGED <<allocated, frames, open, global, compilers, control>>

(* closeUpvalues, from a slot on.                                            *)
Closing(from) == {u \in DOMAIN open : open[u] >= from}
Close(from) ==
  /\ refs' = [o \in Obj |-> IF o \in Closing(from) THEN {stack[open[o] + 1]} \ {Plain}
                            ELSE refs[o]]
  /\ open' = [u \in DOMAIN open \ Closing(from) |-> open[u]]
  /\ UNCHANGED allocated

(* OP_POP, or OP_CLOSE_UPVALUE for a variable that is captured.              *)
Pop ==
  /\ Running /\ Temporary(1)
  /\ Close(Len(stack) - 1) /\ stack' = Front(stack)
  /\ UNCHANGED <<frames, global, compilers, control>>

(* Of a closure or a bound method, with no arguments.                        *)
CallClosure ==
  /\ Operands(1) /\ Top # Plain /\ Len(frames) < MaxFrames
  /\ \/ /\ Top.kind = "closure"
        /\ frames' = Append(frames, [closure |-> Top, slots |-> Len(stack) - 1])
        /\ UNCHANGED stack
     \/ /\ Top.kind = "bound"
        /\ \E c \in Of(refs[Top], "closure"), r \in Of(refs[Top], "instance") :
             /\ frames' = Append(frames, [closure |-> c, slots |-> Len(stack) - 1])
             /\ stack' = Pushed(Front(stack), r)
  /\ UNCHANGED <<graph, open, global, compilers, control>>

ReturnValue ==
  /\ Running /\ Temporary(1)
  /\ Close(Frame.slots)
  /\ frames' = Front(frames)
  /\ stack' = IF Len(frames) = 1 THEN <<>> ELSE Pushed(SubSeq(stack, 1, Frame.slots), Top)
  /\ UNCHANGED <<global, compilers, control>>

(* resetStack drops the open upvalues without closing them: they go on       *)
(* pointing to slots that are no roots any more, and a later line that reads *)
(* one may find a freed object there (Interp's CapturedVariableStable is     *)
(* violated by the same upvalues).  What follows such an error is not        *)
(* modelled; the lines that follow an error with no upvalue open are.        *)
runtimeError ==
  /\ Running
  /\ stack' = <<>> /\ frames' = <<>> /\ open' = [u \in {} |-> 0]
  /\ Goes(IF DOMAIN open = {} THEN "run" ELSE "dropped", <<>>)
  /\ UNCHANGED <<graph, global, compilers>>

-----------------------------------------------------------------------------
(* Opcodes that do *)

OP_CLOSURE ==
  /\ Running /\ Len(stack) < limits.stack
  /\ \E f \in Constants("function") : Goes("newClosure", <<f>>)
  /\ UNCHANGED <<graph, machine>>

(* The closure is pushed, then its upvalues are captured one by one.         *)
newClosure ==
  /\ at = "newClosure"
  /\ \E c \in New("closure") :
       /\ Allocate(c, {held[1]}) /\ stack' = Pushed(stack, c)
       /\ Goes("captureUpvalue", <<c>>)
  /\ UNCHANGED <<frames, open, global, compilers>>

captureUpvalue ==
  /\ at = "captureUpvalue"
  /\ \/ /\ \E u \in New("upvalue"), s \in Locals :
             /\ \A v \in DOMAIN open : open[v] # s
             /\ allocated' = allocated \union {u}
             /\ refs' = [refs EXCEPT ![u] = {}, ![held[1]] = @ \union {u}]
             /\ open' = [v \in DOMAIN open \union {u} |-> IF v = u THEN s ELSE open[v]]
        /\ UNCHANGED control
     \/ /\ \E u \in {v \in DOMAIN open : open[v] \in Locals}
                      \union Of(refs[Frame.closure], "upvalue") : Store(held[1], {u})
        /\ UNCHANGED <<open, control>>
     \/ Done /\ UNCHANGED <<graph, open>>
  /\ UNCHANGED <<stack, frames, global, compilers>>

OP_CLASS ==
  /\ Running /\ Len(stack) < limits.stack
  /\ \E name \in Constants("string") : Goes("newClass", <<name>>)
  /\ UNCHANGED <<graph, machine>>

newClass ==
  /\ at = "newClass"
  /\ \E k \in New("class") : Allocate(k, {held[1]}) /\ stack' = Pushed(stack, k)
  /\ Done /\ UNCHANGED <<frames, open, global, compilers>>

CallClass ==
  /\ Operands(1) /\ Top # Plain /\ Top.kind = "class"
  /\ Goes("newInstance", <<Top>>)
  /\ UNCHANGED <<graph, machine>>

(* The instance takes the slot of its class; an initializer, if the class    *)
(* has one, is called at once.                                               *)
newInstance ==
  /\ at = "newInstance"
  /\ \E i \in New("instance") :
       Allocate(i, {held[1]}) /\ stack' = Pushed(Front(stack), i)
  /\ \/ UNCHANGED frames
     \/ /\ Len(frames) < MaxFrames
        /\ \E init \in Of(refs[held[1]], "closure") :
             frames' = Append(frames, [closure |-> init, slots |-> Len(stack) - 1])
  /\ Done /\ UNCHANGED <<open, global, compilers>>

(* bindMethod up to newBoundMethod; the receiver is on the stack.            *)
Binds(receiver, class) ==
  \E m \in Of(refs[class], "closure") : Goes("newBoundMethod", <<receiver, m>>)

OP_GET_PROPERTY ==
  /\ Operands(1) /\ Top # Plain /\ Top.kind = "instance"
  /\ \E k \in Of(refs[Top], "class") : Binds(Top, k)
  /\ UNCHANGED <<graph, machine>>

(* The superclass, held by the variable `super' that the method captured, is *)
(* popped before the allocation.                                             *)
OP_GET_SUPER ==
  /\ Operands(2) /\ Top # Plain /\ Below # Plain
  /\ Top.kind = "class" /\ Below.kind = "instance" /\ Top \in Captured
  /\ stack' = Front(stack) /\ Binds(Below, Top)
  /\ UNCHANGED <<graph, frames, open, global, compilers>>

newBoundMethod ==
  /\ at = "newBoundMethod"
  /\ \E b \in New("bound") :
       Allocate(b, ToSet(held)) /\ stack' = Pushed(Front(stack), b)
  /\ Done /\ UNCHANGED <<frames, open, global, compilers>>

(* A table grows for a value that is still on the stack: fields, methods,    *)
(* globals.  Tables have one name; the field holds no class, so that the     *)
(* class an instance refers to is its own.                                   *)
OP_SET_PROPERTY ==
  /\ Operands(2) /\ Below # Plain /\ Top # Plain
  /\ Below.kind = "instance" /\ Top.kind # "class"
  /\ Goes("tableSet", <<Below, Top>>)
  /\ UNCHANGED <<graph, machine>>

OP_METHOD ==
  /\ Operands(2) /\ Below # Plain /\ Top # Plain
  /\ Below.kind = "class" /\ Top.kind = "closure"
  /\ Goes("tableSet", <<Below, Top>>)
  /\ UNCHANGED <<graph, machine>>

(* What stays on the stack is the value of the assignment, or the class.     *)
setInObject ==
  /\ at = "tableSet"
  /\ LET own == Of(refs[held[1]], IF held[1].kind = "class" THEN "string" ELSE "class")
     IN refs' = [refs EXCEPT ![held[1]] = own \union {held[2]}]
  /\ stack' = IF held[1].kind = "class" THEN Front(stack)
              ELSE Pushed(Front(Front(stack)), held[2])
  /\ UNCHANGED allocated
  /\ Done /\ UNCHANGED <<frames, open, global, compilers>>

OP_INHERIT ==
  /\ Operands(2) /\ Below # Plain /\ Top # Plain /\ Below # Top
  /\ Below.kind = "class" /\ Top.kind = "class"
  /\ Goes("tableAddAll", <<Below, Top>>)
  /\ UNCHANGED <<graph, machine>>

tableAddAllMethods ==
  /\ at = "tableAddAll"
  /\ Store(held[2], Of(refs[held[1]], "closure"))
  /\ stack' = Front(stack)
  /\ Done /\ UNCHANGED <<frames, open, global, compilers>>

(* OP_SET_GLOBAL does not pop.                                               *)
OP_DEFINE_GLOBAL ==
  /\ Operands(1) /\ Top # Plain
  /\ Goes("globals", <<Top>>)
  /\ UNCHANGED <<graph, machine>>

setGlobal ==
  /\ at = "globals"
  /\ global' = held[1] /\ stack' \in {stack, Front(stack)}
  /\ Done /\ UNCHANGED <<graph, frames, open, compilers>>

(* concatenate: the operands stay while the characters and then the result   *)
(* are allocated.                                                            *)
OP_ADD ==
  /\ Operands(2) /\ Below # Plain /\ Top # Plain
  /\ Below.kind = "string" /\ Top.kind = "string"
  /\ Goes("chars", <<Below, Top>>)
  /\ UNCHANGED <<graph, machine>>

CopyChars ==
  /\ at = "chars"
  /\ Goes("result", <<>>)
  /\ UNCHANGED <<graph, machine>>

ConcatenateResult ==
  /\ at = "result"
  /\ \E s \in Strings : Allocate(s, {}) /\ stack' = Pushed(Front(Front(stack)), s)
  /\ Done /\ UNCHANGED <<frames, open, global, compilers>>

RootingNext == UNCHANGED limits /\
  \/ collectGarbage
  \/ initCompiler \/ newFunction \/ functionName \/ StringConstant \/ makeConstant
  \/ addConstant \/ emitByte \/ endCompiler \/ interpret
  \/ Push \/ Assign \/ Pop \/ CallClosure \/ ReturnValue \/ runtimeError
  \/ OP_CLOSURE \/ newClosure \/ captureUpvalue
  \/ OP_CLASS \/ newClass \/ CallClass \/ newInstance
  \/ OP_GET_PROPERTY \/ OP_GET_SUPER \/ newBoundMethod
  \/ OP_SET_PROPERTY \/ OP_METHOD \/ setInObject
  \/ OP_INHERIT \/ tableAddAllMethods
  \/ OP_DEFINE_GLOBAL \/ setGlobal
  \/ OP_ADD \/ CopyChars \/ ConcatenateResult

RootingSpec == RootingInit /\ [][RootingNext]_rootingVars

-----------------------------------------------------------------------------
(* Whatever was collected, and wherever, up to an error that drops an open   *)
(* upvalue: an object that a C local will be read for has been kept, by      *)
(* something the collector does see, and nothing that is left refers to an   *)
(* object that is gone.                                                      *)
LocalsAreKept ==
  /\ ToSet(held) \subseteq allocated
  /\ markedRoots \subseteq allocated
  /\ \A o \in allocated : refs[o] \subseteq allocated
=============================================================================

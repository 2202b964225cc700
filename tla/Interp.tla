------------------------------- MODULE Interp -------------------------------
(* src/vm/interp/interp.cc: the value stack, call frames, globals, closures  *)
(* that share local variables through upvalues, classes, instances and bound *)
(* methods.  A chunk is any sequence of instructions the compiler can emit:  *)
(* each step takes one opcode with any operand that respects what the        *)
(* compiler guarantees (operands name slots of the frame, a captured local   *)
(* leaves the stack by OP_CLOSE_UPVALUE, a method's closure goes straight    *)
(* into the class being declared).  Jumps only choose the next instruction.  *)
EXTENDS Integers, SequencesExt

CONSTANTS Plain, NIL,     \* numbers, strings, nil and native functions
          Native,         \* the native functions, each the name of its global too
          Name,           \* names of globals
          Member,         \* names of methods and fields
          initString,     \* vm.initString
          FRAMES_MAX,
          MaxSlots,       \* bound on the stack; STACK_MAX is not checked by push
          MaxArity, MaxCaptures, MaxClosures, MaxUpvalues, MaxClasses,
          MaxInstances,
          Lines           \* bound: calls of interpret; 1 is a file, more a REPL

VARIABLES
  stack,       \* [slot -> value]; a popped slot keeps its value
  top,         \* vm.stackTop, as an index
  frames,      \* vm.frames up to frameCount: [closure, slots]
  open,        \* vm.openUpvalues, from the head
  upvalues,    \* every ObjUpvalue: [location, closed, this]
  closures,    \* every ObjClosure: [arity, upvalues, method]
  classes,     \* every ObjClass: [methods, own, super]
  instances,   \* every ObjInstance: [class, fields]
  globals,     \* vm.globals
  line         \* calls of interpret so far

objects == <<classes, instances>>
heapvars == <<upvalues, closures, objects>>
vars == <<stack, top, frames, open, heapvars, globals, line>>

Slot == 0 .. MaxSlots - 1
Closed == MaxSlots              \* location = &upvalue->closed
Fn(c) == [closure |-> c]
Class(k) == [class |-> k]
Instance(i) == [instance |-> i]
Bound(v, c) == [receiver |-> v, method |-> c]    \* ObjBoundMethod never changes
Is(v, tag) == v \notin Plain /\ tag \in DOMAIN v

(* Every value; those that are no objects have tags of their own.            *)
Objects ==
  LET some == {Instance(i) : i \in 1 .. MaxInstances}
  IN some \union {Fn(c) : c \in 1 .. MaxClosures} \union {Class(k) : k \in 1 .. MaxClasses}
       \union {Bound(v, c) : v \in some, c \in 1 .. MaxClosures}
Value == Plain \union Objects

ASSUME InterpAssumption ==
  /\ FRAMES_MAX \in Nat \ {0} /\ MaxSlots \in Nat \ {0}
  /\ NIL \in Plain \ Native /\ Native \subseteq Plain
  /\ Plain \intersect Objects = {}
  /\ {MaxArity, MaxCaptures, MaxClosures, MaxUpvalues, MaxClasses, MaxInstances, Lines}
       \subseteq Nat

Nothing == [n \in {} |-> n]
Bind(table, n, v) == [m \in DOMAIN table \union {n} |-> IF m = n THEN v ELSE table[m]]

Init ==
  /\ stack = [s \in Slot |-> NIL] /\ top = 0
  /\ frames = <<>> /\ open = <<>> /\ upvalues = <<>> /\ closures = <<>>
  /\ classes = <<>> /\ instances = <<>>
  /\ globals = [n \in Native |-> n]
  /\ line = 0

peek == stack[top - 1]

(* OP_CLOSURE for a method is followed by its OP_METHOD.                     *)
MethodPending == Is(peek, "closure") /\ closures[peek.closure].method

Running == frames # <<>> /\ ~ MethodPending
Frame == Last(frames)
Local(i) == Frame.slots + i
Locals == {i \in 1 .. MaxSlots : Local(i) < top}

(* What *upvalue->location reads.                                            *)
Deref(u) == IF upvalues[u].location = Closed THEN upvalues[u].closed
                                             ELSE stack[upvalues[u].location]

(* The compiler's guarantee for a slot that is dropped without being closed: *)
(* endScope emits OP_POP for a local only if no closure captured it, and an  *)
(* expression's temporary is never captured.                                 *)
Uncaptured(s) == \A k \in DOMAIN open : upvalues[open[k]].location # s

(* The n topmost slots are temporaries of the running frame.                 *)
Temporaries(n) ==
  top - n > Frame.slots /\ \A s \in top - n .. top - 1 : Uncaptured(s)

PushValue(v) ==
  /\ top < MaxSlots
  /\ stack' = [stack EXCEPT ![top] = v] /\ top' = top + 1

-----------------------------------------------------------------------------
(* What calls, properties and errors change.                                 *)
Machine == [stack |-> stack, top |-> top, frames |-> frames, open |-> open,
            instances |-> instances]

Become(m) ==
  /\ Len(m.instances) <= MaxInstances
  /\ stack' = m.stack /\ top' = m.top /\ frames' = m.frames /\ open' = m.open
  /\ instances' = m.instances
  /\ UNCHANGED <<upvalues, closures, classes, globals, line>>

Put(m, slot, v) == [m EXCEPT !.stack[slot] = v]
Drop(m, n) == [m EXCEPT !.top = @ - n]

(* resetStack, after the message: open upvalues are dropped as they are.     *)
runtimeError(m) == [m EXCEPT !.top = 0, !.frames = <<>>, !.open = <<>>]

Constant(v) ==
  /\ Running /\ PushValue(v)
  /\ UNCHANGED <<frames, open, heapvars, globals, line>>

(* OP_PRINT too.                                                             *)
Pop == Running /\ Temporaries(1) /\ Become(Drop(Machine, 1))

(* Arithmetic, comparison, concatenation, not: n operands give a value, or   *)
(* are of the wrong type.                                                    *)
Operator(n, v) ==
  /\ Running /\ Temporaries(n)
  /\ \/ Become(Drop(Put(Machine, top - n, v), n - 1))
     \/ Become(runtimeError(Machine))

(* Slot 0 is a variable, `this', in methods only.                            *)
GetLocal(i) ==
  /\ Running /\ i \in Locals \union (IF closures[Frame.closure].method THEN {0} ELSE {})
  /\ PushValue(stack[Local(i)])
  /\ UNCHANGED <<frames, open, heapvars, globals, line>>

SetLocal(i) ==
  /\ Running /\ i \in Locals
  /\ stack' = [stack EXCEPT ![Local(i)] = peek]
  /\ UNCHANGED <<top, frames, open, heapvars, globals, line>>

GetGlobal(n) ==
  /\ Running
  /\ \/ /\ n \in DOMAIN globals /\ PushValue(globals[n])
        /\ UNCHANGED <<frames, open, heapvars, globals, line>>
     \/ n \notin DOMAIN globals /\ Become(runtimeError(Machine))

DefineGlobal(n) ==
  /\ Running /\ Locals # {} /\ Uncaptured(top - 1)
  /\ globals' = Bind(globals, n, peek)
  /\ top' = top - 1
  /\ UNCHANGED <<stack, frames, open, heapvars, line>>

(* An undefined name is defined by tableSet, and deleted again.              *)
SetGlobal(n) ==
  /\ Running /\ Locals # {}
  /\ \/ /\ n \in DOMAIN globals /\ globals' = [globals EXCEPT ![n] = peek]
        /\ UNCHANGED <<stack, top, frames, open, heapvars, line>>
     \/ n \notin DOMAIN globals /\ Become(runtimeError(Machine))

FrameUpvalues == closures[Frame.closure].upvalues

GetUpvalue(i) ==
  /\ Running /\ i \in DOMAIN FrameUpvalues
  /\ PushValue(Deref(FrameUpvalues[i]))
  /\ UNCHANGED <<frames, open, heapvars, globals, line>>

(* The compiler compiles no assignment to `this'.                            *)
SetUpvalue(i) ==
  /\ Running /\ i \in DOMAIN FrameUpvalues /\ Locals # {}
  /\ ~ upvalues[FrameUpvalues[i]].this
  /\ LET u == FrameUpvalues[i] IN
       IF upvalues[u].location = Closed
       THEN /\ upvalues' = [upvalues EXCEPT ![u].closed = peek]
            /\ UNCHANGED stack
       ELSE /\ stack' = [stack EXCEPT ![upvalues[u].location] = peek]
            /\ UNCHANGED upvalues
  /\ UNCHANGED <<top, frames, open, closures, objects, globals, line>>

-----------------------------------------------------------------------------
(* captureUpvalue walks the list from the head past every location above the *)
(* slot, so the first that is not above decides.                             *)
Position(list, ups, slot) ==
  Min({k \in DOMAIN list : ups[list[k]].location <= slot} \union {Len(list) + 1})

(* newUpvalue; `this' tells that its variable is slot 0 of a method's frame. *)
Upvalue(slot) == [location |-> slot, closed |-> NIL, this |-> slot = Frame.slots]

captureUpvalue_InsertsAtHead(s, slot) ==
  LET k   == Position(s.open, s.upvalues, slot)
      new == Len(s.upvalues) + 1
  IN IF k <= Len(s.open) /\ s.upvalues[s.open[k]].location = slot
     THEN [s EXCEPT !.captured = Append(@, s.open[k])]
     ELSE [open     |-> <<new>> \o s.open,
           upvalues |-> Append(s.upvalues, Upvalue(slot)),
           captured |-> Append(s.captured, new)]

(* s holds the list, the upvalues and the closure's upvalues so far.         *)
captureUpvalue(s, slot) ==
  LET k   == Position(s.open, s.upvalues, slot)
      new == Len(s.upvalues) + 1
  IN IF k <= Len(s.open) /\ s.upvalues[s.open[k]].location = slot
     THEN [s EXCEPT !.captured = Append(@, s.open[k])]
     ELSE [open     |-> InsertAt(s.open, k, new),
           upvalues |-> Append(s.upvalues, Upvalue(slot)),
           captured |-> Append(s.captured, new)]

(* Operands of OP_CLOSURE: distinct variables, each a local of the frame     *)
(* (a function's own slot included: it is pushed first; slot 0, `this', in   *)
(* methods only) or an upvalue of the running closure.                       *)
Operands(method) ==
  [isLocal : {TRUE},
   index : {i \in Slot : /\ Local(i) <= top - (IF method THEN 2 ELSE 0)
                         /\ i = 0 => closures[Frame.closure].method}]
    \union [isLocal : {FALSE}, index : DOMAIN FrameUpvalues]

(* The body of a class runs when the class was just created: it is on the    *)
(* stack, and has no instances.                                              *)
InClassBody ==
  /\ classes # <<>> /\ peek = Class(Len(classes)) /\ Temporaries(1)
  /\ \A i \in DOMAIN instances : instances[i].class # Len(classes)

Closure(arity, operands, method) ==
  LET Capture(s, op) ==
        IF op.isLocal THEN captureUpvalue(s, Local(op.index))
        ELSE [s EXCEPT !.captured = Append(@, FrameUpvalues[op.index])]
      s == FoldLeft(Capture, [open |-> open, upvalues |-> upvalues, captured |-> <<>>],
                    operands)
  IN /\ method => InClassBody
     /\ Len(closures) < MaxClosures /\ Len(s.upvalues) <= MaxUpvalues
     /\ PushValue(Fn(Len(closures) + 1))
     /\ closures' = Append(closures, [arity |-> arity, upvalues |-> s.captured,
                                      method |-> method])
     /\ open' = s.open /\ upvalues' = s.upvalues
     /\ UNCHANGED <<frames, objects, globals, line>>

closeUpvalues_LeavesLast(last) ==
  LET n == Position(open, upvalues, last) - 1
      closing == {open[k] : k \in 1 .. n}
  IN /\ upvalues' = [u \in DOMAIN upvalues |->
                       IF u \in closing
                       THEN [upvalues[u] EXCEPT !.location = Closed, !.closed = Deref(u)]
                       ELSE upvalues[u]]
     /\ open' = SubSeq(open, n + 1, Len(open))

(* closeUpvalues(last): values move out of the stack from the head of the    *)
(* list, until a location below last.                                        *)
closeUpvalues(last) ==
  LET n == Position(open, upvalues, last - 1) - 1
      closing == {open[k] : k \in 1 .. n}
  IN /\ upvalues' = [u \in DOMAIN upvalues |->
                       IF u \in closing
                       THEN [upvalues[u] EXCEPT !.location = Closed, !.closed = Deref(u)]
                       ELSE upvalues[u]]
     /\ open' = SubSeq(open, n + 1, Len(open))

CloseUpvalue ==
  /\ Running /\ Locals # {}
  /\ closeUpvalues(top - 1)
  /\ top' = top - 1
  /\ UNCHANGED <<stack, frames, closures, objects, globals, line>>

-----------------------------------------------------------------------------
call_NoFrameLimit(m, c, argCount) ==
  IF argCount # closures[c].arity THEN runtimeError(m)
  ELSE [m EXCEPT !.frames = Append(@, [closure |-> c, slots |-> m.top - argCount - 1])]

call(m, c, argCount) ==
  IF argCount # closures[c].arity \/ Len(m.frames) = FRAMES_MAX THEN runtimeError(m)
  ELSE [m EXCEPT !.frames = Append(@, [closure |-> c, slots |-> m.top - argCount - 1])]

callValue_KeepsBoundMethod(m, callee, argCount) ==
  LET slot == m.top - argCount - 1
  IN CASE Is(callee, "receiver") -> call(m, callee.method, argCount)
       [] Is(callee, "closure") -> call(m, callee.closure, argCount)
       [] Is(callee, "class") ->
            [Put(m, slot, Instance(Len(m.instances) + 1))
               EXCEPT !.instances = Append(@, [class |-> callee.class, fields |-> Nothing])]
       [] OTHER -> runtimeError(m)

(* The callee's slot becomes slot 0 of its frame: a method's `this'.         *)
callValue(m, callee, argCount) ==
  LET slot == m.top - argCount - 1
      made == [Put(m, slot, Instance(Len(m.instances) + 1))
                 EXCEPT !.instances = Append(@, [class |-> callee.class, fields |-> Nothing])]
  IN CASE Is(callee, "receiver") -> call(Put(m, slot, callee.receiver), callee.method, argCount)
       [] Is(callee, "class") ->
            LET methods == classes[callee.class].methods
            IN IF initString \in DOMAIN methods THEN call(made, methods[initString], argCount)
               ELSE IF argCount # 0 THEN runtimeError(made) ELSE made
       [] Is(callee, "closure") -> call(m, callee.closure, argCount)
       [] callee \in Native -> Drop(Put(m, slot, NIL), argCount)
       [] OTHER -> runtimeError(m)

bindMethod(m, class, n) ==
  LET methods == classes[class].methods
  IN IF n \in DOMAIN methods
     THEN Put(m, m.top - 1, Bound(m.stack[m.top - 1], methods[n]))
     ELSE runtimeError(m)

getProperty(m, n) ==
  LET receiver == m.stack[m.top - 1]
      object   == m.instances[receiver.instance]
  IN IF ~ Is(receiver, "instance") THEN runtimeError(m)
     ELSE IF n \in DOMAIN object.fields THEN Put(m, m.top - 1, object.fields[n])
     ELSE bindMethod(m, object.class, n)

invokeFromClass(m, class, n, argCount) ==
  LET methods == classes[class].methods
  IN IF n \in DOMAIN methods THEN call(m, methods[n], argCount) ELSE runtimeError(m)

invoke(m, n, argCount) ==
  LET slot     == m.top - argCount - 1
      receiver == m.stack[slot]
      object   == m.instances[receiver.instance]
  IN IF ~ Is(receiver, "instance") THEN runtimeError(m)
     ELSE IF n \in DOMAIN object.fields
          THEN callValue(Put(m, slot, object.fields[n]), object.fields[n], argCount)
          ELSE invokeFromClass(m, object.class, n, argCount)

(* Both pop the superclass.                                                  *)
getSuper(m, n) == bindMethod(Drop(m, 1), m.stack[m.top - 1].class, n)

superInvoke_FromClassOfThis(m, n, argCount) ==
  invokeFromClass(Drop(m, 1),
                  m.instances[m.stack[m.top - 2 - argCount].instance].class, n, argCount)

superInvoke(m, n, argCount) ==
  invokeFromClass(Drop(m, 1), m.stack[m.top - 1].class, n, argCount)

Call(argCount) ==
  /\ Running /\ Temporaries(argCount + 1)
  /\ Become(callValue(Machine, stack[top - 1 - argCount], argCount))

GetProperty(n) ==
  /\ Running /\ Temporaries(1) /\ Become(getProperty(Machine, n))

(* The instance and the value are popped, the value pushed again.            *)
SetProperty(n) ==
  LET object == stack[top - 2]
  IN /\ Running /\ Temporaries(2)
     /\ IF Is(object, "instance")
        THEN Become(Drop(Put([Machine EXCEPT
                !.instances[object.instance].fields = Bind(@, n, peek)], top - 2, peek), 1))
        ELSE Become(runtimeError(Machine))

Invoke(n, argCount) ==
  /\ Running /\ Temporaries(argCount + 1) /\ Become(invoke(Machine, n, argCount))

(* The classes from k to the root of its hierarchy.                          *)
Ancestry[k \in 0 .. Len(classes)] ==
  IF k = 0 THEN {} ELSE {k} \union Ancestry[classes[k].super]

(* `super' names the superclass of the class around the method, so it is     *)
(* above the class of `this'.                                                *)
SuperOf(receiver, class) ==
  /\ Is(receiver, "instance") /\ Is(class, "class")
  /\ LET k == instances[receiver.instance].class
     IN class.class \in Ancestry[classes[k].super]

GetSuper(n) ==
  /\ Running /\ Temporaries(2) /\ SuperOf(stack[top - 2], peek)
  /\ Become(getSuper(Machine, n))

SuperInvoke(n, argCount) ==
  /\ Running /\ Temporaries(argCount + 2) /\ SuperOf(stack[top - 2 - argCount], peek)
  /\ Become(superInvoke(Machine, n, argCount))

-----------------------------------------------------------------------------
(* Declarations of classes.  own and super are kept for the properties: the  *)
(* interpreter itself knows a class by its methods alone.                    *)
DeclareClass ==
  /\ Running /\ Len(classes) < MaxClasses
  /\ PushValue(Class(Len(classes) + 1))
  /\ classes' = Append(classes, [methods |-> Nothing, own |-> Nothing, super |-> 0])
  /\ UNCHANGED <<frames, open, upvalues, closures, instances, globals, line>>

(* The subclass was just created, and has nothing yet; its superclass is     *)
(* another value.                                                            *)
Inherit ==
  LET super == stack[top - 2]
      sub   == Len(classes)
  IN /\ Running /\ Local(1) < top - 1
     /\ InClassBody /\ classes[sub].own = Nothing /\ super # peek
     /\ \/ /\ Is(super, "class")
           /\ classes' = [classes EXCEPT ![sub].methods = classes[super.class].methods,
                                         ![sub].super = super.class]
           /\ top' = top - 1
           /\ UNCHANGED <<stack, frames, open, upvalues, closures, instances, globals, line>>
        \/ ~ Is(super, "class") /\ Become(runtimeError(Machine))

Method_KeepsInherited(n) ==
  /\ frames # <<>> /\ MethodPending
  /\ LET k == stack[top - 2].class
     IN classes' = [classes EXCEPT
          ![k].methods = IF n \in DOMAIN @ THEN @ ELSE Bind(@, n, peek.closure),
          ![k].own     = Bind(@, n, peek.closure)]
  /\ top' = top - 1
  /\ UNCHANGED <<stack, frames, open, upvalues, closures, instances, globals, line>>

Method(n) ==
  /\ frames # <<>> /\ MethodPending
  /\ LET k == stack[top - 2].class
     IN classes' = [classes EXCEPT ![k].methods = Bind(@, n, peek.closure),
                                   ![k].own     = Bind(@, n, peek.closure)]
  /\ top' = top - 1
  /\ UNCHANGED <<stack, frames, open, upvalues, closures, instances, globals, line>>

-----------------------------------------------------------------------------
Return_ClosesLate ==
  /\ Running /\ Locals # {}
  /\ Len(frames) = 1 => top = 2
  /\ frames' = Front(frames)
  /\ IF Len(frames) = 1
     THEN top' = 0 /\ UNCHANGED stack
     ELSE /\ top' = Frame.slots + 1
          /\ stack' = [stack EXCEPT ![Frame.slots] = peek]
  /\ LET n == Position(open, upvalues, Frame.slots - 1) - 1
     IN /\ upvalues' = [u \in DOMAIN upvalues |->
                          IF u \in {open[k] : k \in 1 .. n}
                          THEN [upvalues[u] EXCEPT !.location = Closed,
                                                   !.closed = stack'[upvalues[u].location]]
                          ELSE upvalues[u]]
        /\ open' = SubSeq(open, n + 1, Len(open))
  /\ UNCHANGED <<closures, objects, globals, line>>

(* The script itself returns only at its end, where every scope is closed.   *)
Return ==
  /\ Running /\ Locals # {}
  /\ Len(frames) = 1 => top = 2
  /\ closeUpvalues(Frame.slots)
  /\ frames' = Front(frames)
  /\ IF Len(frames) = 1
     THEN top' = 0 /\ UNCHANGED stack
     ELSE /\ top' = Frame.slots + 1
          /\ stack' = [stack EXCEPT ![Frame.slots] = peek]
  /\ UNCHANGED <<closures, objects, globals, line>>

(* The script's closure is pushed and called.                                *)
interpret ==
  /\ frames = <<>> /\ line < Lines /\ Len(closures) < MaxClosures
  /\ line' = line + 1
  /\ closures' = Append(closures, [arity |-> 0, upvalues |-> <<>>, method |-> FALSE])
  /\ PushValue(Fn(Len(closures) + 1))
  /\ frames' = <<[closure |-> Len(closures) + 1, slots |-> top]>>
  /\ UNCHANGED <<open, upvalues, objects, globals>>

Next ==
  \/ interpret \/ Pop \/ CloseUpvalue \/ Return \/ DeclareClass \/ Inherit
  \/ \E v \in Plain \ Native : Constant(v) \/ \E n \in 1 .. 2 : Operator(n, v)
  \/ \E i \in Slot : GetLocal(i) \/ SetLocal(i) \/ GetUpvalue(i) \/ SetUpvalue(i)
  \/ \E n \in Name \union Native : GetGlobal(n)
  \/ \E n \in Name : DefineGlobal(n) \/ SetGlobal(n)
  \/ \E n \in Member : GetProperty(n) \/ SetProperty(n) \/ GetSuper(n) \/ Method(n)
  \/ \E a \in 0 .. MaxArity :
       \/ Call(a)
       \/ \E n \in Member : Invoke(n, a) \/ SuperInvoke(n, a)
       \/ Running /\ \E n \in 0 .. MaxCaptures, method \in BOOLEAN :
            \E operands \in Injection(1 .. n, Operands(method)) : Closure(a, operands, method)

Spec == Init /\ [][Next]_vars

-----------------------------------------------------------------------------
TypeOK ==
  /\ stack \in [Slot -> Value] /\ top \in 0 .. MaxSlots
  /\ frames \in Seq([closure : DOMAIN closures, slots : Slot])
  /\ Len(frames) <= FRAMES_MAX
  /\ \A k \in DOMAIN open : open[k] \in DOMAIN upvalues
  /\ upvalues \in Seq([location : Slot \union {Closed}, closed : Value, this : BOOLEAN])
  /\ \A c \in DOMAIN closures : Range(closures[c].upvalues) \subseteq DOMAIN upvalues
  /\ \A k \in DOMAIN classes : Range(classes[k].methods) \subseteq DOMAIN closures
  /\ \A i \in DOMAIN instances : /\ instances[i].class \in DOMAIN classes
                                 /\ Range(instances[i].fields) \subseteq Value
  /\ line \in 0 .. Lines

(* The closures the program can still call.                                  *)
Held == {globals[n] : n \in DOMAIN globals} \union {stack[s] : s \in 0 .. top - 1}
LiveUpvalues == UNION {Range(closures[c].upvalues) : c \in {d \in DOMAIN closures : Fn(d) \in Held}}

(* captureUpvalue and closeUpvalues stop at the first location not above     *)
(* theirs: the list has to be in strictly descending order of slots, or a    *)
(* variable gets two upvalues, or is left open when its slot goes.           *)
OpenListSorted ==
  \A j, k \in DOMAIN open : j < k =>
    upvalues[open[j]].location > upvalues[open[k]].location

(* An upvalue a closure can read points to a slot in use, and is on the list *)
(* that will close it before the slot goes.                                  *)
NoDanglingUpvalue ==
  Running => \A u \in LiveUpvalues : upvalues[u].location # Closed =>
    upvalues[u].location < top /\ u \in Range(open)

(* Every frame still has its callee in its slot 0, below the frame's locals  *)
(* and above the caller's: calls, returns and assignments made by deeper     *)
(* frames and through upvalues leave the frames below them alone.  A         *)
(* method's is `this', an instance that has this method from its class or    *)
(* from one above, whichever way the method was reached.                     *)
Understands(v, c) ==
  /\ Is(v, "instance")
  /\ \E k \in Ancestry[instances[v.instance].class] : c \in Range(classes[k].own)

FramesKeepTheirCallee ==
  \A k \in DOMAIN frames :
    LET c == frames[k].closure
        v == stack[frames[k].slots]
    IN /\ frames[k].slots < top
       /\ IF closures[c].method THEN Understands(v, c) ELSE v = Fn(c)
       /\ k > 1 => frames[k - 1].slots < frames[k].slots

(* OP_INVOKE and OP_SUPER_INVOKE are shortcuts: they do what reading the     *)
(* property, before the arguments, and calling its value does, whether the   *)
(* name is a field (of any value), a method, or neither, and for any number  *)
(* of arguments.                                                             *)
CallResult(m, got, slot, argCount) ==
  IF got.frames = <<>> THEN runtimeError(m)
  ELSE callValue(Put(m, slot, got.stack[slot]), got.stack[slot], argCount)

InvokeIsGetThenCall ==
  Running => \A n \in Member, a \in 0 .. MaxArity :
    LET m    == Machine
        slot == top - 1 - a
        up   == Drop(Machine, 1)
        this == up.top - 1 - a
    IN /\ slot > Frame.slots =>
            invoke(m, n, a)
              = CallResult(m, getProperty([m EXCEPT !.top = slot + 1], n), slot, a)
       /\ this > Frame.slots /\ SuperOf(stack[this], peek) =>
            superInvoke(m, n, a)
              = CallResult(up, getSuper([Put(up, this + 1, peek) EXCEPT !.top = this + 2], n),
                           this, a)

(* Copying the superclass's methods down once gives every class the method   *)
(* of the nearest class above it that declares the name, overridden or not.  *)
NearestDeclaration ==
  \A k \in DOMAIN classes, n \in Member :
    LET declaring == {j \in Ancestry[k] : n \in DOMAIN classes[j].own}
    IN IF declaring = {} THEN n \notin DOMAIN classes[k].methods
       ELSE n \in DOMAIN classes[k].methods
            /\ classes[k].methods[n] = classes[Max(declaring)].own[n]

(* A captured variable changes only by an assignment to it, through its slot *)
(* or through an upvalue: not when its scope ends, its function returns, or  *)
(* its slot is reused.                                                       *)
Assigns(u) ==
  /\ Running
  /\ \/ \E i \in Locals : SetLocal(i) /\ upvalues[u].location = Local(i)
     \/ \E i \in DOMAIN FrameUpvalues : SetUpvalue(i) /\ FrameUpvalues[i] = u

CapturedVariableStable ==
  [][\A u \in DOMAIN upvalues :
       Deref(u)' # Deref(u) /\ u \in LiveUpvalues /\ u \in LiveUpvalues' => Assigns(u)]_vars
=============================================================================

------------------------------ MODULE Compiler ------------------------------
(* src/compiler/parser.cc: how the single-pass compiler turns a name into a  *)
(* stack slot, an upvalue or a global, for functions, methods and classes    *)
(* nested in any way.  The program is any sequence of declarations, blocks   *)
(* and uses the grammar allows, so each step parses the next construct.      *)
(* Expressions leave their temporaries above the locals and take them away   *)
(* again, so only the slots that last from one statement to the next are     *)
(* kept.  A program with an error is not run: the model stops compiling at   *)
(* the first one, and compile() returns NULL.                                *)
(*                                                                           *)
(* Slots count from 0 as in the code, sequences from 1.  The variables       *)
(* nest, env, frames and refs are not in the code: they follow the program   *)
(* text and the run of the emitted code, and the properties compare the      *)
(* compiler's own tables with them.  An operator named X_Something is a      *)
(* faulty X, kept to show that the properties notice.                        *)
EXTENDS Integers, FiniteSets, SequencesExt

CONSTANTS Names,                     \* identifiers of the program
          MaxLocals, MaxUpvalues,    \* of a function; UINT8_COUNT, 256, both
          MaxNest, MaxFunctions,     \* bounds: open constructs, open functions
          MaxParams                  \* bound on a parameter list

ASSUME CompilerAssumption ==
  /\ MaxLocals \in Nat \ {0} /\ MaxUpvalues \in Nat
  /\ Names \intersect {"this", "super", ""} = {}

VARIABLES
  compilers,   \* current and its enclosing chain, outermost first
  classes,     \* currentClass and its chain: hasSuperclass of each
  hadError,    \* parser.hadError
  nest,        \* the constructs that are open: [kind, name, level, mark]
  env,         \* the local variables in scope: [name, level, slot]
  frames,      \* per function, what its frame holds when run: [height, open]
  refs         \* the variable references the last step emitted

vars == <<compilers, classes, hadError, nest, env, frames, refs>>

Uninit == -1
NewLocal(n, d) == [name |-> n, depth |-> d, captured |-> FALSE]

(* initCompiler: slot 0 belongs to the callee, and is `this` in a method.    *)
initCompiler(type) ==
  [type |-> type, scopeDepth |-> 0, upvalues |-> <<>>,
   locals |-> <<NewLocal(IF type = "function" THEN "" ELSE "this", 0)>>]

current == Last(compilers)
Level == Len(compilers)

(*---------------------------- declaring a local ---------------------------*)

Full(c) == Len(c.locals) = MaxLocals

addLocal(c, n) == [c EXCEPT !.locals = Append(@, NewLocal(n, Uninit))]

(* declareVariable: names of the same scope, and of a declaration still      *)
(* waiting for its initializer, clash.                                       *)
Redeclared(c, n) ==
  \E i \in DOMAIN c.locals :
    /\ c.locals[i].name = n
    /\ \A j \in i .. Len(c.locals) :
         c.locals[j].depth = Uninit \/ c.locals[j].depth >= c.scopeDepth

declareVariable(c, n) == IF c.scopeDepth = 0 THEN c ELSE addLocal(c, n)

CanDeclare_NoLimit(c, n) == c.scopeDepth = 0 \/ ~Redeclared(c, n)

CanDeclare(c, n) == c.scopeDepth = 0 \/ (~Redeclared(c, n) /\ ~Full(c))

markInitialized(c) ==
  IF c.scopeDepth = 0 THEN c
  ELSE [c EXCEPT !.locals[Len(c.locals)].depth = c.scopeDepth]

(*---------------------------- resolving a name ----------------------------*)

LocalOf_FromTheBottom(c, n) ==
  SelectInSeq(c.locals, LAMBDA l : l.name = n)

(* The innermost local of that name; 0 when there is none.                   *)
LocalOf(c, n) == Max({0} \union {i \in DOMAIN c.locals : c.locals[i].name = n})

resolveLocal(c, n) == LocalOf(c, n) - 1

addUpvalue(c, index, isLocal) ==
  LET u == [index |-> index, isLocal |-> isLocal]
  IN IF u \in ToSet(c.upvalues) THEN c
     ELSE [c EXCEPT !.upvalues = Append(@, u)]

UpvalueIndex(c, index, isLocal) ==
  SelectInSeq(c.upvalues, LAMBDA u : u.index = index /\ u.isLocal = isLocal) - 1

(* resolveUpvalue: the local is found in some enclosing function and handed  *)
(* down one function at a time.  state = [cs, index], cs the compilers.      *)
HandDown(state, k, owner) ==
  LET cs == [state.cs EXCEPT ![k] =
               addUpvalue(@, state.index, k = owner + 1)]
  IN [cs |-> cs, index |-> UpvalueIndex(cs[k], state.index, k = owner + 1)]

resolveUpvalue_ForgetsCaptured(cs, owner, n) ==
  FoldLeft(LAMBDA st, k : HandDown(st, k, owner),
           [cs |-> cs, index |-> resolveLocal(cs[owner], n)],
           [i \in 1 .. Len(cs) - owner |-> owner + i])

resolveUpvalue(cs, owner, n) ==
  LET slot == resolveLocal(cs[owner], n)
      marked == [cs EXCEPT ![owner].locals[slot + 1].captured = TRUE]
  IN FoldLeft(LAMBDA st, k : HandDown(st, k, owner),
              [cs |-> marked, index |-> slot],
              [i \in 1 .. Len(cs) - owner |-> owner + i])

(* The innermost function with a local of that name; 0 when there is none.   *)
Owner(cs, n) == Max({0} \union {k \in DOMAIN cs : LocalOf(cs[k], n) # 0})

(* namedVariable: the compilers afterwards, and the reference emitted.       *)
namedVariable(cs, n) ==
  LET owner == Owner(cs, n)
      up    == resolveUpvalue(cs, owner, n)
      ref(op, i) == [name |-> n, op |-> op, index |-> i]
  IN CASE owner = 0       -> [cs |-> cs, ref |-> ref("global", 0)]
       [] owner = Len(cs) -> [cs |-> cs, ref |-> ref("local",
                                             resolveLocal(Last(cs), n))]
       [] OTHER           -> [cs |-> up.cs, ref |-> ref("upvalue", up.index)]

(* The errors namedVariable can raise.                                       *)
OwnInitializer(cs, n) ==
  LET owner == Owner(cs, n)
  IN owner # 0 /\ cs[owner].locals[LocalOf(cs[owner], n)].depth = Uninit

TooManyUpvalues(cs) == \E c \in ToSet(cs) : Len(c.upvalues) > MaxUpvalues

Resolves(cs, n) == ~OwnInitializer(cs, n) /\ ~TooManyUpvalues(namedVariable(cs, n).cs)

(*------------------------------- scopes -----------------------------------*)

beginScope(c) == [c EXCEPT !.scopeDepth = @ + 1]

(* endScope: the locals above the new depth go, last first.                  *)
Kept(c) == Max({i \in DOMAIN c.locals : c.locals[i].depth < c.scopeDepth})

endScope_KeepsLocals(c) == [c EXCEPT !.scopeDepth = @ - 1]

endScope(c) == [c EXCEPT !.scopeDepth = @ - 1,
                         !.locals = SubSeq(@, 1, Kept(c))]

(* What its OP_POP and OP_CLOSE_UPVALUE do to the frame, in that order.      *)
Popped(f, c) ==
  LET n == Len(c.locals)
      slot(i) == f.height - 1 - (n - i)
  IN [height |-> f.height - (n - Kept(c)),
      open   |-> f.open \ {slot(i) : i \in {j \in Kept(c) + 1 .. n :
                                              c.locals[j].captured}}]

(*-------------------- the program text and the frames ---------------------*)

Opened(kind, n, e) ==
  Append(nest, [kind |-> kind, name |-> n, level |-> Level, mark |-> Len(e)])
Innermost(kinds) == nest # <<>> /\ Last(nest).kind \in kinds
InStatements ==
  ~hadError /\ (nest = <<>> \/ Innermost({"block", "fun", "method"}))
InExpression == InStatements \/ Innermost({"var"})
CanOpen == InStatements /\ Len(nest) < MaxNest

Binding(n, k, s) == [name |-> n, level |-> k, slot |-> s]
Pushed(f) == [f EXCEPT !.height = @ + 1]
EmptyFrame == [height |-> 1, open |-> {}]

OutOfScope == SubSeq(env, 1, Last(nest).mark)

(* A declaration at depth 0 of the script pushes its value and               *)
(* OP_DEFINE_GLOBAL pops it: nothing stays on the stack.                     *)
IsLocal == current.scopeDepth > 0
Defined(e, n) == IF IsLocal
                 THEN Append(e, Binding(n, Level, Last(frames).height))
                 ELSE e
Valued(fs) == IF IsLocal THEN [fs EXCEPT ![Level] = Pushed(@)] ELSE fs

(*------------------------------ one construct -----------------------------*)

Init ==
  /\ compilers = <<initCompiler("script")>>
  /\ classes = <<>> /\ hadError = FALSE
  /\ nest = <<>> /\ env = <<>> /\ frames = <<EmptyFrame>>
  /\ refs = {}

Afresh ==
  /\ compilers' = <<initCompiler("script")>>
  /\ classes' = <<>>
  /\ nest' = <<>> /\ env' = <<>> /\ frames' = <<EmptyFrame>>
  /\ refs' = {}

(* The first error: what is parsed after it is thrown away.                  *)
Error == hadError' = TRUE /\ Afresh

(* A variable read or assigned, in a statement or in an initializer.         *)
variable(n) ==
  /\ InExpression
  /\ IF ~Resolves(compilers, n) THEN Error
     ELSE LET r == namedVariable(compilers, n)
          IN /\ compilers' = r.cs
             /\ refs' = {r.ref}
             /\ UNCHANGED <<classes, hadError, nest, env, frames>>

this_ ==
  /\ InExpression
  /\ IF classes = <<>> \/ ~Resolves(compilers, "this") THEN Error
     ELSE LET r == namedVariable(compilers, "this")
          IN /\ compilers' = r.cs
             /\ refs' = {r.ref}
             /\ UNCHANGED <<classes, hadError, nest, env, frames>>

super_ ==
  /\ InExpression
  /\ LET this  == namedVariable(compilers, "this")
         super == namedVariable(this.cs, "super")
     IN IF \/ classes = <<>> \/ ~Last(classes)
           \/ ~Resolves(compilers, "this") \/ ~Resolves(this.cs, "super")
        THEN Error
        ELSE /\ compilers' = super.cs
             /\ refs' = {this.ref, super.ref}
             /\ UNCHANGED <<classes, hadError, nest, env, frames>>

BeginBlock ==
  /\ CanOpen
  /\ compilers' = [compilers EXCEPT ![Level] = beginScope(@)]
  /\ nest' = Opened("block", "", env) /\ refs' = {}
  /\ UNCHANGED <<classes, hadError, env, frames>>

EndBlock ==
  /\ Innermost({"block"})
  /\ compilers' = [compilers EXCEPT ![Level] = endScope(@)]
  /\ frames' = [frames EXCEPT ![Level] = Popped(@, current)]
  /\ env' = OutOfScope
  /\ nest' = Front(nest) /\ refs' = {}
  /\ UNCHANGED <<classes, hadError>>

(* varDeclaration up to the initializer, and from its end.                   *)
varDeclaration(n) ==
  /\ CanOpen
  /\ IF ~CanDeclare(current, n) THEN Error
     ELSE /\ compilers' = [compilers EXCEPT ![Level] = declareVariable(@, n)]
          /\ nest' = Opened("var", n, env) /\ refs' = {}
          /\ UNCHANGED <<classes, hadError, env, frames>>

defineVariable ==
  /\ Innermost({"var"})
  /\ compilers' = [compilers EXCEPT ![Level] = markInitialized(@)]
  /\ env' = Defined(env, Last(nest).name)
  /\ frames' = Valued(frames)
  /\ nest' = Front(nest) /\ refs' = {}
  /\ UNCHANGED <<classes, hadError>>

(* function(type), up to its body: parameters are locals of depth 1 whose    *)
(* values the caller pushed.                                                 *)
Parameter(c, n) == markInitialized(declareVariable(c, n))

Parameters(type, ps) == FoldLeft(Parameter, beginScope(initCompiler(type)), ps)

ParametersClash(type, ps) ==
  \E i \in DOMAIN ps : ~CanDeclare(Parameters(type, SubSeq(ps, 1, i - 1)), ps[i])

Callee(type, ps) ==
  (IF type = "function" THEN <<>> ELSE <<Binding("this", Level + 1, 0)>>)
    \o [i \in DOMAIN ps |-> Binding(ps[i], Level + 1, i)]

Enter(cs, kind, type, ps, e) ==
  /\ Level < MaxFunctions
  /\ IF ParametersClash(type, ps) THEN Error
     ELSE /\ compilers' = Append(cs, Parameters(type, ps))
          /\ frames' = Append(frames, [height |-> 1 + Len(ps), open |-> {}])
          /\ nest' = Opened(kind, "", e)
          /\ env' = e \o Callee(type, ps)
          /\ refs' = {}
          /\ UNCHANGED <<classes, hadError>>

(* funDeclaration: the name is in scope in its own body.                     *)
funDeclaration(n, ps) ==
  /\ CanOpen
  /\ IF ~CanDeclare(current, n) THEN Error
     ELSE Enter([compilers EXCEPT ![Level] =
                   markInitialized(declareVariable(@, n))],
                "fun", "function", ps, Defined(env, n))

method(type, ps) ==
  /\ Innermost({"class"}) /\ Len(nest) < MaxNest
  /\ Enter(compilers, "method", type, ps, env)

(* The end of the body: OP_CLOSURE pushes the closure and captures the       *)
(* locals its upvalues name; OP_METHOD or OP_DEFINE_GLOBAL pops it again.    *)
endCompiler ==
  /\ Innermost({"fun", "method"})
  /\ LET caught == {u.index : u \in {v \in ToSet(current.upvalues) : v.isLocal}}
         stays  == Last(nest).kind = "fun" /\ compilers[Level - 1].scopeDepth > 0
     IN frames' = [Front(frames) EXCEPT
                     ![Level - 1] = [height |-> @.height + (IF stays THEN 1 ELSE 0),
                                     open   |-> @.open \union caught]]
  /\ compilers' = Front(compilers)
  /\ env' = OutOfScope
  /\ nest' = Front(nest) /\ refs' = {}
  /\ UNCHANGED <<classes, hadError>>

(* classDeclaration up to `{'.  The class is a local or a global; with a     *)
(* superclass, a scope opens around a local `super' that holds it.  The      *)
(* class value that the methods are added to stays on top until `}'.         *)
WithSuper(cs) ==
  [cs EXCEPT ![Level] = markInitialized(addLocal(beginScope(@), "super"))]

classDeclaration(n) ==
  /\ CanOpen
  /\ IF ~CanDeclare(current, n) THEN Error
     ELSE LET cs == [compilers EXCEPT ![Level] =
                       markInitialized(declareVariable(@, n))]
              me == namedVariable(cs, n)
          IN IF ~Resolves(cs, n) THEN Error
             ELSE /\ compilers' = me.cs
                  /\ frames' = [Valued(frames) EXCEPT ![Level] = Pushed(@)]
                  /\ env' = Defined(env, n)
                  /\ nest' = Opened("class", n, env')
                  /\ classes' = Append(classes, FALSE)
                  /\ refs' = {me.ref}
                  /\ UNCHANGED hadError

classWithSuper(n, s) ==
  /\ CanOpen
  /\ IF ~CanDeclare(current, n) THEN Error
     ELSE LET cs    == [compilers EXCEPT ![Level] =
                          markInitialized(declareVariable(@, n))]
              super == namedVariable(cs, s)
              inner == WithSuper(super.cs)
              me    == namedVariable(inner, n)
              e     == Defined(env, n)
          IN IF \/ n = s \/ ~Resolves(cs, s)
                \/ Full(super.cs[Level]) \/ ~Resolves(inner, n)
             THEN Error
             ELSE /\ compilers' = me.cs
                  /\ frames' = [Valued(frames) EXCEPT ![Level] =
                                  Pushed(Pushed(@))]
                  /\ env' = Append(e, Binding("super", Level,
                                              Valued(frames)[Level].height))
                  /\ nest' = Opened("class", n, e)
                  /\ classes' = Append(classes, TRUE)
                  /\ refs' = {super.ref, me.ref}
                  /\ UNCHANGED hadError

EndClass ==
  /\ Innermost({"class"})
  /\ LET popped == [frames EXCEPT ![Level].height = @ - 1]
     IN IF Last(classes)
        THEN /\ compilers' = [compilers EXCEPT ![Level] = endScope(@)]
             /\ frames' = [popped EXCEPT ![Level] = Popped(@, current)]
        ELSE UNCHANGED compilers /\ frames' = popped
  /\ classes' = Front(classes)
  /\ env' = OutOfScope
  /\ nest' = Front(nest) /\ refs' = {}
  /\ UNCHANGED hadError

(* returnStatement: an initializer returns its receiver, from slot 0.        *)
returnStatement(hasValue) ==
  /\ InStatements
  /\ IF \/ current.type = "script"
        \/ hasValue /\ current.type = "initializer"
     THEN Error
     ELSE /\ refs' = IF current.type = "initializer"
                     THEN {[name |-> "this", op |-> "local", index |-> 0]}
                     ELSE {}
          /\ UNCHANGED <<compilers, classes, hadError, nest, env, frames>>

(* The script ends, or an error makes compile return NULL; the next call of  *)
(* compile starts afresh.                                                    *)
compile ==
  /\ hadError \/ nest = <<>>
  /\ hadError' = FALSE /\ Afresh

ParamLists == UNION {[1 .. k -> Names] : k \in 0 .. MaxParams}

Next ==
  \/ \E n \in Names : variable(n)
  \/ this_
  \/ super_
  \/ BeginBlock
  \/ EndBlock
  \/ \E n \in Names : varDeclaration(n)
  \/ defineVariable
  \/ \E n \in Names, ps \in ParamLists : funDeclaration(n, ps)
  \/ \E t \in {"method", "initializer"}, ps \in ParamLists : method(t, ps)
  \/ endCompiler
  \/ \E n \in Names : classDeclaration(n)
  \/ \E n, s \in Names : classWithSuper(n, s)
  \/ EndClass
  \/ \E v \in BOOLEAN : returnStatement(v)
  \/ compile

Spec == Init /\ [][Next]_vars

(*------------------------------- properties -------------------------------*)

(* Compiler records are well formed, and no function outgrows the one byte   *)
(* that names a local or an upvalue in an instruction.                       *)
TypeOK ==
  /\ \A k \in DOMAIN compilers :
       LET c == compilers[k]
       IN /\ c.type \in {"script", "function", "method", "initializer"}
          /\ c.scopeDepth \in Nat
          /\ \A l \in ToSet(c.locals) :
               /\ l.name \in Names \union {"this", "super", ""}
               /\ l.depth \in Uninit .. c.scopeDepth
          /\ Len(c.locals) \in 1 .. MaxLocals
          /\ Len(c.upvalues) <= MaxUpvalues
          /\ \A u \in ToSet(c.upvalues) :
               /\ u.index \in 0 .. (IF u.isLocal THEN MaxLocals ELSE MaxUpvalues) - 1
               /\ u.isLocal \in BOOLEAN
  /\ Len(frames) = Level
  /\ hadError \in BOOLEAN

(* The variable upvalue u of function k reaches when the code runs: down the *)
(* upvalue tables of the enclosing functions to a slot of one of their       *)
(* frames.                                                                   *)
Through(reaches, k, u) ==
  IF u.isLocal THEN [level |-> k - 1, slot |-> u.index]
  ELSE reaches[k - 1][u.index + 1]

Chase(cs, level, index) ==
  LET reaches[k \in DOMAIN cs] ==
        [i \in DOMAIN cs[k].upvalues |-> Through(reaches, k, cs[k].upvalues[i])]
  IN reaches[level][index + 1]

Reached(cs, r) ==
  CASE r.op = "global"  -> {}
    [] r.op = "local"   -> {[level |-> Len(cs), slot |-> r.index]}
    [] r.op = "upvalue" -> {Chase(cs, Len(cs), r.index)}

(* Lexical scoping: the innermost variable of that name in the text.         *)
Meant(e, n) ==
  LET found == {i \in DOMAIN e : e[i].name = n}
  IN IF found = {} THEN {}
     ELSE LET b == e[Max(found)] IN {[level |-> b.level, slot |-> b.slot]}

(* Every reference the compiler emits reaches the variable the text means:   *)
(* the innermost declaration of the name, in whatever function it is, in the *)
(* slot where that function's code put the value; `this' is the receiver of  *)
(* the innermost method and `super' the superclass of its class; a name with *)
(* no declaration around it is a global.                                     *)
ReferencesAreLexical == \A r \in refs : Reached(compilers, r) = Meant(env, r.name)

(* The table of locals and the stack stay in step: between two declarations  *)
(* a function's frame holds exactly its locals, and the class under          *)
(* construction above them.  So a block pops all it pushed, on every path.   *)
Nested(kinds, k) == {i \in DOMAIN nest : nest[i].kind \in kinds /\ nest[i].level = k}

LocalsMatchStack ==
  \A k \in DOMAIN compilers :
    LET c        == compilers[k]
        awaited  == IF c.scopeDepth > 0 THEN Cardinality(Nested({"var", "fun"}, k)) ELSE 0
        building == Cardinality(Nested({"class"}, k))
    IN frames[k].height = Len(c.locals) - awaited + building

(* What the interpreter relies on: a slot that some closure captured leaves  *)
(* the stack by OP_CLOSE_UPVALUE, never by OP_POP, and is on the stack when  *)
(* OP_CLOSURE captures it.                                                   *)
NoOpenSlotPopped ==
  \A k \in DOMAIN frames : frames[k].open \subseteq 0 .. frames[k].height - 1
=============================================================================

------------------------------- MODULE Parser -------------------------------
(* src/compiler/parser.cc: how the compiler reads its tokens, expression by  *)
(* expression and statement by statement, and how it goes on after an error. *)
(* The parser is a record, each parse function an operator on it, in the     *)
(* order of the calls in the code.  Of names it has the errors they give:     *)
(* which slot a name stands for is modelled in Compiler, and the limits of   *)
(* operands there and in ControlFlow.  An emission is the instruction with   *)
(* the operand the syntax decides, between the marks FUN and CLOSURE when it *)
(* goes to a function's own chunk; those of endScope are left out.           *)
EXTENDS Scanner

CONSTANT MaxArgs,      \* 255 in the code, for arguments and for parameters
         Profile       \* the texts: [before, words, length, after]

VARIABLES profile, text, result

Language == INSTANCE Grammar

vars == <<profile, text, result>>

NONE       == 0
ASSIGNMENT == 1
OR         == 2
AND        == 3
EQUALITY   == 4
COMPARISON == 5
TERM       == 6
FACTOR     == 7
UNARY      == 8
CALL       == 9

StatementKeyword == {"class", "fun", "var", "for", "if", "while", "print", "return"}
Literal == {"true", "false", "nil"}

PrecedenceOf(type) ==
  CASE type \in {"(", "."}             -> CALL
    [] type \in {"*", "/"}             -> FACTOR
    [] type \in {"+", "-"}             -> TERM
    [] type \in {"<", "<=", ">", ">="} -> COMPARISON
    [] type \in {"==", "!="}           -> EQUALITY
    [] type = "and"                    -> AND
    [] type = "or"                     -> OR
    [] OTHER                           -> NONE

HasPrefix(type) ==
  type \in {"(", "-", "!", "identifier", "number", "string", "this", "super"} \union Literal

-----------------------------------------------------------------------------
(* One report, then silence until synchronize.                               *)
errorAt(p, token) ==
  IF p.panicMode THEN p
  ELSE [p EXCEPT !.panicMode = TRUE, !.hadError = TRUE, !.reports = Append(@, token.start)]

error(p) == errorAt(p, p.previous)
errorAtCurrent(p) == errorAt(p, p.current)
errorIf(p, wrong) == IF wrong THEN error(p) ELSE p

(* The scanner is asked for one token after the other, and for eof again at  *)
(* the end.  What is no token is reported and left out.                      *)
Scan(p, at) ==
  [FoldLeft(errorAt, p, SubSeq(p.tokens, p.at + 1, at - 1)) EXCEPT
     !.previous = p.current, !.current = p.tokens[at], !.at = at]

advance(p) ==
  Scan(p, Min({k \in DOMAIN p.tokens : \/ k > p.at /\ p.tokens[k].type # "error"
                                       \/ k = Len(p.tokens)}))

check(p, type) == p.current.type = type
consume(p, type) == IF check(p, type) THEN advance(p) ELSE errorAtCurrent(p)
emit(p, instruction) == [p EXCEPT !.code = Append(@, instruction)]

(* An instruction with the number of arguments or parameters just read.      *)
emitCount(p, op) == emit(p, <<op, p.count>>)

Name(p) == SubSeq(p.source, p.previous.start, p.previous.stop - 1)

-----------------------------------------------------------------------------
RECURSIVE parsePrecedence(_, _), infixes(_, _, _), arguments(_, _),
          declaration(_), statement(_), parameters(_, _), methods(_),
          sync(_), declarations(_)

expression(p) == parsePrecedence(p, ASSIGNMENT)

(* The count stays with the call: those of calls in an argument are read     *)
(* before it.                                                                *)
moreArguments(p, n) ==
  IF check(p, ",") THEN arguments(advance(p), n) ELSE consume([p EXCEPT !.count = n], ")")

arguments(p, n) == moreArguments(errorIf(expression(p), n = MaxArgs), n + 1)

argumentList(p) ==
  IF check(p, ")") THEN advance([p EXCEPT !.count = 0]) ELSE arguments(p, 0)

(* Of the locals with the name, here and in the functions around, the last;  *)
(* depth -1 says that it has no value yet.                                   *)
resolveLocal(p) ==
  LET reached == p.outer \o p.locals
      found   == {k \in DOMAIN reached : reached[k].name = Name(p)}
  IN errorIf(p, found # {} /\ reached[Max(found)].depth = -1)

assignment(p, canAssign) ==
  IF canAssign /\ check(p, "=") THEN emit(expression(advance(p)), <<"SET">>)
                                ELSE emit(p, <<"GET">>)

namedVariable(p, canAssign) == assignment(resolveLocal(p), canAssign)

property_AlwaysAssigns(p, canAssign) ==
  IF check(p, "=") THEN emit(expression(advance(p)), <<"SET_PROPERTY">>)
  ELSE IF check(p, "(") THEN emitCount(argumentList(advance(p)), "INVOKE")
  ELSE emit(p, <<"GET_PROPERTY">>)

(* What a property after its dot is for.                                     *)
property(p, canAssign) ==
  IF canAssign /\ check(p, "=") THEN emit(expression(advance(p)), <<"SET_PROPERTY">>)
  ELSE IF check(p, "(") THEN emitCount(argumentList(advance(p)), "INVOKE")
  ELSE emit(p, <<"GET_PROPERTY">>)

superMethod(p) ==
  IF check(p, "(") THEN emitCount(emit(argumentList(advance(p)), <<"GET">>), "SUPER_INVOKE")
                   ELSE emit(emit(p, <<"GET">>), <<"GET_SUPER">>)

super_(p) ==
  superMethod(emit(consume(consume(errorIf(p, p.class # "subclass"), "."), "identifier"),
                   <<"GET">>))

this_(p) == IF p.class = "none" THEN error(p) ELSE namedVariable(p, FALSE)

prefix(p, canAssign) ==
  LET type == p.previous.type
  IN CASE type = "("          -> consume(expression(p), ")")
       [] type = "-"          -> emit(parsePrecedence(p, UNARY), <<"NEGATE">>)
       [] type = "!"          -> emit(parsePrecedence(p, UNARY), <<"NOT">>)
       [] type = "identifier" -> namedVariable(p, canAssign)
       [] type = "this"       -> this_(p)
       [] type = "super"      -> super_(p)
       [] OTHER               -> emit(p, <<"CONSTANT">>)

(* The right operand of and/or is what the jump goes over.                   *)
infix(p, canAssign) ==
  LET type == p.previous.type
  IN CASE type = "("   -> emitCount(argumentList(p), "CALL")
       [] type = "."   -> property(consume(p, "identifier"), canAssign)
       [] type = "and" -> emit(parsePrecedence(emit(p, <<"AND">>), AND), <<"END">>)
       [] type = "or"  -> emit(parsePrecedence(emit(p, <<"OR">>), OR), <<"END">>)
       [] OTHER        -> emit(parsePrecedence(p, PrecedenceOf(type) + 1), <<type>>)

infixes(p, precedence, canAssign) ==
  IF precedence <= PrecedenceOf(p.current.type)
  THEN infixes(infix(advance(p), canAssign), precedence, canAssign)
  ELSE IF canAssign /\ check(p, "=") THEN error(advance(p))
  ELSE p

(* p has advanced to the first token of an operand.                          *)
operand(p, precedence, canAssign) ==
  IF HasPrefix(p.previous.type) THEN infixes(prefix(p, canAssign), precedence, canAssign)
                                ELSE error(p)

parsePrecedence(p, precedence) == operand(advance(p), precedence, precedence <= ASSIGNMENT)

-----------------------------------------------------------------------------
(* The locals of the function that is compiled, with the depths of their     *)
(* scopes, and those of the functions around it; what is declared at depth 0 *)
(* is global.                                                                *)
beginScope(p) == [p EXCEPT !.depth = @ + 1]
endScope(p) ==
  [p EXCEPT !.depth = @ - 1, !.locals = SelectSeq(@, LAMBDA local : local.depth < p.depth)]

declareVariable(p) ==
  LET here == {k \in DOMAIN p.locals : p.locals[k].depth \in {-1, p.depth}}
  IN IF p.depth = 0 THEN p
     ELSE [errorIf(p, \E k \in here : p.locals[k].name = Name(p)) EXCEPT
             !.locals = Append(@, [name |-> Name(p), depth |-> -1])]

parseVariable(p) == declareVariable(consume(p, "identifier"))

markInitialized(p) ==
  IF p.depth = 0 THEN p ELSE [p EXCEPT !.locals[Len(p.locals)].depth = p.depth]

defineVariable(p) == IF p.depth > 0 THEN markInitialized(p) ELSE emit(p, <<"DEFINE">>)

(* All declarations up to a closing brace or the end.                        *)
AtBlockEnd(p) == check(p, "}") \/ check(p, "eof")
declarations(p) == IF AtBlockEnd(p) THEN p ELSE declarations(declaration(p))
block(p) == consume(declarations(p), "}")

moreParameters(p, n) ==
  IF check(p, ",") THEN parameters(advance(p), n) ELSE consume([p EXCEPT !.count = n], ")")

(* A function has one scope for its parameters and its body.                 *)
parameters(p, n) ==
  moreParameters(defineVariable(parseVariable(IF n = MaxArgs THEN errorAtCurrent(p) ELSE p)),
                 n + 1)

parameterList(p) ==
  IF check(p, ")") THEN advance([p EXCEPT !.count = 0]) ELSE parameters(p, 0)

initCompiler(p, type) ==
  [emit(p, <<"FUN">>) EXCEPT !.type = type, !.outer = @ \o p.locals, !.locals = <<>>, !.depth = 0]

(* Back to the enclosing function.                                           *)
endCompiler(p, enclosing, arity) ==
  [p EXCEPT !.type = enclosing.type, !.outer = enclosing.outer, !.locals = enclosing.locals,
            !.depth = enclosing.depth, !.count = arity]

signature(p) == consume(parameterList(consume(p, "(")), "{")
body(p, enclosing) == endCompiler(block(p), enclosing, p.count)

function(p, type) ==
  emitCount(body(signature(beginScope(initCompiler(p, type))), p), "CLOSURE")

method(p) ==
  emit(function(p, IF Name(p) = <<"init">> THEN "initializer" ELSE "method"), <<"METHOD">>)
methods(p) ==
  IF AtBlockEnd(p) THEN consume(p, "}") ELSE methods(method(consume(p, "identifier")))

(* The scope of "super" is left out: nothing else is declared in it.         *)
superclass(p, className) ==
  emit(emit([errorIf(namedVariable(p, FALSE), Name(p) = className) EXCEPT !.class = "subclass"],
            <<"GET">>), <<"INHERIT">>)

inherit(p, className) ==
  IF check(p, ":") THEN superclass(consume(advance(p), "identifier"), className) ELSE p

(* p has read the name.                                                      *)
classBody(p) == methods(consume(emit(inherit([p EXCEPT !.class = "class"], Name(p)), <<"GET">>), "{"))
classAfter(p) ==
  emit([classBody(defineVariable(emit(declareVariable(p), <<"CLASS">>))) EXCEPT
          !.class = p.class], <<"POP">>)

classDeclaration(p) == classAfter(consume(p, "identifier"))

(* A function may call itself: its name has a value before its body is read. *)
funDeclaration(p) == defineVariable(function(markInitialized(parseVariable(p)), "function"))

initializer(p) == IF check(p, "=") THEN expression(advance(p)) ELSE emit(p, <<"CONSTANT">>)
varDeclaration(p) == defineVariable(consume(initializer(parseVariable(p)), ";"))

expressionStatement(p) == emit(consume(expression(p), ";"), <<"POP">>)
printStatement(p) == emit(consume(expression(p), ";"), <<"PRINT">>)

returned(p) ==
  IF check(p, ";") THEN emit(advance(p), <<"RETURN_NIL">>)
  ELSE emit(consume(expression(errorIf(p, p.type = "initializer")), ";"), <<"RETURN">>)

returnStatement(p) == returned(errorIf(p, p.type = "script"))

condition(p) == consume(expression(consume(p, "(")), ")")

otherwise(p) == IF check(p, "else") THEN statement(advance(emit(p, <<"ELSE">>))) ELSE p
ifStatement(p) == emit(otherwise(statement(emit(condition(p), <<"IF">>))), <<"END">>)

whileStatement(p) == emit(statement(emit(condition(p), <<"WHILE">>)), <<"END">>)

(* The emissions of the increment come before those of the body.             *)
forStart(p) ==
  IF check(p, ";") THEN advance(p)
  ELSE IF check(p, "var") THEN varDeclaration(advance(p))
  ELSE expressionStatement(p)

forCondition(p) ==
  IF check(p, ";") THEN advance(p) ELSE emit(consume(expression(p), ";"), <<"WHILE">>)

forIncrement(p) ==
  IF check(p, ")") THEN advance(p)
  ELSE consume(emit(expression(emit(p, <<"STEP">>)), <<"POP">>), ")")

forStatement(p) ==
  LET header == forIncrement(forCondition(forStart(consume(beginScope(p), "("))))
  IN endScope(emit(statement(emit(header, <<"BODY">>)), <<"END">>))

statement(p) ==
  CASE check(p, "print")  -> printStatement(advance(p))
    [] check(p, "for")    -> forStatement(advance(p))
    [] check(p, "if")     -> ifStatement(advance(p))
    [] check(p, "return") -> returnStatement(advance(p))
    [] check(p, "while")  -> whileStatement(advance(p))
    [] check(p, "{")      -> endScope(block(beginScope(advance(p))))
    [] OTHER              -> expressionStatement(p)

sync_StopsAtBrace(p) ==
  IF check(p, "eof") \/ p.previous.type \in {";", "}"} \/ p.current.type \in StatementKeyword
  THEN p ELSE sync(advance(p))

(* Skips to where a statement has ended or one begins.                       *)
sync(p) ==
  IF check(p, "eof") \/ p.previous.type = ";" \/ p.current.type \in StatementKeyword
  THEN p ELSE sync(advance(p))

synchronize(p) == IF p.panicMode THEN sync([p EXCEPT !.panicMode = FALSE]) ELSE p

declaration(p) ==
  synchronize(CASE check(p, "class") -> classDeclaration(advance(p))
                [] check(p, "fun")   -> funDeclaration(advance(p))
                [] check(p, "var")   -> varDeclaration(advance(p))
                [] OTHER             -> statement(p))

RECURSIVE program(_)
program(p) == IF check(p, "eof") THEN p ELSE program(declaration(p))

compile(source) ==
  LET none == [type |-> "eof", start |-> 0, stop |-> 0, line |-> 0]
  IN program(advance([source |-> source, tokens |-> Tokens(source), at |-> 0, count |-> 0,
                      current |-> none, previous |-> none, hadError |-> FALSE, panicMode |-> FALSE,
                      reports |-> <<>>, code |-> <<>>, type |-> "script", class |-> "none",
                      outer |-> <<>>, locals |-> <<>>, depth |-> 0]))

-----------------------------------------------------------------------------
(* A text is typed, word by word, and compiled after each.                   *)
Source(frame, typed) == frame.before \o FlattenSeq(typed) \o frame.after

Init ==
  /\ profile \in Profile /\ text = <<>>
  /\ result = compile(Source(profile, text))

Type(word) ==
  /\ Len(text) < profile.length
  /\ text' = Append(text, word)
  /\ result' = compile(Source(profile, text'))
  /\ UNCHANGED profile

Next == \E word \in profile.words : Type(word)

Spec == Init /\ [][Next]_vars

-----------------------------------------------------------------------------
(* A report is the last about its statement: the next one comes after a      *)
(* semicolon, at or after the keyword of a statement, at the end, or at      *)
(* characters that are no token (synchronize scans on aloud).                *)
NoCascade ==
  LET tokens == result.tokens
      Between(r, s) ==
        \E k \in DOMAIN tokens :
          \/ tokens[k].type = ";" /\ r <= tokens[k].start /\ tokens[k].start < s
          \/ tokens[k].type \in StatementKeyword /\ r <= tokens[k].start /\ tokens[k].start <= s
          \/ tokens[k].type \in {"error", "eof"} /\ tokens[k].start = s
  IN \A k \in 2 .. Len(result.reports) : Between(result.reports[k - 1], result.reports[k])

Read ==
  LET tokens == Front(result.tokens)
  IN [k \in DOMAIN tokens |-> [type |-> tokens[k].type,
                               text |-> SubSeq(result.source, tokens[k].start, tokens[k].stop - 1)]]

(* A text compiles without an error exactly if the grammar of the language,  *)
(* with one superclass at most, derives it and its names are in order: this, *)
(* super and return where they may stand, no class its own superclass, no    *)
(* local declared twice in a scope or read in its own initializer.  It then  *)
(* compiles to the code of its one derivation.                               *)
ParsesAsGrammar ==
  Language!Module(Read) = IF result.hadError THEN {} ELSE {result.code}

(* The tokens are all of the text but blanks and comments, in order, and     *)
(* each carries the line it ends on.                                         *)
TokensCoverText ==
  LET source == result.source
      tokens == result.tokens
      Commented(i, from) ==
        \E j \in from .. i : /\ j < Len(source) /\ source[j] = "/" /\ source[j + 1] = "/"
                             /\ \A k \in j .. i : source[k] # "\n"
      Between(from, to) == \A i \in from .. to - 1 : source[i] \in Blank \/ Commented(i, from)
  IN \A k \in DOMAIN tokens :
       /\ Between(IF k = 1 THEN 1 ELSE tokens[k - 1].stop, tokens[k].start)
       /\ tokens[k].type = "eof" <=> k = Len(tokens)
       /\ tokens[k].type # "eof" => tokens[k].start < tokens[k].stop
       /\ tokens[k].line = 1 + Newlines(source, 1, tokens[k].stop)
=============================================================================
